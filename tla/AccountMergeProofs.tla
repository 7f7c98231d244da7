------------------------- MODULE AccountMergeProofs -------------------------
(***************************************************************************)
(* Proofs about merging accounts and undoing it, for any accounts, relying *)
(* parties and rows, any pairs somebody may want merged, and any number of *)
(* overlapping ceremonies and merges.                                      *)
(***************************************************************************)
EXTENDS AccountMerge, TLAPS

UserType == [into : Users \cup {None}, banned : BOOLEAN, gen : Nat]
TokType == [client : Clients \cup {None}, sub : Users \cup {None}]
ConfType == [pc : {"idle", "check", "derive", "tx"}, donor : Users \cup {None},
             survivor : Users \cup {None}, clients : SUBSET Clients]
RecType == [state : {"merged", "reversed"}, donor : Users, survivor : Users,
            moved : SUBSET Ids, losers : SUBSET (Eligs \X Users),
            created : SUBSET Clients, own : SUBSET Clients, stranded : SUBSET Clients,
            banned : BOOLEAN, demoted : SUBSET Emails, before : [Ids -> Users \cup {None}]]

Shapes ==
    /\ user \in [Users -> UserType]
    /\ sess \in [Users -> Nat]
    /\ owner \in [Ids -> Users \cup {None}]
    /\ primary \in [Emails -> BOOLEAN]
    /\ tok \in [Tokens -> TokType]
    /\ date \in [Eligs -> Dates \cup {None}]
    /\ override \in [Users -> [Clients -> Users \cup {None}]]
    /\ links \subseteq Pairs /\ proofs \subseteq Users
    /\ conf \in [Confirmers -> ConfType]
    /\ rec \in [Recs -> RecType \cup {NoRec}]

\* A confirmation under way is about a pair, and a token somebody owns names
\* the relying party it is for.
ConfPart == \A p \in Confirmers : conf[p].pc # "idle" => <<conf[p].donor, conf[p].survivor>> \in Pairs

TokPart == \A t \in Tokens : owner[t] # None => tok[t].client \in Clients

\* What a snapshot says of the rows as the transaction found them.
RecRight(x) ==
    /\ <<x.donor, x.survivor>> \in Pairs
    /\ \A i \in x.moved : x.before[i] = x.donor
    /\ \A i \in Ids : x.before[i] = x.donor => i \in x.moved \cup Recreated(x) \cup Left
    /\ x.moved \cap Left = {}
    /\ \A y \in x.losers : y[2] = x.before[y[1]] /\ y[2] \in {x.donor, x.survivor}

RecPart == \A r \in Recs : rec[r] \in RecType => RecRight(rec[r])

Merged(r) == rec[r] \in RecType /\ rec[r].state = "merged"

\* The donor of a merge that stands is its tombstone, so no account is the
\* donor of two.
MergedPart ==
    /\ \A r \in Recs : Merged(r) => user[rec[r].donor].into = rec[r].survivor
    /\ \A r, q \in Recs : Merged(r) /\ Merged(q) /\ rec[r].donor = rec[q].donor => r = q

\* Another donor's merge has deleted the row i, or put it where it is.
Place(x) == IF x.state = "merged" THEN x.survivor ELSE x.donor

Resolved(d, i) ==
    \E q \in Recs : rec[q] \in RecType /\ rec[q].donor # d /\ i \in Recreated(rec[q])

PutBy(d, i) ==
    \E q \in Recs : /\ rec[q] \in RecType /\ rec[q].donor # d
                    /\ i \in rec[q].moved /\ owner[i] = Place(rec[q])

\* Where the rows of a merge that stands are: its passkeys, which go back
\* only from the survivor, and what the survivor had.
Tracked(x, i) ==
    \/ i \in x.moved /\ i \in Passkeys
    \/ x.before[i] = x.survivor /\ i \notin Recreated(x)

HistoryRight(x) ==
    /\ \A i \in x.moved : owner[i] # None \/ Resolved(x.donor, i)
    /\ \A i \in Ids : Tracked(x, i) =>
          owner[i] = x.survivor \/ Resolved(x.donor, i) \/ PutBy(x.donor, i)
    /\ \A i \in Left : x.before[i] = x.donor => owner[i] = x.donor

HistoryPart == \A r \in Recs : Merged(r) => HistoryRight(rec[r])

\* A request under way is some account's, and an exchange is for some client.
ReqType == [pc : {"idle", "act", "sub", "create"}, user : Users \cup {None},
            client : Clients \cup {None}, sub : Users \cup {None}, crossed : BOOLEAN]

ReqInv ==
    /\ req \in [Requests -> ReqType] /\ late \subseteq Ids
    /\ \A x \in Requests : req[x].pc # "idle" => req[x].user \in Users
    /\ \A x \in Requests : req[x].pc \in {"sub", "create"} => req[x].client \in Clients

MergeInv == Shapes /\ ConfPart /\ TokPart /\ RecPart /\ MergedPart /\ HistoryPart

\* Nobody is both the donor of a pair and the survivor of one.
Apart == \A p, q \in Pairs : p[1] # q[2]

\* What a request has read is still so, unless it was overtaken.
Current(x) ==
    /\ Live(req[x].user)
    /\ req[x].pc = "create" => req[x].sub = Sub(req[x].user, req[x].client)

CurrentInv == \A x \in Requests : req[x].pc # "idle" /\ ~req[x].crossed => Current(x)

\* A tombstone is the donor of a pair, and rows belong to live accounts.
TombPart == \A u \in Users : ~Live(u) => \E p \in Pairs : p[1] = u

ApartInv == Apart => TombPart /\ NoRowUnderTombstone

-----------------------------------------------------------------------------
(* Records and pairs.                                                      *)

LEMMA NoRecIs == NoRec \notin RecType
<1>. SUFFICES ASSUME NoRec \in RecType PROVE FALSE
  OBVIOUS
<1>1. DOMAIN NoRec = {"state"}
  BY DEF NoRec
<1>2. "donor" \in DOMAIN NoRec
  BY DEF RecType
<1>. QED BY <1>1, <1>2

LEMMA RecIs ==
    ASSUME Shapes, NEW r \in Recs
    PROVE  /\ rec[r] # NoRec <=> rec[r] \in RecType
           /\ rec[r].state = "merged" => Merged(r)
<1>1. rec[r] \in RecType \cup {NoRec}
  BY DEF Shapes
<1>2. NoRec.state # "merged"
  BY DEF NoRec
<1>. QED BY <1>1, <1>2, NoRecIs DEF Merged

LEMMA PairIs ==
    ASSUME NEW d, NEW s, <<d, s>> \in Pairs
    PROVE  d \in Users /\ s \in Users /\ d # s /\ d # None /\ s # None
<1>1. <<d, s>> \in Users \X Users /\ <<d, s>>[1] # <<d, s>>[2]
  BY MergeConstants
<1>. QED BY <1>1, MergeConstants

LEMMA RecPair ==
    ASSUME RecPart, NEW r \in Recs, NEW x, x = rec[r], x \in RecType
    PROVE  /\ RecRight(x) /\ <<x.donor, x.survivor>> \in Pairs
           /\ x.donor \in Users /\ x.survivor \in Users /\ x.donor # x.survivor
           /\ x.donor # None /\ x.survivor # None /\ Place(x) \in Users /\ Place(x) # None
           /\ x.moved \subseteq Ids
<1>1. RecRight(x)
  BY DEF RecPart
<1>2. <<x.donor, x.survivor>> \in Pairs
  BY <1>1 DEF RecRight
<1>3. /\ x.donor \in Users /\ x.survivor \in Users /\ x.donor # x.survivor
      /\ x.donor # None /\ x.survivor # None
  BY <1>2, PairIs
<1>4. x.moved \subseteq Ids
  BY DEF RecType
<1>. QED BY <1>1, <1>2, <1>3, <1>4 DEF Place

\* Rows the merge does not re-point are on no list.
LEMMA LeftStays ==
    ASSUME NEW x \in RecType, RecRight(x), NEW i \in Left
    PROVE  i \in Ids /\ i \notin x.moved /\ i \notin Recreated(x)
<1>1. ASSUME i \in Recreated(x) PROVE FALSE
  <2>1. PICK y \in x.losers : y[1] = i
    BY <1>1 DEF Recreated
  <2>2. y \in Eligs \X Users
    BY DEF RecType
  <2>. QED BY <2>1, <2>2, MergeConstants
<1>. QED BY <1>1 DEF RecRight, Ids

-----------------------------------------------------------------------------
(* Steps that neither merge nor undo: a row changes hands only where there *)
(* was none.                                                               *)

Fills == \A i \in Ids : owner'[i] = owner[i] \/ owner[i] = None

LEMMA ResolvedSame ==
    ASSUME rec' = rec, NEW d, NEW i, Resolved(d, i)
    PROVE  Resolved(d, i)'
  BY DEF Resolved, Recreated

LEMMA PutBySame ==
    ASSUME RecPart, rec' = rec, NEW d, NEW i \in Ids,
           owner'[i] = owner[i] \/ owner[i] = None, PutBy(d, i)
    PROVE  PutBy(d, i)' /\ owner[i] # None
<1>1. PICK q \in Recs : /\ rec[q] \in RecType /\ rec[q].donor # d
                        /\ i \in rec[q].moved /\ owner[i] = Place(rec[q])
  BY DEF PutBy
<1>2. PICK x : x = rec[q]
  OBVIOUS
<1>3. Place(x) # None
  BY <1>1, <1>2, RecPair
<1>4. owner'[i] = Place(x) /\ owner[i] # None
  BY <1>1, <1>2, <1>3
<1>5. rec'[q] = x
  BY <1>2
<1>. QED BY <1>1, <1>2, <1>4, <1>5 DEF PutBy, Place

LEMMA HistorySame ==
    ASSUME MergeInv, Fills, rec' = rec, \A u \in Users : user'[u].into = user[u].into
    PROVE  RecPart' /\ MergedPart' /\ HistoryPart'
<1>0. Shapes /\ RecPart /\ MergedPart /\ HistoryPart
  BY DEF MergeInv
<1>1. RecPart'
  BY <1>0 DEF RecPart, RecRight, Recreated
<1>2. ASSUME NEW r \in Recs, Merged(r)' PROVE Merged(r)
  BY <1>2 DEF Merged
<1>3. MergedPart'
  <2>1. ASSUME NEW r \in Recs, Merged(r)' PROVE user'[rec'[r].donor].into = rec'[r].survivor
    <3>1. Merged(r) /\ rec[r].donor \in Users
      BY <1>2, <2>1 DEF Merged, RecType
    <3>. QED BY <1>0, <3>1 DEF MergedPart
  <2>2. ASSUME NEW r \in Recs, NEW q \in Recs, Merged(r)', Merged(q)',
               rec'[r].donor = rec'[q].donor
        PROVE  r = q
    BY <1>0, <1>2, <2>2 DEF MergedPart
  <2>. QED BY <2>1, <2>2 DEF MergedPart
<1>4. ASSUME NEW r \in Recs, Merged(r)' PROVE HistoryRight(rec[r])'
  <2>1. PICK x : x = rec[r]
    OBVIOUS
  <2>2. rec'[r] = x /\ x \in RecType /\ HistoryRight(x)
    BY <1>0, <1>2, <1>4, <2>1 DEF HistoryPart, Merged
  <2>3. x.survivor # None /\ x.moved \subseteq Ids
    BY <1>0, <2>1, <2>2, RecPair
  <2>4. ASSUME NEW i \in x.moved PROVE owner'[i] # None \/ Resolved(x.donor, i)'
    <3>0. i \in Ids /\ (owner'[i] = owner[i] \/ owner[i] = None)
      BY <2>3 DEF Fills
    <3>1. CASE owner[i] # None
      BY <3>0, <3>1
    <3>2. CASE Resolved(x.donor, i)
      BY <3>2, ResolvedSame
    <3>. QED BY <2>2, <3>1, <3>2 DEF HistoryRight
  <2>5. ASSUME NEW i \in Ids, Tracked(x, i)
        PROVE  owner'[i] = x.survivor \/ Resolved(x.donor, i)' \/ PutBy(x.donor, i)'
    <3>0. owner'[i] = owner[i] \/ owner[i] = None
      BY DEF Fills
    <3>1. CASE owner[i] = x.survivor
      BY <2>3, <3>0, <3>1
    <3>2. CASE Resolved(x.donor, i)
      BY <3>2, ResolvedSame
    <3>3. CASE PutBy(x.donor, i)
      BY <1>0, <3>0, <3>3, PutBySame
    <3>. QED BY <2>2, <2>5, <3>1, <3>2, <3>3 DEF HistoryRight
  <2>7. ASSUME NEW i \in Left, x.before[i] = x.donor PROVE owner'[i] = x.donor
    <3>1. i \in Ids /\ x.donor # None
      BY <1>0, <2>1, <2>2, RecPair DEF Ids
    <3>. QED BY <2>2, <2>7, <3>1 DEF HistoryRight, Fills
  <2>6. HistoryRight(x)'
    BY <2>4, <2>5, <2>7 DEF HistoryRight, Tracked, Recreated
  <2>. QED BY <2>2, <2>6 DEF HistoryRight, Tracked, Resolved, PutBy, Recreated
<1>. QED BY <1>1, <1>3, <1>4 DEF HistoryPart

LEMMA QuietStep ==
    ASSUME MergeInv, Shapes', ConfPart', TokPart', Fills, rec' = rec,
           \A u \in Users : user'[u].into = user[u].into
    PROVE  MergeInv'
  BY HistorySame DEF MergeInv

LEMMA SignsIn ==
    ASSUME MergeInv, NEW u \in Users, SignIn(u)
    PROVE  MergeInv'
<1>0. Shapes /\ ConfPart /\ TokPart
  BY DEF MergeInv
<1>1. UNCHANGED <<user, owner, primary, tok, date, override, links, proofs, conf, rec>>
  BY DEF SignIn, rowVars, ceremony
<1>2. sess' \in [Users -> Nat]
  BY <1>0 DEF SignIn, Shapes, UserType
<1>3. Shapes'
  BY <1>0, <1>1, <1>2 DEF Shapes
<1>4. ConfPart' /\ TokPart' /\ Fills
  BY <1>0, <1>1 DEF ConfPart, TokPart, Fills
<1>. QED BY <1>1, <1>3, <1>4, QuietStep

LEMMA BanSet ==
    ASSUME Shapes, NEW u \in Users, BanUser(u) \/ UnbanUser(u)
    PROVE  /\ user' \in [Users -> UserType]
           /\ \A v \in Users : user'[v].into = user[v].into
           /\ \A v \in Users : v # u => user'[v] = user[v]
           /\ UNCHANGED <<sess, owner, primary, tok, date, override, links, proofs, conf, rec>>
<1>0. user \in [Users -> UserType] /\ user[u] \in UserType /\ user[u].gen \in Nat
  BY DEF Shapes, UserType
<1>1. UNCHANGED <<sess, owner, primary, tok, date, override, links, proofs, conf, rec>>
  BY DEF BanUser, UnbanUser, rowVars, ceremony
<1>2. CASE BanUser(u)
  <2>1. PICK n \in Nat : n = user[u].gen + 1
    BY <1>0
  <2>2. PICK e : e = [user[u] EXCEPT !.banned = TRUE, !.gen = n]
    OBVIOUS
  <2>3. e \in UserType /\ e.into = user[u].into
    BY <1>0, <2>2 DEF UserType
  <2>4. user' = [user EXCEPT ![u] = e]
    BY <1>0, <1>2, <2>1, <2>2 DEF BanUser
  <2>. QED BY <1>0, <1>1, <2>3, <2>4
<1>3. CASE UnbanUser(u)
  <2>2. PICK e : e = [user[u] EXCEPT !.banned = FALSE]
    OBVIOUS
  <2>3. e \in UserType /\ e.into = user[u].into
    BY <1>0, <2>2 DEF UserType
  <2>4. user' = [user EXCEPT ![u] = e]
    BY <1>0, <1>3, <2>2 DEF UnbanUser
  <2>. QED BY <1>0, <1>1, <2>3, <2>4
<1>. QED BY <1>2, <1>3

LEMMA Bans ==
    ASSUME MergeInv, NEW u \in Users, BanUser(u) \/ UnbanUser(u)
    PROVE  MergeInv'
<1>0. Shapes /\ ConfPart /\ TokPart
  BY DEF MergeInv
<1>1. /\ user' \in [Users -> UserType]
      /\ \A v \in Users : user'[v].into = user[v].into
      /\ UNCHANGED <<sess, owner, primary, tok, date, override, links, proofs, conf, rec>>
  BY <1>0, BanSet
<1>2. Shapes'
  BY <1>0, <1>1 DEF Shapes
<1>3. ConfPart' /\ TokPart' /\ Fills
  BY <1>0, <1>1 DEF ConfPart, TokPart, Fills
<1>. QED BY <1>1, <1>2, <1>3, QuietStep

LEMMA AddsRow ==
    ASSUME MergeInv, ReqInv, NEW x \in Requests, NEW i \in Rows \cup Passkeys \cup Left,
           AddRow(x, i)
    PROVE  MergeInv'
<1>0. Shapes /\ ConfPart /\ TokPart /\ i \in Ids
  BY DEF MergeInv, Ids
<1>1. UNCHANGED <<user, sess, primary, tok, date, override, links, proofs, conf, rec>>
  BY DEF AddRow, ceremony
<1>2. PICK u \in Users : owner[i] = None /\ owner' = [owner EXCEPT ![i] = u]
  BY DEF AddRow, ReqInv
<1>3. Shapes' /\ Fills
  BY <1>0, <1>1, <1>2 DEF Shapes, Fills
<1>4. TokPart'
  <2>1. ASSUME NEW t \in Tokens PROVE owner'[t] = owner[t]
    BY <1>0, <1>2, MergeConstants DEF Shapes
  <2>. QED BY <1>0, <1>1, <2>1 DEF TokPart
<1>5. ConfPart'
  BY <1>0, <1>1 DEF ConfPart
<1>. QED BY <1>1, <1>3, <1>4, <1>5, QuietStep

\* The row a token exchange leaves behind.
LEMMA TokenIs ==
    ASSUME Shapes, ReqInv, NEW x \in Requests, NEW t \in Tokens, CreateToken(x, t)
    PROVE  /\ req[x].user \in Users /\ req[x].client \in Clients /\ req[x].pc = "create"
           /\ owner[t] = None /\ owner' = [owner EXCEPT ![t] = req[x].user]
           /\ tok' \in [Tokens -> TokType]
           /\ tok'[t].client = req[x].client /\ tok'[t].sub = req[x].sub
           /\ \A o \in Tokens : o # t => tok'[o] = tok[o]
           /\ UNCHANGED <<user, sess, primary, date, override, links, proofs, conf, rec>>
<1>1. /\ req[x].user \in Users /\ req[x].client \in Clients /\ req[x].pc = "create"
      /\ req[x].sub \in Users \cup {None}
  BY DEF CreateToken, ReqInv, ReqType
<1>2. PICK n : n = [client |-> req[x].client, sub |-> req[x].sub]
  OBVIOUS
<1>3. n \in TokType /\ n.client = req[x].client /\ n.sub = req[x].sub
  BY <1>1, <1>2 DEF TokType
<1>4. tok' = [tok EXCEPT ![t] = n]
  BY <1>2 DEF CreateToken
<1>5. /\ tok' \in [Tokens -> TokType] /\ tok'[t] = n
      /\ \A o \in Tokens : o # t => tok'[o] = tok[o]
  BY <1>3, <1>4 DEF Shapes
<1>. QED BY <1>1, <1>3, <1>5 DEF CreateToken, ceremony

LEMMA CreatesToken ==
    ASSUME MergeInv, ReqInv, NEW x \in Requests, NEW t \in Tokens, CreateToken(x, t)
    PROVE  MergeInv'
<1>0. Shapes /\ ConfPart /\ TokPart /\ t \in Ids
  BY DEF MergeInv, Ids
<1>1. /\ req[x].user \in Users /\ req[x].client \in Clients
      /\ owner[t] = None /\ owner' = [owner EXCEPT ![t] = req[x].user]
      /\ tok' \in [Tokens -> TokType] /\ tok'[t].client = req[x].client
      /\ \A o \in Tokens : o # t => tok'[o] = tok[o]
      /\ UNCHANGED <<user, sess, primary, date, override, links, proofs, conf, rec>>
  BY <1>0, TokenIs
<1>2. Shapes' /\ Fills
  BY <1>0, <1>1 DEF Shapes, Fills
<1>3. TokPart'
  <2>1. ASSUME NEW v \in Tokens, owner'[v] # None PROVE tok'[v].client \in Clients
    <3>0. v \in Ids
      BY DEF Ids
    <3>1. CASE v = t
      BY <1>1, <3>1
    <3>2. CASE v # t
      BY <1>0, <1>1, <2>1, <3>0, <3>2 DEF Shapes, TokPart
    <3>. QED BY <3>1, <3>2
  <2>. QED BY <2>1 DEF TokPart
<1>4. ConfPart'
  BY <1>0, <1>1 DEF ConfPart
<1>. QED BY <1>1, <1>2, <1>3, <1>4, QuietStep

\* Steps of a request that write no row.
LEMMA RequestMoves ==
    ASSUME MergeInv,
           UNCHANGED <<user, sess, owner, primary, tok, date, override, links, proofs, conf, rec>>
    PROVE  MergeInv'
<1>0. Shapes /\ ConfPart /\ TokPart
  BY DEF MergeInv
<1>1. Shapes' /\ ConfPart' /\ TokPart' /\ Fills
  BY <1>0 DEF Shapes, ConfPart, TokPart, Fills
<1>. QED BY <1>1, QuietStep

LEMMA Grants ==
    ASSUME MergeInv, ReqInv, NEW x \in Requests, NEW e \in Eligs, NEW d \in Dates,
           GrantEligibility(x, e, d)
    PROVE  MergeInv'
<1>0. Shapes /\ ConfPart /\ TokPart /\ e \in Ids
  BY DEF MergeInv, Ids
<1>1. UNCHANGED <<user, sess, primary, tok, override, links, proofs, conf, rec>>
  BY DEF GrantEligibility, ceremony
<1>2. PICK u \in Users : /\ owner[e] \in {u, None} /\ owner' = [owner EXCEPT ![e] = u]
                         /\ date' = [date EXCEPT ![e] = d]
  BY DEF GrantEligibility, ReqInv
<1>3. Shapes' /\ Fills
  BY <1>0, <1>1, <1>2 DEF Shapes, Fills
<1>4. TokPart'
  <2>1. ASSUME NEW t \in Tokens PROVE owner'[t] = owner[t]
    BY <1>0, <1>2, MergeConstants DEF Shapes
  <2>. QED BY <1>0, <1>1, <2>1 DEF TokPart
<1>5. ConfPart'
  BY <1>0, <1>1 DEF ConfPart
<1>. QED BY <1>1, <1>3, <1>4, <1>5, QuietStep

LEMMA Promotes ==
    ASSUME MergeInv, NEW x \in Requests, NEW e \in Emails, SetPrimaryEmail(x, e)
    PROVE  MergeInv'
<1>0. Shapes /\ ConfPart /\ TokPart
  BY DEF MergeInv
<1>1. UNCHANGED <<user, sess, owner, tok, date, override, links, proofs, conf, rec>>
  BY DEF SetPrimaryEmail, ceremony
<1>2. primary' \in [Emails -> BOOLEAN]
  <2>1. \A f \in Emails : primary[f] \in BOOLEAN
    BY <1>0 DEF Shapes
  <2>2. \A f \in Emails : (IF owner[f] = req[x].user THEN f = e ELSE primary[f]) \in BOOLEAN
    BY <2>1
  <2>. QED BY <2>2, Zenon DEF SetPrimaryEmail
<1>3. Shapes'
  BY <1>0, <1>1, <1>2 DEF Shapes
<1>4. ConfPart' /\ TokPart' /\ Fills
  BY <1>0, <1>1 DEF ConfPart, TokPart, Fills
<1>. QED BY <1>1, <1>3, <1>4, QuietStep

LEMMA Asks ==
    ASSUME MergeInv,
           \/ \E d, s \in Users : StartMerge(d, s) \/ CompleteDonorLink(d, s)
           \/ Expire
    PROVE  MergeInv'
<1>0. Shapes /\ ConfPart /\ TokPart
  BY DEF MergeInv
<1>1. UNCHANGED <<user, sess, owner, primary, tok, date, override, conf, rec>>
  BY DEF StartMerge, CompleteDonorLink, Expire, rowVars
<1>2. links' \subseteq Pairs /\ proofs' \subseteq Users
  BY <1>0 DEF StartMerge, CompleteDonorLink, Expire, Shapes
<1>3. Shapes'
  BY <1>0, <1>1, <1>2 DEF Shapes
<1>4. ConfPart' /\ TokPart' /\ Fills
  BY <1>0, <1>1 DEF ConfPart, TokPart, Fills
<1>. QED BY <1>1, <1>3, <1>4, QuietStep

LEMMA IdleConfType == IdleConf \in ConfType /\ IdleConf.pc = "idle"
  BY DEF IdleConf, ConfType

LEMMA ConfMoves ==
    ASSUME MergeInv, NEW p \in Confirmers, NEW q \in ConfType,
           q.pc # "idle" => <<q.donor, q.survivor>> \in Pairs,
           conf' = [conf EXCEPT ![p] = q], proofs' \subseteq Users,
           UNCHANGED <<user, sess, owner, primary, tok, date, override, links, rec>>
    PROVE  MergeInv'
<1>0. Shapes /\ ConfPart /\ TokPart
  BY DEF MergeInv
<1>1. Shapes'
  BY <1>0 DEF Shapes
<1>2. ConfPart'
  <2>1. ASSUME NEW o \in Confirmers, conf'[o].pc # "idle"
        PROVE  <<conf'[o].donor, conf'[o].survivor>> \in Pairs
    <3>1. CASE o = p
      <4>1. conf'[o] = q
        BY <1>0, <3>1 DEF Shapes
      <4>. QED BY <2>1, <4>1
    <3>2. CASE o # p
      <4>1. conf'[o] = conf[o]
        BY <1>0, <3>2 DEF Shapes
      <4>. QED BY <1>0, <2>1, <4>1 DEF ConfPart
    <3>. QED BY <3>1, <3>2
  <2>. QED BY <2>1 DEF ConfPart
<1>3. TokPart' /\ Fills
  BY <1>0 DEF TokPart, Fills
<1>. QED BY <1>1, <1>2, <1>3, QuietStep

LEMMA StartsConfirm ==
    ASSUME MergeInv, NEW p \in Confirmers, NEW d \in Users, NEW s \in Users,
           ConfirmStart(p, d, s)
    PROVE  MergeInv'
<1>1. PICK q : q = [IdleConf EXCEPT !.pc = "check", !.donor = d, !.survivor = s]
  OBVIOUS
<1>2. q \in ConfType /\ q.donor = d /\ q.survivor = s
  BY <1>1, IdleConfType DEF ConfType
<1>3. conf' = [conf EXCEPT ![p] = q] /\ <<d, s>> \in Pairs
  BY <1>1 DEF ConfirmStart
<1>4. proofs' \subseteq Users
  BY DEF ConfirmStart, MergeInv, Shapes
<1>5. UNCHANGED <<user, sess, owner, primary, tok, date, override, links, rec>>
  BY DEF ConfirmStart, rowVars
<1>. QED BY <1>2, <1>3, <1>4, <1>5, ConfMoves

LEMMA EndsConfirm ==
    ASSUME MergeInv, NEW p \in Confirmers, conf' = [conf EXCEPT ![p] = IdleConf],
           UNCHANGED <<user, sess, owner, primary, tok, date, override, links, proofs, rec>>
    PROVE  MergeInv'
<1>1. PICK q : q = IdleConf
  OBVIOUS
<1>2. q \in ConfType /\ q.pc = "idle" /\ conf' = [conf EXCEPT ![p] = q]
  BY <1>1, IdleConfType
<1>3. proofs' \subseteq Users
  BY DEF MergeInv, Shapes
<1>. QED BY <1>2, <1>3, ConfMoves

LEMMA Checks ==
    ASSUME MergeInv, NEW p \in Confirmers, ConfirmCheck(p)
    PROVE  MergeInv'
<1>1. PICK e : e = conf[p]
  OBVIOUS
<1>2. e \in ConfType /\ e.pc = "check" /\ <<e.donor, e.survivor>> \in Pairs
  BY <1>1 DEF MergeInv, Shapes, ConfPart, ConfirmCheck
<1>3. UNCHANGED <<user, sess, owner, primary, tok, date, override, links, proofs, rec>>
  BY DEF ConfirmCheck, rowVars
<1>4. CASE Live(e.donor) /\ Live(e.survivor)
  <2>1. PICK q : q = [e EXCEPT !.pc = "derive"]
    OBVIOUS
  <2>2. q \in ConfType /\ q.donor = e.donor /\ q.survivor = e.survivor
    BY <1>2, <2>1 DEF ConfType
  <2>3. conf' = [conf EXCEPT ![p] = q]
    BY <1>1, <1>4, <2>1 DEF ConfirmCheck
  <2>4. proofs' \subseteq Users
    BY <1>3 DEF MergeInv, Shapes
  <2>. QED BY <1>2, <1>3, <2>2, <2>3, <2>4, ConfMoves
<1>5. CASE ~(Live(e.donor) /\ Live(e.survivor))
  <2>1. conf' = [conf EXCEPT ![p] = IdleConf]
    BY <1>1, <1>5 DEF ConfirmCheck
  <2>. QED BY <1>3, <2>1, EndsConfirm
<1>. QED BY <1>4, <1>5

LEMMA UsedAreClients ==
    ASSUME MergeInv, NEW u \in Users
    PROVE  UsedClients(u) \subseteq Clients
<1>1. ASSUME NEW t \in Tokens \cap OwnedBy(u) PROVE tok[t].client \in Clients
  <2>1. owner[t] = u /\ u # None
    BY MergeConstants DEF OwnedBy
  <2>. QED BY <2>1 DEF MergeInv, TokPart
<1>. QED BY <1>1 DEF UsedClients

LEMMA Derives ==
    ASSUME MergeInv, NEW p \in Confirmers, MergeDerive(p)
    PROVE  MergeInv'
<1>1. PICK e : e = conf[p]
  OBVIOUS
<1>2. e \in ConfType /\ e.pc = "derive" /\ <<e.donor, e.survivor>> \in Pairs
  BY <1>1 DEF MergeInv, Shapes, ConfPart, MergeDerive
<1>3. UNCHANGED <<user, sess, owner, primary, tok, date, override, links, proofs, rec>>
  BY DEF MergeDerive, rowVars
<1>4. e.donor \in Users
  BY <1>2, PairIs
<1>5. PICK cs : cs = UsedClients(e.donor)
  OBVIOUS
<1>6. cs \subseteq Clients
  BY <1>4, <1>5, UsedAreClients
<1>7. PICK q : q = [e EXCEPT !.pc = "tx", !.clients = cs]
  OBVIOUS
<1>8. q \in ConfType /\ q.donor = e.donor /\ q.survivor = e.survivor
  BY <1>2, <1>6, <1>7 DEF ConfType
<1>9. conf' = [conf EXCEPT ![p] = q]
  BY <1>1, <1>5, <1>7 DEF MergeDerive, MergeInv, Shapes
<1>10. proofs' \subseteq Users
  BY <1>3 DEF MergeInv, Shapes
<1>. QED BY <1>2, <1>3, <1>8, <1>9, <1>10, ConfMoves

LEMMA Throws ==
    ASSUME MergeInv, NEW p \in Confirmers, MergeThrows(p)
    PROVE  MergeInv'
  BY EndsConfirm DEF MergeThrows, rowVars

-----------------------------------------------------------------------------
(* The merge.                                                              *)

LEMMA LosersAre ==
    ASSUME NEW d, NEW s, NEW i \in EligLosers(d, s)
    PROVE  i \in Eligs /\ i \in Ids /\ owner[i] \in {d, s}
<1>1. PICK x \in Eligs \cap OwnedBy(d), y \in Eligs \cap OwnedBy(s) :
          i \in (IF date[x] < date[y] THEN {y} ELSE {x})
  BY DEF EligLosers
<1>2. i = x \/ i = y
  BY <1>1
<1>. QED BY <1>2 DEF OwnedBy, Ids

\* What the transaction leaves behind: the record x under the id r.
TxDone(d, s, r, x) ==
    /\ <<d, s>> \in Pairs /\ Live(d)
    /\ r \in Recs /\ rec[r] = NoRec /\ x \in RecType /\ rec' = [rec EXCEPT ![r] = x]
    /\ x.state = "merged" /\ x.donor = d /\ x.survivor = s /\ x.before = owner
    /\ RecRight(x) /\ x.moved \cap Recreated(x) = {}
    /\ \A i \in Ids :
          \/ i \in Recreated(x) /\ owner'[i] = None
          \/ i \in x.moved /\ i \notin Recreated(x) /\ owner'[i] = s
          \/ i \notin x.moved /\ i \notin Recreated(x) /\ owner'[i] = owner[i]
    /\ user'[d].into = s
    /\ \A u \in Users : u # d => user'[u].into = user[u].into

LEMMA TxUsers ==
    ASSUME Shapes, NEW p \in Confirmers, MergeTx(p), NEW d \in Users, NEW s \in Users, d # s,
           d = conf[p].donor, s = conf[p].survivor
    PROVE  /\ user' \in [Users -> UserType]
           /\ user'[d].into = s /\ user'[d].banned = user[d].banned
           /\ user'[s].into = user[s].into
           /\ user'[s].banned = (user[s].banned \/ user[d].banned)
           /\ \A u \in Users : u # d /\ u # s => user'[u] = user[u]
<1>0. /\ user \in [Users -> UserType] /\ user[d] \in UserType /\ user[s] \in UserType
      /\ user[d].gen \in Nat /\ user[s].gen \in Nat
      /\ user[d].banned \in BOOLEAN /\ user[s].banned \in BOOLEAN
  BY DEF Shapes, UserType
<1>1. PICK z \in BOOLEAN : z = StickyBan(d, s) /\ z = (user[s].banned \/ user[d].banned)
  <2>1. CASE user[s].banned \/ user[d].banned
    <3>1. TRUE = StickyBan(d, s) /\ TRUE = (user[s].banned \/ user[d].banned)
      BY <2>1, Zenon DEF StickyBan
    <3>. QED BY <3>1
  <2>2. CASE ~(user[s].banned \/ user[d].banned)
    <3>1. FALSE = StickyBan(d, s) /\ FALSE = (user[s].banned \/ user[d].banned)
      BY <2>2, SMT DEF StickyBan
    <3>. QED BY <3>1
  <2>. QED BY <2>1, <2>2
<1>2. PICK m \in Nat : m = user[s].gen + 1
  BY <1>0
<1>3. PICK n \in Nat : n = user[d].gen + 1
  BY <1>0
<1>4. PICK es : es = [user[s] EXCEPT !.banned = z, !.gen = m]
  OBVIOUS
<1>5. PICK ed : ed = [user[d] EXCEPT !.into = s, !.gen = n]
  OBVIOUS
<1>6. es \in UserType /\ es.into = user[s].into /\ es.banned = z
  BY <1>0, <1>4 DEF UserType
<1>7. ed \in UserType /\ ed.into = s /\ ed.banned = user[d].banned
  BY <1>0, <1>5 DEF UserType
<1>8. user' = [user EXCEPT ![s].banned = z, ![s].gen = @ + 1, ![d].into = s, ![d].gen = @ + 1]
  BY <1>1 DEF MergeTx
<1>9. user' = [user EXCEPT ![s] = es, ![d] = ed]
  BY <1>0, <1>2, <1>3, <1>4, <1>5, <1>8
<1>10. user'[s] = es /\ user'[d] = ed /\ \A u \in Users : u # d /\ u # s => user'[u] = user[u]
  BY <1>0, <1>9
<1>11. user' \in [Users -> UserType]
  BY <1>0, <1>6, <1>7, <1>9
<1>12. user'[s].banned = (user[s].banned \/ user[d].banned)
  BY <1>1, <1>6, <1>10, Zenon
<1>. QED BY <1>6, <1>7, <1>10, <1>11, <1>12

LEMMA TxIs ==
    ASSUME MergeInv, NEW p \in Confirmers, MergeTx(p),
           NEW q, q = conf[p], NEW d, d = q.donor, NEW s, s = q.survivor
    PROVE  /\ \E r \in Recs : \E x \in RecType : TxDone(d, s, r, x)
           /\ q \in ConfType /\ owner' \in [Ids -> Users \cup {None}]
           /\ user' \in [Users -> UserType]
<1>0. Shapes /\ ConfPart
  BY DEF MergeInv
<1>1. q \in ConfType /\ q.pc = "tx" /\ <<d, s>> \in Pairs
  BY <1>0 DEF Shapes, ConfPart, MergeTx
<1>2. d \in Users /\ s \in Users /\ d # s /\ d # None /\ s # None
  BY <1>1, PairIs
<1>3. Live(d)
  BY DEF MergeTx, Commits
<1>4. PICK ls : ls = EligLosers(d, s)
  OBVIOUS
<1>5. PICK mv : mv = Moved(d, s)
  OBVIOUS
<1>6. \A i \in ls : i \in Eligs /\ i \in Ids /\ owner[i] \in {d, s}
  BY <1>4, LosersAre
<1>7. mv = OwnedBy(d) \ (ls \cup Left)
  BY <1>4, <1>5 DEF Moved
<1>8. PICK bd \in BOOLEAN : bd = user[s].banned
  BY <1>0, <1>2 DEF Shapes, UserType
<1>9. PICK r \in Recs :
         /\ rec[r] = NoRec
         /\ rec' = [rec EXCEPT ![r] =
              [state |-> "merged", donor |-> d, survivor |-> s, moved |-> mv,
               losers |-> {<<i, owner[i]>> : i \in ls}, created |-> Kept(q),
               own |-> OwnMoved(q), stranded |-> q.clients \ Kept(q),
               banned |-> bd, demoted |-> Demoted(d), before |-> owner]]
  BY <1>4, <1>5, <1>8 DEF MergeTx
<1>10. PICK lo : lo = {<<i, owner[i]>> : i \in ls}
  OBVIOUS
<1>11. lo \subseteq Eligs \X Users
  <2>1. ASSUME NEW y \in lo PROVE y \in Eligs \X Users
    <3>1. PICK i \in ls : y = <<i, owner[i]>>
      BY <1>10
    <3>2. i \in Eligs /\ owner[i] \in Users
      BY <1>2, <1>6
    <3>. QED BY <3>1, <3>2
  <2>. QED BY <2>1
<1>12. PICK kp : kp = Kept(q)
  OBVIOUS
<1>13. PICK om : om = OwnMoved(q)
  OBVIOUS
<1>14. PICK dm : dm = Demoted(d)
  OBVIOUS
<1>15. q.clients \subseteq Clients
  BY <1>1 DEF ConfType
<1>16. kp \subseteq Clients /\ om \subseteq Clients /\ dm \subseteq Emails /\ mv \subseteq Ids
  BY <1>7, <1>12, <1>13, <1>14, <1>15 DEF Kept, OwnMoved, OverrideClients, Demoted, OwnedBy
<1>17. PICK st : st = q.clients \ kp
  OBVIOUS
<1>18. PICK x : x = [state |-> "merged", donor |-> d, survivor |-> s, moved |-> mv,
               losers |-> lo, created |-> kp, own |-> om, stranded |-> st,
               banned |-> bd, demoted |-> dm, before |-> owner]
  OBVIOUS
<1>19. x \in RecType
  <2>1. st \subseteq Clients /\ owner \in [Ids -> Users \cup {None}]
    BY <1>0, <1>15, <1>17 DEF Shapes
  <2>. QED BY <1>2, <1>8, <1>11, <1>16, <1>18, <2>1 DEF RecType
<1>20. /\ x.state = "merged" /\ x.donor = d /\ x.survivor = s /\ x.before = owner
       /\ x.moved = mv /\ x.losers = lo
  BY <1>18
<1>21. rec' = [rec EXCEPT ![r] = x]
  BY <1>9, <1>10, <1>12, <1>13, <1>14, <1>17, <1>18
<1>22. Recreated(x) = ls
  <2>1. ASSUME NEW i \in ls PROVE i \in Recreated(x)
    <3>1. <<i, owner[i]>> \in lo /\ <<i, owner[i]>>[1] = i
      BY <1>10
    <3>. QED BY <1>20, <3>1 DEF Recreated
  <2>2. ASSUME NEW i \in Recreated(x) PROVE i \in ls
    <3>1. PICK y \in lo : i = y[1]
      BY <1>20 DEF Recreated
    <3>2. PICK j \in ls : y = <<j, owner[j]>>
      BY <1>10
    <3>. QED BY <3>1, <3>2
  <2>. QED BY <2>1, <2>2
<1>23. RecRight(x)
  <2>1. \A i \in mv : owner[i] = d
    BY <1>7 DEF OwnedBy
  <2>2. \A i \in Ids : owner[i] = d => i \in mv \cup ls \cup Left
    BY <1>7 DEF OwnedBy
  <2>3. ASSUME NEW y \in lo PROVE y[2] = owner[y[1]] /\ y[2] \in {d, s}
    <3>1. PICK i \in ls : y = <<i, owner[i]>>
      BY <1>10
    <3>2. y[1] = i /\ y[2] = owner[i]
      BY <3>1
    <3>. QED BY <1>6, <3>2
  <2>5. /\ \A i \in x.moved : x.before[i] = x.donor
        /\ \A i \in Ids : x.before[i] = x.donor => i \in x.moved \cup Recreated(x) \cup Left
        /\ x.moved \cap Left = {}
    BY <1>7, <1>20, <1>22, <2>1, <2>2
  <2>6. \A y \in x.losers : y[2] = x.before[y[1]] /\ y[2] \in {x.donor, x.survivor}
    BY <1>20, <2>3
  <2>. QED BY <1>1, <1>20, <2>5, <2>6 DEF RecRight
<1>24. /\ owner' = [i \in Ids |-> IF i \in ls THEN None ELSE IF i \in mv THEN s ELSE owner[i]]
  BY <1>4, <1>5 DEF MergeTx
<1>25. /\ user' \in [Users -> UserType] /\ user'[d].into = s
       /\ \A u \in Users : u # d => user'[u].into = user[u].into
  <2>1. d = conf[p].donor /\ s = conf[p].survivor
    OBVIOUS
  <2>2. /\ user' \in [Users -> UserType] /\ user'[d].into = s
        /\ user'[s].into = user[s].into
        /\ \A u \in Users : u # d /\ u # s => user'[u] = user[u]
    BY <1>0, <1>2, <2>1, TxUsers
  <2>. QED BY <2>2
<1>26. owner' \in [Ids -> Users \cup {None}]
  <2>1. \A i \in Ids : owner[i] \in Users \cup {None}
    BY <1>0 DEF Shapes
  <2>. QED BY <1>2, <1>24, <2>1
<1>27. \A i \in Ids :
          \/ i \in Recreated(x) /\ owner'[i] = None
          \/ i \in x.moved /\ i \notin Recreated(x) /\ owner'[i] = s
          \/ i \notin x.moved /\ i \notin Recreated(x) /\ owner'[i] = owner[i]
  BY <1>20, <1>22, <1>24
<1>28. TxDone(d, s, r, x)
  BY <1>1, <1>3, <1>7, <1>9, <1>19, <1>20, <1>21, <1>22, <1>23, <1>25, <1>27 DEF TxDone
<1>. QED BY <1>1, <1>19, <1>25, <1>26, <1>28

LEMMA TxKeepsPlaces ==
    ASSUME Shapes, NEW d, NEW s, NEW r, NEW x, TxDone(d, s, r, x), NEW e, NEW i
    PROVE  /\ Resolved(e, i) => Resolved(e, i)'
           /\ PutBy(e, i) /\ owner'[i] = owner[i] => PutBy(e, i)'
<1>1. ASSUME NEW q \in Recs, rec[q] \in RecType PROVE rec'[q] = rec[q]
  <2>1. q # r
    BY <1>1, NoRecIs DEF TxDone
  <2>. QED BY <2>1 DEF TxDone, Shapes
<1>2. ASSUME Resolved(e, i) PROVE Resolved(e, i)'
  <2>1. PICK q \in Recs : rec[q] \in RecType /\ rec[q].donor # e /\ i \in Recreated(rec[q])
    BY <1>2 DEF Resolved
  <2>2. rec'[q] = rec[q]
    BY <1>1, <2>1
  <2>. QED BY <2>1, <2>2 DEF Resolved, Recreated
<1>3. ASSUME PutBy(e, i), owner'[i] = owner[i] PROVE PutBy(e, i)'
  <2>1. PICK q \in Recs : /\ rec[q] \in RecType /\ rec[q].donor # e
                          /\ i \in rec[q].moved /\ owner[i] = Place(rec[q])
    BY <1>3 DEF PutBy
  <2>2. rec'[q] = rec[q]
    BY <1>1, <2>1
  <2>. QED BY <1>3, <2>1, <2>2 DEF PutBy, Place
<1>. QED BY <1>2, <1>3

LEMMA HistoryTx ==
    ASSUME MergeInv, NEW d, NEW s, NEW r, NEW x, TxDone(d, s, r, x)
    PROVE  RecPart' /\ MergedPart' /\ HistoryPart'
<1>0. Shapes /\ RecPart /\ MergedPart /\ HistoryPart
  BY DEF MergeInv
<1>1. /\ <<d, s>> \in Pairs /\ Live(d) /\ r \in Recs /\ rec[r] = NoRec /\ x \in RecType
      /\ rec' = [rec EXCEPT ![r] = x] /\ x.state = "merged" /\ x.donor = d
      /\ x.survivor = s /\ x.before = owner /\ RecRight(x)
  BY DEF TxDone
<1>2. d \in Users /\ s \in Users /\ d # s /\ d # None /\ s # None
  BY <1>1, PairIs
<1>3. rec'[r] = x /\ \A q \in Recs : q # r => rec'[q] = rec[q]
  BY <1>0, <1>1 DEF Shapes
<1>4. ASSUME NEW q \in Recs, Merged(q), NEW y, y = rec[q]
      PROVE  /\ q # r /\ y.donor # d /\ y \in RecType /\ y.survivor # None
             /\ y.donor \in Users /\ y.moved \subseteq Ids
  <2>1. q # r /\ y \in RecType
    BY <1>1, <1>4, NoRecIs DEF Merged
  <2>2. user[y.donor].into = y.survivor
    BY <1>0, <1>4 DEF MergedPart
  <2>3. y.survivor # None /\ y.donor \in Users /\ y.moved \subseteq Ids
    BY <1>0, <1>4, <2>1, RecPair
  <2>4. user[d].into = None
    BY <1>1 DEF Live
  <2>. QED BY <2>1, <2>2, <2>3, <2>4
<1>5. ASSUME NEW q \in Recs, Merged(q)', q # r PROVE Merged(q)
  BY <1>3, <1>5 DEF Merged
<1>6. RecPart'
  <2>1. ASSUME NEW q \in Recs, rec'[q] \in RecType PROVE RecRight(rec[q])'
    <3>1. PICK y : y = rec'[q]
      OBVIOUS
    <3>2. CASE q = r
      BY <1>1, <1>3, <3>2 DEF RecRight, Recreated
    <3>3. CASE q # r
      <4>1. RecRight(y)
        BY <1>0, <1>3, <2>1, <3>1, <3>3 DEF RecPart
      <4>. QED BY <3>1, <4>1 DEF RecRight, Recreated
    <3>. QED BY <3>2, <3>3
  <2>. QED BY <2>1 DEF RecPart
<1>7. MergedPart'
  <2>1. ASSUME NEW q \in Recs, Merged(q)' PROVE user'[rec'[q].donor].into = rec'[q].survivor
    <3>1. CASE q = r
      BY <1>1, <1>3, <3>1 DEF TxDone
    <3>2. CASE q # r
      <4>1. PICK y : y = rec[q]
        OBVIOUS
      <4>2. Merged(q) /\ rec'[q] = y
        BY <1>3, <1>5, <2>1, <3>2, <4>1
      <4>3. y.donor # d /\ y.donor \in Users
        BY <1>4, <4>1, <4>2
      <4>4. user[y.donor].into = y.survivor
        BY <1>0, <4>1, <4>2 DEF MergedPart
      <4>. QED BY <4>2, <4>3, <4>4 DEF TxDone
    <3>. QED BY <3>1, <3>2
  <2>2. ASSUME NEW q \in Recs, NEW o \in Recs, Merged(q)', Merged(o)',
               rec'[q].donor = rec'[o].donor
        PROVE  q = o
    <3>1. ASSUME NEW a \in Recs, Merged(a)', a # r PROVE rec'[a].donor # d
      BY <1>3, <1>4, <1>5, <3>1
    <3>2. rec'[r].donor = d
      BY <1>1, <1>3
    <3>3. CASE q = r \/ o = r
      BY <2>2, <3>1, <3>2, <3>3
    <3>4. CASE q # r /\ o # r
      <4>1. Merged(q) /\ Merged(o) /\ rec[q].donor = rec[o].donor
        BY <1>3, <1>5, <2>2, <3>4
      <4>. QED BY <1>0, <4>1 DEF MergedPart
    <3>. QED BY <3>3, <3>4
  <2>. QED BY <2>1, <2>2 DEF MergedPart
<1>8. ASSUME NEW i \in Ids, NEW e, e # d
      PROVE  \/ Resolved(e, i)' /\ owner'[i] = None
             \/ PutBy(e, i)' /\ owner'[i] = s
             \/ owner'[i] = owner[i]
  <2>1. CASE i \in Recreated(x) /\ owner'[i] = None
    BY <1>1, <1>3, <1>8, <2>1 DEF Resolved, Recreated
  <2>2. CASE i \in x.moved /\ owner'[i] = s
    BY <1>1, <1>3, <1>8, <2>2 DEF PutBy, Place
  <2>. QED BY <2>1, <2>2 DEF TxDone
<1>9. ASSUME NEW q \in Recs, Merged(q)' PROVE HistoryRight(rec[q])'
  <2>1. CASE q = r
    <3>1. ASSUME NEW i \in x.moved PROVE owner'[i] = s
      <4>1. i \in Ids /\ i \notin Recreated(x)
        BY <1>1 DEF RecType, TxDone
      <4>. QED BY <4>1 DEF TxDone
    <3>2. ASSUME NEW i \in Ids, Tracked(x, i) PROVE owner'[i] = s
      <4>1. CASE i \in x.moved
        BY <3>1, <4>1
      <4>2. CASE x.before[i] = x.survivor /\ i \notin Recreated(x)
        <5>1. owner[i] = s
          BY <1>1, <4>2
        <5>. QED BY <4>2, <5>1 DEF TxDone
      <4>. QED BY <3>2, <4>1, <4>2 DEF Tracked
    <3>4. ASSUME NEW i \in Left, x.before[i] = x.donor PROVE owner'[i] = x.donor
      <4>1. i \in Ids /\ i \notin x.moved /\ i \notin Recreated(x)
        BY <1>1, LeftStays
      <4>. QED BY <1>1, <3>4, <4>1 DEF TxDone
    <3>3. HistoryRight(x)'
      BY <1>1, <1>2, <3>1, <3>2, <3>4 DEF HistoryRight, Tracked, Recreated
    <3>. QED BY <1>3, <2>1, <3>3 DEF HistoryRight, Tracked, Resolved, PutBy, Recreated
  <2>2. CASE q # r
    <3>1. PICK y : y = rec[q]
      OBVIOUS
    <3>2. Merged(q) /\ rec'[q] = y
      BY <1>3, <1>5, <1>9, <2>2, <3>1
    <3>3. y.donor # d /\ y.survivor # None /\ y.moved \subseteq Ids /\ HistoryRight(y)
      BY <1>0, <1>4, <3>1, <3>2 DEF HistoryPart
    <3>4. ASSUME NEW i \in y.moved PROVE owner'[i] # None \/ Resolved(y.donor, i)'
      <4>1. owner[i] # None \/ Resolved(y.donor, i)'
        BY <1>0, <3>3, TxKeepsPlaces DEF HistoryRight
      <4>. QED BY <1>2, <1>8, <3>3, <4>1
    <3>5. ASSUME NEW i \in Ids, Tracked(y, i)
          PROVE  owner'[i] = y.survivor \/ Resolved(y.donor, i)' \/ PutBy(y.donor, i)'
      <4>1. CASE owner'[i] = owner[i]
        <5>1. owner[i] = y.survivor \/ Resolved(y.donor, i) \/ PutBy(y.donor, i)
          BY <3>3, <3>5 DEF HistoryRight
        <5>. QED BY <1>0, <4>1, <5>1, TxKeepsPlaces
      <4>. QED BY <1>8, <3>3, <4>1
    <3>7. ASSUME NEW i \in Left, y.before[i] = y.donor PROVE owner'[i] = y.donor
      <4>1. i \in Ids /\ i \notin x.moved /\ i \notin Recreated(x)
        BY <1>1, LeftStays
      <4>2. owner'[i] = owner[i]
        BY <4>1 DEF TxDone
      <4>. QED BY <3>3, <3>7, <4>2 DEF HistoryRight
    <3>6. HistoryRight(y)'
      BY <3>4, <3>5, <3>7 DEF HistoryRight, Tracked, Recreated
    <3>. QED BY <3>2, <3>6 DEF HistoryRight, Tracked, Resolved, PutBy, Recreated
  <2>. QED BY <2>1, <2>2
<1>. QED BY <1>6, <1>7, <1>9 DEF HistoryPart

LEMMA MergesTx ==
    ASSUME MergeInv, NEW p \in Confirmers, MergeTx(p)
    PROVE  MergeInv'
<1>0. Shapes /\ ConfPart /\ TokPart
  BY DEF MergeInv
<1>1. PICK q : q = conf[p]
  OBVIOUS
<1>2. PICK d : d = q.donor
  OBVIOUS
<1>3. PICK s : s = q.survivor
  OBVIOUS
<1>4. /\ \E r \in Recs : \E x \in RecType : TxDone(d, s, r, x)
      /\ owner' \in [Ids -> Users \cup {None}] /\ user' \in [Users -> UserType]
  BY <1>1, <1>2, <1>3, TxIs
<1>5. PICK r \in Recs : \E x \in RecType : TxDone(d, s, r, x)
  BY <1>4
<1>6. PICK x \in RecType : TxDone(d, s, r, x)
  BY <1>5
<1>7. RecPart' /\ MergedPart' /\ HistoryPart'
  BY <1>6, HistoryTx
<1>8. <<d, s>> \in Pairs /\ d \in Users /\ s \in Users /\ d # None
  BY <1>6, PairIs DEF TxDone
<1>9. UNCHANGED <<sess, tok, date, links, proofs>> /\ conf' = [conf EXCEPT ![p] = IdleConf]
  BY DEF MergeTx
<1>10. conf' \in [Confirmers -> ConfType] /\ ConfPart'
  <2>1. PICK z : z = IdleConf
    OBVIOUS
  <2>2. z \in ConfType /\ z.pc = "idle" /\ conf' = [conf EXCEPT ![p] = z]
    BY <1>9, <2>1, IdleConfType
  <2>3. conf' \in [Confirmers -> ConfType]
    BY <1>0, <2>2 DEF Shapes
  <2>4. ASSUME NEW o \in Confirmers, conf'[o].pc # "idle"
        PROVE  <<conf'[o].donor, conf'[o].survivor>> \in Pairs
    <3>1. o # p /\ conf'[o] = conf[o]
      BY <1>0, <2>2, <2>4 DEF Shapes
    <3>. QED BY <1>0, <2>4, <3>1 DEF ConfPart
  <2>. QED BY <2>3, <2>4 DEF ConfPart
<1>11. TokPart'
  <2>1. ASSUME NEW t \in Tokens, owner'[t] # None PROVE tok'[t].client \in Clients
    <3>1. t \in Ids
      BY DEF Ids
    <3>2. owner[t] # None
      <4>1. CASE t \in x.moved
        <5>1. owner[t] = d
          BY <1>6, <4>1 DEF TxDone, RecRight
        <5>. QED BY <1>8, <5>1
      <4>2. CASE t \notin x.moved
        BY <1>6, <2>1, <3>1, <4>2 DEF TxDone
      <4>. QED BY <4>1, <4>2
    <3>. QED BY <1>0, <1>9, <3>2 DEF TokPart
  <2>. QED BY <2>1 DEF TokPart
<1>12. rec' \in [Recs -> RecType \cup {NoRec}]
  BY <1>0, <1>6 DEF Shapes, TxDone
<1>13. primary' \in [Emails -> BOOLEAN]
  <2>1. \A e \in Emails : (primary[e] /\ e \notin Demoted(d)) \in BOOLEAN
    OBVIOUS
  <2>2. primary' = [e \in Emails |-> primary[e] /\ e \notin Demoted(d)]
    BY <1>1, <1>2 DEF MergeTx
  <2>. QED BY <2>1, <2>2, Zenon
<1>14. override' \in [Users -> [Clients -> Users \cup {None}]]
  <2>0. \A u \in Users : \A c \in Clients : override[u][c] \in Users \cup {None}
    BY <1>0 DEF Shapes
  <2>1. PICK fd : fd = [c \in Clients |-> IF c \in OwnMoved(q) THEN None ELSE override[d][c]]
    OBVIOUS
  <2>2. PICK fs : fs = [c \in Clients |-> IF c \in OwnMoved(q) THEN override[d][c]
                                         ELSE IF c \in Kept(q) THEN d ELSE override[s][c]]
    OBVIOUS
  <2>3. fd \in [Clients -> Users \cup {None}] /\ fs \in [Clients -> Users \cup {None}]
    BY <1>8, <2>0, <2>1, <2>2
  <2>4. d # s
    BY <1>8, PairIs
  <2>5. override' = [override EXCEPT ![d] = fd, ![s] = fs]
    BY <1>0, <1>1, <1>2, <1>3, <1>8, <2>1, <2>2, <2>4 DEF MergeTx, Shapes
  <2>. QED BY <1>0, <2>3, <2>5 DEF Shapes
<1>15. Shapes'
  BY <1>0, <1>4, <1>9, <1>10, <1>12, <1>13, <1>14 DEF Shapes
<1>. QED BY <1>7, <1>10, <1>11, <1>15 DEF MergeInv

-----------------------------------------------------------------------------
(* Undoing a merge.                                                        *)

\* What undoing the merge of x = rec[r] leaves behind: the record z.
UndoDone(r, x, z) ==
    /\ r \in Recs /\ x = rec[r] /\ x \in RecType /\ x.state = "merged" /\ RecRight(x)
    /\ z \in RecType /\ rec' = [rec EXCEPT ![r] = z] /\ z.state = "reversed"
    /\ z.donor = x.donor /\ z.survivor = x.survivor /\ z.moved = x.moved
    /\ z.losers = x.losers /\ z.before = x.before
    /\ \A i \in Ids :
          \/ i \in Recreated(x) /\ owner'[i] = x.before[i] /\ owner'[i] \in {x.donor, x.survivor}
          \/ i \in GoesHome(x) /\ owner'[i] = x.donor
          \/ i \notin GoesHome(x) /\ i \notin Recreated(x) /\ owner'[i] = owner[i]
    /\ user'[x.donor].into = None
    /\ \A u \in Users : u # x.donor => user'[u].into = user[u].into

LEMMA UndoUsers ==
    ASSUME Shapes, RecPart, NEW r \in Recs, ReverseMerge(r), NEW d, NEW s,
           d = rec[r].donor, s = rec[r].survivor
    PROVE  /\ user' \in [Users -> UserType]
           /\ user'[d].into = None /\ user'[d].banned = user[d].banned
           /\ user'[s].into = user[s].into
           /\ \A u \in Users : u # d /\ u # s => user'[u] = user[u]
<1>1. Merged(r) /\ rec[r] \in RecType
  BY RecIs DEF ReverseMerge, Merged
<1>2. d \in Users /\ s \in Users /\ d # s
  BY <1>1, RecPair
<1>0. /\ user \in [Users -> UserType] /\ user[d] \in UserType /\ user[s] \in UserType
      /\ user[d].gen \in Nat /\ user[s].gen \in Nat
  BY <1>2 DEF Shapes, UserType
<1>3. PICK z \in BOOLEAN : z = rec[r].banned
  BY <1>1 DEF RecType
<1>4. PICK m \in Nat : m = user[s].gen + 1
  BY <1>0
<1>5. PICK n \in Nat : n = user[d].gen + 1
  BY <1>0
<1>6. PICK no : no = None
  OBVIOUS
<1>7. PICK es : es = [user[s] EXCEPT !.banned = z, !.gen = m]
  OBVIOUS
<1>8. PICK ed : ed = [user[d] EXCEPT !.into = no, !.gen = n]
  OBVIOUS
<1>9. es \in UserType /\ es.into = user[s].into
  BY <1>0, <1>7 DEF UserType
<1>10. ed \in UserType /\ ed.into = None /\ ed.banned = user[d].banned
  BY <1>0, <1>6, <1>8 DEF UserType
<1>11. user' = [user EXCEPT ![s].banned = z, ![s].gen = @ + 1, ![d].into = no, ![d].gen = @ + 1]
  BY <1>3, <1>6 DEF ReverseMerge
<1>12. user' = [user EXCEPT ![s] = es, ![d] = ed]
  BY <1>0, <1>2, <1>4, <1>5, <1>7, <1>8, <1>11
<1>13. user'[s] = es /\ user'[d] = ed /\ \A u \in Users : u # d /\ u # s => user'[u] = user[u]
  BY <1>0, <1>2, <1>12
<1>14. user' \in [Users -> UserType]
  BY <1>0, <1>9, <1>10, <1>12
<1>. QED BY <1>9, <1>10, <1>13, <1>14

LEMMA UndoIs ==
    ASSUME MergeInv, NEW r \in Recs, ReverseMerge(r), NEW x, x = rec[r]
    PROVE  /\ \E z \in RecType : UndoDone(r, x, z)
           /\ owner' \in [Ids -> Users \cup {None}]
           /\ user' \in [Users -> UserType]
<1>0. Shapes /\ RecPart
  BY DEF MergeInv
<1>1. Merged(r) /\ x \in RecType /\ x.state = "merged"
  BY <1>0, RecIs DEF ReverseMerge, Merged
<1>2. /\ RecRight(x) /\ x.donor \in Users /\ x.survivor \in Users
      /\ x.donor # x.survivor /\ x.moved \subseteq Ids
  BY <1>0, <1>1, RecPair
<1>3. PICK z : z = [x EXCEPT !.state = "reversed"]
  OBVIOUS
<1>4. /\ z \in RecType /\ z.state = "reversed" /\ z.donor = x.donor
      /\ z.survivor = x.survivor /\ z.moved = x.moved /\ z.losers = x.losers
      /\ z.before = x.before
  BY <1>1, <1>3 DEF RecType
<1>5. rec' = [rec EXCEPT ![r] = z]
  BY <1>0, <1>3 DEF ReverseMerge, Shapes
<1>6. owner' = RestoredOwner(x)
  BY DEF ReverseMerge
<1>7. ASSUME NEW i \in Ids, i \in Recreated(x)
      PROVE  owner'[i] = x.before[i] /\ owner'[i] \in {x.donor, x.survivor}
  <2>1. \E y \in x.losers : y[1] = i
    BY <1>7 DEF Recreated
  <2>2. PICK w : w = CHOOSE y \in x.losers : y[1] = i
    OBVIOUS
  <2>3. w \in x.losers /\ w[1] = i
    BY <2>1, <2>2
  <2>4. owner'[i] = w[2]
    BY <1>6, <1>7, <2>2 DEF RestoredOwner
  <2>. QED BY <1>2, <2>3, <2>4 DEF RecRight
<1>8. ASSUME NEW i \in Ids, i \notin Recreated(x)
      PROVE  owner'[i] = IF i \in GoesHome(x) THEN x.donor ELSE owner[i]
  BY <1>6, <1>8 DEF RestoredOwner
<1>9. \A i \in Ids :
          \/ i \in Recreated(x) /\ owner'[i] = x.before[i] /\ owner'[i] \in {x.donor, x.survivor}
          \/ i \in GoesHome(x) /\ owner'[i] = x.donor
          \/ i \notin GoesHome(x) /\ i \notin Recreated(x) /\ owner'[i] = owner[i]
  BY <1>7, <1>8
<1>10. /\ user' \in [Users -> UserType] /\ user'[x.donor].into = None
       /\ \A u \in Users : u # x.donor => user'[u].into = user[u].into
  <2>1. /\ user' \in [Users -> UserType] /\ user'[x.donor].into = None
        /\ user'[x.survivor].into = user[x.survivor].into
        /\ \A u \in Users : u # x.donor /\ u # x.survivor => user'[u] = user[u]
    BY <1>0, UndoUsers
  <2>. QED BY <2>1
<1>11. UndoDone(r, x, z)
  BY <1>1, <1>2, <1>4, <1>5, <1>9, <1>10 DEF UndoDone
<1>12. owner' \in [Ids -> Users \cup {None}]
  <2>1. \A i \in Ids : owner[i] \in Users \cup {None}
    BY <1>0 DEF Shapes
  <2>2. \A i \in Ids : owner'[i] \in Users \cup {None}
    BY <1>2, <1>9, <2>1
  <2>3. owner' = [i \in Ids |-> owner'[i]]
    BY <1>6 DEF RestoredOwner
  <2>. QED BY <2>2, <2>3
<1>. QED BY <1>4, <1>10, <1>11, <1>12

LEMMA HistoryUndo ==
    ASSUME MergeInv, NEW r, NEW x, NEW z, UndoDone(r, x, z)
    PROVE  RecPart' /\ MergedPart' /\ HistoryPart'
<1>0. Shapes /\ RecPart /\ MergedPart /\ HistoryPart
  BY DEF MergeInv
<1>1. /\ r \in Recs /\ x = rec[r] /\ x \in RecType /\ x.state = "merged" /\ RecRight(x)
      /\ z \in RecType /\ rec' = [rec EXCEPT ![r] = z] /\ z.state = "reversed"
      /\ z.donor = x.donor /\ z.survivor = x.survivor /\ z.moved = x.moved
      /\ z.losers = x.losers /\ z.before = x.before
  BY DEF UndoDone
<1>2. /\ x.donor \in Users /\ x.survivor \in Users /\ x.donor # x.survivor
      /\ x.donor # None /\ x.survivor # None /\ x.moved \subseteq Ids
  BY <1>0, <1>1, RecPair
<1>3. rec'[r] = z /\ \A q \in Recs : q # r => rec'[q] = rec[q]
  BY <1>0, <1>1 DEF Shapes
<1>4. Recreated(z) = Recreated(x) /\ Place(z) = x.donor /\ Place(x) = x.survivor
  BY <1>1 DEF Recreated, Place
<1>5. ASSUME NEW q \in Recs, Merged(q)'
      PROVE  q # r /\ Merged(q) /\ rec'[q] = rec[q] /\ rec[q].donor # x.donor
  <2>1. q # r
    BY <1>1, <1>3, <1>5 DEF Merged
  <2>2. Merged(q) /\ rec'[q] = rec[q] /\ Merged(r)
    BY <1>1, <1>3, <1>5, <2>1 DEF Merged
  <2>. QED BY <1>0, <1>1, <2>1, <2>2 DEF MergedPart
<1>6. RecPart'
  <2>1. ASSUME NEW q \in Recs, rec'[q] \in RecType PROVE RecRight(rec[q])'
    <3>1. PICK y : y = rec'[q]
      OBVIOUS
    <3>2. CASE q = r
      <4>1. RecRight(z)
        BY <1>1, <1>4 DEF RecRight
      <4>. QED BY <1>3, <3>2, <4>1 DEF RecRight, Recreated
    <3>3. CASE q # r
      <4>1. RecRight(y)
        BY <1>0, <1>3, <2>1, <3>1, <3>3 DEF RecPart
      <4>. QED BY <3>1, <4>1 DEF RecRight, Recreated
    <3>. QED BY <3>2, <3>3
  <2>. QED BY <2>1 DEF RecPart
<1>7. MergedPart'
  <2>1. ASSUME NEW q \in Recs, Merged(q)' PROVE user'[rec'[q].donor].into = rec'[q].survivor
    <3>1. PICK y : y = rec[q]
      OBVIOUS
    <3>2. rec'[q] = y /\ Merged(q) /\ y.donor # x.donor /\ y \in RecType
      BY <1>5, <2>1, <3>1 DEF Merged
    <3>3. y.donor \in Users /\ user[y.donor].into = y.survivor
      BY <1>0, <3>1, <3>2 DEF MergedPart, RecType
    <3>. QED BY <3>2, <3>3 DEF UndoDone
  <2>2. ASSUME NEW q \in Recs, NEW o \in Recs, Merged(q)', Merged(o)',
               rec'[q].donor = rec'[o].donor
        PROVE  q = o
    BY <1>0, <1>5, <2>2 DEF MergedPart
  <2>. QED BY <2>1, <2>2 DEF MergedPart
<1>8. ASSUME NEW e, NEW i \in Ids, Resolved(e, i) PROVE Resolved(e, i)'
  <2>1. PICK q \in Recs : rec[q] \in RecType /\ rec[q].donor # e /\ i \in Recreated(rec[q])
    BY <1>8 DEF Resolved
  <2>2. PICK y : y = rec'[q]
    OBVIOUS
  <2>3. y \in RecType /\ y.donor # e /\ i \in Recreated(y)
    BY <1>1, <1>3, <1>4, <2>1, <2>2
  <2>. QED BY <2>2, <2>3 DEF Resolved, Recreated
<1>9. ASSUME NEW e, NEW i \in Ids, PutBy(e, i), i \notin GoesHome(x), owner'[i] = owner[i]
      PROVE  PutBy(e, i)'
  <2>1. PICK q \in Recs : /\ rec[q] \in RecType /\ rec[q].donor # e
                          /\ i \in rec[q].moved /\ owner[i] = Place(rec[q])
    BY <1>9 DEF PutBy
  <2>2. q # r
    <3>1. CASE q = r
      <4>1. i \in x.moved /\ owner[i] = x.survivor
        BY <1>1, <1>4, <2>1, <3>1
      <4>. QED BY <1>2, <1>9, <4>1 DEF GoesHome
    <3>. QED BY <3>1
  <2>3. rec'[q] = rec[q]
    BY <1>3, <2>2
  <2>. QED BY <1>9, <2>1, <2>3 DEF PutBy, Place
<1>10. ASSUME NEW i \in Ids, NEW e, e # x.donor
       PROVE  \/ Resolved(e, i)' /\ owner'[i] # None
              \/ PutBy(e, i)' /\ owner'[i] # None
              \/ i \notin GoesHome(x) /\ owner'[i] = owner[i]
  <2>1. CASE i \in Recreated(x) /\ owner'[i] \in {x.donor, x.survivor}
    <3>1. Resolved(e, i)'
      <4>1. z \in RecType /\ z.donor # e /\ i \in Recreated(z)
        BY <1>1, <1>4, <1>10, <2>1
      <4>. QED BY <1>1, <1>3, <4>1 DEF Resolved, Recreated
    <3>. QED BY <1>2, <2>1, <3>1
  <2>2. CASE i \in GoesHome(x) /\ owner'[i] = x.donor
    <3>1. i \in z.moved /\ owner'[i] = Place(z)
      BY <1>1, <1>4, <2>2 DEF GoesHome
    <3>2. PutBy(e, i)'
      BY <1>1, <1>3, <1>10, <3>1 DEF PutBy, Place
    <3>. QED BY <1>2, <2>2, <3>2
  <2>. QED BY <2>1, <2>2 DEF UndoDone
<1>11. ASSUME NEW q \in Recs, Merged(q)' PROVE HistoryRight(rec[q])'
  <2>1. PICK y : y = rec[q]
    OBVIOUS
  <2>2. Merged(q) /\ rec'[q] = y /\ y.donor # x.donor /\ y \in RecType
    BY <1>5, <1>11, <2>1 DEF Merged
  <2>3. y.moved \subseteq Ids /\ HistoryRight(y)
    BY <1>0, <2>1, <2>2 DEF HistoryPart, RecType
  <2>4. ASSUME NEW i \in y.moved PROVE owner'[i] # None \/ Resolved(y.donor, i)'
    <3>1. owner[i] # None \/ Resolved(y.donor, i)'
      BY <1>8, <2>3 DEF HistoryRight
    <3>. QED BY <1>10, <2>2, <2>3, <3>1
  <2>5. ASSUME NEW i \in Ids, Tracked(y, i)
        PROVE  owner'[i] = y.survivor \/ Resolved(y.donor, i)' \/ PutBy(y.donor, i)'
    <3>1. CASE i \notin GoesHome(x) /\ owner'[i] = owner[i]
      <4>1. owner[i] = y.survivor \/ Resolved(y.donor, i) \/ PutBy(y.donor, i)
        BY <2>3, <2>5 DEF HistoryRight
      <4>. QED BY <1>8, <1>9, <3>1, <4>1
    <3>. QED BY <1>10, <2>2, <3>1
  <2>7. ASSUME NEW i \in Left, y.before[i] = y.donor PROVE owner'[i] = y.donor
    <3>1. i \in Ids /\ i \notin x.moved /\ i \notin Recreated(x)
      BY <1>1, LeftStays
    <3>2. owner'[i] = owner[i]
      BY <3>1 DEF UndoDone, GoesHome
    <3>. QED BY <2>3, <2>7, <3>2 DEF HistoryRight
  <2>6. HistoryRight(y)'
    BY <2>4, <2>5, <2>7 DEF HistoryRight, Tracked, Recreated
  <2>. QED BY <2>2, <2>6 DEF HistoryRight, Tracked, Resolved, PutBy, Recreated
<1>. QED BY <1>6, <1>7, <1>11 DEF HistoryPart

LEMMA Undoes ==
    ASSUME MergeInv, NEW r \in Recs, ReverseMerge(r)
    PROVE  MergeInv'
<1>0. Shapes /\ ConfPart /\ TokPart /\ RecPart /\ HistoryPart
  BY DEF MergeInv
<1>1. PICK x : x = rec[r]
  OBVIOUS
<1>2. PICK z \in RecType : UndoDone(r, x, z)
  BY <1>1, UndoIs
<1>3. owner' \in [Ids -> Users \cup {None}] /\ user' \in [Users -> UserType]
  BY <1>1, UndoIs
<1>4. RecPart' /\ MergedPart' /\ HistoryPart'
  BY <1>2, HistoryUndo
<1>5. UNCHANGED <<sess, tok, date, links, proofs, conf>>
  BY DEF ReverseMerge, ceremony
<1>6. x \in RecType /\ RecRight(x)
  BY <1>2 DEF UndoDone
<1>7. x.donor \in Users /\ x.survivor \in Users /\ x.donor # x.survivor
  BY <1>0, <1>1, <1>6, RecPair
<1>8. TokPart'
  <2>1. ASSUME NEW t \in Tokens, owner'[t] # None PROVE owner[t] # None
    <3>1. t \in Ids
      BY DEF Ids
    <3>2. t \notin Recreated(x)
      <4>1. Recreated(x) \subseteq Eligs
        <5>1. ASSUME NEW y \in x.losers PROVE y[1] \in Eligs
          BY <1>6 DEF RecType
        <5>. QED BY <5>1 DEF Recreated
      <4>. QED BY <4>1, MergeConstants
    <3>3. CASE t \in GoesHome(x)
      BY <3>3 DEF GoesHome
    <3>4. CASE t \notin GoesHome(x)
      BY <1>2, <2>1, <3>1, <3>2, <3>4 DEF UndoDone
    <3>. QED BY <3>3, <3>4
  <2>. QED BY <1>0, <1>5, <2>1 DEF TokPart
<1>9. rec' \in [Recs -> RecType \cup {NoRec}]
  BY <1>0, <1>2 DEF Shapes, UndoDone
<1>10. primary' \in [Emails -> BOOLEAN]
  <2>1. \A e \in Emails : (primary[e] \/ e \in x.demoted) \in BOOLEAN
    OBVIOUS
  <2>2. primary' = [e \in Emails |-> primary[e] \/ e \in x.demoted]
    BY <1>1 DEF ReverseMerge
  <2>. QED BY <2>1, <2>2, Zenon
<1>11. override' \in [Users -> [Clients -> Users \cup {None}]]
  <2>0. \A u \in Users : \A c \in Clients : override[u][c] \in Users \cup {None}
    BY <1>0 DEF Shapes
  <2>1. PICK d \in Users : d = x.donor
    BY <1>7
  <2>2. PICK s \in Users : s = x.survivor
    BY <1>7
  <2>3. PICK fd : fd = [c \in Clients |-> IF c \in x.own /\ override[s][c] # None
                                            THEN override[s][c] ELSE override[d][c]]
    OBVIOUS
  <2>4. PICK fs : fs = [c \in Clients |-> IF c \in x.own \cup Uncreated(x)
                                            THEN None ELSE override[s][c]]
    OBVIOUS
  <2>5. fd \in [Clients -> Users \cup {None}] /\ fs \in [Clients -> Users \cup {None}]
    BY <2>0, <2>3, <2>4
  <2>6. override' = [override EXCEPT ![d] = fd, ![s] = fs]
    BY <1>0, <1>1, <1>7, <2>1, <2>2, <2>3, <2>4 DEF ReverseMerge, Shapes
  <2>. QED BY <1>0, <2>5, <2>6 DEF Shapes
<1>12. Shapes'
  BY <1>0, <1>3, <1>5, <1>9, <1>10, <1>11 DEF Shapes
<1>13. ConfPart'
  BY <1>0, <1>5 DEF ConfPart
<1>. QED BY <1>4, <1>8, <1>12, <1>13 DEF MergeInv

-----------------------------------------------------------------------------
(* The invariant.                                                          *)

LEMMA MergeInit == Init => MergeInv
<1>. SUFFICES ASSUME Init PROVE MergeInv
  OBVIOUS
<1>1. ASSUME NEW r \in Recs PROVE rec[r] = NoRec
  BY DEF Init
<1>2. Shapes
  <2>1. PICK u0 : u0 = [into |-> None, banned |-> FALSE, gen |-> 0]
    OBVIOUS
  <2>2. u0 \in UserType /\ user = [u \in Users |-> u0]
    BY <2>1 DEF UserType, Init
  <2>3. owner \in [Ids -> Users \cup {None}]
    BY MergeConstants DEF Init
  <2>4. NoToken \in TokType
    BY DEF NoToken, TokType
  <2>5. tok \in [Tokens -> TokType]
    BY <2>4 DEF Init
  <2>6. conf \in [Confirmers -> ConfType]
    BY IdleConfType DEF Init
  <2>. QED BY <2>2, <2>3, <2>5, <2>6 DEF Init, Shapes
<1>3. ConfPart
  BY IdleConfType DEF Init, ConfPart
<1>4. TokPart
  <2>1. ASSUME NEW t \in Tokens PROVE owner[t] = None
    <3>1. t \in Ids /\ t \notin Emails
      BY MergeConstants DEF Ids
    <3>. QED BY <3>1 DEF Init
  <2>. QED BY <2>1 DEF TokPart
<1>5. RecPart /\ MergedPart /\ HistoryPart
  BY <1>1, NoRecIs DEF RecPart, MergedPart, HistoryPart, Merged
<1>. QED BY <1>2, <1>3, <1>4, <1>5 DEF MergeInv

LEMMA MergeStutters == ASSUME MergeInv, UNCHANGED vars PROVE MergeInv'
<1>0. Shapes /\ ConfPart /\ TokPart
  BY DEF MergeInv
<1>1. UNCHANGED <<user, sess, owner, primary, tok, date, override, links, proofs, conf, rec>>
  BY DEF vars
<1>2. Shapes'
  BY <1>0, <1>1 DEF Shapes
<1>3. ConfPart' /\ TokPart' /\ Fills
  BY <1>0, <1>1 DEF ConfPart, TokPart, Fills
<1>. QED BY <1>1, <1>2, <1>3, QuietStep

LEMMA MergeStepKeeps == ASSUME MergeInv, ReqInv, [Next]_vars PROVE MergeInv'
<1>1. CASE AccountStep
  BY <1>1, SignsIn, Bans DEF AccountStep
<1>6. CASE RequestStep
  <2>1. PICK x \in Requests :
            \/ \E u \in Users : StartRequest(x, u)
            \/ \E i \in Rows \cup Passkeys \cup Left : AddRow(x, i)
            \/ \E e \in Eligs, d \in Dates : GrantEligibility(x, e, d)
            \/ \E e \in Emails : SetPrimaryEmail(x, e)
            \/ \E u \in Users, c \in Clients : StartExchange(x, u, c)
            \/ ReadSub(x)
            \/ \E t \in Tokens : CreateToken(x, t)
            \/ FailRequest(x)
    BY <1>6 DEF RequestStep
  <2>2. CASE \/ \E u \in Users : StartRequest(x, u)
             \/ \E u \in Users, c \in Clients : StartExchange(x, u, c)
             \/ ReadSub(x) \/ FailRequest(x)
    BY <2>2, RequestMoves
       DEF StartRequest, StartExchange, ReadSub, FailRequest, rowVars, ceremony
  <2>. QED BY <2>1, <2>2, AddsRow, CreatesToken, Grants, Promotes
<1>2. CASE CeremonyStep
  <2>1. CASE \E p \in Confirmers, d, s \in Users : ConfirmStart(p, d, s)
    BY <2>1, StartsConfirm
  <2>. QED BY <1>2, <2>1, Asks DEF CeremonyStep
<1>3. CASE MergeStep
  BY <1>3, Checks, Derives, MergesTx, Throws DEF MergeStep
<1>4. CASE \E r \in Recs : ReverseMerge(r)
  BY <1>4, Undoes
<1>5. CASE UNCHANGED vars
  BY <1>5, MergeStutters
<1>. QED BY <1>1, <1>2, <1>3, <1>4, <1>5, <1>6 DEF Next

\* One request changes its record, or all are marked as overtaken.
LEMMA ReqSet ==
    ASSUME ReqInv, NEW x \in Requests, NEW q \in ReqType, req' = [req EXCEPT ![x] = q],
           q.pc # "idle" => q.user \in Users, late' \subseteq Ids,
           q.pc \in {"sub", "create"} => q.client \in Clients
    PROVE  ReqInv' /\ req'[x] = q /\ \A o \in Requests : o # x => req'[o] = req[o]
  BY DEF ReqInv

LEMMA IdleReqType == IdleReq \in ReqType /\ IdleReq.pc = "idle"
  BY DEF IdleReq, ReqType

LEMMA EndsIs ==
    ASSUME ReqInv, NEW x \in Requests, NEW new \in SUBSET Ids, Ends(x, new)
    PROVE  /\ ReqInv' /\ req'[x].pc = "idle" /\ \A o \in Requests : o # x => req'[o] = req[o]
           /\ late \subseteq late' /\ (req[x].crossed => new \subseteq late')
<1>1. PICK q : q = IdleReq
  OBVIOUS
<1>2. q \in ReqType /\ q.pc = "idle" /\ req' = [req EXCEPT ![x] = q]
  BY <1>1, IdleReqType DEF Ends
<1>3. late' \subseteq Ids /\ late \subseteq late' /\ (req[x].crossed => new \subseteq late')
  BY DEF Ends, ReqInv
<1>. QED BY <1>2, <1>3, ReqSet

LEMMA StartIs ==
    ASSUME ReqInv, NEW x \in Requests, NEW u \in Users,
           StartRequest(x, u) \/ \E c \in Clients : StartExchange(x, u, c)
    PROVE  /\ ReqInv' /\ req'[x].user = u /\ req'[x].pc # "create" /\ Live(u)
           /\ \A o \in Requests : o # x => req'[o] = req[o]
<1>0. late' = late /\ late \subseteq Ids /\ IdleReq \in ReqType /\ Live(u)
  BY IdleReqType DEF StartRequest, StartExchange, ReqInv, SessionOk
<1>1. CASE StartRequest(x, u)
  <2>1. PICK q : q = [IdleReq EXCEPT !.pc = "act", !.user = u]
    OBVIOUS
  <2>2. q \in ReqType /\ q.pc = "act" /\ q.user = u
    BY <1>0, <2>1 DEF ReqType
  <2>3. req' = [req EXCEPT ![x] = q]
    BY <1>1, <2>1 DEF StartRequest
  <2>. QED BY <1>0, <2>2, <2>3, ReqSet
<1>2. CASE \E c \in Clients : StartExchange(x, u, c)
  <2>0. PICK c \in Clients : StartExchange(x, u, c)
    BY <1>2
  <2>1. PICK q : q = [IdleReq EXCEPT !.pc = "sub", !.user = u, !.client = c]
    OBVIOUS
  <2>2. q \in ReqType /\ q.pc = "sub" /\ q.user = u /\ q.client = c
    BY <1>0, <2>1 DEF ReqType
  <2>3. req' = [req EXCEPT ![x] = q]
    BY <2>0, <2>1 DEF StartExchange
  <2>. QED BY <1>0, <2>2, <2>3, ReqSet
<1>. QED BY <1>1, <1>2

LEMMA ReadIs ==
    ASSUME Shapes, ReqInv, NEW x \in Requests, ReadSub(x)
    PROVE  /\ ReqInv' /\ \A o \in Requests : o # x => req'[o] = req[o]
           /\ req[x].pc = "sub" /\ req'[x].user = req[x].user
           /\ req'[x].crossed = req[x].crossed /\ req'[x].client = req[x].client
           /\ req'[x].sub = Sub(req[x].user, req[x].client)
<1>1. PICK e : e = req[x]
  OBVIOUS
<1>2. e \in ReqType /\ e.pc = "sub" /\ e.user \in Users /\ e.client \in Clients
  BY <1>1 DEF ReadSub, ReqInv
<1>3. PICK b : b = Sub(e.user, e.client)
  OBVIOUS
<1>4. b \in Users \cup {None}
  BY <1>2, <1>3 DEF Sub, Shapes
<1>5. PICK q : q = [e EXCEPT !.pc = "create", !.sub = b]
  OBVIOUS
<1>6. /\ q \in ReqType /\ q.user = e.user /\ q.client = e.client /\ q.crossed = e.crossed
      /\ q.sub = b
  BY <1>2, <1>4, <1>5 DEF ReqType
<1>7. req' = [req EXCEPT ![x] = q] /\ late' \subseteq Ids
  BY <1>1, <1>3, <1>5 DEF ReadSub, ReqInv
<1>. QED BY <1>1, <1>2, <1>3, <1>6, <1>7, ReqSet

LEMMA OvertakenIs ==
    ASSUME ReqInv, NEW d, NEW s, req' = Overtaken(d, s), late' = late
    PROVE  /\ ReqInv'
           /\ \A x \in Requests :
                /\ req'[x].pc = req[x].pc /\ req'[x].user = req[x].user
                /\ req'[x].client = req[x].client /\ req'[x].sub = req[x].sub
                /\ req[x].crossed => req'[x].crossed
                /\ req[x].user = d => req'[x].crossed
                /\ req[x].user = s /\ req[x].pc = "create" => req'[x].crossed
<1>1. ASSUME NEW x \in Requests, NEW e, e = req[x], NEW f, f = req'[x]
      PROVE  /\ f \in ReqType /\ f.pc = e.pc /\ f.user = e.user /\ f.client = e.client
             /\ f.sub = e.sub /\ (e.crossed => f.crossed)
             /\ (e.user = d => f.crossed)
             /\ (e.user = s /\ e.pc = "create" => f.crossed)
  <2>0. e \in ReqType
    BY <1>1 DEF ReqInv
  <2>1. CASE e.user = d \/ (e.user = s /\ e.pc = "create")
    <3>1. f = [e EXCEPT !.crossed = TRUE]
      BY <1>1, <2>1 DEF Overtaken
    <3>. QED BY <2>0, <3>1 DEF ReqType
  <2>2. CASE ~(e.user = d \/ (e.user = s /\ e.pc = "create"))
    <3>1. f = e
      BY <1>1, <2>2 DEF Overtaken
    <3>. QED BY <2>0, <2>2, <3>1
  <2>. QED BY <2>1, <2>2
<1>2. req' = [x \in Requests |-> req'[x]]
  BY DEF Overtaken
<1>3. req' \in [Requests -> ReqType]
  BY <1>1, <1>2
<1>. QED BY <1>1, <1>3 DEF ReqInv

\* What a step of a request does to the requests.
LEMMA ReqSteps ==
    ASSUME Shapes, ReqInv, NEW x \in Requests,
           \/ \E u \in Users : StartRequest(x, u)
           \/ \E i \in Rows \cup Passkeys \cup Left : AddRow(x, i)
           \/ \E e \in Eligs, d \in Dates : GrantEligibility(x, e, d)
           \/ \E e \in Emails : SetPrimaryEmail(x, e)
           \/ \E u \in Users, c \in Clients : StartExchange(x, u, c)
           \/ ReadSub(x)
           \/ \E t \in Tokens : CreateToken(x, t)
           \/ FailRequest(x)
    PROVE  /\ ReqInv' /\ \A o \in Requests : o # x => req'[o] = req[o]
           /\ \/ req'[x].pc = "idle"
              \/ Live(req'[x].user) /\ req'[x].pc # "create"
              \/ /\ ReadSub(x) /\ req[x].pc = "sub" /\ req'[x].user = req[x].user
                 /\ req'[x].crossed = req[x].crossed /\ req'[x].client = req[x].client
                 /\ req'[x].sub = Sub(req[x].user, req[x].client)
<1>1. CASE \E u \in Users : StartRequest(x, u) \/ \E c \in Clients : StartExchange(x, u, c)
  BY <1>1, StartIs
<1>2. CASE ReadSub(x)
  BY <1>2, ReadIs
<1>3. CASE \E new \in SUBSET Ids : Ends(x, new)
  BY <1>3, EndsIs
<1>4. CASE \E i \in Ids : Ends(x, {i})
  BY <1>3, <1>4
<1>5. CASE Ends(x, {})
  BY <1>3, <1>5
<1>6. CASE \/ \E i \in Rows \cup Passkeys \cup Left : AddRow(x, i)
           \/ \E e \in Eligs, d \in Dates : GrantEligibility(x, e, d)
           \/ \E t \in Tokens : CreateToken(x, t)
  BY <1>4, <1>6 DEF AddRow, GrantEligibility, CreateToken, Ids
<1>7. CASE FailRequest(x) \/ \E e \in Emails : SetPrimaryEmail(x, e)
  BY <1>5, <1>7 DEF FailRequest, SetPrimaryEmail
<1>. QED BY <1>1, <1>2, <1>6, <1>7

LEMMA ReqStepKeeps == ASSUME MergeInv, ReqInv, [Next]_vars PROVE ReqInv'
<1>0. Shapes
  BY DEF MergeInv
<1>1. CASE UNCHANGED traffic
  BY <1>1 DEF traffic, ReqInv
<1>2. CASE RequestStep
  BY <1>0, <1>2, ReqSteps DEF RequestStep
<1>3. CASE \E p \in Confirmers : MergeTx(p)
  BY <1>3, OvertakenIs DEF MergeTx
<1>4. CASE \E r \in Recs : ReverseMerge(r)
  BY <1>4, OvertakenIs DEF ReverseMerge
<1>5. CASE AccountStep
  BY <1>1, <1>5 DEF AccountStep, SignIn, BanUser, UnbanUser
<1>6. CASE CeremonyStep
  BY <1>1, <1>6 DEF CeremonyStep, StartMerge, CompleteDonorLink, Expire, ConfirmStart
<1>7. CASE MergeStep
  BY <1>1, <1>3, <1>7 DEF MergeStep, ConfirmCheck, MergeDerive, MergeThrows
<1>8. CASE UNCHANGED vars
  BY <1>1, <1>8 DEF vars, traffic
<1>. QED BY <1>2, <1>4, <1>5, <1>6, <1>7, <1>8 DEF Next

(* What the merge transaction and reverseMerge rely on holds of every      *)
(* snapshot, every tombstone and every row, however the ceremonies, the    *)
(* merges, their undoing and the requests under way interleave.            *)
THEOREM MergeInvariant == Spec => [](MergeInv /\ ReqInv)
<1>1. Init => MergeInv /\ ReqInv
  BY MergeInit, IdleReqType DEF Init, ReqInv
<1>2. MergeInv /\ ReqInv /\ [Next]_vars => (MergeInv /\ ReqInv)'
  BY MergeStepKeeps, ReqStepKeeps
<1>. QED BY <1>1, <1>2, PTL DEF Spec

(* The tables of the merge code hold values of their shapes, whatever is   *)
(* merged and undone.                                                      *)
THEOREM MergeTypeCorrect == Spec => []TypeOK
<1>1. MergeInv /\ ReqInv => TypeOK
  <2>. SUFFICES ASSUME MergeInv, ReqInv PROVE TypeOK
    OBVIOUS
  <2>0. Shapes
    BY DEF MergeInv
  <2>1. \A p \in Confirmers : /\ conf[p].pc \in {"idle", "check", "derive", "tx"}
                              /\ conf[p].clients \subseteq Clients
    BY <2>0 DEF Shapes, ConfType
  <2>2. ASSUME NEW r \in Recs, rec[r] # NoRec
        PROVE  /\ rec[r].state \in {"merged", "reversed"}
               /\ rec[r].moved \subseteq Ids /\ rec[r].created \subseteq Clients
    <3>1. rec[r] \in RecType
      BY <2>0, <2>2, RecIs
    <3>. QED BY <3>1 DEF RecType
  <2>3. /\ late \subseteq Ids
        /\ \A x \in Requests : /\ req[x].pc \in {"idle", "act", "sub", "create"}
                               /\ req[x].user \in Users \cup {None}
    BY DEF ReqInv, ReqType
  <2>. QED BY <2>0, <2>1, <2>2, <2>3 DEF TypeOK, Shapes, UserType, TokType
<1>. QED BY <1>1, MergeInvariant, PTL

-----------------------------------------------------------------------------
(* Bans.                                                                   *)

\* What BanSticks says of one account in one step.
BanStep(u) ==
    user[u].banned =>
         \/ UnbanUser(u)
         \/ \E r \in Recs : rec[r] # NoRec /\ rec[r].survivor = u /\ ReverseMerge(r)
         \/ /\ user'[u].banned
            /\ Live(u) /\ user'[u].into # None => user'[user'[u].into].banned

LEMMA BanUntouched ==
    ASSUME NEW u, user'[u] = user[u]
    PROVE  BanStep(u)
  BY DEF BanStep, Live

LEMMA BanTx ==
    ASSUME MergeInv, NEW p \in Confirmers, MergeTx(p), NEW u \in Users
    PROVE  BanStep(u)
<1>1. PICK d : d = conf[p].donor
  OBVIOUS
<1>2. PICK s : s = conf[p].survivor
  OBVIOUS
<1>3. <<d, s>> \in Pairs
  BY <1>1, <1>2 DEF MergeInv, ConfPart, MergeTx
<1>4. d \in Users /\ s \in Users /\ d # s
  BY <1>3, PairIs
<1>5. /\ user'[d].into = s /\ user'[d].banned = user[d].banned
      /\ user'[s].into = user[s].into
      /\ user'[s].banned = (user[s].banned \/ user[d].banned)
      /\ \A v \in Users : v # d /\ v # s => user'[v] = user[v]
  BY <1>1, <1>2, <1>4, TxUsers DEF MergeInv
<1>6. CASE u = d
  <2>1. ASSUME user[d].banned PROVE user'[d].banned /\ user'[user'[d].into].banned
    BY <1>5, <2>1, Zenon
  <2>. QED BY <1>6, <2>1, Zenon DEF BanStep
<1>7. CASE u = s
  <2>1. ASSUME user[s].banned PROVE user'[s].banned
    BY <1>5, <2>1, Zenon
  <2>2. ~(Live(s) /\ user'[s].into # None)
    BY <1>5 DEF Live
  <2>. QED BY <1>7, <2>1, <2>2, Zenon DEF BanStep
<1>8. CASE u # d /\ u # s
  BY <1>5, <1>8, BanUntouched
<1>. QED BY <1>6, <1>7, <1>8

LEMMA BanUndo ==
    ASSUME MergeInv, NEW r \in Recs, ReverseMerge(r), NEW u \in Users
    PROVE  BanStep(u)
<1>0. Shapes /\ RecPart
  BY DEF MergeInv
<1>1. rec[r] # NoRec
  <2>1. rec[r].state = "merged"
    BY DEF ReverseMerge
  <2>. QED BY <1>0, <2>1, RecIs DEF Merged
<1>2. PICK d : d = rec[r].donor
  OBVIOUS
<1>3. PICK s : s = rec[r].survivor
  OBVIOUS
<1>4. /\ user'[d].into = None /\ user'[d].banned = user[d].banned
      /\ \A v \in Users : v # d /\ v # s => user'[v] = user[v]
  BY <1>0, <1>2, <1>3, UndoUsers
<1>5. CASE u = s
  BY <1>1, <1>3, <1>5 DEF BanStep
<1>6. CASE u = d
  <2>1. ASSUME user[d].banned PROVE user'[d].banned
    BY <1>4, <2>1, Zenon
  <2>. QED BY <1>4, <1>6, <2>1, Zenon DEF BanStep
<1>7. CASE u # d /\ u # s
  BY <1>4, <1>7, BanUntouched
<1>. QED BY <1>5, <1>6, <1>7

LEMMA BanSteps ==
    ASSUME MergeInv, [Next]_vars, NEW u \in Users
    PROVE  BanStep(u)
<1>1. CASE \E v \in Users : BanUser(v) \/ UnbanUser(v)
  <2>1. PICK v \in Users : BanUser(v) \/ UnbanUser(v)
    BY <1>1
  <2>2. CASE u # v
    BY <2>1, <2>2, BanSet, BanUntouched DEF MergeInv
  <2>3. CASE u = v /\ BanUser(v)
    BY <2>3 DEF BanUser, BanStep
  <2>4. CASE u = v /\ UnbanUser(v)
    BY <2>4 DEF BanStep
  <2>. QED BY <2>1, <2>2, <2>3, <2>4
<1>2. CASE \E p \in Confirmers : MergeTx(p)
  BY <1>2, BanTx
<1>3. CASE \E r \in Recs : ReverseMerge(r)
  BY <1>3, BanUndo
<1>4. CASE UNCHANGED user
  BY <1>4, BanUntouched
<1>5. CASE AccountStep
  BY <1>1, <1>4, <1>5 DEF AccountStep, SignIn
<1>9. CASE RequestStep
  BY <1>4, <1>9 DEF RequestStep, StartRequest, AddRow,
     GrantEligibility, SetPrimaryEmail, StartExchange, ReadSub, CreateToken, FailRequest
<1>6. CASE CeremonyStep
  BY <1>4, <1>6 DEF CeremonyStep, StartMerge, CompleteDonorLink, Expire, ConfirmStart
<1>7. CASE MergeStep
  BY <1>2, <1>4, <1>7 DEF MergeStep, ConfirmCheck, MergeDerive, MergeThrows
<1>8. CASE UNCHANGED vars
  BY <1>4, <1>8 DEF vars
<1>. QED BY <1>3, <1>5, <1>6, <1>7, <1>8, <1>9 DEF Next

(* No step of any merge, however requests overlap, lifts a ban, and a      *)
(* donor's ban goes to the survivor it is merged into: only an             *)
(* administrator's unban ends one, or undoing the merge that brought it.   *)
THEOREM BansStick == Spec => BanSticks
<1>1. MergeInv /\ [Next]_vars => [\A u \in Users : BanStep(u)]_vars
  BY BanSteps
<1>2. BanSticks <=> [][\A u \in Users : BanStep(u)]_vars
  BY PTL DEF BanSticks, BanStep
<1>. QED BY <1>1, <1>2, MergeInvariant, PTL DEF Spec

-----------------------------------------------------------------------------
(* Rows put back.                                                          *)

\* What ReversalRestores says of one merge in one step.
RestoreStep(r) ==
    rec[r] # NoRec /\ rec[r].state = "merged" /\ rec'[r].state = "reversed" =>
       \A i \in Ids : rec[r].before[i] \in {rec[r].donor, rec[r].survivor} =>
          \/ owner'[i] = rec[r].before[i]
          \/ \E q \in Recs :
                /\ rec[q] # NoRec /\ rec[q].donor # rec[r].donor
                /\ \/ i \in Recreated(rec[q])
                   \/ /\ i \in rec[q].moved
                      /\ owner'[i] = IF rec[q].state = "merged"
                                     THEN rec[q].survivor ELSE rec[q].donor

LEMMA RecUntouched ==
    ASSUME NEW r, rec'[r] = rec[r]
    PROVE  RestoreStep(r)
  BY DEF RestoreStep

LEMMA RestoreUndo ==
    ASSUME MergeInv, NEW r \in Recs, ReverseMerge(r)
    PROVE  RestoreStep(r)
<1>0. Shapes /\ RecPart /\ HistoryPart
  BY DEF MergeInv
<1>1. PICK x : x = rec[r]
  OBVIOUS
<1>2. PICK z \in RecType : UndoDone(r, x, z)
  BY <1>1, UndoIs
<1>3. x \in RecType /\ RecRight(x) /\ x.state = "merged"
  BY <1>2 DEF UndoDone
<1>4. HistoryRight(x)
  BY <1>0, <1>1, <1>3 DEF HistoryPart, Merged
<1>5. ASSUME NEW i \in Ids, x.before[i] \in {x.donor, x.survivor}, owner'[i] # x.before[i]
      PROVE  Resolved(x.donor, i) \/ (PutBy(x.donor, i) /\ owner'[i] = owner[i])
  <2>1. i \notin Recreated(x) /\ i \notin GoesHome(x) /\ owner'[i] = owner[i]
    <3>1. i \in GoesHome(x) => x.before[i] = x.donor
      BY <1>3 DEF GoesHome, RecRight
    <3>. QED BY <1>2, <1>5, <3>1 DEF UndoDone
  <2>2. CASE x.before[i] = x.donor
    <3>1. i \in x.moved
      <4>1. i \notin Left
        BY <1>4, <1>5, <2>1, <2>2 DEF HistoryRight
      <4>. QED BY <1>3, <2>1, <2>2, <4>1 DEF RecRight
    <3>2. CASE owner[i] = None
      BY <1>4, <3>1, <3>2 DEF HistoryRight
    <3>3. CASE i \in Passkeys /\ owner[i] # x.survivor
      <4>1. Tracked(x, i)
        BY <3>1, <3>3 DEF Tracked
      <4>. QED BY <1>4, <2>1, <3>3, <4>1 DEF HistoryRight
    <3>. QED BY <2>1, <3>1, <3>2, <3>3 DEF GoesHome
  <2>3. CASE x.before[i] = x.survivor
    <3>1. Tracked(x, i)
      BY <2>1, <2>3 DEF Tracked
    <3>. QED BY <1>4, <1>5, <2>1, <2>3, <3>1 DEF HistoryRight
  <2>. QED BY <1>5, <2>2, <2>3
<1>6. ASSUME NEW i \in Ids, Resolved(x.donor, i) \/ (PutBy(x.donor, i) /\ owner'[i] = owner[i])
      PROVE  \E q \in Recs :
                /\ rec[q] # NoRec /\ rec[q].donor # x.donor
                /\ \/ i \in Recreated(rec[q])
                   \/ /\ i \in rec[q].moved
                      /\ owner'[i] = IF rec[q].state = "merged"
                                     THEN rec[q].survivor ELSE rec[q].donor
  <2>1. CASE Resolved(x.donor, i)
    BY <2>1, NoRecIs DEF Resolved
  <2>2. CASE PutBy(x.donor, i) /\ owner'[i] = owner[i]
    BY <2>2, NoRecIs DEF PutBy, Place
  <2>. QED BY <1>6, <2>1, <2>2
<1>. QED BY <1>1, <1>5, <1>6 DEF RestoreStep

LEMMA RestoreSteps ==
    ASSUME MergeInv, [Next]_vars, NEW r \in Recs
    PROVE  RestoreStep(r)
<1>1. CASE UNCHANGED rec
  BY <1>1, RecUntouched
<1>2. CASE \E p \in Confirmers : MergeTx(p)
  <2>1. PICK p \in Confirmers : MergeTx(p)
    BY <1>2
  <2>2. PICK q : q = conf[p]
    OBVIOUS
  <2>3. PICK d : d = q.donor
    OBVIOUS
  <2>4. PICK s : s = q.survivor
    OBVIOUS
  <2>5. PICK o \in Recs : \E x \in RecType : TxDone(d, s, o, x)
    BY <2>1, <2>2, <2>3, <2>4, TxIs
  <2>6. rec[o] = NoRec /\ (r # o => rec'[r] = rec[r])
    BY <2>5 DEF TxDone, MergeInv, Shapes
  <2>7. CASE r = o
    BY <2>6, <2>7 DEF RestoreStep
  <2>. QED BY <2>6, <2>7, RecUntouched
<1>3. CASE \E q \in Recs : ReverseMerge(q)
  <2>1. PICK q \in Recs : ReverseMerge(q)
    BY <1>3
  <2>2. CASE q = r
    BY <2>1, <2>2, RestoreUndo
  <2>3. CASE q # r
    <3>1. rec'[r] = rec[r]
      BY <2>1, <2>3 DEF ReverseMerge, MergeInv, Shapes
    <3>. QED BY <3>1, RecUntouched
  <2>. QED BY <2>2, <2>3
<1>4. CASE AccountStep
  BY <1>1, <1>4 DEF AccountStep, SignIn, BanUser, UnbanUser
<1>8. CASE RequestStep
  BY <1>1, <1>8 DEF RequestStep, StartRequest, AddRow,
     GrantEligibility, SetPrimaryEmail, StartExchange, ReadSub, CreateToken, FailRequest
<1>5. CASE CeremonyStep
  BY <1>1, <1>5 DEF CeremonyStep, StartMerge, CompleteDonorLink, Expire, ConfirmStart
<1>6. CASE MergeStep
  BY <1>1, <1>2, <1>6 DEF MergeStep, ConfirmCheck, MergeDerive, MergeThrows
<1>7. CASE UNCHANGED vars
  BY <1>1, <1>7 DEF vars
<1>. QED BY <1>3, <1>4, <1>5, <1>6, <1>7, <1>8 DEF Next

(* reverseMerge puts every row of the pair back where the merge found it,  *)
(* with any number of merges made and undone in between in any order; the  *)
(* rows it does not are where another donor's merge or its undoing put     *)
(* them, or another donor's merge resolved them away.                      *)
THEOREM ReversalPutsBack == Spec => ReversalRestores
<1>1. MergeInv /\ [Next]_vars => [\A r \in Recs : RestoreStep(r)]_vars
  BY RestoreSteps
<1>2. ReversalRestores <=> [][\A r \in Recs : RestoreStep(r)]_vars
  BY PTL DEF ReversalRestores, RestoreStep
<1>. QED BY <1>1, <1>2, MergeInvariant, PTL DEF Spec

-----------------------------------------------------------------------------
(* Subjects.  Where an override comes from: a merge of the account whose   *)
(* subject it is, which created it at the survivor; it is still there      *)
(* unless the survivor was itself merged.                                  *)

MergedOn(r) == \E q \in Recs : rec[q] \in RecType /\ rec[q].donor = rec[r].survivor

Origin(u, c, r) ==
    /\ rec[r] \in RecType /\ rec[r].donor = override[u][c] /\ c \in rec[r].created
    /\ (Merged(r) /\ rec[r].survivor = u) \/ MergedOn(r)

OriginPart ==
    \A u \in Users, c \in Clients : override[u][c] # None => \E r \in Recs : Origin(u, c, r)

\* The override a merge that stands wrote at its survivor.
Wrote(r, c) == Merged(r) /\ c \in rec[r].own \cup rec[r].created

WrotePart ==
    \A r \in Recs, c \in Clients : Wrote(r, c) =>
        \/ MergedOn(r)
        \/ /\ override[rec[r].survivor][c] # None
           /\ \A q \in Recs : Wrote(q, c) /\ rec[q].survivor = rec[r].survivor => q = r

\* The override of a merge undone may have moved on with its survivor.
Escaped(c) ==
    \E r \in Recs : /\ rec[r] \in RecType /\ rec[r].state = "reversed"
                    /\ c \in rec[r].created /\ MergedOn(r)

OncePart ==
    \A c \in Clients : Escaped(c) \/
        \A u, v \in Users : u # v /\ override[u][c] # None => override[u][c] # override[v][c]

EitherPart == \A r \in Recs : rec[r] \in RecType => rec[r].own \cap rec[r].created = {}

SubInv == OriginPart /\ WrotePart /\ OncePart /\ EitherPart

\* A step of either kind leaves the columns of a record that matter here.
RecKept ==
    \A r \in Recs : rec[r] \in RecType =>
        /\ rec'[r] \in RecType /\ rec'[r].donor = rec[r].donor
        /\ rec'[r].survivor = rec[r].survivor /\ rec'[r].created = rec[r].created
        /\ rec'[r].own = rec[r].own
        /\ rec[r].state = "reversed" => rec'[r].state = "reversed"

LEMMA MergedOnKept ==
    ASSUME RecKept, NEW r \in Recs, rec[r] \in RecType, MergedOn(r)
    PROVE  MergedOn(r)'
<1>1. PICK q \in Recs : rec[q] \in RecType /\ rec[q].donor = rec[r].survivor
  BY DEF MergedOn
<1>2. rec'[q] \in RecType /\ rec'[q].donor = rec'[r].survivor
  BY <1>1 DEF RecKept
<1>. QED BY <1>2 DEF MergedOn

LEMMA EscapedKept ==
    ASSUME RecKept, NEW c \in Clients, Escaped(c)
    PROVE  Escaped(c)'
<1>1. PICK r \in Recs : /\ rec[r] \in RecType /\ rec[r].state = "reversed"
                        /\ c \in rec[r].created /\ MergedOn(r)
  BY DEF Escaped
<1>2. MergedOn(r)'
  BY <1>1, MergedOnKept
<1>3. rec'[r] \in RecType /\ rec'[r].state = "reversed" /\ c \in rec'[r].created
  BY <1>1 DEF RecKept
<1>. QED BY <1>2, <1>3 DEF Escaped

\* What the transaction does to overrides, and says of it in its record.
TxSubs(q, d, s, x) ==
    /\ x.created = Kept(q) /\ x.own = OwnMoved(q) /\ x.stranded = q.clients \ Kept(q)
    /\ x.moved = Moved(d, s) /\ x.own \cap x.created = {}
    /\ x.created \subseteq Clients /\ x.own \subseteq Clients
    /\ \A c \in Clients : override'[d][c] = IF c \in x.own THEN None ELSE override[d][c]
    /\ \A c \in Clients : override'[s][c] = IF c \in x.own THEN override[d][c]
                                            ELSE IF c \in x.created THEN d ELSE override[s][c]
    /\ \A u \in Users : u # d /\ u # s => override'[u] = override[u]
    /\ \A c \in x.own : override[d][c] # None /\ override[s][c] = None
    /\ \A c \in x.created : override[s][c] = None

LEMMA TxSubsIs ==
    ASSUME MergeInv, NEW p \in Confirmers, MergeTx(p),
           NEW q, q = conf[p], NEW d, d = q.donor, NEW s, s = q.survivor,
           NEW r \in Recs, NEW x \in RecType, TxDone(d, s, r, x)
    PROVE  TxSubs(q, d, s, x)
<1>0. Shapes
  BY DEF MergeInv
<1>1. d \in Users /\ s \in Users /\ d # s
  BY PairIs DEF TxDone
<1>2. PICK kp, om, st, mv : /\ kp = Kept(q) /\ om = OwnMoved(q) /\ st = q.clients \ Kept(q)
                            /\ mv = Moved(d, s)
  OBVIOUS
<1>3. PICK lo : lo = {<<i, owner[i]>> : i \in EligLosers(d, s)}
  OBVIOUS
<1>4. PICK bd, dm : bd = user[s].banned /\ dm = Demoted(d)
  OBVIOUS
<1>5. PICK w \in Recs :
         /\ rec[w] = NoRec
         /\ rec' = [rec EXCEPT ![w] =
              [state |-> "merged", donor |-> d, survivor |-> s, moved |-> mv,
               losers |-> lo, created |-> kp, own |-> om, stranded |-> st,
               banned |-> bd, demoted |-> dm, before |-> owner]]
  BY <1>2, <1>3, <1>4 DEF MergeTx
<1>6. PICK y : y = [state |-> "merged", donor |-> d, survivor |-> s, moved |-> mv,
               losers |-> lo, created |-> kp, own |-> om, stranded |-> st,
               banned |-> bd, demoted |-> dm, before |-> owner]
  OBVIOUS
<1>7. rec' = [rec EXCEPT ![w] = y]
  BY <1>5, <1>6
<1>8. x = y
  <2>1. rec[r] = NoRec /\ rec' = [rec EXCEPT ![r] = x] /\ x # NoRec
    BY NoRecIs DEF TxDone
  <2>2. rec'[r] = x /\ rec'[w] = y
    BY <1>0, <1>7, <2>1 DEF Shapes
  <2>3. w = r
    BY <1>0, <1>7, <2>1, <2>2 DEF Shapes
  <2>. QED BY <2>2, <2>3
<1>9. x.created = kp /\ x.own = om /\ x.stranded = st /\ x.moved = mv
  BY <1>6, <1>8
<1>10. x.own \cap x.created = {}
  BY <1>2, <1>9 DEF MergeTx, Commits, Clash
<1>11. PICK fd : fd = [c \in Clients |-> IF c \in om THEN None ELSE override[d][c]]
  OBVIOUS
<1>12. PICK fs : fs = [c \in Clients |-> IF c \in om THEN override[d][c]
                                        ELSE IF c \in kp THEN d ELSE override[s][c]]
  OBVIOUS
<1>13. override' = [override EXCEPT ![d] = fd, ![s] = fs]
  BY <1>0, <1>1, <1>2, <1>11, <1>12 DEF MergeTx, Shapes
<1>14. override'[d] = fd /\ override'[s] = fs
       /\ \A u \in Users : u # d /\ u # s => override'[u] = override[u]
  BY <1>0, <1>1, <1>13 DEF Shapes
<1>15. \A c \in om : override[d][c] # None /\ override[s][c] = None
  BY <1>2 DEF OwnMoved, OverrideClients
<1>16. x.created \subseteq Clients /\ x.own \subseteq Clients
  BY DEF RecType
<1>17. \A c \in kp : override[s][c] = None
  <2>1. \A c \in kp : c \notin OverrideClients(s) /\ c \in Clients
    BY <1>2, <1>9, <1>16 DEF Kept
  <2>. QED BY <2>1 DEF OverrideClients
<1>18. /\ \A c \in Clients : override'[d][c] = IF c \in x.own THEN None ELSE override[d][c]
       /\ \A c \in Clients : override'[s][c] = IF c \in x.own THEN override[d][c]
                                            ELSE IF c \in x.created THEN d ELSE override[s][c]
  BY <1>9, <1>11, <1>12, <1>14
<1>. QED BY <1>2, <1>9, <1>10, <1>14, <1>15, <1>16, <1>17, <1>18 DEF TxSubs

LEMMA SubTx ==
    ASSUME MergeInv, SubInv, NEW p \in Confirmers, MergeTx(p)
    PROVE  SubInv'
<1>0. Shapes /\ MergedPart
  BY DEF MergeInv
<1>1. PICK q : q = conf[p]
  OBVIOUS
<1>2. PICK d : d = q.donor
  OBVIOUS
<1>3. PICK s : s = q.survivor
  OBVIOUS
<1>4. PICK r \in Recs : \E x \in RecType : TxDone(d, s, r, x)
  BY <1>1, <1>2, <1>3, TxIs
<1>5. PICK x \in RecType : TxDone(d, s, r, x)
  BY <1>4
<1>6. d \in Users /\ s \in Users /\ d # s /\ d # None /\ Live(d)
  BY <1>5, PairIs DEF TxDone
<1>7. TxSubs(q, d, s, x)
  BY <1>1, <1>2, <1>3, <1>5, TxSubsIs
<1>8. /\ rec[r] = NoRec /\ rec[r] \notin RecType /\ rec'[r] = x
      /\ \A w \in Recs : w # r => rec'[w] = rec[w]
      /\ x.state = "merged" /\ x.donor = d /\ x.survivor = s
  BY <1>0, <1>5, NoRecIs DEF TxDone, Shapes
<1>9. RecKept
  BY <1>8 DEF RecKept
<1>10. ASSUME NEW w \in Recs, Merged(w) PROVE Merged(w)' /\ w # r
  BY <1>8, <1>10 DEF Merged
<1>11. ASSUME NEW w \in Recs, rec[w] \in RecType, rec[w].survivor = d PROVE MergedOn(w)'
  <2>1. w # r /\ rec'[w].survivor = d /\ rec'[r] \in RecType /\ rec'[r].donor = d
    BY <1>8, <1>11
  <2>. QED BY <2>1 DEF MergedOn
<1>12. ASSUME NEW u \in Users, NEW v \in Users, NEW c \in Clients, override[u][c] # None,
              override'[v][c] = override[u][c], v = u \/ u = d
       PROVE  \E w \in Recs : Origin(v, c, w)'
  <2>1. PICK w \in Recs : Origin(u, c, w)
    BY <1>12 DEF SubInv, OriginPart
  <2>2. w # r /\ rec'[w] = rec[w] /\ rec[w] \in RecType
    BY <1>8, <2>1 DEF Origin
  <2>3. CASE MergedOn(w)
    <3>1. MergedOn(w)'
      BY <1>9, <2>2, <2>3, MergedOnKept
    <3>. QED BY <1>12, <2>1, <2>2, <3>1 DEF Origin
  <2>4. CASE Merged(w) /\ rec[w].survivor = u /\ v = u
    <3>1. Merged(w)'
      BY <1>10, <2>4
    <3>. QED BY <1>12, <2>1, <2>2, <2>4, <3>1 DEF Origin
  <2>5. CASE Merged(w) /\ rec[w].survivor = u /\ u = d
    <3>1. MergedOn(w)'
      BY <1>11, <2>2, <2>5
    <3>. QED BY <1>12, <2>1, <2>2, <3>1 DEF Origin
  <2>. QED BY <1>12, <2>1, <2>3, <2>4, <2>5 DEF Origin
<1>13. OriginPart'
  <2>1. ASSUME NEW u \in Users, NEW c \in Clients, override'[u][c] # None
        PROVE  \E w \in Recs : Origin(u, c, w)'
    <3>1. CASE override'[u][c] = override[u][c]
      BY <1>12, <2>1, <3>1
    <3>2. CASE u = s /\ c \in x.own
      <4>1. override'[s][c] = override[d][c]
        BY <1>7, <3>2 DEF TxSubs
      <4>. QED BY <1>6, <1>12, <2>1, <3>2, <4>1
    <3>3. CASE u = s /\ c \in x.created
      <4>1. override'[s][c] = d
        BY <1>7, <3>3 DEF TxSubs
      <4>2. Merged(r)' /\ rec'[r] = x
        BY <1>8 DEF Merged
      <4>3. Origin(u, c, r)'
        BY <1>8, <3>3, <4>1, <4>2 DEF Origin
      <4>. QED BY <4>3
    <3>. QED BY <1>6, <1>7, <2>1, <3>1, <3>2, <3>3 DEF TxSubs
  <2>. QED BY <2>1 DEF OriginPart
<1>14. WrotePart'
  <2>1. ASSUME NEW w \in Recs, NEW c \in Clients, Wrote(w, c)', ~MergedOn(w)'
        PROVE  /\ override'[rec'[w].survivor][c] # None
               /\ \A o \in Recs : Wrote(o, c)' /\ rec'[o].survivor = rec'[w].survivor => o = w
    <3>1. ASSUME NEW o \in Recs, o # r, Wrote(o, c)', ~MergedOn(o)'
          PROVE  /\ Wrote(o, c) /\ rec'[o] = rec[o] /\ ~MergedOn(o)
                 /\ rec[o] \in RecType /\ rec[o].survivor # d
      <4>1. rec'[o] = rec[o] /\ Wrote(o, c) /\ rec[o] \in RecType
        BY <1>8, <3>1 DEF Wrote, Merged
      <4>. QED BY <1>9, <1>11, <3>1, <4>1, MergedOnKept
    <3>2. ASSUME NEW o \in Recs, o # r, Wrote(o, c)', ~MergedOn(o)'
          PROVE  /\ override[rec[o].survivor][c] # None
                 /\ rec[o].survivor \in Users /\ rec[o].survivor # d
                 /\ \A v \in Recs : Wrote(v, c) /\ rec[v].survivor = rec[o].survivor => v = o
      <4>1. Wrote(o, c) /\ ~MergedOn(o) /\ rec[o] \in RecType /\ rec[o].survivor # d
        BY <3>1, <3>2
      <4>2. rec[o].survivor \in Users
        BY <4>1 DEF RecType
      <4>. QED BY <4>1, <4>2 DEF SubInv, WrotePart
    <3>3. c \in x.own \cup x.created => override[s][c] = None /\ override'[s][c] # None
      BY <1>6, <1>7 DEF TxSubs
    <3>4. ASSUME NEW o \in Recs, rec'[o].survivor = rec'[w].survivor
          PROVE  ~MergedOn(o)'
      BY <2>1, <3>4 DEF MergedOn
    <3>5. CASE w = r
      <4>1. c \in x.own \cup x.created /\ rec'[w].survivor = s
        BY <1>8, <2>1, <3>5 DEF Wrote
      <4>2. ASSUME NEW o \in Recs, Wrote(o, c)', rec'[o].survivor = s, o # r PROVE FALSE
        <5>1. ~MergedOn(o)'
          BY <3>4, <4>1, <4>2
        <5>2. rec'[o] = rec[o]
          BY <1>8, <4>2
        <5>. QED BY <3>2, <3>3, <4>1, <4>2, <5>1, <5>2
      <4>. QED BY <3>3, <3>5, <4>1, <4>2
    <3>6. CASE w # r
      <4>1. /\ override[rec[w].survivor][c] # None /\ rec'[w] = rec[w]
            /\ rec[w].survivor \in Users /\ rec[w].survivor # d
            /\ \A v \in Recs : Wrote(v, c) /\ rec[v].survivor = rec[w].survivor => v = w
        BY <2>1, <3>1, <3>2, <3>6
      <4>2. override'[rec[w].survivor][c] = override[rec[w].survivor][c]
        <5>1. CASE rec[w].survivor = s
          <6>1. c \notin x.own /\ c \notin x.created
            BY <3>3, <4>1, <5>1
          <6>. QED BY <1>7, <5>1, <6>1 DEF TxSubs
        <5>2. CASE rec[w].survivor # s
          BY <1>7, <4>1, <5>2 DEF TxSubs
        <5>. QED BY <5>1, <5>2
      <4>3. ASSUME NEW o \in Recs, Wrote(o, c)', rec'[o].survivor = rec'[w].survivor
            PROVE  o = w
        <5>1. CASE o = r
          <6>1. c \in x.own \cup x.created /\ rec[w].survivor = s
            BY <1>8, <4>1, <4>3, <5>1 DEF Wrote
          <6>. QED BY <3>3, <4>1, <6>1
        <5>2. CASE o # r
          <6>1. Wrote(o, c) /\ rec'[o] = rec[o]
            BY <3>1, <3>4, <4>3, <5>2
          <6>. QED BY <4>1, <4>3, <6>1
        <5>. QED BY <5>1, <5>2
      <4>. QED BY <4>1, <4>2, <4>3
    <3>. QED BY <3>5, <3>6
  <2>. QED BY <2>1 DEF WrotePart
<1>15. OncePart'
  <2>1. ASSUME NEW c \in Clients, ~Escaped(c)', NEW u \in Users, NEW v \in Users, u # v,
               override'[u][c] # None, override'[u][c] = override'[v][c]
        PROVE  FALSE
    <3>1. ~Escaped(c)
      BY <1>9, <2>1, EscapedKept
    <3>2. \A a, b \in Users : a # b /\ override[a][c] # None => override[a][c] # override[b][c]
      BY <3>1 DEF SubInv, OncePart
    <3>3. \A a \in Users : override[a][c] # d
      <4>1. ASSUME NEW a \in Users, override[a][c] = d PROVE FALSE
        <5>1. PICK w \in Recs : Origin(a, c, w)
          BY <1>6, <4>1 DEF SubInv, OriginPart
        <5>2. rec[w] \in RecType /\ rec[w].donor = d /\ c \in rec[w].created
          BY <4>1, <5>1 DEF Origin
        <5>3. ~Merged(w)
          <6>1. Merged(w) => user[d].into = rec[w].survivor /\ rec[w].survivor \in Users
            BY <1>0, <5>2 DEF MergedPart, RecType
          <6>. QED BY <1>6, <6>1, MergeConstants DEF Live
        <5>4. rec[w].state = "reversed" /\ MergedOn(w)
          BY <5>1, <5>2, <5>3 DEF Origin, Merged, RecType
        <5>. QED BY <3>1, <5>2, <5>4 DEF Escaped
      <4>. QED BY <4>1
    <3>4. ASSUME NEW a \in Users, NEW b \in Users, a # b, override'[a][c] # None,
                 override'[a][c] = override'[b][c], b # s
          PROVE  FALSE
      <4>1. override'[b][c] = override[b][c] /\ override[b][c] # d
        BY <1>7, <3>3, <3>4 DEF TxSubs
      <4>2. CASE a = s /\ c \in x.own
        <5>1. override'[s][c] = override[d][c] /\ override'[d][c] = None
          BY <1>7, <4>2 DEF TxSubs
        <5>2. b # d
          BY <3>4, <5>1
        <5>. QED BY <1>6, <3>2, <3>4, <4>1, <4>2, <5>1, <5>2
      <4>3. CASE a = s /\ c \notin x.own /\ c \in x.created
        BY <1>7, <3>4, <4>1, <4>3 DEF TxSubs
      <4>4. CASE override'[a][c] = override[a][c]
        BY <3>2, <3>4, <4>1, <4>4
      <4>. QED BY <1>7, <3>4, <4>2, <4>3, <4>4 DEF TxSubs
    <3>5. v # s \/ u # s
      BY <2>1
    <3>. QED BY <2>1, <3>4, <3>5
  <2>. QED BY <2>1 DEF OncePart
<1>16. EitherPart'
  BY <1>7, <1>8 DEF SubInv, EitherPart, TxSubs
<1>. QED BY <1>13, <1>14, <1>15, <1>16 DEF SubInv

\* What reverseMerge does to overrides.
UndoSubs(x, z) ==
    /\ z.created = x.created /\ z.own = x.own
    /\ \A c \in Clients : override'[x.donor][c] =
          IF c \in x.own /\ override[x.survivor][c] # None
          THEN override[x.survivor][c] ELSE override[x.donor][c]
    /\ \A c \in Clients : override'[x.survivor][c] =
          IF c \in x.own \/ (c \in x.created /\ override[x.survivor][c] = x.donor)
          THEN None ELSE override[x.survivor][c]
    /\ \A u \in Users : u # x.donor /\ u # x.survivor => override'[u] = override[u]

LEMMA UndoSubsIs ==
    ASSUME MergeInv, NEW r \in Recs, ReverseMerge(r), NEW x, x = rec[r],
           NEW z \in RecType, UndoDone(r, x, z)
    PROVE  UndoSubs(x, z)
<1>0. Shapes /\ RecPart
  BY DEF MergeInv
<1>1. x \in RecType /\ x.donor \in Users /\ x.survivor \in Users /\ x.donor # x.survivor
  BY <1>0, RecPair DEF UndoDone
<1>2. z = [x EXCEPT !.state = "reversed"]
  <2>1. PICK y : y = [x EXCEPT !.state = "reversed"]
    OBVIOUS
  <2>2. rec' = [rec EXCEPT ![r] = y]
    BY <1>0, <2>1 DEF ReverseMerge, Shapes
  <2>3. rec' = [rec EXCEPT ![r] = z]
    BY DEF UndoDone
  <2>. QED BY <1>0, <2>1, <2>2, <2>3 DEF Shapes
<1>3. z.created = x.created /\ z.own = x.own
  BY <1>1, <1>2 DEF RecType
<1>4. PICK d \in Users : d = x.donor
  BY <1>1
<1>5. PICK s \in Users : s = x.survivor
  BY <1>1
<1>6. PICK fd : fd = [c \in Clients |-> IF c \in x.own /\ override[s][c] # None
                                          THEN override[s][c] ELSE override[d][c]]
  OBVIOUS
<1>7. PICK fs : fs = [c \in Clients |-> IF c \in x.own \cup Uncreated(x)
                                          THEN None ELSE override[s][c]]
  OBVIOUS
<1>8. override' = [override EXCEPT ![d] = fd, ![s] = fs]
  BY <1>0, <1>1, <1>4, <1>5, <1>6, <1>7 DEF ReverseMerge, Shapes
<1>9. override'[d] = fd /\ override'[s] = fs
      /\ \A u \in Users : u # d /\ u # s => override'[u] = override[u]
  BY <1>0, <1>1, <1>4, <1>5, <1>8 DEF Shapes
<1>10. \A c \in Clients : c \in x.own \cup Uncreated(x)
                             <=> c \in x.own \/ (c \in x.created /\ override[s][c] = d)
  BY <1>4, <1>5 DEF Uncreated
<1>11. \A c \in Clients : override'[d][c] =
          IF c \in x.own /\ override[s][c] # None THEN override[s][c] ELSE override[d][c]
  BY <1>6, <1>9
<1>12. \A c \in Clients : override'[s][c] =
          IF c \in x.own \/ (c \in x.created /\ override[s][c] = d)
          THEN None ELSE override[s][c]
  BY <1>7, <1>9, <1>10
<1>. QED BY <1>3, <1>4, <1>5, <1>9, <1>11, <1>12 DEF UndoSubs

LEMMA SubUndo ==
    ASSUME MergeInv, SubInv, NEW r \in Recs, ReverseMerge(r)
    PROVE  SubInv'
<1>0. Shapes /\ MergedPart /\ RecPart
  BY DEF MergeInv
<1>1. PICK x : x = rec[r]
  OBVIOUS
<1>2. PICK z \in RecType : UndoDone(r, x, z)
  BY <1>1, UndoIs
<1>3. PICK d : d = x.donor
  OBVIOUS
<1>4. PICK s : s = x.survivor
  OBVIOUS
<1>5. /\ x \in RecType /\ d \in Users /\ s \in Users /\ d # s /\ d # None
      /\ x.created \subseteq Clients /\ x.own \subseteq Clients
  <2>1. x \in RecType
    BY <1>2 DEF UndoDone
  <2>. QED BY <1>0, <1>1, <1>3, <1>4, <2>1, RecPair DEF RecType
<1>6. UndoSubs(x, z)
  BY <1>1, <1>2, UndoSubsIs
<1>7. /\ \A c \in Clients : override'[d][c] =
            IF c \in x.own /\ override[s][c] # None THEN override[s][c] ELSE override[d][c]
      /\ \A c \in Clients : override'[s][c] =
            IF c \in x.own \/ (c \in x.created /\ override[s][c] = d)
            THEN None ELSE override[s][c]
      /\ \A u \in Users : u # d /\ u # s => override'[u] = override[u]
  BY <1>3, <1>4, <1>6 DEF UndoSubs
<1>8. /\ Merged(r) /\ rec'[r] = z /\ \A w \in Recs : w # r => rec'[w] = rec[w]
      /\ z.state = "reversed" /\ z.donor = d /\ z.survivor = s
      /\ z.created = x.created /\ z.own = x.own
  BY <1>0, <1>1, <1>2, <1>3, <1>4, <1>6 DEF UndoDone, UndoSubs, Shapes, Merged
<1>9. RecKept
  BY <1>1, <1>3, <1>4, <1>8 DEF RecKept
<1>10. x.own \cap x.created = {}
  BY <1>1, <1>5 DEF SubInv, EitherPart
<1>11. ASSUME NEW w \in Recs, Merged(w)' PROVE w # r /\ Merged(w) /\ rec'[w] = rec[w]
  BY <1>8, <1>11 DEF Merged
<1>12. ASSUME NEW w \in Recs, rec'[w] \in RecType PROVE rec[w] \in RecType
  BY <1>1, <1>5, <1>8, <1>12
\* Undone is the only merge of its donor that stood, so an override of
\* another origin stays one.
<1>13. ASSUME NEW u \in Users, NEW v \in Users, NEW c \in Clients, override[u][c] # None,
              override'[v][c] = override[u][c],
              \/ v = u /\ ~(u = s /\ c \in x.created /\ override[s][c] = d)
              \/ u = s /\ c \in x.own
       PROVE  \E w \in Recs : Origin(v, c, w)'
  <2>1. PICK w \in Recs : Origin(u, c, w)
    BY <1>13 DEF SubInv, OriginPart
  <2>2. /\ rec[w] \in RecType /\ rec'[w] \in RecType /\ rec'[w].donor = override'[v][c]
        /\ c \in rec'[w].created
    BY <1>9, <1>13, <2>1 DEF Origin, RecKept
  <2>3. CASE MergedOn(w)
    <3>1. MergedOn(w)'
      BY <1>9, <2>2, <2>3, MergedOnKept
    <3>. QED BY <2>2, <3>1 DEF Origin
  <2>4. CASE Merged(w) /\ rec[w].survivor = u /\ ~MergedOn(w)
    <3>1. w # r
      <4>1. ASSUME w = r PROVE FALSE
        <5>1. u = s /\ c \in x.created /\ override[s][c] = d
          BY <1>1, <1>3, <1>4, <2>1, <2>4, <4>1 DEF Origin
        <5>. QED BY <1>10, <1>13, <5>1
      <4>. QED BY <4>1
    <3>2. ~(u = s /\ c \in x.own)
      <4>1. ASSUME u = s, c \in x.own PROVE FALSE
        <5>1. Wrote(r, c) /\ Wrote(w, c) /\ rec[r].survivor = rec[w].survivor
          BY <1>1, <1>4, <1>8, <2>1, <2>4, <4>1 DEF Wrote, Origin
        <5>2. r = w
          BY <2>4, <5>1 DEF SubInv, WrotePart
        <5>. QED BY <3>1, <5>2
      <4>. QED BY <4>1
    <3>3. v = u /\ rec'[w] = rec[w] /\ Merged(w)'
      BY <1>8, <1>13, <2>4, <3>1, <3>2 DEF Merged
    <3>. QED BY <2>2, <2>4, <3>3 DEF Origin
  <2>. QED BY <2>1, <2>3, <2>4 DEF Origin
<1>14. OriginPart'
  <2>1. ASSUME NEW u \in Users, NEW c \in Clients, override'[u][c] # None
        PROVE  \E w \in Recs : Origin(u, c, w)'
    <3>1. CASE u = d /\ c \in x.own /\ override[s][c] # None
      <4>1. override'[d][c] = override[s][c]
        BY <1>7, <3>1
      <4>. QED BY <1>5, <1>13, <2>1, <3>1, <4>1
    <3>2. CASE ~(u = d /\ c \in x.own /\ override[s][c] # None)
      <4>1. override'[u][c] = override[u][c] /\ ~(u = s /\ c \in x.created /\ override[s][c] = d)
        BY <1>5, <1>7, <2>1, <3>2
      <4>. QED BY <1>13, <2>1, <4>1
    <3>. QED BY <3>1, <3>2
  <2>. QED BY <2>1 DEF OriginPart
<1>15. WrotePart'
  <2>1. ASSUME NEW w \in Recs, NEW c \in Clients, Wrote(w, c)', ~MergedOn(w)'
        PROVE  /\ override'[rec'[w].survivor][c] # None
               /\ \A o \in Recs : Wrote(o, c)' /\ rec'[o].survivor = rec'[w].survivor => o = w
    <3>1. ASSUME NEW o \in Recs, Wrote(o, c)'
          PROVE  o # r /\ Wrote(o, c) /\ rec'[o] = rec[o]
      BY <1>11, <3>1 DEF Wrote
    <3>2. w # r /\ Wrote(w, c) /\ rec'[w] = rec[w] /\ rec[w] \in RecType
      BY <2>1, <3>1 DEF Wrote, Merged
    <3>3. ~MergedOn(w)
      BY <1>9, <2>1, <3>2, MergedOnKept
    <3>4. /\ override[rec[w].survivor][c] # None /\ rec[w].survivor \in Users
          /\ \A o \in Recs : Wrote(o, c) /\ rec[o].survivor = rec[w].survivor => o = w
      BY <3>2, <3>3 DEF SubInv, WrotePart, RecType
    <3>5. rec[w].survivor # d
      <4>1. rec'[r].donor = d /\ rec'[r] \in RecType
        BY <1>8
      <4>. QED BY <2>1, <3>2, <4>1 DEF MergedOn
    <3>6. override'[rec[w].survivor][c] = override[rec[w].survivor][c]
      <4>1. CASE rec[w].survivor = s
        <5>1. ~Wrote(r, c)
          BY <1>1, <1>4, <3>2, <3>4, <4>1
        <5>2. c \notin x.own /\ c \notin x.created
          BY <1>1, <1>8, <5>1 DEF Wrote
        <5>. QED BY <1>7, <4>1, <5>2
      <4>2. CASE rec[w].survivor # s
        BY <1>7, <3>4, <3>5, <4>2
      <4>. QED BY <4>1, <4>2
    <3>7. ASSUME NEW o \in Recs, Wrote(o, c)', rec'[o].survivor = rec'[w].survivor PROVE o = w
      BY <3>1, <3>2, <3>4, <3>7
    <3>. QED BY <3>2, <3>4, <3>6, <3>7
  <2>. QED BY <2>1 DEF WrotePart
<1>16. OncePart'
  <2>1. ASSUME NEW c \in Clients, ~Escaped(c)', NEW u \in Users, NEW v \in Users, u # v,
               override'[u][c] # None, override'[u][c] = override'[v][c]
        PROVE  FALSE
    <3>1. ~Escaped(c)
      BY <1>9, <2>1, EscapedKept
    <3>2. \A a, b \in Users : a # b /\ override[a][c] # None => override[a][c] # override[b][c]
      BY <3>1 DEF SubInv, OncePart
    <3>3. ASSUME NEW a \in Users, NEW b \in Users, a # b, override'[a][c] # None,
                 override'[a][c] = override'[b][c], b # d
          PROVE  FALSE
      <4>1. override'[b][c] = override[b][c]
        BY <1>7, <3>3
      <4>2. CASE a = d /\ c \in x.own /\ override[s][c] # None
        <5>1. override'[d][c] = override[s][c] /\ override'[s][c] = None
          BY <1>7, <4>2
        <5>2. b # s
          BY <3>3, <4>2, <5>1
        <5>. QED BY <1>5, <3>2, <3>3, <4>1, <4>2, <5>1, <5>2
      <4>3. CASE override'[a][c] = override[a][c]
        BY <3>2, <3>3, <4>1, <4>3
      <4>. QED BY <1>7, <3>3, <4>2, <4>3
    <3>. QED BY <2>1, <3>3
  <2>. QED BY <2>1 DEF OncePart
<1>17. EitherPart'
  <2>1. ASSUME NEW w \in Recs, rec'[w] \in RecType PROVE rec'[w].own \cap rec'[w].created = {}
    BY <1>9, <1>12, <2>1 DEF SubInv, EitherPart, RecKept
  <2>. QED BY <2>1 DEF EitherPart
<1>. QED BY <1>14, <1>15, <1>16, <1>17 DEF SubInv

LEMMA SubQuiet == ASSUME SubInv, UNCHANGED <<override, rec>> PROVE SubInv'
BY DEF SubInv, OriginPart, Origin, WrotePart, Wrote, OncePart, Escaped, EitherPart, MergedOn, Merged

LEMMA SubSteps == ASSUME MergeInv, SubInv, [Next]_vars PROVE SubInv'
<1>1. CASE UNCHANGED <<override, rec>>
  BY <1>1, SubQuiet
<1>2. CASE AccountStep
  BY <1>1, <1>2 DEF AccountStep, SignIn, BanUser, UnbanUser, rowVars
<1>7. CASE RequestStep
  BY <1>1, <1>7 DEF RequestStep, StartRequest, AddRow,
     GrantEligibility, SetPrimaryEmail, StartExchange, ReadSub, CreateToken, FailRequest, rowVars
<1>3. CASE CeremonyStep
  BY <1>1, <1>3 DEF CeremonyStep, StartMerge, CompleteDonorLink, Expire, ConfirmStart, rowVars
<1>4. CASE MergeStep
  BY <1>1, <1>4, SubTx DEF MergeStep, ConfirmCheck, MergeDerive, MergeThrows, rowVars
<1>5. CASE \E r \in Recs : ReverseMerge(r)
  BY <1>5, SubUndo
<1>6. CASE UNCHANGED vars
  BY <1>1, <1>6 DEF vars
<1>. QED BY <1>2, <1>3, <1>4, <1>5, <1>6, <1>7 DEF Next

(* No two accounts that can sign in present the same subject to a relying  *)
(* party (lib/oidc-subject.ts), for any chains and cycles of merges        *)
(* and any order of undoing them; except where a merge that created an     *)
(* override was undone after its survivor had been merged on.              *)
THEOREM SubjectsDiffer == Spec => []SubUnique
<1>1. Init => SubInv
  <2>. SUFFICES ASSUME Init PROVE SubInv
    OBVIOUS
  <2>1. \A r \in Recs : rec[r] \notin RecType
    BY NoRecIs DEF Init
  <2>2. \A u \in Users, c \in Clients : override[u][c] = None
    BY DEF Init
  <2>. QED BY <2>1, <2>2 DEF SubInv, OriginPart, WrotePart, Wrote, OncePart, EitherPart, Merged
<1>2. MergeInv /\ SubInv /\ [Next]_vars => SubInv'
  BY SubSteps
<1>3. MergeInv /\ SubInv => SubUnique
  <2>. SUFFICES ASSUME MergeInv, SubInv, NEW u \in Users, NEW v \in Users, NEW c \in Clients,
                       u # v, Live(u), Live(v), Sub(u, c) = Sub(v, c), ~Escaped(c)
                PROVE  FALSE
    <3>1. ASSUME NEW c \in Clients, Escaped(c)
          PROVE  \E r, q \in Recs : /\ rec[r].state = "reversed" /\ c \in rec[r].created
                                    /\ rec[q] # NoRec /\ rec[q].donor = rec[r].survivor
      <4>1. PICK r \in Recs : /\ rec[r].state = "reversed" /\ c \in rec[r].created
                              /\ MergedOn(r)
        BY <3>1 DEF Escaped
      <4>2. PICK q \in Recs : rec[q] \in RecType /\ rec[q].donor = rec[r].survivor
        BY <4>1 DEF MergedOn
      <4>. QED BY <4>1, <4>2, NoRecIs
    <3>. QED BY <3>1 DEF SubUnique
  <2>0. MergedPart
    BY DEF MergeInv
  <2>1. ASSUME NEW a \in Users, NEW b \in Users, Live(b), override[a][c] = b PROVE FALSE
    <3>1. b # None
      BY MergeConstants
    <3>2. PICK r \in Recs : Origin(a, c, r)
      BY <2>1, <3>1 DEF SubInv, OriginPart
    <3>3. rec[r] \in RecType /\ rec[r].donor = b /\ c \in rec[r].created
      BY <2>1, <3>2 DEF Origin
    <3>4. ~Merged(r)
      <4>1. Merged(r) => user[b].into = rec[r].survivor /\ rec[r].survivor \in Users
        BY <2>0, <3>3 DEF MergedPart, RecType
      <4>. QED BY <2>1, <4>1, MergeConstants DEF Live
    <3>5. rec[r].state = "reversed" /\ MergedOn(r)
      BY <3>2, <3>3, <3>4 DEF Origin, Merged, RecType
    <3>. QED BY <3>3, <3>5 DEF Escaped
  <2>2. override[u][c] # None /\ override[v][c] # None => override[u][c] # override[v][c]
    BY DEF SubInv, OncePart
  <2>. QED BY <2>1, <2>2 DEF Sub
<1>. QED BY <1>1, <1>2, <1>3, MergeInvariant, PTL DEF Spec
-----------------------------------------------------------------------------
(* What requests under way have read.                                      *)

LEMMA CurrentQuiet ==
    ASSUME ReqInv, CurrentInv, UNCHANGED <<override, req>>,
           \A u \in Users : user'[u].into = user[u].into
    PROVE  CurrentInv'
  BY DEF CurrentInv, Current, ReqInv, Live, Sub

LEMMA CurrentOvertaken ==
    ASSUME ReqInv, CurrentInv, NEW d, NEW s, req' = Overtaken(d, s), late' = late,
           \A u \in Users : u # d => user'[u].into = user[u].into,
           \A u \in Users : u # d /\ u # s => override'[u] = override[u]
    PROVE  CurrentInv'
<1>1. ASSUME NEW x \in Requests, req'[x].pc # "idle", ~req'[x].crossed
      PROVE  Current(x)'
  <2>0. /\ req'[x].pc = req[x].pc /\ req'[x].user = req[x].user
        /\ req'[x].client = req[x].client /\ req'[x].sub = req[x].sub
        /\ ~req[x].crossed /\ req[x].user # d
        /\ ~(req[x].user = s /\ req[x].pc = "create")
    BY <1>1, OvertakenIs
  <2>1. Current(x) /\ req[x].user \in Users
    BY <1>1, <2>0 DEF CurrentInv, ReqInv
  <2>2. Live(req[x].user)'
    BY <2>0, <2>1 DEF Current, Live
  <2>3. req[x].pc = "create" => override'[req[x].user] = override[req[x].user]
    BY <2>0, <2>1
  <2>. QED BY <2>0, <2>1, <2>2, <2>3 DEF Current, Live, Sub
<1>. QED BY <1>1 DEF CurrentInv

LEMMA CurrentSteps ==
    ASSUME MergeInv, ReqInv, CurrentInv, [Next]_vars
    PROVE  CurrentInv'
<1>0. Shapes
  BY DEF MergeInv
<1>1. CASE UNCHANGED <<user, override, req>>
  BY <1>1, CurrentQuiet
<1>2. CASE \E u \in Users : BanUser(u) \/ UnbanUser(u)
  BY <1>0, <1>2, BanSet, CurrentQuiet DEF BanUser, UnbanUser, traffic
<1>3. CASE RequestStep
  <2>0. UNCHANGED <<user, override>>
    BY <1>3 DEF RequestStep, StartRequest, AddRow, GrantEligibility, SetPrimaryEmail,
       StartExchange, ReadSub, CreateToken, FailRequest, rowVars
  <2>1. PICK x \in Requests :
           /\ \A o \in Requests : o # x => req'[o] = req[o]
           /\ \/ req'[x].pc = "idle"
              \/ Live(req'[x].user) /\ req'[x].pc # "create"
              \/ /\ ReadSub(x) /\ req[x].pc = "sub" /\ req'[x].user = req[x].user
                 /\ req'[x].crossed = req[x].crossed /\ req'[x].client = req[x].client
                 /\ req'[x].sub = Sub(req[x].user, req[x].client)
    BY <1>0, <1>3, ReqSteps DEF RequestStep
  <2>2. ASSUME NEW o \in Requests, req'[o].pc # "idle", ~req'[o].crossed PROVE Current(o)'
    <3>1. CASE o # x
      BY <2>0, <2>1, <2>2, <3>1 DEF CurrentInv, Current, Live, Sub
    <3>2. CASE o = x /\ Live(req'[x].user) /\ req'[x].pc # "create"
      BY <2>0, <3>2 DEF Current, Live
    <3>3. CASE /\ o = x /\ req[x].pc = "sub" /\ req'[x].user = req[x].user
               /\ req'[x].crossed = req[x].crossed /\ req'[x].client = req[x].client
               /\ req'[x].sub = Sub(req[x].user, req[x].client)
      <4>1. Live(req[x].user)
        BY <2>2, <3>3 DEF CurrentInv, Current
      <4>. QED BY <2>0, <3>3, <4>1 DEF Current, Live, Sub
    <3>. QED BY <2>1, <2>2, <3>1, <3>2, <3>3
  <2>. QED BY <2>2 DEF CurrentInv
<1>4. CASE \E p \in Confirmers : MergeTx(p)
  <2>0. PICK p \in Confirmers : MergeTx(p)
    BY <1>4
  <2>1. PICK q : q = conf[p]
    OBVIOUS
  <2>2. PICK d : d = q.donor
    OBVIOUS
  <2>3. PICK s : s = q.survivor
    OBVIOUS
  <2>4. PICK r \in Recs : \E x \in RecType : TxDone(d, s, r, x)
    BY <2>0, <2>1, <2>2, <2>3, TxIs
  <2>5. PICK x \in RecType : TxDone(d, s, r, x)
    BY <2>4
  <2>6. TxSubs(q, d, s, x)
    BY <2>0, <2>1, <2>2, <2>3, <2>5, TxSubsIs
  <2>7. req' = Overtaken(d, s) /\ late' = late
    BY <2>0, <2>1, <2>2, <2>3 DEF MergeTx
  <2>8. \A u \in Users : u # d => user'[u].into = user[u].into
    BY <2>5 DEF TxDone
  <2>9. \A u \in Users : u # d /\ u # s => override'[u] = override[u]
    BY <2>6 DEF TxSubs
  <2>. QED BY <2>7, <2>8, <2>9, CurrentOvertaken
<1>5. CASE \E r \in Recs : ReverseMerge(r)
  <2>0. PICK r \in Recs : ReverseMerge(r)
    BY <1>5
  <2>1. PICK x : x = rec[r]
    OBVIOUS
  <2>2. PICK z \in RecType : UndoDone(r, x, z)
    BY <2>0, <2>1, UndoIs
  <2>3. UndoSubs(x, z)
    BY <2>0, <2>1, <2>2, UndoSubsIs
  <2>4. req' = Overtaken(x.donor, x.survivor) /\ late' = late
    BY <2>0, <2>1 DEF ReverseMerge
  <2>5. \A u \in Users : u # x.donor => user'[u].into = user[u].into
    BY <2>2 DEF UndoDone
  <2>6. \A u \in Users : u # x.donor /\ u # x.survivor => override'[u] = override[u]
    BY <2>3 DEF UndoSubs
  <2>. QED BY <2>4, <2>5, <2>6, CurrentOvertaken
<1>6. CASE AccountStep
  BY <1>1, <1>2, <1>6 DEF AccountStep, SignIn, rowVars, traffic
<1>7. CASE CeremonyStep
  BY <1>1, <1>7 DEF CeremonyStep, StartMerge, CompleteDonorLink, Expire, ConfirmStart,
     rowVars, traffic
<1>8. CASE MergeStep
  BY <1>1, <1>4, <1>8 DEF MergeStep, ConfirmCheck, MergeDerive, MergeThrows, rowVars, traffic
<1>9. CASE UNCHANGED vars
  BY <1>1, <1>9 DEF vars
<1>. QED BY <1>3, <1>5, <1>6, <1>7, <1>8, <1>9 DEF Next

LEMMA CurrentAlways == Spec => []CurrentInv
<1>1. Init => CurrentInv
  BY IdleReqType DEF Init, CurrentInv
<1>2. MergeInv /\ ReqInv /\ CurrentInv /\ [Next]_vars => CurrentInv'
  BY CurrentSteps
<1>. QED BY <1>1, <1>2, MergeInvariant, PTL DEF Spec

\* A row a request inserts is its account's, which is live if nothing has
\* overtaken the request, and otherwise late.
LEMMA InsertIs ==
    ASSUME Shapes, ReqInv, CurrentInv, NEW x \in Requests, NEW i \in Ids, req[x].pc # "idle",
           owner' = [owner EXCEPT ![i] = req[x].user], Ends(x, {i})
    PROVE  /\ late \subseteq late'
           /\ \A j \in Ids : owner'[j] = owner[j] \/ j \in late'
                              \/ (owner'[j] \in Users /\ Live(owner'[j]))
<1>1. late \subseteq late' /\ (req[x].crossed => i \in late')
  BY EndsIs
<1>2. req[x].user \in Users /\ (~req[x].crossed => Live(req[x].user))
  BY DEF ReqInv, CurrentInv, Current
<1>. QED BY <1>1, <1>2 DEF Shapes

-----------------------------------------------------------------------------
(* Tombstones.                                                             *)

LEMMA SurvivorLives ==
    ASSUME Apart, TombPart, NEW d, NEW s, <<d, s>> \in Pairs
    PROVE  Live(s)
<1>1. s \in Users
  BY PairIs
<1>2. ASSUME ~Live(s) PROVE FALSE
  <2>1. PICK p \in Pairs : p[1] = s
    BY <1>1, <1>2 DEF TombPart
  <2>2. <<d, s>>[2] = s
    OBVIOUS
  <2>. QED BY <2>1, <2>2 DEF Apart
<1>. QED BY <1>2

LEMMA TombQuiet ==
    ASSUME TombPart, NoRowUnderTombstone, late \subseteq late',
           \A u \in Users : user'[u].into = user[u].into, owner \in [Ids -> Users \cup {None}],
           \A i \in Ids : owner'[i] = owner[i] \/ i \in late'
                             \/ (owner'[i] \in Users /\ Live(owner'[i]))
    PROVE  (TombPart /\ NoRowUnderTombstone)'
<1>1. TombPart'
  BY DEF TombPart, Live
<1>2. ASSUME NEW i \in Ids \ (Left \cup late'), owner'[i] # None
      PROVE  user'[owner'[i]].into = None
  <2>1. owner'[i] \in Users /\ Live(owner'[i])
    BY <1>2 DEF NoRowUnderTombstone
  <2>. QED BY <2>1 DEF Live
<1>. QED BY <1>1, <1>2 DEF NoRowUnderTombstone, Live

LEMMA TombTx ==
    ASSUME MergeInv, Apart, TombPart, NoRowUnderTombstone, NEW p \in Confirmers, MergeTx(p)
    PROVE  (TombPart /\ NoRowUnderTombstone)'
<1>0. Shapes
  BY DEF MergeInv
<1>1. PICK q : q = conf[p]
  OBVIOUS
<1>2. PICK d : d = q.donor
  OBVIOUS
<1>3. PICK s : s = q.survivor
  OBVIOUS
<1>4. PICK r \in Recs : \E x \in RecType : TxDone(d, s, r, x)
  BY <1>1, <1>2, <1>3, TxIs
<1>5. PICK x \in RecType : TxDone(d, s, r, x)
  BY <1>4
<1>6. <<d, s>> \in Pairs /\ d \in Users /\ s \in Users /\ d # s
  BY <1>5, PairIs DEF TxDone
<1>7. /\ x.donor = d /\ x.before = owner /\ RecRight(x) /\ user'[d].into = s
      /\ \A u \in Users : u # d => user'[u].into = user[u].into
  BY <1>5 DEF TxDone
<1>8. TombPart'
  <2>1. ASSUME NEW u \in Users, user'[u].into # None PROVE \E o \in Pairs : o[1] = u
    <3>1. CASE u = d
      <4>1. <<d, s>>[1] = u
        BY <3>1
      <4>. QED BY <1>6, <4>1
    <3>2. CASE u # d
      BY <1>7, <2>1, <3>2 DEF TombPart, Live
    <3>. QED BY <3>1, <3>2
  <2>. QED BY <2>1 DEF TombPart, Live
<1>9. ASSUME NEW i \in Ids \ (Left \cup late), owner'[i] # None
      PROVE  user'[owner'[i]].into = None
  <2>1. CASE owner'[i] = s
    <3>1. Live(s)
      BY <1>6, SurvivorLives
    <3>. QED BY <1>6, <1>7, <2>1, <3>1 DEF Live
  <2>2. CASE i \notin x.moved /\ i \notin Recreated(x) /\ owner'[i] = owner[i]
    <3>1. owner[i] # d
      BY <1>7, <2>2 DEF RecRight
    <3>2. owner[i] \in Users /\ Live(owner[i])
      BY <1>0, <1>9, <2>2 DEF Shapes, NoRowUnderTombstone
    <3>. QED BY <1>7, <2>2, <3>1, <3>2 DEF Live
  <2>. QED BY <1>5, <1>9, <2>1, <2>2 DEF TxDone
<1>10. late' = late
  BY DEF MergeTx
<1>. QED BY <1>8, <1>9, <1>10 DEF NoRowUnderTombstone, Live

LEMMA TombUndo ==
    ASSUME MergeInv, Apart, TombPart, NoRowUnderTombstone, NEW r \in Recs, ReverseMerge(r)
    PROVE  (TombPart /\ NoRowUnderTombstone)'
<1>0. Shapes /\ RecPart
  BY DEF MergeInv
<1>1. PICK x : x = rec[r]
  OBVIOUS
<1>2. PICK z \in RecType : UndoDone(r, x, z)
  BY <1>1, UndoIs
<1>3. x \in RecType /\ <<x.donor, x.survivor>> \in Pairs
  BY <1>2 DEF UndoDone, RecRight
<1>4. x.donor \in Users /\ x.survivor \in Users /\ x.donor # x.survivor /\ Live(x.survivor)
  BY <1>3, PairIs, SurvivorLives
<1>5. /\ user'[x.donor].into = None
      /\ \A u \in Users : u # x.donor => user'[u].into = user[u].into
  BY <1>2 DEF UndoDone
<1>6. TombPart'
  BY <1>5 DEF TombPart, Live
<1>7. ASSUME NEW u \in Users, Live(u) \/ u = x.donor PROVE user'[u].into = None
  BY <1>5, <1>7 DEF Live
<1>8. ASSUME NEW i \in Ids \ (Left \cup late), owner'[i] # None
      PROVE  user'[owner'[i]].into = None
  <2>1. CASE owner'[i] \in {x.donor, x.survivor}
    BY <1>4, <1>7, <2>1
  <2>2. CASE owner'[i] = owner[i]
    <3>1. owner[i] \in Users /\ Live(owner[i])
      BY <1>0, <1>8, <2>2 DEF Shapes, NoRowUnderTombstone
    <3>. QED BY <1>7, <2>2, <3>1
  <2>. QED BY <1>2, <2>1, <2>2 DEF UndoDone
<1>9. late' = late
  BY DEF ReverseMerge
<1>. QED BY <1>6, <1>8, <1>9 DEF NoRowUnderTombstone, Live

LEMMA TombSteps ==
    ASSUME MergeInv, ReqInv, CurrentInv, ApartInv, [Next]_vars
    PROVE  ApartInv'
<1>. SUFFICES ASSUME Apart PROVE (TombPart /\ NoRowUnderTombstone)'
  BY DEF ApartInv, Apart
<1>0. Shapes /\ TombPart /\ NoRowUnderTombstone /\ owner \in [Ids -> Users \cup {None}]
  BY DEF MergeInv, ApartInv, Shapes
<1>1. CASE UNCHANGED <<user, owner>> /\ late \subseteq late'
  BY <1>0, <1>1, TombQuiet
<1>2. CASE \E p \in Confirmers : MergeTx(p)
  BY <1>0, <1>2, TombTx
<1>3. CASE \E r \in Recs : ReverseMerge(r)
  BY <1>0, <1>3, TombUndo
<1>4. CASE AccountStep
  <2>1. PICK u \in Users : SignIn(u) \/ BanUser(u) \/ UnbanUser(u)
    BY <1>4 DEF AccountStep
  <2>2. CASE SignIn(u)
    BY <1>1, <2>2 DEF SignIn, rowVars, traffic
  <2>3. CASE BanUser(u) \/ UnbanUser(u)
    BY <1>0, <2>3, BanSet, TombQuiet DEF BanUser, UnbanUser, traffic
  <2>. QED BY <2>1, <2>2, <2>3
<1>8. CASE RequestStep
  <2>1. PICK x \in Requests :
            \/ \E u \in Users : StartRequest(x, u)
            \/ \E i \in Rows \cup Passkeys \cup Left : AddRow(x, i)
            \/ \E e \in Eligs, d \in Dates : GrantEligibility(x, e, d)
            \/ \E e \in Emails : SetPrimaryEmail(x, e)
            \/ \E u \in Users, c \in Clients : StartExchange(x, u, c)
            \/ ReadSub(x)
            \/ \E t \in Tokens : CreateToken(x, t)
            \/ FailRequest(x)
    BY <1>8 DEF RequestStep
  <2>2. CASE \/ \E u \in Users : StartRequest(x, u)
             \/ \E u \in Users, c \in Clients : StartExchange(x, u, c)
             \/ ReadSub(x)
    BY <1>1, <2>2 DEF StartRequest, StartExchange, ReadSub, rowVars
  <2>3. CASE FailRequest(x) \/ \E e \in Emails : SetPrimaryEmail(x, e)
    BY <1>1, <2>3 DEF FailRequest, SetPrimaryEmail, rowVars, Ends
  <2>4. CASE \E i \in Ids : /\ req[x].pc # "idle" /\ user' = user /\ Ends(x, {i})
                            /\ owner' = [owner EXCEPT ![i] = req[x].user]
    <3>1. /\ late \subseteq late'
          /\ \A j \in Ids : owner'[j] = owner[j] \/ j \in late'
                             \/ (owner'[j] \in Users /\ Live(owner'[j]))
      BY <1>0, <2>4, InsertIs
    <3>. QED BY <1>0, <2>4, <3>1, TombQuiet
  <2>5. CASE \/ \E i \in Rows \cup Passkeys \cup Left : AddRow(x, i)
             \/ \E e \in Eligs, d \in Dates : GrantEligibility(x, e, d)
             \/ \E t \in Tokens : CreateToken(x, t)
    BY <2>4, <2>5 DEF AddRow, GrantEligibility, CreateToken, Ids
  <2>. QED BY <2>1, <2>2, <2>3, <2>5
<1>5. CASE CeremonyStep
  BY <1>1, <1>5 DEF CeremonyStep, StartMerge, CompleteDonorLink, Expire, ConfirmStart,
     rowVars, traffic
<1>6. CASE MergeStep
  BY <1>1, <1>2, <1>6 DEF MergeStep, ConfirmCheck, MergeDerive, MergeThrows, rowVars, traffic
<1>7. CASE UNCHANGED vars
  BY <1>1, <1>7 DEF vars
<1>. QED BY <1>3, <1>4, <1>5, <1>6, <1>7, <1>8 DEF Next

(* Where nobody is both a donor and a survivor, no row of a table that     *)
(* mergeAccounts re-points belongs to a tombstone, whatever ceremonies     *)
(* overlap and whatever is undone, unless a request that had passed its    *)
(* session check, or a token exchange that had read its account, before    *)
(* the merge committed inserted it afterwards.  Where an account is both,  *)
(* the transaction that does not look at its survivor can merge into a     *)
(* tombstone (run merge_cycle).                                            *)
THEOREM TombstonesAreEmpty == Spec => [](Apart => NoRowUnderTombstone)
<1>1. Init => ApartInv
  <2>. SUFFICES ASSUME Init PROVE TombPart /\ NoRowUnderTombstone
    BY DEF ApartInv
  <2>1. ASSUME NEW u \in Users PROVE Live(u)
    BY DEF Init, Live
  <2>2. \A i \in Ids : owner[i] # None => owner[i] \in Users
    BY MergeInit DEF MergeInv, Shapes
  <2>. QED BY <2>1, <2>2 DEF TombPart, NoRowUnderTombstone
<1>2. MergeInv /\ ReqInv /\ CurrentInv /\ ApartInv /\ [Next]_vars => ApartInv'
  BY TombSteps
<1>3. ApartInv => (Apart => NoRowUnderTombstone)
  BY DEF ApartInv
<1>. QED BY <1>1, <1>2, <1>3, MergeInvariant, CurrentAlways, PTL DEF Spec

-----------------------------------------------------------------------------
(* Relying parties keep the subject they know an account under.            *)

Stranded(t) ==
    \E r \in Recs : Merged(r) /\ t \in rec[r].moved /\ tok[t].client \in rec[r].stranded

LeftBehind(t) ==
    \E r \in Recs : /\ rec[r] \in RecType /\ rec[r].state = "reversed"
                    /\ owner[t] = rec[r].survivor /\ tok[t].sub = rec[r].donor
                    /\ tok[t].client \in rec[r].created

Passed(t) ==
    \E r \in Recs : /\ rec[r] \in RecType /\ owner[t] = rec[r].survivor
                    /\ tok[t].client \in rec[r].own

Known(t) ==
    \/ Sub(owner[t], tok[t].client) = tok[t].sub
    \/ Stranded(t) \/ LeftBehind(t) \/ Passed(t)

\* No merge has been undone so far.
NoneUndone == \A r \in Recs : rec[r].state # "reversed"

IsDonor(u) == \E p \in Pairs : p[1] = u

\* Where nobody is both a donor and a survivor: a donor has no overrides, so
\* its tokens are under its own subject, and a merge that stands has them at
\* its survivor.
PlainPart ==
    /\ \A u \in Users, c \in Clients : IsDonor(u) => override[u][c] = None
    /\ \A r \in Recs : rec[r] \in RecType => rec[r].own = {}
    /\ \A t \in Tokens \ late : owner[t] # None /\ IsDonor(owner[t]) => tok[t].sub = owner[t]
    /\ \A r \in Recs, t \in Tokens \ late : Merged(r) /\ t \in rec[r].moved =>
          owner[t] = rec[r].survivor /\ tok[t].sub = rec[r].donor

KeptInv ==
    /\ Apart => PlainPart
    /\ Apart \/ NoneUndone => \A t \in Tokens \ late : owner[t] # None => Known(t)

LEMMA KnownIs ==
    ASSUME Shapes, \A t \in Tokens \ late : owner[t] # None => Known(t)
    PROVE  SubKept
<1>. SUFFICES ASSUME NEW t \in Tokens \ late, owner[t] # None
              PROVE
        \/ Sub(owner[t], tok[t].client) = tok[t].sub
        \/ \E r \in Recs : /\ rec[r].state = "merged"
                           /\ t \in rec[r].moved
                           /\ tok[t].client \in rec[r].stranded
        \/ \E r \in Recs : /\ rec[r].state = "reversed"
                           /\ owner[t] = rec[r].survivor
                           /\ tok[t].sub = rec[r].donor
                           /\ tok[t].client \in rec[r].created
        \/ \E r \in Recs : rec[r] # NoRec /\ owner[t] = rec[r].survivor
                           /\ tok[t].client \in rec[r].own
  BY DEF SubKept
<1>1. Known(t)
  OBVIOUS
<1>. QED BY <1>1, NoRecIs DEF Known, Stranded, LeftBehind, Passed, Merged

LEMMA DonorNot ==
    ASSUME Apart, NEW d, NEW s, <<d, s>> \in Pairs
    PROVE  IsDonor(d) /\ ~IsDonor(s)
<1>1. <<d, s>>[1] = d /\ <<d, s>>[2] = s
  OBVIOUS
<1>. QED BY <1>1 DEF Apart, IsDonor

LEMMA TokenOnly ==
    ASSUME NEW t \in Tokens
    PROVE  t \in Ids /\ t \notin Eligs /\ t \notin Passkeys /\ t \notin Rows /\ t \notin Left
BY MergeConstants DEF Ids

LEMMA NoTokenRecreated ==
    ASSUME NEW x \in RecType, NEW t \in Tokens
    PROVE  t \notin Recreated(x)
<1>1. ASSUME t \in Recreated(x) PROVE FALSE
  <2>1. PICK y \in x.losers : y[1] = t
    BY <1>1 DEF Recreated
  <2>2. y \in Eligs \X Users
    BY DEF RecType
  <2>. QED BY <2>1, <2>2, TokenOnly
<1>. QED BY <1>1

\* Steps that leave tokens, overrides and records alone.
LEMMA KeptQuiet ==
    ASSUME KeptInv, UNCHANGED <<tok, override, rec>>, late \subseteq late',
           \A t \in Tokens : owner'[t] = owner[t]
    PROVE  KeptInv'
<1>1. Apart' = Apart /\ NoneUndone' = NoneUndone /\ \A r \in Recs : Merged(r)' = Merged(r)
  BY DEF Apart, NoneUndone, Merged
<1>2. ASSUME NEW t \in Tokens, Known(t) PROVE Known(t)'
  BY <1>2 DEF Known, Stranded, LeftBehind, Passed, Merged, Sub
<1>3. PlainPart => PlainPart'
  BY DEF PlainPart, IsDonor, Merged
<1>. QED BY <1>1, <1>2, <1>3 DEF KeptInv

LEMMA KeptIssue ==
    ASSUME MergeInv, ReqInv, CurrentInv, KeptInv, NEW x \in Requests, NEW t \in Tokens,
           CreateToken(x, t)
    PROVE  KeptInv'
<1>0. Shapes /\ RecPart /\ t \in Ids
  BY TokenOnly DEF MergeInv
<1>1. PICK u \in Users, c \in Clients : u = req[x].user /\ c = req[x].client
  BY <1>0, TokenIs
<1>9. /\ u # None /\ late \subseteq late' /\ (t \notin late' => ~req[x].crossed)
      /\ (~req[x].crossed => req[x].sub = Sub(u, c))
  <2>1. Ends(x, {t}) /\ req[x].pc = "create"
    BY DEF CreateToken
  <2>2. late \subseteq late' /\ (t \notin late' => ~req[x].crossed)
    BY <1>0, <2>1, EndsIs
  <2>. QED BY <1>1, <2>1, <2>2, MergeConstants DEF CurrentInv, Current
<1>2. /\ owner[t] = None /\ owner'[t] = u /\ override' = override /\ rec' = rec
      /\ \A o \in Tokens : o # t => owner'[o] = owner[o] /\ tok'[o] = tok[o]
  BY <1>0, <1>1, TokenIs DEF Shapes, Ids
<1>3. tok'[t].client = c /\ (t \notin late' => tok'[t].sub = Sub(u, c))
  BY <1>0, <1>1, <1>9, TokenIs
<1>4. Apart' = Apart /\ NoneUndone' = NoneUndone /\ \A r \in Recs : Merged(r)' = Merged(r)
  BY <1>2 DEF Apart, NoneUndone, Merged
<1>5. ASSUME NEW o \in Tokens, o # t, Known(o) PROVE Known(o)'
  BY <1>2, <1>5 DEF Known, Stranded, LeftBehind, Passed, Merged, Sub
<1>6. t \notin late' => Known(t)'
  BY <1>2, <1>3 DEF Known, Sub
<1>7. ASSUME PlainPart PROVE PlainPart'
  <2>1. IsDonor(u) => Sub(u, c) = u
    BY <1>7 DEF PlainPart, Sub
  <2>2. \A o \in Tokens \ late' : owner'[o] # None /\ IsDonor(owner'[o]) => tok'[o].sub = owner'[o]
    BY <1>2, <1>3, <1>7, <1>9, <2>1 DEF PlainPart
  <2>3. ASSUME NEW r \in Recs, Merged(r), t \in rec[r].moved, t \notin late' PROVE FALSE
    <3>1. owner[t] = rec[r].survivor
      BY <1>7, <1>9, <2>3 DEF PlainPart
    <3>2. rec[r].survivor # None
      BY <1>0, <2>3, RecPair DEF Merged
    <3>. QED BY <1>2, <3>1, <3>2
  <2>4. ASSUME NEW r \in Recs, NEW o \in Tokens \ late', Merged(r), o \in rec[r].moved
        PROVE  owner'[o] = rec[r].survivor /\ tok'[o].sub = rec[r].donor
    <3>1. o # t
      BY <2>3, <2>4
    <3>. QED BY <1>2, <1>7, <1>9, <2>4, <3>1 DEF PlainPart
  <2>5. /\ \A v \in Users, e \in Clients : IsDonor(v) => override[v][e] = None
        /\ \A r \in Recs : rec[r] \in RecType => rec[r].own = {}
    BY <1>7 DEF PlainPart
  <2>. QED BY <1>2, <2>2, <2>4, <2>5 DEF PlainPart, IsDonor, Merged
<1>8. (Apart \/ NoneUndone => \A o \in Tokens \ late : owner[o] # None => Known(o))'
  BY <1>2, <1>4, <1>5, <1>6, <1>9 DEF KeptInv
<1>. QED BY <1>4, <1>7, <1>8 DEF KeptInv

\* The merge: a token that comes along is stranded, or kept by an override.
LEMMA KeptTx ==
    ASSUME MergeInv, SubInv, KeptInv, NEW p \in Confirmers, MergeTx(p)
    PROVE  KeptInv'
<1>0. Shapes /\ RecPart /\ MergedPart /\ TokPart
  BY DEF MergeInv
<1>1. PICK q : q = conf[p]
  OBVIOUS
<1>2. PICK d : d = q.donor
  OBVIOUS
<1>3. PICK s : s = q.survivor
  OBVIOUS
<1>4. PICK r \in Recs : \E x \in RecType : TxDone(d, s, r, x)
  BY <1>1, <1>2, <1>3, TxIs
<1>5. PICK x \in RecType : TxDone(d, s, r, x)
  BY <1>4
<1>6. <<d, s>> \in Pairs /\ d \in Users /\ s \in Users /\ d # s /\ d # None /\ s # None
  BY <1>5, PairIs DEF TxDone
<1>7. TxSubs(q, d, s, x)
  BY <1>1, <1>2, <1>3, <1>5, TxSubsIs
<1>8. /\ rec'[r] = x /\ x.state = "merged" /\ x.donor = d /\ x.survivor = s /\ Live(d)
      /\ \A o \in Recs : rec[o] # NoRec => o # r /\ rec'[o] = rec[o]
      /\ \A o \in Recs : o # r => rec'[o] = rec[o]
  BY <1>0, <1>5 DEF TxDone, Shapes
<1>9. tok' = tok /\ late' = late /\ UsedClients(d) = q.clients
  BY <1>1, <1>2 DEF MergeTx, Commits, Drifted
<1>10. ASSUME NEW t \in Tokens
       PROVE  \/ t \in x.moved /\ owner[t] = d /\ owner'[t] = s
              \/ t \notin x.moved /\ owner[t] # d /\ owner'[t] = owner[t]
  <2>1. t \in Ids /\ t \notin Recreated(x)
    BY TokenOnly, NoTokenRecreated
  <2>2. t \in x.moved <=> owner[t] = d
    BY <1>5, <2>1, TokenOnly DEF TxDone, RecRight
  <2>. QED BY <1>5, <2>1, <2>2 DEF TxDone
<1>11. ASSUME NEW t \in Tokens, NEW u, owner[t] = u PROVE tok[t].client \in UsedClients(u)
  BY <1>11, TokenOnly DEF UsedClients, OwnedBy
<1>12. \A o \in Recs : Merged(o)' <=> Merged(o) \/ o = r
  <2>1. Merged(r)'
    BY <1>8 DEF Merged
  <2>2. \A o \in Recs : o # r => (Merged(o)' <=> Merged(o))
    BY <1>8 DEF Merged
  <2>. QED BY <2>1, <2>2
<1>13. \A o \in Recs : rec[o] \in RecType => o # r /\ rec'[o] = rec[o] /\ rec'[o] \in RecType
  BY <1>8, NoRecIs
<1>14. \A t \in Tokens : Stranded(t) => Stranded(t)'
  <2>. SUFFICES ASSUME NEW t \in Tokens, NEW o \in Recs, Merged(o), t \in rec[o].moved,
                       tok[t].client \in rec[o].stranded
                PROVE  Stranded(t)'
    BY DEF Stranded
  <2>1. rec'[o] = rec[o] /\ Merged(o)'
    BY <1>12, <1>13 DEF Merged
  <2>. QED BY <1>9, <2>1 DEF Stranded
<1>15. ASSUME NEW t \in Tokens, owner'[t] = owner[t], LeftBehind(t) \/ Passed(t)
       PROVE  (LeftBehind(t) \/ Passed(t))'
  <2>1. LeftBehind(t) => LeftBehind(t)'
    BY <1>9, <1>13, <1>15 DEF LeftBehind
  <2>2. Passed(t) => Passed(t)'
    BY <1>9, <1>13, <1>15 DEF Passed
  <2>. QED BY <1>15, <2>1, <2>2
<1>16. Apart' = Apart /\ (NoneUndone' => NoneUndone)
  <2>1. NoneUndone' => NoneUndone
    <3>. SUFFICES ASSUME NoneUndone', NEW o \in Recs PROVE rec[o].state # "reversed"
      BY DEF NoneUndone
    <3>1. CASE rec[o] = NoRec
      BY <3>1 DEF NoRec
    <3>2. CASE rec[o] # NoRec
      BY <1>8, <3>2 DEF NoneUndone
    <3>. QED BY <3>1, <3>2
  <2>. QED BY <2>1 DEF Apart
<1>17. ASSUME Apart \/ NoneUndone, NEW t \in Tokens, t \in x.moved, Known(t),
              tok[t].client \in x.created
       PROVE  tok[t].sub = d \/ Stranded(t)
  <2>1. owner[t] = d
    BY <1>6, <1>10, <1>17
  <2>2. PICK c \in Clients : c = tok[t].client
    BY <1>7, <1>17 DEF TxSubs
  <2>3. override[d][c] = None
    <3>1. c \notin OwnMoved(q) /\ override[s][c] = None
      BY <1>7, <1>17, <2>2 DEF TxSubs
    <3>. QED BY <1>2, <1>3, <3>1 DEF OwnMoved, OverrideClients
  <2>4. ASSUME NEW o \in Recs, rec[o] \in RecType, rec[o].survivor = d PROVE ~Apart
    <3>1. <<rec[o].donor, d>> \in Pairs
      BY <1>0, <2>4, RecPair
    <3>. QED BY <1>6, <3>1, DonorNot
  <2>5. ~LeftBehind(t)
    <3>1. ASSUME NEW o \in Recs, rec[o] \in RecType, rec[o].state = "reversed",
                 owner[t] = rec[o].survivor
          PROVE  FALSE
      BY <1>17, <2>1, <2>4, <3>1 DEF NoneUndone
    <3>. QED BY <3>1 DEF LeftBehind
  <2>6. ~Passed(t)
    <3>1. ASSUME NEW o \in Recs, rec[o] \in RecType, owner[t] = rec[o].survivor,
                 c \in rec[o].own
          PROVE  FALSE
      <4>1. NoneUndone
        BY <1>17, <2>1, <2>4, <3>1
      <4>2. Merged(o) /\ Wrote(o, c)
        BY <3>1, <4>1 DEF NoneUndone, Merged, RecType, Wrote
      <4>3. MergedOn(o)
        BY <2>1, <2>3, <3>1, <4>2 DEF SubInv, WrotePart
      <4>4. PICK k \in Recs : rec[k] \in RecType /\ rec[k].donor = d
        BY <2>1, <3>1, <4>3 DEF MergedOn
      <4>5. Merged(k)
        BY <4>1, <4>4 DEF NoneUndone, Merged, RecType
      <4>6. user[d].into = rec[k].survivor /\ rec[k].survivor # None
        BY <1>0, <4>4, <4>5, RecPair DEF MergedPart
      <4>. QED BY <1>8, <4>6 DEF Live
    <3>. QED BY <2>2, <3>1 DEF Passed
  <2>. QED BY <1>17, <2>1, <2>2, <2>3, <2>5, <2>6 DEF Known, Sub
<1>18. ASSUME Apart \/ NoneUndone, NEW t \in Tokens, t \in x.moved, Known(t)
       PROVE  Known(t)'
  <2>1. owner[t] = d /\ owner'[t] = s
    BY <1>6, <1>10, <1>18
  <2>2. PICK c \in Clients : c = tok[t].client
    BY <1>0, <1>6, <2>1 DEF TokPart
  <2>3. CASE c \in x.created
    <3>1. override'[s][c] = d
      BY <1>7, <2>2, <2>3 DEF TxSubs
    <3>. QED BY <1>6, <1>9, <1>14, <1>17, <1>18, <2>1, <2>2, <2>3, <3>1 DEF Known, Sub
  <2>4. CASE c \notin x.created
    <3>1. c \in x.stranded
      BY <1>7, <1>9, <1>11, <2>1, <2>2, <2>4 DEF TxSubs
    <3>2. Stranded(t)'
      BY <1>8, <1>9, <1>12, <1>18, <2>2, <3>1 DEF Stranded
    <3>. QED BY <3>2 DEF Known
  <2>. QED BY <2>3, <2>4
<1>19. ASSUME NEW t \in Tokens, t \notin x.moved, owner[t] # None, Known(t)
       PROVE  Known(t)'
  <2>1. owner'[t] = owner[t] /\ owner[t] # d /\ owner[t] \in Users
    BY <1>0, <1>10, <1>19, TokenOnly DEF Shapes
  <2>2. PICK c \in Clients : c = tok[t].client
    BY <1>0, <1>19 DEF TokPart
  <2>3. CASE override'[owner[t]][c] = override[owner[t]][c]
    BY <1>9, <1>14, <1>15, <1>19, <2>1, <2>2, <2>3 DEF Known, Sub
  <2>4. CASE override'[owner[t]][c] # override[owner[t]][c]
    <3>1. owner[t] = s
      BY <1>7, <2>1, <2>4 DEF TxSubs
    <3>2. c \notin x.created
      BY <1>3, <1>7, <1>11, <2>2, <3>1 DEF TxSubs, Kept
    <3>3. c \in x.own
      BY <1>7, <2>4, <3>1, <3>2 DEF TxSubs
    <3>4. Passed(t)'
      BY <1>8, <1>9, <2>1, <2>2, <3>1, <3>3 DEF Passed
    <3>. QED BY <3>4 DEF Known
  <2>. QED BY <2>3, <2>4
<1>20. (Apart \/ NoneUndone => \A t \in Tokens \ late : owner[t] # None => Known(t))'
  <2>. SUFFICES ASSUME Apart' \/ NoneUndone', NEW t \in Tokens \ late, owner'[t] # None
                PROVE  Known(t)'
    BY <1>9
  <2>1. owner[t] # None
    BY <1>6, <1>10
  <2>2. Apart \/ NoneUndone
    BY <1>16
  <2>3. Known(t)
    BY <2>1, <2>2 DEF KeptInv
  <2>. QED BY <1>18, <1>19, <2>1, <2>2, <2>3
<1>21. ASSUME Apart, PlainPart PROVE PlainPart'
  <2>1. IsDonor(d) /\ ~IsDonor(s)
    BY <1>6, <1>21, DonorNot
  <2>2. x.own = {}
    BY <1>6, <1>7, <1>21, <2>1 DEF TxSubs, PlainPart
  <2>3. ASSUME NEW u \in Users, NEW c \in Clients, IsDonor(u) PROVE override'[u][c] = None
    <3>1. u # s /\ override[u][c] = None
      BY <1>21, <2>1, <2>3 DEF PlainPart
    <3>2. override'[u][c] = override[u][c]
      BY <1>7, <2>2, <3>1 DEF TxSubs
    <3>. QED BY <3>1, <3>2
  <2>4. ASSUME NEW o \in Recs, rec'[o] \in RecType PROVE rec'[o].own = {}
    BY <1>8, <1>21, <2>2, <2>4 DEF PlainPart
  <2>5. ASSUME NEW t \in Tokens \ late, owner'[t] # None, IsDonor(owner'[t])
        PROVE  tok[t].sub = owner'[t]
    <3>1. owner'[t] = owner[t]
      BY <1>10, <2>1, <2>5
    <3>. QED BY <1>21, <2>5, <3>1 DEF PlainPart
  <2>6. ASSUME NEW o \in Recs, NEW t \in Tokens \ late, Merged(o)', t \in rec'[o].moved
        PROVE  owner'[t] = rec'[o].survivor /\ tok[t].sub = rec'[o].donor
    <3>1. CASE o = r
      BY <1>6, <1>8, <1>10, <1>21, <2>1, <2>6, <3>1 DEF PlainPart
    <3>2. CASE o # r
      <4>1. Merged(o) /\ rec'[o] = rec[o]
        BY <1>8, <1>12, <2>6, <3>2
      <4>2. owner[t] = rec[o].survivor /\ tok[t].sub = rec[o].donor
        BY <1>21, <2>6, <4>1 DEF PlainPart
      <4>3. <<rec[o].donor, rec[o].survivor>> \in Pairs
        BY <1>0, <4>1, RecPair DEF Merged
      <4>4. owner[t] # d
        BY <1>21, <2>1, <4>2, <4>3, DonorNot
      <4>. QED BY <1>10, <4>1, <4>2, <4>4
    <3>. QED BY <3>1, <3>2
  <2>. QED BY <1>9, <2>3, <2>4, <2>5, <2>6 DEF PlainPart, IsDonor
<1>. QED BY <1>16, <1>20, <1>21 DEF KeptInv

\* Undoing: what goes home is under the donor's own subject; what stays was
\* issued under it by the merge, or does not meet the override taken away.
LEMMA KeptUndo ==
    ASSUME MergeInv, KeptInv, NEW r \in Recs, ReverseMerge(r)
    PROVE  KeptInv'
<1>0. Shapes /\ RecPart /\ MergedPart /\ TokPart
  BY DEF MergeInv
<1>1. PICK x : x = rec[r]
  OBVIOUS
<1>2. PICK z \in RecType : UndoDone(r, x, z)
  BY <1>1, UndoIs
<1>3. PICK d : d = x.donor
  OBVIOUS
<1>4. PICK s : s = x.survivor
  OBVIOUS
<1>5. /\ x \in RecType /\ <<d, s>> \in Pairs /\ d \in Users /\ s \in Users /\ d # s
      /\ d # None /\ s # None /\ Merged(r)
  <2>1. x \in RecType /\ x.state = "merged"
    BY <1>2 DEF UndoDone
  <2>. QED BY <1>0, <1>1, <1>3, <1>4, <2>1, RecPair DEF Merged
<1>6. UndoSubs(x, z)
  BY <1>1, <1>2, UndoSubsIs
<1>7. /\ rec'[r] = z /\ z.state = "reversed" /\ z.donor = d /\ z.survivor = s
      /\ z.created = x.created /\ z.own = x.own
      /\ \A o \in Recs : o # r => rec'[o] = rec[o]
  BY <1>0, <1>2, <1>3, <1>4, <1>6 DEF UndoDone, UndoSubs, Shapes
<1>8. tok' = tok /\ late' = late
  BY DEF ReverseMerge
<1>9. ASSUME NEW t \in Tokens
      PROVE  \/ t \in x.moved /\ owner[t] # None /\ owner'[t] = d
             \/ (t \notin x.moved \/ owner[t] = None) /\ owner'[t] = owner[t]
  <2>1. t \in Ids /\ t \notin Passkeys /\ t \notin Recreated(x)
    BY <1>5, TokenOnly, NoTokenRecreated
  <2>2. t \in GoesHome(x) <=> t \in x.moved /\ owner[t] # None
    BY <2>1 DEF GoesHome
  <2>. QED BY <1>2, <1>3, <2>1, <2>2 DEF UndoDone
<1>10. \A o \in Recs : Merged(o)' <=> Merged(o) /\ o # r
  <2>1. ~Merged(r)'
    BY <1>7 DEF Merged
  <2>2. \A o \in Recs : o # r => (Merged(o)' <=> Merged(o))
    BY <1>7 DEF Merged
  <2>. QED BY <2>1, <2>2
<1>11. ~NoneUndone' /\ Apart' = Apart
  BY <1>7 DEF NoneUndone, Apart
<1>. SUFFICES ASSUME Apart
              PROVE  PlainPart' /\ \A t \in Tokens \ late : owner'[t] # None => Known(t)'
  BY <1>8, <1>11 DEF KeptInv
<1>12. PlainPart /\ \A t \in Tokens \ late : owner[t] # None => Known(t)
  BY DEF KeptInv
<1>13. IsDonor(d) /\ ~IsDonor(s)
  BY <1>5, DonorNot
<1>14. x.own = {} /\ \A c \in Clients : override'[d][c] = None
  BY <1>1, <1>3, <1>4, <1>5, <1>6, <1>12, <1>13 DEF UndoSubs, PlainPart
<1>15. \A t \in Tokens \ late : t \in x.moved => owner[t] = s /\ tok[t].sub = d
  BY <1>1, <1>3, <1>4, <1>5, <1>12 DEF PlainPart
<1>16. PlainPart'
  <2>1. ASSUME NEW u \in Users, NEW c \in Clients, IsDonor(u) PROVE override'[u][c] = None
    <3>1. u # s /\ override[u][c] = None
      BY <1>12, <1>13, <2>1 DEF PlainPart
    <3>2. CASE u = d
      BY <1>14, <3>2
    <3>3. CASE u # d
      BY <1>3, <1>4, <1>6, <3>1, <3>3 DEF UndoSubs
    <3>. QED BY <3>2, <3>3
  <2>2. ASSUME NEW o \in Recs, rec'[o] \in RecType PROVE rec'[o].own = {}
    BY <1>7, <1>12, <1>14, <2>2 DEF PlainPart
  <2>3. ASSUME NEW t \in Tokens \ late, owner'[t] # None, IsDonor(owner'[t])
        PROVE  tok[t].sub = owner'[t]
    <3>1. CASE t \in x.moved /\ owner[t] # None /\ owner'[t] = d
      BY <1>15, <3>1
    <3>2. CASE owner'[t] = owner[t]
      BY <1>12, <2>3, <3>2 DEF PlainPart
    <3>. QED BY <1>9, <3>1, <3>2
  <2>4. ASSUME NEW o \in Recs, NEW t \in Tokens \ late, Merged(o)', t \in rec'[o].moved
        PROVE  owner'[t] = rec'[o].survivor /\ tok[t].sub = rec'[o].donor
    <3>1. Merged(o) /\ o # r /\ rec'[o] = rec[o]
      BY <1>7, <1>10, <2>4
    <3>2. owner[t] = rec[o].survivor /\ tok[t].sub = rec[o].donor
      BY <1>12, <2>4, <3>1 DEF PlainPart
    <3>3. t \notin x.moved
      BY <1>0, <1>1, <1>3, <1>5, <1>15, <3>1, <3>2 DEF MergedPart
    <3>. QED BY <1>9, <3>1, <3>2, <3>3
  <2>. QED BY <1>8, <2>1, <2>2, <2>3, <2>4 DEF PlainPart, IsDonor
<1>17. ASSUME NEW t \in Tokens \ late, owner'[t] # None PROVE Known(t)'
  <2>1. owner[t] # None
    BY <1>9, <1>17
  <2>2. PICK c \in Clients : c = tok[t].client
    BY <1>0, <2>1 DEF TokPart
  <2>3. CASE t \in x.moved
    <3>1. owner'[t] = d /\ tok[t].sub = d
      BY <1>9, <1>15, <2>1, <2>3
    <3>. QED BY <1>8, <1>14, <2>2, <3>1 DEF Known, Sub
  <2>4. CASE t \notin x.moved
    <3>1. owner'[t] = owner[t] /\ owner[t] \in Users
      BY <1>0, <1>9, <2>1, <2>4, TokenOnly DEF Shapes
    <3>2. Stranded(t) => Stranded(t)'
      <4>. SUFFICES ASSUME NEW o \in Recs, Merged(o), t \in rec[o].moved,
                           tok[t].client \in rec[o].stranded
                    PROVE  Stranded(t)'
        BY DEF Stranded
      <4>1. o # r
        BY <1>1, <2>4
      <4>. QED BY <1>7, <1>8, <1>10, <4>1 DEF Stranded
    <3>3. LeftBehind(t) => LeftBehind(t)'
      <4>. SUFFICES ASSUME NEW o \in Recs, rec[o] \in RecType, rec[o].state = "reversed",
                           owner[t] = rec[o].survivor, tok[t].sub = rec[o].donor,
                           tok[t].client \in rec[o].created
                    PROVE  LeftBehind(t)'
        BY DEF LeftBehind
      <4>1. o # r
        BY <1>5 DEF Merged
      <4>. QED BY <1>7, <1>8, <3>1, <4>1 DEF LeftBehind
    <3>4. ~Passed(t)
      BY <1>12 DEF Passed, PlainPart
    <3>5. CASE override'[owner[t]][c] = override[owner[t]][c]
      BY <1>8, <1>12, <2>1, <2>2, <3>1, <3>2, <3>3, <3>4, <3>5 DEF Known, Sub
    <3>6. CASE override'[owner[t]][c] # override[owner[t]][c]
      <4>1. owner[t] # d
        BY <1>12, <1>13, <1>14, <3>1, <3>6 DEF PlainPart
      <4>2. owner[t] = s
        BY <1>3, <1>4, <1>6, <3>1, <3>6, <4>1 DEF UndoSubs
      <4>3. c \in x.created /\ override[s][c] = d
        BY <1>3, <1>4, <1>6, <1>14, <3>6, <4>2 DEF UndoSubs
      <4>4. CASE tok[t].sub = d
        <5>1. LeftBehind(t)'
          BY <1>7, <1>8, <2>2, <3>1, <4>2, <4>3, <4>4 DEF LeftBehind
        <5>. QED BY <5>1 DEF Known
      <4>5. CASE tok[t].sub # d
        <5>1. Sub(owner[t], tok[t].client) # tok[t].sub
          BY <1>5, <2>2, <4>2, <4>3, <4>5 DEF Sub
        <5>2. Known(t)
          BY <1>12, <2>1
        <5>. QED BY <3>2, <3>3, <3>4, <5>1, <5>2 DEF Known
      <4>. QED BY <4>4, <4>5
    <3>. QED BY <3>5, <3>6
  <2>. QED BY <2>3, <2>4
<1>. QED BY <1>16, <1>17

LEMMA KeptSteps ==
    ASSUME MergeInv, ReqInv, CurrentInv, SubInv, KeptInv, [Next]_vars
    PROVE  KeptInv'
<1>0. Shapes
  BY DEF MergeInv
<1>1. CASE UNCHANGED <<owner, tok, override, rec>> /\ late \subseteq late'
  BY <1>1, KeptQuiet
<1>2. ASSUME NEW i \in Ids \ Tokens, NEW u, owner' = [owner EXCEPT ![i] = u],
             UNCHANGED <<tok, override, rec>>, late \subseteq late'
      PROVE  KeptInv'
  <2>1. \A t \in Tokens : owner'[t] = owner[t]
    BY <1>0, <1>2 DEF Shapes, Ids
  <2>. QED BY <1>2, <2>1, KeptQuiet
<1>3. CASE AccountStep
  BY <1>1, <1>3 DEF AccountStep, SignIn, BanUser, UnbanUser, rowVars, traffic
<1>8. CASE RequestStep
  <2>1. PICK x \in Requests :
            \/ \E u \in Users : StartRequest(x, u)
            \/ \E i \in Rows \cup Passkeys \cup Left : AddRow(x, i)
            \/ \E e \in Eligs, d \in Dates : GrantEligibility(x, e, d)
            \/ \E e \in Emails : SetPrimaryEmail(x, e)
            \/ \E u \in Users, c \in Clients : StartExchange(x, u, c)
            \/ ReadSub(x)
            \/ \E t \in Tokens : CreateToken(x, t)
            \/ FailRequest(x)
    BY <1>8 DEF RequestStep
  <2>2. CASE \/ \E u \in Users : StartRequest(x, u)
             \/ \E u \in Users, c \in Clients : StartExchange(x, u, c)
             \/ ReadSub(x)
    BY <1>1, <2>2 DEF StartRequest, StartExchange, ReadSub, rowVars
  <2>3. CASE FailRequest(x) \/ \E e \in Emails : SetPrimaryEmail(x, e)
    BY <1>1, <2>3 DEF FailRequest, SetPrimaryEmail, rowVars, Ends
  <2>4. CASE \E i \in Rows \cup Passkeys \cup Left : AddRow(x, i)
    BY <1>2, <2>4, MergeConstants DEF AddRow, Ids, Ends
  <2>5. CASE \E e \in Eligs, d \in Dates : GrantEligibility(x, e, d)
    BY <1>2, <2>5, MergeConstants DEF GrantEligibility, Ids, Ends
  <2>6. CASE \E t \in Tokens : CreateToken(x, t)
    BY <2>6, KeptIssue
  <2>. QED BY <2>1, <2>2, <2>3, <2>4, <2>5, <2>6
<1>4. CASE CeremonyStep
  BY <1>1, <1>4 DEF CeremonyStep, StartMerge, CompleteDonorLink, Expire, ConfirmStart,
     rowVars, traffic
<1>5. CASE MergeStep
  BY <1>1, <1>5, KeptTx DEF MergeStep, ConfirmCheck, MergeDerive, MergeThrows, rowVars, traffic
<1>6. CASE \E r \in Recs : ReverseMerge(r)
  BY <1>6, KeptUndo
<1>7. CASE UNCHANGED vars
  BY <1>1, <1>7 DEF vars
<1>. QED BY <1>3, <1>4, <1>5, <1>6, <1>7, <1>8 DEF Next

(* A relying party keeps knowing an account under the subject of the token *)
(* it got (resolveSub, mergeAccounts' overrides and stranded list), other  *)
(* than one whose exchange straddled a merge or a reversal: where nobody   *)
(* is both a donor and a survivor, for any merges and reversals; and for   *)
(* any chains and cycles of merges, as long as none was undone.            *)
THEOREM SubjectsKept == Spec => [](Apart \/ NoneUndone => SubKept)
<1>1. Init => SubInv /\ KeptInv
  <2>. SUFFICES ASSUME Init PROVE SubInv /\ KeptInv
    OBVIOUS
  <2>1. \A r \in Recs : rec[r] \notin RecType
    BY NoRecIs DEF Init
  <2>2. \A u \in Users, c \in Clients : override[u][c] = None
    BY DEF Init
  <2>3. \A t \in Tokens : owner[t] = None
    BY TokenOnly, MergeConstants DEF Init, Ids
  <2>4. SubInv
    BY <2>1, <2>2 DEF SubInv, OriginPart, WrotePart, Wrote, OncePart, EitherPart, Merged
  <2>. QED BY <2>1, <2>2, <2>3, <2>4 DEF KeptInv, PlainPart, Merged
<1>2. MergeInv /\ ReqInv /\ CurrentInv /\ SubInv /\ KeptInv /\ [Next]_vars
        => SubInv' /\ KeptInv'
  BY SubSteps, KeptSteps
<1>3. MergeInv /\ KeptInv => (Apart \/ NoneUndone => SubKept)
  BY KnownIs DEF KeptInv, MergeInv
<1>. QED BY <1>1, <1>2, <1>3, MergeInvariant, CurrentAlways, PTL DEF Spec
=============================================================================
