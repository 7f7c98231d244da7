---------------------------- MODULE AccountMerge ----------------------------
(***************************************************************************)
(* Merging one account into another, and undoing it.  The survivor mails a *)
(* link to the donor's address, the click yields a single-use proof, and   *)
(* confirmMerge spends it on mergeAccounts: one transaction that moves the *)
(* donor's rows, decides which relying parties keep seeing the donor's     *)
(* subject, resolves rows both accounts hold, and leaves the donor as a    *)
(* tombstone together with a snapshot.  reverseMerge plays the snapshot    *)
(* back.                                                                   *)
(*                                                                         *)
(* Both transactions run at REPEATABLE READ and both update the User rows  *)
(* of the pair, so two that share an account conflict and the loser starts *)
(* over from a fresh snapshot: each is one step here.                      *)
(***************************************************************************)
EXTENDS Naturals, FiniteSets

CONSTANTS
    Users, Clients,
    Rows,           \* rows reversed by primary key (badges, share links, ...)
    Left,           \* rows of tables the merge does not re-point: profile
                    \* overrides, groups and memberships, anonymous-identity
                    \* enrolments and pairings, avatars
    Passkeys,       \* Authenticator rows, reversed only from the survivor
    Emails,         \* UserEmail rows
    Tokens,         \* OidcAccessToken rows, also reversed by primary key
    Eligs,          \* Eligibility rows, at most one per account
    Dates,          \* values of eligibleAt
    MailOf,         \* the account each email starts at, as its primary
    Pairs,          \* <<donor, survivor>> pairs somebody may want merged
    Confirmers,     \* concurrent confirmMerge calls
    Requests,       \* other requests under way, token exchanges included
    Recs,           \* MergeRecord ids: how many merges, at most
    Reversals,      \* whether merges may be reversed
    MaxGen,         \* bound: no ban once sessionGeneration is this high
    None

Ids == Rows \cup Left \cup Passkeys \cup Emails \cup Tokens \cup Eligs

ASSUME MergeConstants ==
    /\ Pairs \subseteq Users \X Users
    /\ \A p \in Pairs : p[1] # p[2]
    /\ MailOf \in [Emails -> Users]
    /\ \A e, f \in Emails : e # f => MailOf[e] # MailOf[f]
    /\ Dates \subseteq Nat
    /\ Reversals \in BOOLEAN /\ MaxGen \in Nat
    /\ None \notin Users \cup Clients
    /\ Tokens \cap (Rows \cup Left \cup Passkeys \cup Emails \cup Eligs) = {}
    /\ Left \cap Eligs = {}

VARIABLES
    user,       \* User rows: tombstone, ban, session generation
    sess,       \* the generation each account's browser session carries
    owner,      \* userId of every row; None: no such row
    primary,    \* UserEmail.isPrimary
    tok,        \* clientId of a token, and the sub it was issued under
    date,       \* Eligibility.eligibleAt
    override,   \* SubjectOverride
    links,      \* outstanding donor links, one per pair
    proofs,     \* donors of outstanding donor proofs
    conf,       \* confirmMerge calls
    rec,        \* MergeRecord rows with their snapshots
    req,        \* requests under way, with what they have read so far
    late        \* ghost: rows of requests that a merge or reversal overtook

vars == <<user, sess, owner, primary, tok, date, override, links, proofs,
          conf, rec, req, late>>
ceremony == <<links, proofs, conf>>
traffic == <<req, late>>
rowVars == <<owner, primary, tok, date, override>>

NoToken == [client |-> None, sub |-> None]
IdleConf == [pc |-> "idle", donor |-> None, survivor |-> None, clients |-> {}]
NoRec == [state |-> "none"]
(* crossed is a ghost: what the request read is no longer so.              *)
IdleReq == [pc |-> "idle", user |-> None, client |-> None, sub |-> None,
            crossed |-> FALSE]

Init ==
    /\ user = [u \in Users |-> [into |-> None, banned |-> FALSE, gen |-> 0]]
    /\ sess = [u \in Users |-> 0]
    /\ owner = [i \in Ids |-> IF i \in Emails THEN MailOf[i] ELSE None]
    /\ primary = [e \in Emails |-> TRUE]
    /\ tok = [t \in Tokens |-> NoToken]
    /\ date = [e \in Eligs |-> None]
    /\ override = [u \in Users |-> [c \in Clients |-> None]]
    /\ links = {}
    /\ proofs = {}
    /\ conf = [p \in Confirmers |-> IdleConf]
    /\ rec = [r \in Recs |-> NoRec]
    /\ req = [x \in Requests |-> IdleReq]
    /\ late = {}

Live(u) == user[u].into = None

(* getCurrentSession. *)
SessionOk(u) == Live(u) /\ ~user[u].banned /\ sess[u] = user[u].gen

OwnedBy(u) == {i \in Ids : owner[i] = u}

UsedClients(u) == {tok[t].client : t \in Tokens \cap OwnedBy(u)}

(* resolveSub: a pairwise subject is named by the account it derives from. *)
Sub(u, c) == IF override[u][c] # None THEN override[u][c] ELSE u

-----------------------------------------------------------------------------
(* What accounts do besides merging.  A request reads the session first    *)
(* and writes after an await; nothing is read again in between.            *)

SignIn(u) ==
    /\ Live(u) /\ ~user[u].banned
    /\ sess' = [sess EXCEPT ![u] = user[u].gen]
    /\ UNCHANGED <<user, rowVars, ceremony, rec, traffic>>

StartRequest(x, u) ==
    /\ req[x].pc = "idle"
    /\ SessionOk(u)
    /\ req' = [req EXCEPT ![x] = [IdleReq EXCEPT !.pc = "act", !.user = u]]
    /\ UNCHANGED <<user, sess, rowVars, ceremony, rec, late>>

(* The request x ends, having inserted the rows new.                       *)
Ends(x, new) ==
    /\ req' = [req EXCEPT ![x] = IdleReq]
    /\ late' = IF req[x].crossed THEN late \cup new ELSE late

AddRow(x, i) ==
    /\ req[x].pc = "act"
    /\ i \in Rows \cup Passkeys \cup Left
    /\ owner[i] = None
    /\ owner' = [owner EXCEPT ![i] = req[x].user]
    /\ Ends(x, {i})
    /\ UNCHANGED <<user, sess, primary, tok, date, override, ceremony, rec>>

(* issueBadge's upsert on (userId, badgeType).  A new row has a new id: a  *)
(* row that a merge deleted still has its date.                            *)
GrantEligibility(x, e, d) ==
    LET u == req[x].user IN
    /\ req[x].pc = "act"
    /\ \/ owner[e] = u
       \/ owner[e] = None /\ date[e] = None /\ Eligs \cap OwnedBy(u) = {}
    /\ owner' = [owner EXCEPT ![e] = u]
    /\ date' = [date EXCEPT ![e] = d]
    /\ Ends(x, {e})
    /\ UNCHANGED <<user, sess, primary, tok, override, ceremony, rec>>

SetPrimaryEmail(x, e) ==
    LET u == req[x].user IN
    /\ req[x].pc = "act"
    /\ owner[e] = u
    /\ primary' = [f \in Emails |-> IF owner[f] = u THEN f = e ELSE primary[f]]
    /\ Ends(x, {})
    /\ UNCHANGED <<user, sess, owner, tok, date, override, ceremony, rec>>

(* A sign-in at a relying party: the token exchange reads the user, then   *)
(* the subject, and creates the row last, without a second look.           *)
StartExchange(x, u, c) ==
    /\ req[x].pc = "idle"
    /\ Live(u)
    /\ req' = [req EXCEPT ![x] = [IdleReq EXCEPT !.pc = "sub", !.user = u,
                                                 !.client = c]]
    /\ UNCHANGED <<user, sess, rowVars, ceremony, rec, late>>

ReadSub(x) ==
    /\ req[x].pc = "sub"
    /\ req' = [req EXCEPT ![x].pc = "create",
                          ![x].sub = Sub(req[x].user, req[x].client)]
    /\ UNCHANGED <<user, sess, rowVars, ceremony, rec, late>>

CreateToken(x, t) ==
    /\ req[x].pc = "create"
    /\ owner[t] = None
    /\ owner' = [owner EXCEPT ![t] = req[x].user]
    /\ tok' = [tok EXCEPT ![t] = [client |-> req[x].client, sub |-> req[x].sub]]
    /\ Ends(x, {t})
    /\ UNCHANGED <<user, sess, primary, date, override, ceremony, rec>>

(* A request ends in an error.                                             *)
FailRequest(x) ==
    /\ req[x].pc # "idle"
    /\ Ends(x, {})
    /\ UNCHANGED <<user, sess, rowVars, ceremony, rec>>

(* Requests of an account that becomes a tombstone, or that have read a    *)
(* subject, when d is merged into s or that is undone.                     *)
Overtaken(d, s) ==
    [x \in Requests |->
        IF req[x].user = d \/ (req[x].user = s /\ req[x].pc = "create")
        THEN [req[x] EXCEPT !.crossed = TRUE] ELSE req[x]]

BanUser(u) ==
    /\ ~user[u].banned
    /\ user[u].gen < MaxGen
    /\ user' = [user EXCEPT ![u].banned = TRUE, ![u].gen = @ + 1]
    /\ UNCHANGED <<sess, rowVars, ceremony, rec, traffic>>

UnbanUser(u) ==
    /\ user[u].banned
    /\ user' = [user EXCEPT ![u].banned = FALSE]
    /\ UNCHANGED <<sess, rowVars, ceremony, rec, traffic>>

-----------------------------------------------------------------------------
(* The ceremony.                                                           *)

Eligible(d) == Live(d) /\ ~user[d].banned

StartMerge(d, s) ==
    /\ <<d, s>> \in Pairs
    /\ SessionOk(s)
    /\ Eligible(d)
    /\ links' = links \cup {<<d, s>>}
    /\ UNCHANGED <<user, sess, rowVars, proofs, conf, rec, traffic>>

(* The marker is deleted first; the donor is looked at afterwards.         *)
CompleteDonorLink(d, s) ==
    /\ <<d, s>> \in links
    /\ links' = links \ {<<d, s>>}
    /\ proofs' = IF Eligible(d) THEN proofs \cup {d} ELSE proofs
    /\ UNCHANGED <<user, sess, rowVars, conf, rec, traffic>>

(* Links last fifteen minutes and proofs five.                             *)
Expire ==
    /\ \/ \E x \in links : links' = links \ {x} /\ UNCHANGED proofs
       \/ \E d \in proofs : proofs' = proofs \ {d} /\ UNCHANGED links
    /\ UNCHANGED <<user, sess, rowVars, conf, rec, traffic>>

ConfirmStart(p, d, s) ==
    /\ conf[p].pc = "idle"
    /\ <<d, s>> \in Pairs
    /\ SessionOk(s)
    /\ d \in proofs
    /\ proofs' = proofs \ {d}
    /\ conf' = [conf EXCEPT ![p] = [IdleConf EXCEPT !.pc = "check",
                                      !.donor = d, !.survivor = s]]
    /\ UNCHANGED <<user, sess, rowVars, links, rec, traffic>>

(* The final eligibility re-read.                                          *)
ConfirmCheck(p) ==
    /\ conf[p].pc = "check"
    /\ conf' = [conf EXCEPT ![p] =
         IF Live(conf[p].donor) /\ Live(conf[p].survivor)
         THEN [conf[p] EXCEPT !.pc = "derive"] ELSE IdleConf]
    /\ UNCHANGED <<user, sess, rowVars, links, proofs, rec, traffic>>

(* mergeAccounts derives the donor's subjects before the transaction.      *)
MergeDerive(p) ==
    /\ conf[p].pc = "derive"
    /\ conf' = [conf EXCEPT ![p].pc = "tx",
                            ![p].clients = UsedClients(conf[p].donor)]
    /\ UNCHANGED <<user, sess, rowVars, links, proofs, rec, traffic>>

-----------------------------------------------------------------------------
(* mergeAccounts: the transaction.  rec[r].before is a ghost: the owners   *)
(* as the transaction found them.                                          *)

OverrideClients(u) == {c \in Clients : override[u][c] # None}

(* Mutant: tokens issued since the derivation go unnoticed.                *)
MutDrifted(q) == FALSE

(* The donor-token drift check.                                            *)
Drifted(q) == UsedClients(q.donor) # q.clients

(* Clients that will keep seeing the donor's subject; the donor's others   *)
(* are stranded.                                                           *)
Kept(q) == q.clients \ (UsedClients(q.survivor) \cup OverrideClients(q.survivor))

(* The donor's own overrides, from an earlier merge into it.               *)
OwnMoved(q) == OverrideClients(q.donor) \ OverrideClients(q.survivor)

(* Creating an override beside one just moved violates the primary key.    *)
Clash(q) == Kept(q) \cap OwnMoved(q) # {}

(* Of two Eligibility rows the earlier stays, the survivor's on a tie.     *)
EligLosers(d, s) ==
    UNION {IF date[x] < date[y] THEN {y} ELSE {x} :
             x \in Eligs \cap OwnedBy(d), y \in Eligs \cap OwnedBy(s)}

(* Mutant: a table is forgotten in the list of re-points.                  *)
MutMoved(d, s) == OwnedBy(d) \ (EligLosers(d, s) \cup Left \cup Emails)

(* The rows re-pointed to the survivor.                                    *)
Moved(d, s) == OwnedBy(d) \ (EligLosers(d, s) \cup Left)

(* Primary addresses of the donor, demoted.                                *)
Demoted(d) == {e \in Emails \cap OwnedBy(d) : primary[e]}

(* Mutant: the survivor takes over the donor's flag.                       *)
MutStickyBan(d, s) == user[d].banned

StickyBan(d, s) == user[s].banned \/ user[d].banned

(* The transaction neither throws nor violates a key.                      *)
Commits(q) == Live(q.donor) /\ ~Drifted(q) /\ ~Clash(q)

MergeTx(p) ==
    LET q == conf[p]
        d == q.donor
        s == q.survivor
        losers == EligLosers(d, s)
        moved == Moved(d, s)
    IN
    /\ q.pc = "tx"
    /\ Commits(q)
    /\ \E r \in Recs :
         /\ rec[r] = NoRec
         /\ rec' = [rec EXCEPT ![r] =
              [state |-> "merged", donor |-> d, survivor |-> s, moved |-> moved,
               losers |-> {<<i, owner[i]>> : i \in losers}, created |-> Kept(q),
               own |-> OwnMoved(q), stranded |-> q.clients \ Kept(q),
               banned |-> user[s].banned, demoted |-> Demoted(d),
               before |-> owner]]
    /\ owner' = [i \in Ids |-> IF i \in losers THEN None
                               ELSE IF i \in moved THEN s ELSE owner[i]]
    /\ primary' = [e \in Emails |-> primary[e] /\ e \notin Demoted(d)]
    /\ override' = [override EXCEPT
         ![d] = [c \in Clients |-> IF c \in OwnMoved(q) THEN None ELSE @[c]],
         ![s] = [c \in Clients |-> IF c \in OwnMoved(q) THEN override[d][c]
                                   ELSE IF c \in Kept(q) THEN d ELSE @[c]]]
    /\ user' = [user EXCEPT
         ![s].banned = StickyBan(d, s), ![s].gen = @ + 1,
         ![d].into = s, ![d].gen = @ + 1]
    /\ conf' = [conf EXCEPT ![p] = IdleConf]
    /\ req' = Overtaken(d, s)
    /\ UNCHANGED <<sess, tok, date, links, proofs, late>>

(* The donor is a tombstone, its tokens drifted, or an override clashes.   *)
MergeThrows(p) ==
    /\ conf[p].pc = "tx"
    /\ ~Commits(conf[p])
    /\ conf' = [conf EXCEPT ![p] = IdleConf]
    /\ UNCHANGED <<user, sess, rowVars, links, proofs, rec, traffic>>

-----------------------------------------------------------------------------
(* reverseMerge.                                                           *)

(* Mutant: passkeys are left where they are.                               *)
MutPasskeysStay(x) == {i \in x.moved \ Passkeys : owner[i] # None}

(* Rows that go back: by primary key whoever owns them now, except that a  *)
(* passkey is taken from the survivor only.                                *)
GoesHome(x) ==
    {i \in x.moved : owner[i] # None /\ (i \in Passkeys => owner[i] = x.survivor)}

(* Eligibility rows recreated: the transaction fails if one would collide. *)
Recreated(x) == {y[1] : y \in x.losers}
RestoredOwner(x) ==
    [i \in Ids |-> IF i \in Recreated(x) THEN (CHOOSE y \in x.losers : y[1] = i)[2]
                   ELSE IF i \in GoesHome(x) THEN x.donor ELSE owner[i]]

ReversalFits(x) ==
    /\ \A i \in Recreated(x) : owner[i] = None
    /\ \A i, j \in Eligs : i # j /\ RestoredOwner(x)[i] # None
                             => RestoredOwner(x)[i] # RestoredOwner(x)[j]
    /\ \A c \in x.own : override[x.survivor][c] # None => override[x.donor][c] = None

(* Mutant: the overrides the merge created stay.                           *)
MutUncreated(x) == {}

(* Overrides the merge created that still read as it wrote them.           *)
Uncreated(x) == {c \in x.created : override[x.survivor][c] = x.donor}

ReverseMerge(r) ==
    LET x == rec[r]
        d == x.donor
        s == x.survivor
    IN
    /\ Reversals
    /\ rec[r].state = "merged"
    /\ user[d].into = s
    /\ ReversalFits(x)
    /\ owner' = RestoredOwner(x)
    /\ primary' = [e \in Emails |-> primary[e] \/ e \in x.demoted]
    /\ override' = [override EXCEPT
         ![d] = [c \in Clients |-> IF c \in x.own /\ override[s][c] # None
                                     THEN override[s][c] ELSE @[c]],
         ![s] = [c \in Clients |-> IF c \in x.own \cup Uncreated(x)
                                     THEN None ELSE @[c]]]
    /\ user' = [user EXCEPT ![s].banned = x.banned, ![s].gen = @ + 1,
                            ![d].into = None, ![d].gen = @ + 1]
    /\ rec' = [rec EXCEPT ![r].state = "reversed"]
    /\ req' = Overtaken(d, s)
    /\ UNCHANGED <<sess, tok, date, ceremony, late>>

-----------------------------------------------------------------------------

AccountStep == \E u \in Users : SignIn(u) \/ BanUser(u) \/ UnbanUser(u)

RequestStep ==
    \E x \in Requests :
        \/ \E u \in Users : StartRequest(x, u)
        \/ \E i \in Rows \cup Passkeys \cup Left : AddRow(x, i)
        \/ \E e \in Eligs, d \in Dates : GrantEligibility(x, e, d)
        \/ \E e \in Emails : SetPrimaryEmail(x, e)
        \/ \E u \in Users, c \in Clients : StartExchange(x, u, c)
        \/ ReadSub(x)
        \/ \E t \in Tokens : CreateToken(x, t)
        \/ FailRequest(x)

CeremonyStep ==
    \/ \E d, s \in Users : StartMerge(d, s) \/ CompleteDonorLink(d, s)
    \/ Expire
    \/ \E p \in Confirmers, d, s \in Users : ConfirmStart(p, d, s)

MergeStep ==
    \E p \in Confirmers :
        ConfirmCheck(p) \/ MergeDerive(p) \/ MergeTx(p) \/ MergeThrows(p)

Next ==
    \/ AccountStep \/ RequestStep \/ CeremonyStep \/ MergeStep
    \/ \E r \in Recs : ReverseMerge(r)

Spec == Init /\ [][Next]_vars

-----------------------------------------------------------------------------
(* Properties.                                                             *)

(* Every table holds values of its shape.                                  *)
TypeOK ==
    /\ user \in [Users -> [into : Users \cup {None}, banned : BOOLEAN, gen : Nat]]
    /\ sess \in [Users -> Nat]
    /\ owner \in [Ids -> Users \cup {None}]
    /\ primary \in [Emails -> BOOLEAN]
    /\ tok \in [Tokens -> [client : Clients \cup {None}, sub : Users \cup {None}]]
    /\ date \in [Eligs -> Dates \cup {None}]
    /\ override \in [Users -> [Clients -> Users \cup {None}]]
    /\ links \subseteq Pairs /\ proofs \subseteq Users
    /\ \A p \in Confirmers :
         /\ conf[p].pc \in {"idle", "check", "derive", "tx"}
         /\ conf[p].clients \subseteq Clients
    /\ \A r \in Recs : rec[r] # NoRec =>
         /\ rec[r].state \in {"merged", "reversed"}
         /\ rec[r].moved \subseteq Ids /\ rec[r].created \subseteq Clients
    /\ \A x \in Requests :
         /\ req[x].pc \in {"idle", "act", "sub", "create"}
         /\ req[x].user \in Users \cup {None}
    /\ late \subseteq Ids

(* "Every userId-FK row the donor owned is re-pointed": a tombstone owns   *)
(* nothing, whichever ceremonies and requests ran side by side; except for *)
(* the tables mergeAccounts has no re-point for, and for a row a request   *)
(* of the donor inserts when the merge has already committed.              *)
NoRowUnderTombstone ==
    \A i \in Ids \ (Left \cup late) : owner[i] # None => Live(owner[i])

(* A relying party keeps knowing an account under the subject it was given *)
(* a token for, before and after merges; except for a token that a merge   *)
(* brought along and put on its list of stranded ones, for one issued to a *)
(* survivor under the donor's subject by a merge undone since, at a        *)
(* relying party where a donor's own override was moved onto a survivor    *)
(* that had no override there, and for a token whose exchange had read its *)
(* account or subject before a merge or reversal committed and created the *)
(* row after it.                                                           *)
SubKept ==
    \A t \in Tokens \ late : owner[t] # None =>
        \/ Sub(owner[t], tok[t].client) = tok[t].sub
        \/ \E r \in Recs : /\ rec[r].state = "merged"
                           /\ t \in rec[r].moved
                           /\ tok[t].client \in rec[r].stranded
        \/ \E r \in Recs : /\ rec[r].state = "reversed"
                           /\ owner[t] = rec[r].survivor
                           /\ tok[t].sub = rec[r].donor
                           /\ tok[t].client \in rec[r].created
        \/ \E r \in Recs : rec[r] # NoRec /\ owner[t] = rec[r].survivor
                           /\ tok[t].client \in rec[r].own

(* No two accounts that can sign in present the same subject to a relying  *)
(* party, also after a merge was undone; except where the merge had        *)
(* created an override and its survivor was merged on, override included.  *)
SubUnique ==
    \A u, v \in Users, c \in Clients :
        u # v /\ Live(u) /\ Live(v) /\ Sub(u, c) = Sub(v, c) =>
            \E r, q \in Recs :
                /\ rec[r].state = "reversed" /\ c \in rec[r].created
                /\ rec[q] # NoRec /\ rec[q].donor = rec[r].survivor

(* A ban ends only by an administrator, or when a merge into the account   *)
(* is undone and its flag is put back as it was; and merging a banned      *)
(* account bans the survivor.                                              *)
BanSticks ==
    [][\A u \in Users : user[u].banned =>
         \/ UnbanUser(u)
         \/ \E r \in Recs : rec[r] # NoRec /\ rec[r].survivor = u /\ ReverseMerge(r)
         \/ /\ user'[u].banned
            /\ Live(u) /\ user'[u].into # None => user'[user'[u].into].banned]_vars

(* reverseMerge puts every row of the pair back where the merge found it,  *)
(* whatever the survivor did in between; except for a row that is where    *)
(* another donor's merge, or the undoing of it, has put it, or that        *)
(* another donor's merge resolved away.                                    *)
ReversalRestores ==
    [][\A r \in Recs :
         rec[r] # NoRec /\ rec[r].state = "merged" /\ rec'[r].state = "reversed" =>
            \A i \in Ids : rec[r].before[i] \in {rec[r].donor, rec[r].survivor} =>
               \/ owner'[i] = rec[r].before[i]
               \/ \E q \in Recs :
                     /\ rec[q] # NoRec /\ rec[q].donor # rec[r].donor
                     /\ \/ i \in Recreated(rec[q])
                        \/ /\ i \in rec[q].moved
                           /\ owner'[i] = IF rec[q].state = "merged"
                                          THEN rec[q].survivor ELSE rec[q].donor]_vars
=============================================================================
