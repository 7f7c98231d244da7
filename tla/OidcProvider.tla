---------------------------- MODULE OidcProvider ----------------------------
(***************************************************************************)
(* The OpenID Connect provider: the consent screen, the authorization      *)
(* code, POST /oidc/token, GET /oidc/userinfo, the durable grant and the   *)
(* per-relying-party persona, and every operation that revokes or moves    *)
(* them (bans, "sign out everywhere", client edits, account merges).       *)
(*                                                                         *)
(* An item is one thing a relying party can be told: a badge INSTANCE or a *)
(* per-claim flag (name, avatar, account-strength bucket).  A handler is   *)
(* split where the code awaits the database between a read and a write     *)
(* that depends on it; steps that only read are joined to the next one.    *)
(***************************************************************************)
EXTENDS Naturals, FiniteSets

CONSTANTS
    Users,          \* accounts
    Clients,        \* registered relying parties (OidcClient.clientId)
    Items,          \* badge instances and per-claim flags
    Badges,         \* the badge instances among Items
    NameClaim,      \* the profile item whose value comes from a persona
    ScopeOf,        \* the scope that covers an item
    Configs,        \* allowedScopes values an admin may give a client
    Requests,       \* authorize requests: [scopes, policy]
    BadgeOwner0,    \* who holds each badge initially
    Codes,          \* random authorization codes, never reused
    Jtis,           \* random access-token ids, never reused
    Tabs,           \* concurrent consent screens
    Handlers,       \* concurrent /oidc/token requests
    MergePairs,     \* <<donor, survivor>> pairs that may merge
    AdminOps,       \* <<operation, target>> pairs that may happen
    None

ASSUME OidcConstants ==
    /\ Badges \subseteq Items
    /\ NameClaim \in Items \ Badges
    /\ ScopeOf \in [Items -> UNION Configs]
    /\ Configs # {}
    /\ Requests \subseteq [scopes : SUBSET UNION Configs, policy : BOOLEAN]
    /\ BadgeOwner0 \in [Badges -> Users]
    /\ MergePairs \subseteq {p \in Users \X Users : p[1] # p[2]}
    /\ None \notin Users \cup Clients \cup Codes
    /\ AdminOps \subseteq ({"ban", "signout", "persona"} \X Users)
                    \cup ({"update", "rotate", "delete"} \X Clients)
                    \cup ({"badge"} \X Badges)

VARIABLES
    banned,         \* User.isBanned
    mergedInto,     \* User.mergedIntoUserId
    badgeOwner,     \* Badge.userId; None once the row is deleted
    allowed,        \* OidcClient.allowedScopes; None once the row is deleted
    grants,         \* OidcGrant rows
    persona,        \* OidcProfileOverride.displayName per (user, client)
    override,       \* SubjectOverride.sub, named by the user it derives from
    codes,          \* OidcAuthorizationCode rows
    tokens,         \* OidcAccessToken rows and the JWT's sub
    tab,            \* consent screens and the approveConsent call they make
    handler,        \* POST /oidc/token calls
    editing,        \* updateRpProfile calls between the check and the write
    ticked          \* history: <<client, item>> its owner ticked for client

vars == <<banned, mergedInto, badgeOwner, allowed, grants, persona, override,
          codes, tokens, tab, handler, editing, ticked>>
userVars == <<banned, mergedInto, badgeOwner>>
rpVars == <<allowed, grants, persona, override>>

-----------------------------------------------------------------------------

(* A row that does not exist (yet), and the two kinds of request state.    *)
NoGrant == [row |-> FALSE, items |-> {}]
FreeCode == [state |-> "free", expired |-> FALSE, client |-> None,
             user |-> None, items |-> {}]
FreeToken == [state |-> "free", client |-> None, user |-> None, items |-> {},
              sub |-> None, code |-> None]
IdleTab == [pc |-> "idle", client |-> None, scopes |-> {}, policy |-> FALSE,
            user |-> None, items |-> {}, existing |-> NoGrant]
IdleHandler == [pc |-> "idle", client |-> None, code |-> None, good |-> FALSE,
                user |-> None, items |-> {}, sub |-> None]

Init ==
    /\ banned = [u \in Users |-> FALSE]
    /\ mergedInto = [u \in Users |-> None]
    /\ badgeOwner = BadgeOwner0
    /\ allowed \in [Clients -> Configs]
    /\ grants = [u \in Users |-> [c \in Clients |-> NoGrant]]
    /\ persona = [u \in Users |-> [c \in Clients |-> "absent"]]
    /\ override = [u \in Users |-> [c \in Clients |-> None]]
    /\ codes = [k \in Codes |-> FreeCode]
    /\ tokens = [j \in Jtis |-> FreeToken]
    /\ tab = [t \in Tabs |-> IdleTab]
    /\ handler = [h \in Handlers |-> IdleHandler]
    /\ editing = [u \in Users |-> None]
    /\ ticked = {}

(* getCurrentSession: the user row is re-read on every request.  A bumped  *)
(* sessionGeneration only makes the user sign in again, so it is left out. *)
SessionOk(u) == ~banned[u] /\ mergedInto[u] = None

-----------------------------------------------------------------------------
(* Consent.                                                                *)

(* /oidc/authorize: the request is validated against the client as it is   *)
(* now and signed into the page; approveConsent trusts it for 5 minutes.   *)
AuthorizePage(t, c, r) ==
    /\ tab[t].pc = "idle"
    /\ \E u \in Users : SessionOk(u)
    /\ allowed[c] # None
    /\ r.scopes \subseteq allowed[c]
    /\ tab' = [tab EXCEPT ![t] = [IdleTab EXCEPT !.pc = "page", !.client = c,
                                    !.scopes = r.scopes, !.policy = r.policy]]
    /\ UNCHANGED <<userVars, rpVars, codes, tokens, handler, editing, ticked>>

(* The owned badges among ids whose type the page requests.                *)
OwnedRequested(u, scopes, ids) ==
    {b \in ids \cap Badges : badgeOwner[b] = u /\ ScopeOf[b] \in scopes}

(* Mutant: the fold takes every instance of an already granted TYPE.       *)
MutGrantFold(u, c, scopes) ==
    {b \in Badges : /\ badgeOwner[b] = u /\ ScopeOf[b] \in scopes
                    /\ \E g \in grants[u][c].items : ScopeOf[g] = ScopeOf[b]}

(* The already-proven badges that are forced into the candidate set: the   *)
(* very instances recorded in the grant, not every instance of their type. *)
GrantFold(u, c, scopes) == OwnedRequested(u, scopes, grants[u][c].items)

(* Mutant: a requested claim counts as approved, ticked or not.            *)
MutApprovedFlags(scopes, submitted) == {i \in Items \ Badges : ScopeOf[i] \in scopes}

(* The profile and account-strength approvals, masked by the scopes.       *)
ApprovedFlags(scopes, submitted) ==
    {i \in submitted \ Badges : ScopeOf[i] \in scopes}

(* What the user u agreed to by submitting a page with these scopes: the   *)
(* page shows u's own badges and claims of the requested scopes only.      *)
Shown(u, scopes) ==
    {i \in Items : ScopeOf[i] \in scopes /\ (i \in Badges => badgeOwner[i] = u)}

(* approveConsent up to the transaction: session, ownership and scope      *)
(* drops, the grant fold, minimisation, and the profile and score masks.   *)
(* The session may belong to another user than the one shown the page.     *)
ApproveLoad(t, u, submitted) ==
    LET q == tab[t]
        candidates == OwnedRequested(u, q.scopes, submitted)
                        \cup GrantFold(u, q.client, q.scopes)
        flags == ApprovedFlags(q.scopes, submitted)
    IN  /\ q.pc = "page"
        /\ SessionOk(u)
        /\ \E chosen \in IF q.policy THEN SUBSET candidates ELSE {candidates} :
             tab' = [tab EXCEPT ![t] = [q EXCEPT !.pc = "approving", !.user = u,
                                                 !.items = chosen \cup flags]]
        /\ ticked' = ticked \cup
                       ({q.client} \X (submitted \cap Shown(u, q.scopes)))
        /\ UNCHANGED <<userVars, rpVars, codes, tokens, handler, editing>>

(* upsertGrant, inside the READ COMMITTED transaction: read the row ...    *)
ApproveReadGrant(t) ==
    /\ tab[t].pc = "approving"
    /\ tab' = [tab EXCEPT ![t] = [@ EXCEPT !.pc = "txn",
                             !.existing = grants[tab[t].user][tab[t].client]]]
    /\ UNCHANGED <<userVars, rpVars, codes, tokens, handler, editing, ticked>>

(* ... the union that is written back over whatever the row then holds.    *)
MergedGrant(existing, items) ==
    [row |-> TRUE, items |-> existing.items \cup items]

(* Mutant: the persona is not snapshotted with the consent.                *)
MutPersonaAfter(q) == {persona[q.user][q.client]}

(* The persona row after a consent: an approved name is snapshotted, empty *)
(* text as null; a name that was not approved leaves the row as it is.     *)
PersonaAfter(q) == IF NameClaim \in q.items THEN {"set", "null"}
                   ELSE {persona[q.user][q.client]}

(* The commit: the code, the grant and the persona become visible at once. *)
(* The page stays open: the signed request can be submitted again.         *)
ApproveCommit(t, k) ==
    LET q == tab[t] IN
    /\ q.pc = "txn"
    /\ codes[k].state = "free"
    /\ codes' = [codes EXCEPT ![k] =
         [state |-> "live", expired |-> FALSE, client |-> q.client,
          user |-> q.user, items |-> q.items]]
    /\ grants' = [grants EXCEPT ![q.user][q.client] =
                                  MergedGrant(q.existing, q.items)]
    /\ \E p \in PersonaAfter(q) :
         persona' = [persona EXCEPT ![q.user][q.client] = p]
    /\ tab' = [tab EXCEPT ![t] = [q EXCEPT !.pc = "page", !.user = None,
                                            !.items = {}, !.existing = NoGrant]]
    /\ UNCHANGED <<userVars, allowed, override, tokens, handler, editing,
                   ticked>>

(* denyConsent, a closed page, or the 5-minute request token running out.  *)
LeavePage(t) ==
    /\ tab[t].pc = "page"
    /\ tab' = [tab EXCEPT ![t] = IdleTab]
    /\ UNCHANGED <<userVars, rpVars, codes, tokens, handler, editing, ticked>>

(* CODE_TTL_SECONDS elapse for a code.                                     *)
CodeExpires(k) ==
    /\ codes[k].state \in {"live", "consumed"}
    /\ ~codes[k].expired
    /\ codes' = [codes EXCEPT ![k].expired = TRUE]
    /\ UNCHANGED <<userVars, rpVars, tokens, tab, handler, editing, ticked>>

-----------------------------------------------------------------------------
(* POST /oidc/token.                                                       *)

HandlerStop(h) == handler' = [handler EXCEPT ![h] = IdleHandler]

(* Client authentication.  good: whether the caller presents the redirect  *)
(* URI and the PKCE verifier that belong to the code.                      *)
TokenAuth(h, c, k, good) ==
    /\ handler[h].pc = "idle"
    /\ allowed[c] # None
    /\ codes[k].state # "free"
    /\ handler' = [handler EXCEPT ![h] = [IdleHandler EXCEPT !.pc = "authed",
                                   !.client = c, !.code = k, !.good = good]]
    /\ UNCHANGED <<userVars, rpVars, codes, tokens, tab, editing, ticked>>

(* Mutant: the update does not ask for consumedAt: null.                   *)
MutTokenConsume(h) ==
    LET k == handler[h].code IN
    /\ handler[h].pc = "authed"
    /\ IF codes[k].state \in {"live", "consumed"}
         THEN /\ codes' = [codes EXCEPT ![k].state = "consumed"]
              /\ handler' = [handler EXCEPT ![h].pc = "consumed"]
         ELSE HandlerStop(h) /\ UNCHANGED codes
    /\ UNCHANGED <<userVars, rpVars, tokens, tab, editing, ticked>>

(* The atomic single-use consumption, before any validation of the code.   *)
TokenConsume(h) ==
    LET k == handler[h].code IN
    /\ handler[h].pc = "authed"
    /\ IF codes[k].state = "live"
         THEN /\ codes' = [codes EXCEPT ![k].state = "consumed"]
              /\ handler' = [handler EXCEPT ![h].pc = "consumed"]
         ELSE HandlerStop(h) /\ UNCHANGED codes
    /\ UNCHANGED <<userVars, rpVars, tokens, tab, editing, ticked>>

(* Mutant: the code may belong to another client.                          *)
MutCodeValid(h, k) ==
    codes[k].state # "deleted" /\ ~codes[k].expired /\ handler[h].good

(* Whether the stored row passes the expiry, client, redirect URI and PKCE *)
(* checks of the request that consumed it.                                 *)
CodeValid(h, k) ==
    /\ codes[k].state # "deleted"
    /\ ~codes[k].expired
    /\ codes[k].client = handler[h].client
    /\ handler[h].good

(* The row is read back and checked.                                       *)
TokenValidate(h) ==
    LET k == handler[h].code IN
    /\ handler[h].pc = "consumed"
    /\ IF CodeValid(h, k)
         THEN handler' = [handler EXCEPT ![h] =
                            [@ EXCEPT !.pc = "validated", !.user = codes[k].user,
                                      !.items = codes[k].items]]
         ELSE HandlerStop(h)
    /\ UNCHANGED <<userVars, rpVars, codes, tokens, tab, editing, ticked>>

(* Mutant: user and client are swapped in the derivation.                  *)
MutResolveSub(u, c) == IF override[u][c] # None THEN override[u][c] ELSE c

(* resolveSub: a merge's SubjectOverride first, else the pairwise value.   *)
ResolveSub(u, c) == IF override[u][c] # None THEN override[u][c] ELSE u

(* The user row is read: a tombstoned account is refused, a banned one is  *)
(* not looked for.                                                         *)
TokenResolve(h) ==
    LET u == handler[h].user IN
    /\ handler[h].pc = "validated"
    /\ IF mergedInto[u] = None
         THEN handler' = [handler EXCEPT ![h] =
                            [@ EXCEPT !.pc = "resolved",
                                      !.sub = ResolveSub(u, handler[h].client)]]
         ELSE HandlerStop(h)
    /\ UNCHANGED <<userVars, rpVars, codes, tokens, tab, editing, ticked>>

(* The access-token row is created and both JWTs are returned.             *)
TokenMint(h, j) ==
    LET q == handler[h] IN
    /\ q.pc = "resolved"
    /\ tokens[j].state = "free"
    /\ tokens' = [tokens EXCEPT ![j] =
         [state |-> "live", client |-> q.client, user |-> q.user,
          items |-> q.items, sub |-> q.sub, code |-> q.code]]
    /\ HandlerStop(h)
    /\ UNCHANGED <<userVars, rpVars, codes, tab, editing, ticked>>

(* ACCESS_TOKEN_TTL elapses for a token.                                   *)
TokenExpires(j) ==
    /\ tokens[j].state = "live"
    /\ tokens' = [tokens EXCEPT ![j].state = "expired"]
    /\ UNCHANGED <<userVars, rpVars, codes, tab, handler, editing, ticked>>

-----------------------------------------------------------------------------
(* GET /oidc/userinfo reads and changes nothing of this state.             *)

UserinfoAnswers(j) ==
    /\ tokens[j].state = "live"
    /\ mergedInto[tokens[j].user] = None

(* What the answer carries: badges only while the row's user still holds   *)
(* them (loadApprovedBadgeJwts), flags as stamped on the token row.        *)
UserinfoItems(j) ==
    {i \in tokens[j].items : i \in Badges => badgeOwner[i] = tokens[j].user}

(* Where the disclosed name comes from: the persona row when there is one, *)
(* else the account's global display name.                                 *)
NameSource(j) ==
    IF persona[tokens[j].user][tokens[j].client] = "absent"
      THEN "global" ELSE "persona"

-----------------------------------------------------------------------------
(* Operations that revoke, edit or move what the flow has produced.        *)

RevokeTokens(S) ==
    [j \in Jtis |-> IF j \in S /\ tokens[j].state \in {"live", "expired"}
                      THEN [tokens[j] EXCEPT !.state = "revoked"]
                      ELSE tokens[j]]
DropCodes(S) ==
    [k \in Codes |-> IF k \in S /\ codes[k].state # "free"
                       THEN [codes[k] EXCEPT !.state = "deleted"]
                       ELSE codes[k]]

(* setUserBanned(banned: true): the user's tokens go with the ban.         *)
BanUser(u) ==
    /\ <<"ban", u>> \in AdminOps
    /\ banned' = [banned EXCEPT ![u] = TRUE]
    /\ tokens' = RevokeTokens({j \in Jtis : tokens[j].user = u})
    /\ UNCHANGED <<mergedInto, badgeOwner, rpVars, codes, tab, handler,
                   editing, ticked>>

(* Mutant: an un-ban lifts the revocation of the user's tokens.            *)
MutUnbanUser(u) ==
    /\ <<"ban", u>> \in AdminOps
    /\ banned' = [banned EXCEPT ![u] = FALSE]
    /\ tokens' = [j \in Jtis |->
         IF tokens[j].user = u /\ tokens[j].state = "revoked"
           THEN [tokens[j] EXCEPT !.state = "live"] ELSE tokens[j]]
    /\ UNCHANGED <<mergedInto, badgeOwner, rpVars, codes, tab, handler,
                   editing, ticked>>

(* setUserBanned(banned: false): nothing is revoked, nothing comes back.   *)
UnbanUser(u) ==
    /\ <<"ban", u>> \in AdminOps
    /\ banned' = [banned EXCEPT ![u] = FALSE]
    /\ UNCHANGED <<mergedInto, badgeOwner, rpVars, codes, tokens, tab, handler,
                   editing, ticked>>

RevokeAllSessions(u) ==
    /\ <<"signout", u>> \in AdminOps
    /\ SessionOk(u)
    /\ tokens' = RevokeTokens({j \in Jtis : tokens[j].user = u})
    /\ UNCHANGED <<userVars, rpVars, codes, tab, handler, editing, ticked>>

(* updateOidcClient: new allowed scopes, tokens revoked, codes dropped.    *)
UpdateOidcClient(c, cfg) ==
    /\ <<"update", c>> \in AdminOps
    /\ allowed[c] # None
    /\ allowed' = [allowed EXCEPT ![c] = cfg]
    /\ tokens' = RevokeTokens({j \in Jtis : tokens[j].client = c})
    /\ codes' = DropCodes({k \in Codes : codes[k].client = c})
    /\ UNCHANGED <<userVars, grants, persona, override, tab, handler, editing,
                   ticked>>

(* rotateOidcClientSecret: the secret itself is not modelled.              *)
RotateOidcClientSecret(c) ==
    /\ <<"rotate", c>> \in AdminOps
    /\ allowed[c] # None
    /\ tokens' = RevokeTokens({j \in Jtis : tokens[j].client = c})
    /\ codes' = DropCodes({k \in Codes : codes[k].client = c})
    /\ UNCHANGED <<userVars, rpVars, tab, handler, editing, ticked>>

(* deleteOidcClient: every row that names the client goes, in one          *)
(* transaction; subject overrides are kept.                                *)
DeleteOidcClient(c) ==
    /\ <<"delete", c>> \in AdminOps
    /\ allowed[c] # None
    /\ allowed' = [allowed EXCEPT ![c] = None]
    /\ tokens' = [j \in Jtis |-> IF tokens[j].client = c
                    THEN [tokens[j] EXCEPT !.state = "deleted"] ELSE tokens[j]]
    /\ codes' = DropCodes({k \in Codes : codes[k].client = c})
    /\ grants' = [u \in Users |-> [grants[u] EXCEPT ![c] = NoGrant]]
    /\ persona' = [u \in Users |-> [persona[u] EXCEPT ![c] = "absent"]]
    /\ UNCHANGED <<userVars, override, tab, handler, editing, ticked>>

DeleteBadge(b) ==
    /\ <<"badge", b>> \in AdminOps
    /\ badgeOwner[b] # None
    /\ SessionOk(badgeOwner[b])
    /\ badgeOwner' = [badgeOwner EXCEPT ![b] = None]
    /\ UNCHANGED <<banned, mergedInto, rpVars, codes, tokens, tab, handler,
                   editing, ticked>>

(* updateRpProfile: a grant must exist when it is looked for ...           *)
RpProfileCheck(u, c) ==
    /\ <<"persona", u>> \in AdminOps
    /\ editing[u] = None
    /\ SessionOk(u)
    /\ grants[u][c].row
    /\ editing' = [editing EXCEPT ![u] = c]
    /\ UNCHANGED <<userVars, rpVars, codes, tokens, tab, handler, ticked>>

(* ... and the persona is upserted afterwards, whatever happened between.  *)
RpProfileWrite(u) ==
    /\ editing[u] # None
    /\ \E p \in {"set", "null"} :
         persona' = [persona EXCEPT ![u][editing[u]] = p]
    /\ editing' = [editing EXCEPT ![u] = None]
    /\ UNCHANGED <<userVars, allowed, grants, override, codes, tokens, tab,
                   handler, ticked>>

(* The clients an account holds access-token rows for (revoked and expired *)
(* rows are kept, the rows of a deleted client are not).                   *)
UsedClients(u) ==
    {tokens[j].client : j \in {i \in Jtis : /\ tokens[i].user = u
                                            /\ tokens[i].state # "deleted"}}

(* A donor's grant moves to the survivor, or is united with the one there. *)
MergedGrants(d, s) ==
    [c \in Clients |->
        [row |-> grants[s][c].row \/ grants[d][c].row,
         items |-> grants[s][c].items \cup grants[d][c].items]]

(* The clients where only the donor was seen get an override that keeps    *)
(* the donor's derived sub for the survivor.                               *)
OverridesCreated(d, s) ==
    {c \in UsedClients(d) \ UsedClients(s) : override[s][c] = None}

(* The donor's own override rows move too, unless the survivor has one; a  *)
(* row both moved and created breaks the (userId, clientId) key and rolls  *)
(* the merge back.                                                         *)
OverrideClash(d, s) ==
    \E c \in OverridesCreated(d, s) : override[d][c] # None

MergedOverrides(d, s) ==
    [c \in Clients |->
        IF override[s][c] # None THEN override[s][c]
        ELSE IF c \in OverridesCreated(d, s) THEN d ELSE override[d][c]]

(* The OIDC rows' part of mergeAccounts (module AccountMerge has the rest):*)
(* one REPEATABLE READ transaction, retried when it conflicts.  It checks  *)
(* the donor again and not the survivor, who was signed in when it         *)
(* confirmed but may be banned or merged away by now.                      *)
MergeAccounts(d, s) ==
    /\ <<d, s>> \in MergePairs
    /\ mergedInto[d] = None
    /\ ~OverrideClash(d, s)
    /\ mergedInto' = [mergedInto EXCEPT ![d] = s]
    /\ banned' = [banned EXCEPT ![s] = banned[s] \/ banned[d]]
    /\ badgeOwner' = [b \in Badges |-> IF badgeOwner[b] = d THEN s
                                                           ELSE badgeOwner[b]]
    /\ tokens' = [j \in Jtis |-> IF tokens[j].user = d
                    THEN [tokens[j] EXCEPT !.user = s] ELSE tokens[j]]
    /\ codes' = DropCodes({k \in Codes : codes[k].user = d})
    /\ grants' = [grants EXCEPT ![s] = MergedGrants(d, s),
                                ![d] = [c \in Clients |-> NoGrant]]
    /\ override' = [override EXCEPT ![s] = MergedOverrides(d, s),
                                    ![d] = [c \in Clients |->
                                       IF override[s][c] # None
                                         THEN override[d][c] ELSE None]]
    /\ UNCHANGED <<allowed, persona, tab, handler, editing, ticked>>

-----------------------------------------------------------------------------

ConsentStep ==
    \E t \in Tabs :
        \/ \E c \in Clients, r \in Requests : AuthorizePage(t, c, r)
        \/ \E u \in Users, S \in SUBSET Items : ApproveLoad(t, u, S)
        \/ ApproveReadGrant(t)
        \/ \E k \in Codes : ApproveCommit(t, k)
        \/ LeavePage(t)

TokenStep ==
    \E h \in Handlers :
        \/ \E c \in Clients, k \in Codes, good \in BOOLEAN :
             TokenAuth(h, c, k, good)
        \/ TokenConsume(h)
        \/ TokenValidate(h)
        \/ TokenResolve(h)
        \/ \E j \in Jtis : TokenMint(h, j)

ClockStep ==
    \/ \E k \in Codes : CodeExpires(k)
    \/ \E j \in Jtis : TokenExpires(j)

AccountStep ==
    \/ \E u \in Users : \/ BanUser(u) \/ UnbanUser(u) \/ RevokeAllSessions(u)
                        \/ RpProfileWrite(u)
                        \/ \E c \in Clients : RpProfileCheck(u, c)
    \/ \E b \in Badges : DeleteBadge(b)
    \/ \E d, s \in Users : MergeAccounts(d, s)

ClientStep ==
    \E c \in Clients :
        \/ \E cfg \in Configs : UpdateOidcClient(c, cfg)
        \/ RotateOidcClientSecret(c)
        \/ DeleteOidcClient(c)

Next == ConsentStep \/ TokenStep \/ ClockStep \/ AccountStep \/ ClientStep

Spec == Init /\ [][Next]_vars

-----------------------------------------------------------------------------
(* Properties.                                                             *)

GrantRows == [row : BOOLEAN, items : SUBSET Items]
CodeRows == [state : {"free", "live", "consumed", "deleted"},
             expired : BOOLEAN, client : Clients \cup {None},
             user : Users \cup {None}, items : SUBSET Items]
TokenRows == [state : {"free", "live", "expired", "revoked", "deleted"},
              client : Clients \cup {None}, user : Users \cup {None},
              items : SUBSET Items, sub : Users \cup {None},
              code : Codes \cup {None}]
TabStates == [pc : {"idle", "page", "approving", "txn"},
              client : Clients \cup {None}, scopes : SUBSET UNION Configs,
              policy : BOOLEAN, user : Users \cup {None},
              items : SUBSET Items, existing : GrantRows]
HandlerStates == [pc : {"idle", "authed", "consumed", "validated", "resolved"},
                  client : Clients \cup {None}, code : Codes \cup {None},
                  good : BOOLEAN, user : Users \cup {None},
                  items : SUBSET Items, sub : Users \cup {None}]

(* Every variable holds rows of the shape the schema gives its table.      *)
TypeOK ==
    /\ banned \in [Users -> BOOLEAN]
    /\ mergedInto \in [Users -> Users \cup {None}]
    /\ badgeOwner \in [Badges -> Users \cup {None}]
    /\ allowed \in [Clients -> Configs \cup {None}]
    /\ grants \in [Users -> [Clients -> GrantRows]]
    /\ persona \in [Users -> [Clients -> {"absent", "null", "set"}]]
    /\ override \in [Users -> [Clients -> Users \cup {None}]]
    /\ codes \in [Codes -> CodeRows]
    /\ tokens \in [Jtis -> TokenRows]
    /\ tab \in [Tabs -> TabStates]
    /\ handler \in [Handlers -> HandlerStates]
    /\ editing \in [Users -> Clients \cup {None}]
    /\ ticked \subseteq Clients \X Items

Minted(j) == tokens[j].state # "free"

(* However many /oidc/token requests race with one authorization code, and *)
(* whatever an admin or a merge does to the row meanwhile, at most one     *)
(* access token ever comes from it (the updateMany on consumedAt: null).   *)
CodeSingleUse ==
    \A i, j \in Jtis :
        Minted(i) /\ Minted(j) /\ tokens[i].code = tokens[j].code => i = j

(* A token carries exactly what the consent behind its code decided, for   *)
(* the relying party that consent named: the awaits between consumption,   *)
(* validation and minting let nothing else in.                             *)
TokenFollowsConsent ==
    \A j \in Jtis : Minted(j) =>
        /\ tokens[j].client = codes[tokens[j].code].client
        /\ tokens[j].items = codes[tokens[j].code].items

(* /oidc/userinfo tells a relying party only badge INSTANCES and claims    *)
(* that their owner ticked for that same relying party at some consent,    *)
(* through folds of old grants, policies and account merges (audit W1).    *)
ConsentBound ==
    \A j \in Jtis : UserinfoAnswers(j) =>
        {tokens[j].client} \X UserinfoItems(j) \subseteq ticked

(* A token that was revoked, deleted or expired never answers again: not   *)
(* after an un-ban, a merge or any later consent.                          *)
RevocationFinal ==
    [][\A j \in Jtis : tokens[j].state \in {"revoked", "deleted", "expired"}
                          => ~UserinfoAnswers(j)']_vars

(* A name goes out under the persona shaped for that relying party; it is  *)
(* never silently upgraded to the account's global display name, as long   *)
(* as the client is registered and the account took no other one over (a   *)
(* merge leaves the persona rows with the donor).                          *)
PersonaAuthoritative ==
    \A j \in Jtis :
        /\ UserinfoAnswers(j) /\ allowed[tokens[j].client] # None
        /\ \A u \in Users : mergedInto[u] # tokens[j].user
        => (NameClaim \in UserinfoItems(j) => NameSource(j) = "persona")

-----------------------------------------------------------------------------
(***************************************************************************)
(* The inductive strengthening behind CodeSingleUse, TokenFollowsConsent   *)
(* and ConsentBound.                                                       *)
(***************************************************************************)

(* Nothing on record for a client goes beyond what was ticked for it.      *)
RecordsTicked ==
    /\ \A u \in Users, c \in Clients :
         {c} \X grants[u][c].items \subseteq ticked
    /\ \A k \in Codes : codes[k].state # "free" =>
         {codes[k].client} \X codes[k].items \subseteq ticked

(* A consent on its way to the commit has chosen, and read, ticked items.  *)
TabsTicked ==
    \A t \in Tabs :
        /\ tab[t].pc # "idle" => tab[t].client \in Clients
        /\ tab[t].pc \in {"approving", "txn"} =>
             /\ tab[t].user \in Users
             /\ {tab[t].client} \X tab[t].items \subseteq ticked
        /\ tab[t].pc = "txn" =>
             {tab[t].client} \X tab[t].existing.items \subseteq ticked

(* A request past consumption owns its code: nobody else is past it with   *)
(* the same code, no token came from it, and what it validated is the row. *)
Spent(k) == codes[k].state \in {"consumed", "deleted"}
PastConsume(h) == handler[h].pc \in {"consumed", "validated", "resolved"}
OwnsCode(h) ==
    /\ handler[h].pc # "idle" => /\ handler[h].client \in Clients
                                 /\ handler[h].code \in Codes
                                 /\ codes[handler[h].code].state # "free"
    /\ PastConsume(h) => /\ Spent(handler[h].code)
                         /\ \A j \in Jtis : tokens[j].code # handler[h].code
    /\ handler[h].pc \in {"validated", "resolved"} =>
         /\ handler[h].user \in Users
         /\ handler[h].client = codes[handler[h].code].client
         /\ handler[h].items = codes[handler[h].code].items
HandlersOwnCode ==
    /\ \A h \in Handlers : OwnsCode(h)
    /\ \A g, h \in Handlers :
         PastConsume(g) /\ PastConsume(h) /\ handler[g].code = handler[h].code
            => g = h

(* An issued code belongs to an account and a client, a minted token to an *)
(* account and a spent code; a row not written yet is blank.               *)
RowsWellFormed ==
    /\ \A k \in Codes :
         /\ codes[k].state = "free" => codes[k] = FreeCode
         /\ codes[k].state # "free" => /\ codes[k].client \in Clients
                                       /\ codes[k].user \in Users
    /\ \A j \in Jtis :
         /\ ~Minted(j) => tokens[j] = FreeToken
         /\ Minted(j) => /\ tokens[j].user \in Users
                         /\ tokens[j].code \in Codes
                         /\ Spent(tokens[j].code)

IInv == /\ TypeOK /\ RowsWellFormed /\ RecordsTicked /\ TabsTicked
        /\ HandlersOwnCode /\ CodeSingleUse /\ TokenFollowsConsent

-----------------------------------------------------------------------------
(* The promise this module implements.                                     *)

Decided ==
    [k \in Codes |-> [client |-> codes[k].client, items |-> codes[k].items]]

Access ==
    [j \in Jtis |->
        [code |-> tokens[j].code,
         phase |-> IF tokens[j].state = "free" THEN "never"
                   ELSE IF UserinfoAnswers(j) THEN "on" ELSE "off"]]

Promise == INSTANCE ConsentPromise WITH decided <- Decided, access <- Access

(* The provider with all its races implements ConsentPromise: every        *)
(* disclosure goes back to a tick, a code pays out once, and a token that  *)
(* stopped answering stays silent.                                         *)
ImplementsPromise == Promise!Spec
=============================================================================
