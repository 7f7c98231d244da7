------------------------- MODULE OidcProviderProofs -------------------------
(***************************************************************************)
(* Proofs about OidcProvider, for any number of accounts, relying parties, *)
(* badges, racing consent screens and racing token requests.               *)
(***************************************************************************)
EXTENDS OidcProvider, TLAPS

(* The initial database and idle processes satisfy the invariant.          *)
LEMMA InitIInv == Init => IInv
<1> SUFFICES ASSUME Init PROVE IInv
  OBVIOUS
<1> USE OidcConstants DEF Init, NoGrant, FreeCode, FreeToken, IdleTab,
                          IdleHandler
<1>1. TypeOK
  BY DEF TypeOK, GrantRows, CodeRows, TokenRows, TabStates, HandlerStates
<1>2. RowsWellFormed
  BY DEF RowsWellFormed, Minted
<1>3. RecordsTicked
  BY DEF RecordsTicked
<1>4. TabsTicked /\ HandlersOwnCode
  BY DEF TabsTicked, HandlersOwnCode, OwnsCode, PastConsume
<1>5. CodeSingleUse /\ TokenFollowsConsent
  BY DEF CodeSingleUse, TokenFollowsConsent, Minted
<1> QED BY <1>1, <1>2, <1>3, <1>4, <1>5 DEF IInv

-----------------------------------------------------------------------------
(* Steps that leave the data of issued codes and minted tokens alone: they *)
(* may spend, expire, revoke or delete a row and re-point its account.     *)

CodesKept ==
    /\ codes' \in [Codes -> CodeRows]
    /\ \A k \in Codes :
         /\ codes'[k].client = codes[k].client
         /\ codes'[k].items = codes[k].items
         /\ codes'[k].user = codes[k].user
         /\ codes'[k].state = "free" <=> codes[k].state = "free"
         /\ codes[k].state = "free" => codes'[k] = codes[k]
         /\ Spent(k) => Spent(k)'

TokensKept ==
    /\ tokens' \in [Jtis -> TokenRows]
    /\ \A j \in Jtis :
         /\ tokens'[j].client = tokens[j].client
         /\ tokens'[j].items = tokens[j].items
         /\ tokens'[j].code = tokens[j].code
         /\ Minted(j)' <=> Minted(j)
         /\ ~Minted(j) => tokens'[j] = tokens[j]
         /\ Minted(j) => tokens'[j].user \in Users

(* Such a step keeps the invariant if it types and grants stay ticked.     *)
LEMMA KeptStep ==
    ASSUME IInv, TypeOK', CodesKept, TokensKept,
           UNCHANGED <<handler, tab, ticked>>,
           \A u \in Users, c \in Clients :
              {c} \X grants'[u][c].items \subseteq ticked
    PROVE  IInv'
<1>1. RowsWellFormed'
  BY DEF IInv, CodesKept, TokensKept, RowsWellFormed, FreeToken, FreeCode,
         Minted, Spent
<1>2. RecordsTicked'
  BY DEF IInv, CodesKept, RecordsTicked, Spent
<1>3. TabsTicked'
  BY DEF IInv, TabsTicked
<1>4. HandlersOwnCode'
  BY DEF IInv, HandlersOwnCode, OwnsCode, PastConsume, CodesKept, TokensKept, Spent, Minted
<1>5. CodeSingleUse'
  BY DEF IInv, CodeSingleUse, TokensKept, Minted
<1>6. TokenFollowsConsent'
  BY DEF IInv, TokenFollowsConsent, RowsWellFormed, CodesKept, TokensKept,
          Minted, Spent
<1> QED BY <1>1, <1>2, <1>3, <1>4, <1>5, <1>6 DEF IInv

LEMMA CodesUnchangedKept == ASSUME IInv, UNCHANGED codes PROVE CodesKept
BY DEF IInv, TypeOK, CodesKept, Spent

LEMMA TokensUnchangedKept == ASSUME IInv, UNCHANGED tokens PROVE TokensKept
BY DEF IInv, RowsWellFormed, TypeOK, TokensKept, Minted

(* Dropping code rows and revoking token rows are steps of that kind.      *)
LEMMA DropKept ==
    ASSUME IInv, NEW S \in SUBSET Codes, codes' = DropCodes(S)
    PROVE  CodesKept
<1>1. \A k \in Codes : codes[k] \in CodeRows
  BY DEF IInv, TypeOK
<1>2. ASSUME NEW k \in Codes
      PROVE  [codes[k] EXCEPT !.state = "deleted"] \in CodeRows
  BY <1>1 DEF CodeRows
<1>3. codes' \in [Codes -> CodeRows]
  BY <1>1, <1>2 DEF DropCodes
<1>4. ASSUME NEW k \in Codes
      PROVE  /\ codes'[k].client = codes[k].client
             /\ codes'[k].items = codes[k].items
             /\ codes'[k].user = codes[k].user
             /\ codes'[k].state = "free" <=> codes[k].state = "free"
             /\ codes[k].state = "free" => codes'[k] = codes[k]
             /\ Spent(k) => Spent(k)'
  BY <1>1 DEF CodeRows, DropCodes, Spent
<1> QED BY <1>3, <1>4 DEF CodesKept, Spent

LEMMA RevokeKept ==
    ASSUME IInv, NEW S \in SUBSET Jtis, tokens' = RevokeTokens(S)
    PROVE  TokensKept
<1>1. \A j \in Jtis : tokens[j] \in TokenRows
  BY DEF IInv, TypeOK
<1>2. ASSUME NEW j \in Jtis
      PROVE  [tokens[j] EXCEPT !.state = "revoked"] \in TokenRows
  BY <1>1 DEF TokenRows
<1>3. tokens' \in [Jtis -> TokenRows]
  BY <1>1, <1>2 DEF RevokeTokens
<1>4. ASSUME NEW j \in Jtis
      PROVE  /\ tokens'[j].client = tokens[j].client
             /\ tokens'[j].items = tokens[j].items
             /\ tokens'[j].code = tokens[j].code
             /\ Minted(j)' <=> Minted(j)
             /\ ~Minted(j) => tokens'[j] = tokens[j]
             /\ Minted(j) => tokens'[j].user \in Users
  BY <1>1 DEF TokenRows, RevokeTokens, Minted, IInv, RowsWellFormed
<1> QED BY <1>3, <1>4 DEF TokensKept

(* A grant that does not change stays ticked.                              *)
LEMMA GrantsStayTicked ==
    ASSUME IInv, UNCHANGED grants
    PROVE  \A u \in Users, c \in Clients :
              {c} \X grants'[u][c].items \subseteq ticked
BY DEF IInv, RecordsTicked

-----------------------------------------------------------------------------
LEMMA CodeExpiresStep == ASSUME IInv, NEW k \in Codes, CodeExpires(k) PROVE IInv'
<1>1. CodesKept
  <2>1. \A i \in Codes : codes[i] \in CodeRows
    BY DEF IInv, TypeOK
  <2>2. [codes[k] EXCEPT !.expired = TRUE] \in CodeRows
    BY <2>1 DEF CodeRows
  <2>3. codes' \in [Codes -> CodeRows]
    BY <2>2 DEF CodeExpires, IInv, TypeOK
  <2> QED BY <2>1, <2>3 DEF CodesKept, CodeExpires, IInv, TypeOK, CodeRows,
                           Spent
<1>2. TokensKept
  BY TokensUnchangedKept DEF CodeExpires, userVars, rpVars
<1>3. TypeOK'
  BY <1>1, <1>2, OidcConstants DEF CodeExpires, userVars, rpVars, IInv, TypeOK, CodesKept, TokensKept
<1> QED BY <1>1, <1>2, <1>3, KeptStep, GrantsStayTicked DEF CodeExpires, userVars, rpVars

LEMMA TokenExpiresStep == ASSUME IInv, NEW j \in Jtis, TokenExpires(j) PROVE IInv'
<1>1. CodesKept
  BY CodesUnchangedKept DEF TokenExpires, userVars, rpVars
<1>2. TokensKept
  <2>1. \A i \in Jtis : tokens[i] \in TokenRows
    BY DEF IInv, TypeOK
  <2>2. [tokens[j] EXCEPT !.state = "expired"] \in TokenRows
    BY <2>1 DEF TokenRows
  <2>3. tokens' \in [Jtis -> TokenRows]
    BY <2>2 DEF TokenExpires, IInv, TypeOK
  <2> QED BY <2>1, <2>3 DEF TokensKept, TokenExpires, IInv, TypeOK, TokenRows,
                           Minted, RowsWellFormed
<1>3. TypeOK'
  BY <1>1, <1>2, OidcConstants DEF TokenExpires, userVars, rpVars, IInv, TypeOK, CodesKept, TokensKept
<1> QED BY <1>1, <1>2, <1>3, KeptStep, GrantsStayTicked DEF TokenExpires, userVars, rpVars

LEMMA BanUserStep == ASSUME IInv, NEW u \in Users, BanUser(u) PROVE IInv'
<1>1. CodesKept
  BY CodesUnchangedKept DEF BanUser, userVars, rpVars
<1>2. TokensKept
  BY RevokeKept, {j \in Jtis : tokens[j].user = u} \in SUBSET Jtis DEF BanUser
<1>3. TypeOK'
  BY <1>1, <1>2, OidcConstants DEF BanUser, userVars, rpVars, IInv, TypeOK, CodesKept, TokensKept
<1> QED BY <1>1, <1>2, <1>3, KeptStep, GrantsStayTicked DEF BanUser, userVars, rpVars

LEMMA UnbanUserStep == ASSUME IInv, NEW u \in Users, UnbanUser(u) PROVE IInv'
<1>1. CodesKept
  BY CodesUnchangedKept DEF UnbanUser, userVars, rpVars
<1>2. TokensKept
  BY TokensUnchangedKept DEF UnbanUser, userVars, rpVars
<1>3. TypeOK'
  BY <1>1, <1>2, OidcConstants DEF UnbanUser, userVars, rpVars, IInv, TypeOK, CodesKept, TokensKept
<1> QED BY <1>1, <1>2, <1>3, KeptStep, GrantsStayTicked DEF UnbanUser, userVars, rpVars

LEMMA RevokeAllSessionsStep == ASSUME IInv, NEW u \in Users, RevokeAllSessions(u) PROVE IInv'
<1>1. CodesKept
  BY CodesUnchangedKept DEF RevokeAllSessions, userVars, rpVars
<1>2. TokensKept
  BY RevokeKept, {j \in Jtis : tokens[j].user = u} \in SUBSET Jtis DEF RevokeAllSessions
<1>3. TypeOK'
  BY <1>1, <1>2, OidcConstants DEF RevokeAllSessions, userVars, rpVars, IInv, TypeOK, CodesKept, TokensKept
<1> QED BY <1>1, <1>2, <1>3, KeptStep, GrantsStayTicked DEF RevokeAllSessions, userVars, rpVars

LEMMA UpdateOidcClientStep ==
    ASSUME IInv, NEW c \in Clients, NEW cfg \in Configs, UpdateOidcClient(c, cfg)
    PROVE  IInv'
<1>1. CodesKept
  BY DropKept, {k \in Codes : codes[k].client = c} \in SUBSET Codes DEF UpdateOidcClient
<1>2. TokensKept
  BY RevokeKept, {j \in Jtis : tokens[j].client = c} \in SUBSET Jtis DEF UpdateOidcClient
<1>3. TypeOK'
  BY <1>1, <1>2, OidcConstants DEF UpdateOidcClient, userVars, rpVars, IInv, TypeOK, CodesKept, TokensKept
<1> QED BY <1>1, <1>2, <1>3, KeptStep, GrantsStayTicked DEF UpdateOidcClient, userVars, rpVars

LEMMA RotateOidcClientSecretStep == ASSUME IInv, NEW c \in Clients, RotateOidcClientSecret(c) PROVE IInv'
<1>1. CodesKept
  BY DropKept, {k \in Codes : codes[k].client = c} \in SUBSET Codes DEF RotateOidcClientSecret
<1>2. TokensKept
  BY RevokeKept, {j \in Jtis : tokens[j].client = c} \in SUBSET Jtis DEF RotateOidcClientSecret
<1>3. TypeOK'
  BY <1>1, <1>2, OidcConstants DEF RotateOidcClientSecret, userVars, rpVars, IInv, TypeOK, CodesKept, TokensKept
<1> QED BY <1>1, <1>2, <1>3, KeptStep, GrantsStayTicked DEF RotateOidcClientSecret, userVars, rpVars

LEMMA DeleteBadgeStep == ASSUME IInv, NEW b \in Badges, DeleteBadge(b) PROVE IInv'
<1>1. CodesKept
  BY CodesUnchangedKept DEF DeleteBadge, userVars, rpVars
<1>2. TokensKept
  BY TokensUnchangedKept DEF DeleteBadge, userVars, rpVars
<1>3. TypeOK'
  BY <1>1, <1>2, OidcConstants DEF DeleteBadge, userVars, rpVars, IInv, TypeOK, CodesKept, TokensKept
<1> QED BY <1>1, <1>2, <1>3, KeptStep, GrantsStayTicked DEF DeleteBadge, userVars, rpVars

LEMMA RpProfileCheckStep ==
    ASSUME IInv, NEW u \in Users, NEW c \in Clients, RpProfileCheck(u, c)
    PROVE  IInv'
<1>1. CodesKept
  BY CodesUnchangedKept DEF RpProfileCheck, userVars, rpVars
<1>2. TokensKept
  BY TokensUnchangedKept DEF RpProfileCheck, userVars, rpVars
<1>3. TypeOK'
  BY <1>1, <1>2, OidcConstants DEF RpProfileCheck, userVars, rpVars, IInv, TypeOK, CodesKept, TokensKept
<1> QED BY <1>1, <1>2, <1>3, KeptStep, GrantsStayTicked DEF RpProfileCheck, userVars, rpVars

LEMMA RpProfileWriteStep == ASSUME IInv, NEW u \in Users, RpProfileWrite(u) PROVE IInv'
<1>1. CodesKept
  BY CodesUnchangedKept DEF RpProfileWrite, userVars, rpVars
<1>2. TokensKept
  BY TokensUnchangedKept DEF RpProfileWrite, userVars, rpVars
<1>3. TypeOK'
  BY <1>1, <1>2, OidcConstants DEF RpProfileWrite, userVars, rpVars, IInv, TypeOK, CodesKept, TokensKept
<1> QED BY <1>1, <1>2, <1>3, KeptStep, GrantsStayTicked DEF RpProfileWrite, userVars, rpVars

(* The rows of a deleted client go; its grants become empty.               *)
LEMMA DeleteOidcClientStep ==
    ASSUME IInv, NEW c \in Clients, DeleteOidcClient(c)
    PROVE  IInv'
<1>1. CodesKept
  BY DropKept, {k \in Codes : codes[k].client = c} \in SUBSET Codes
  DEF DeleteOidcClient
<1>2. TokensKept
  <2>1. \A j \in Jtis : tokens[j] \in TokenRows
    BY DEF IInv, TypeOK
  <2>2. \A j \in Jtis : [tokens[j] EXCEPT !.state = "deleted"] \in TokenRows
    BY <2>1 DEF TokenRows
  <2>3. tokens' \in [Jtis -> TokenRows]
    BY <2>1, <2>2 DEF DeleteOidcClient
  <2>4. \A j \in Jtis : ~Minted(j) => tokens[j].client = None
    BY DEF IInv, RowsWellFormed, FreeToken
  <2>5. \A j \in Jtis : tokens[j].client = c => Minted(j)
    BY <2>4, OidcConstants
  <2> QED BY <2>1, <2>3, <2>5 DEF DeleteOidcClient, TokensKept, TokenRows, Minted,
                                  IInv, RowsWellFormed
<1>3. TypeOK'
  BY <1>1, <1>2 DEF DeleteOidcClient, userVars, IInv, TypeOK, CodesKept,
                    TokensKept, GrantRows, NoGrant
<1>4. \A u \in Users, e \in Clients :
        {e} \X grants'[u][e].items \subseteq ticked
  BY DEF DeleteOidcClient, NoGrant, IInv, RecordsTicked, TypeOK
<1> QED BY <1>1, <1>2, <1>3, <1>4, KeptStep DEF DeleteOidcClient

(* A merge re-points tokens, drops the donor's codes and unites grants.    *)
LEMMA MergeAccountsStep ==
    ASSUME IInv, NEW d \in Users, NEW s \in Users, MergeAccounts(d, s)
    PROVE  IInv'
<1>1. CodesKept
  BY DropKept, {k \in Codes : codes[k].user = d} \in SUBSET Codes
  DEF MergeAccounts
<1>2. TokensKept
  <2>1. \A j \in Jtis : tokens[j] \in TokenRows
    BY DEF IInv, TypeOK
  <2>2. \A j \in Jtis : [tokens[j] EXCEPT !.user = s] \in TokenRows
    BY <2>1 DEF TokenRows
  <2>3. tokens' \in [Jtis -> TokenRows]
    BY <2>1, <2>2 DEF MergeAccounts
  <2>4. \A j \in Jtis : ~Minted(j) => tokens[j].user = None
    BY DEF IInv, RowsWellFormed, FreeToken
  <2>5. \A j \in Jtis : tokens[j].user = d => Minted(j)
    BY <2>4, OidcConstants
  <2> QED BY <2>1, <2>3, <2>5 DEF MergeAccounts, TokensKept, TokenRows, Minted,
                                  IInv, RowsWellFormed
<1>3. MergedGrants(d, s) \in [Clients -> GrantRows]
  BY DEF MergedGrants, IInv, TypeOK, GrantRows
<1>4. MergedOverrides(d, s) \in [Clients -> Users \cup {None}]
  BY DEF MergedOverrides, IInv, TypeOK
<1>5. grants' \in [Users -> [Clients -> GrantRows]]
  BY <1>3 DEF MergeAccounts, IInv, TypeOK, NoGrant, GrantRows
<1>6. override' \in [Users -> [Clients -> Users \cup {None}]]
  BY <1>4 DEF MergeAccounts, IInv, TypeOK
<1>7. TypeOK'
  BY <1>1, <1>2, <1>5, <1>6 DEF MergeAccounts, IInv, TypeOK, CodesKept,
                                TokensKept
<1>8. \A u \in Users, c \in Clients :
        {c} \X grants'[u][c].items \subseteq ticked
  <2>1. \A c \in Clients : {c} \X MergedGrants(d, s)[c].items \subseteq ticked
    BY DEF MergedGrants, IInv, RecordsTicked
  <2> QED BY <2>1 DEF MergeAccounts, NoGrant, IInv, RecordsTicked, TypeOK
<1> QED BY <1>1, <1>2, <1>7, <1>8, KeptStep DEF MergeAccounts

-----------------------------------------------------------------------------
(* Steps of a consent screen.                                              *)

(* Until the commit a consent step changes nothing but its own tab.        *)
LEMMA TabOnlyStep ==
    ASSUME IInv, TypeOK', TabsTicked', RecordsTicked',
           UNCHANGED <<codes, tokens, handler>>
    PROVE  IInv'
BY DEF IInv, RowsWellFormed, HandlersOwnCode, OwnsCode, PastConsume, Spent, Minted,
       CodeSingleUse, TokenFollowsConsent

LEMMA AuthorizePageStep ==
    ASSUME IInv, NEW t \in Tabs, NEW c \in Clients, NEW r \in Requests,
           AuthorizePage(t, c, r)
    PROVE  IInv'
<1>1. [IdleTab EXCEPT !.pc = "page", !.client = c, !.scopes = r.scopes,
                      !.policy = r.policy] \in TabStates
  BY OidcConstants DEF IdleTab, TabStates, GrantRows, NoGrant
<1>2. TypeOK'
  BY <1>1 DEF AuthorizePage, userVars, rpVars, IInv, TypeOK
<1>3. TabsTicked' /\ RecordsTicked'
  BY DEF AuthorizePage, rpVars, IInv, TabsTicked, RecordsTicked, TypeOK, IdleTab
<1> QED BY <1>2, <1>3, TabOnlyStep DEF AuthorizePage

LEMMA LeavePageStep ==
    ASSUME IInv, NEW t \in Tabs, LeavePage(t)
    PROVE  IInv'
<1>1. IdleTab \in TabStates
  BY DEF IdleTab, TabStates, GrantRows, NoGrant
<1>2. TypeOK'
  BY <1>1 DEF LeavePage, userVars, rpVars, IInv, TypeOK
<1>3. TabsTicked' /\ RecordsTicked'
  BY DEF LeavePage, rpVars, IInv, TabsTicked, RecordsTicked, TypeOK, IdleTab
<1> QED BY <1>2, <1>3, TabOnlyStep DEF LeavePage

(* The fold adds only instances from the grant, which are ticked already.  *)
LEMMA ApproveLoadStep ==
    ASSUME IInv, NEW t \in Tabs, NEW u \in Users, NEW S \in SUBSET Items,
           ApproveLoad(t, u, S)
    PROVE  IInv'
<1> DEFINE q == tab[t]
           mine == OwnedRequested(u, q.scopes, S)
           fold == GrantFold(u, q.client, q.scopes)
           flags == ApprovedFlags(q.scopes, S)
           agreed == S \cap Shown(u, q.scopes)
<1>1. q \in TabStates /\ q.pc = "page" /\ q.client \in Clients
  BY DEF ApproveLoad, IInv, TypeOK, TabsTicked
<1>2. mine \cup flags \subseteq agreed /\ agreed \subseteq Items
      /\ fold \subseteq Items
  BY OidcConstants DEF OwnedRequested, GrantFold, ApprovedFlags, Shown
<1>3. PICK chosen \in SUBSET (mine \cup fold) :
        tab' = [tab EXCEPT ![t] = [q EXCEPT !.pc = "approving", !.user = u,
                                            !.items = chosen \cup flags]]
  BY DEF ApproveLoad
<1>4. [q EXCEPT !.pc = "approving", !.user = u, !.items = chosen \cup flags]
        \in TabStates
  BY <1>1, <1>2, <1>3 DEF TabStates
<1>5. ticked' = ticked \cup ({q.client} \X agreed)
  BY DEF ApproveLoad
<1>6. ticked' \subseteq Clients \X Items
  BY <1>1, <1>2, <1>5 DEF IInv, TypeOK
<1>7. TypeOK'
  BY <1>3, <1>4, <1>6 DEF ApproveLoad, userVars, rpVars, IInv, TypeOK
<1>8. {q.client} \X fold \subseteq ticked
  BY <1>1 DEF GrantFold, OwnedRequested, IInv, RecordsTicked
<1>9. {q.client} \X (chosen \cup flags) \subseteq ticked'
  BY <1>2, <1>3, <1>5, <1>8
<1>10. tab'[t].pc = "approving" /\ tab'[t].user = u /\ tab'[t].client = q.client
       /\ tab'[t].items = chosen \cup flags
  BY <1>1, <1>3 DEF IInv, TypeOK, TabStates
<1>11. \A o \in Tabs : o # t => tab'[o] = tab[o]
  BY <1>3 DEF IInv, TypeOK
<1>12. TabsTicked'
  BY <1>1, <1>5, <1>9, <1>10, <1>11 DEF IInv, TabsTicked
<1>13. RecordsTicked'
  BY <1>5 DEF ApproveLoad, rpVars, IInv, RecordsTicked
<1> QED BY <1>7, <1>12, <1>13, TabOnlyStep DEF ApproveLoad

LEMMA ApproveReadGrantStep ==
    ASSUME IInv, NEW t \in Tabs, ApproveReadGrant(t)
    PROVE  IInv'
<1> DEFINE q == tab[t]
<1>1. q \in TabStates /\ q.pc = "approving" /\ q.client \in Clients
      /\ q.user \in Users
  BY DEF ApproveReadGrant, IInv, TypeOK, TabsTicked
<1>2. grants[q.user][q.client] \in GrantRows
  BY <1>1 DEF IInv, TypeOK
<1>3. [q EXCEPT !.pc = "txn", !.existing = grants[q.user][q.client]]
        \in TabStates
  BY <1>1, <1>2 DEF TabStates
<1>4. TypeOK'
  BY <1>3 DEF ApproveReadGrant, userVars, rpVars, IInv, TypeOK
<1>5. {q.client} \X grants[q.user][q.client].items \subseteq ticked
  BY <1>1 DEF IInv, RecordsTicked
<1>6. tab'[t].pc = "txn" /\ tab'[t].user = q.user /\ tab'[t].client = q.client
      /\ tab'[t].items = q.items
      /\ tab'[t].existing = grants[q.user][q.client]
  BY <1>1 DEF ApproveReadGrant, IInv, TypeOK, TabStates
<1>7. \A o \in Tabs : o # t => tab'[o] = tab[o]
  BY DEF ApproveReadGrant, IInv, TypeOK
<1>8. TabsTicked'
  BY <1>1, <1>5, <1>6, <1>7 DEF ApproveReadGrant, IInv, TabsTicked
<1>9. RecordsTicked'
  BY DEF ApproveReadGrant, rpVars, IInv, RecordsTicked
<1> QED BY <1>4, <1>8, <1>9, TabOnlyStep DEF ApproveReadGrant

(* The commit writes ticked items into a code that nobody can hold yet.    *)
LEMMA ApproveCommitStep ==
    ASSUME IInv, NEW t \in Tabs, NEW k \in Codes, ApproveCommit(t, k)
    PROVE  IInv'
<1> DEFINE q == tab[t]
           row == [state |-> "live", expired |-> FALSE, client |-> q.client,
                   user |-> q.user, items |-> q.items]
           shut == [q EXCEPT !.pc = "page", !.user = None, !.items = {},
                             !.existing = NoGrant]
<1>1. q \in TabStates /\ q.pc = "txn" /\ q.client \in Clients
      /\ q.user \in Users /\ codes[k].state = "free"
  BY DEF ApproveCommit, IInv, TypeOK, TabsTicked
<1>2. /\ {q.client} \X q.items \subseteq ticked
      /\ {q.client} \X q.existing.items \subseteq ticked
  BY <1>1 DEF IInv, TabsTicked
<1>3. row \in CodeRows /\ shut \in TabStates
      /\ MergedGrant(q.existing, q.items) \in GrantRows
  BY <1>1 DEF CodeRows, TabStates, MergedGrant, GrantRows, NoGrant
<1>4. codes' \in [Codes -> CodeRows] /\ tab' \in [Tabs -> TabStates]
  BY <1>3 DEF ApproveCommit, IInv, TypeOK
<1>5. grants' \in [Users -> [Clients -> GrantRows]]
  BY <1>1, <1>3 DEF ApproveCommit, IInv, TypeOK
<1>6. persona' \in [Users -> [Clients -> {"absent", "null", "set"}]]
  BY <1>1 DEF ApproveCommit, PersonaAfter, IInv, TypeOK
<1>7. TypeOK'
  BY <1>4, <1>5, <1>6 DEF ApproveCommit, userVars, IInv, TypeOK
<1>8. codes'[k] = row /\ \A i \in Codes : i # k => codes'[i] = codes[i]
  BY DEF ApproveCommit, IInv, TypeOK
<1>9. tab'[t] = shut /\ \A o \in Tabs : o # t => tab'[o] = tab[o]
  BY DEF ApproveCommit, IInv, TypeOK
<1>10. \A j \in Jtis : Minted(j) => tokens[j].code # k
  BY <1>1 DEF IInv, RowsWellFormed, Spent
<1>11. \A h \in Handlers : handler[h].pc # "idle" => handler[h].code # k
  BY <1>1 DEF IInv, HandlersOwnCode, OwnsCode
<1>12. RowsWellFormed'
  <2>1. \A i \in Codes :
          /\ codes'[i].state = "free" => codes'[i] = FreeCode
          /\ codes'[i].state # "free" => /\ codes'[i].client \in Clients
                                         /\ codes'[i].user \in Users
    BY <1>1, <1>8 DEF IInv, RowsWellFormed
  <2>2. \A i \in Codes : Spent(i) => codes'[i] = codes[i]
    BY <1>1, <1>8 DEF Spent
  <2>3. \A j \in Jtis : /\ ~Minted(j) => tokens[j] = FreeToken
                        /\ Minted(j) => /\ tokens[j].user \in Users
                                        /\ tokens[j].code \in Codes
                                        /\ Spent(tokens[j].code)
    BY DEF IInv, RowsWellFormed
  <2>4. UNCHANGED tokens
    BY DEF ApproveCommit
  <2> QED BY <2>1, <2>2, <2>3, <2>4 DEF RowsWellFormed, Minted, Spent
<1>13. RecordsTicked'
  <2>1. \A u \in Users, c \in Clients :
          grants'[u][c] = IF u = q.user /\ c = q.client
                            THEN MergedGrant(q.existing, q.items)
                            ELSE grants[u][c]
    BY <1>1 DEF ApproveCommit, IInv, TypeOK
  <2>2. {q.client} \X MergedGrant(q.existing, q.items).items \subseteq ticked
    BY <1>2 DEF MergedGrant
  <2> QED BY <1>2, <1>8, <2>1, <2>2 DEF ApproveCommit, IInv, RecordsTicked
<1>14. TabsTicked'
  BY <1>1, <1>9 DEF ApproveCommit, IInv, TabsTicked, TabStates
<1>15. HandlersOwnCode'
  BY <1>8, <1>11 DEF ApproveCommit, IInv, HandlersOwnCode, OwnsCode, PastConsume, Spent
<1>16. CodeSingleUse' /\ TokenFollowsConsent'
  BY <1>8, <1>10 DEF ApproveCommit, IInv, CodeSingleUse, TokenFollowsConsent,
                     Minted, RowsWellFormed
<1> QED BY <1>7, <1>12, <1>13, <1>14, <1>15, <1>16 DEF IInv

-----------------------------------------------------------------------------
(* Steps of a token request.                                               *)

LEMMA HandlerTypes ==
    ASSUME IInv, NEW h \in Handlers
    PROVE  handler[h] \in HandlerStates /\ IdleHandler \in HandlerStates
BY DEF IInv, TypeOK, IdleHandler, HandlerStates

(* Before the mint a request changes at most its own state.                *)
LEMMA HandlerOnlyStep ==
    ASSUME IInv, TypeOK', HandlersOwnCode',
           UNCHANGED <<codes, tokens, tab, grants, ticked>>
    PROVE  IInv'
BY DEF IInv, RowsWellFormed, RecordsTicked, TabsTicked, Spent, Minted,
       CodeSingleUse, TokenFollowsConsent

LEMMA TokenAuthStep ==
    ASSUME IInv, NEW h \in Handlers, NEW c \in Clients, NEW k \in Codes,
           NEW good \in BOOLEAN, TokenAuth(h, c, k, good)
    PROVE  IInv'
<1> DEFINE asked == [IdleHandler EXCEPT !.pc = "authed", !.client = c,
                                        !.code = k, !.good = good]
<1>1. asked \in HandlerStates
  BY HandlerTypes DEF HandlerStates
<1>2. TypeOK'
  BY <1>1 DEF TokenAuth, userVars, rpVars, IInv, TypeOK
<1>3. handler'[h] = asked /\ \A g \in Handlers : g # h => handler'[g] = handler[g]
  BY DEF TokenAuth, IInv, TypeOK
<1>4. HandlersOwnCode'
  BY <1>3 DEF TokenAuth, IInv, HandlersOwnCode, OwnsCode, PastConsume, Spent, IdleHandler
<1> QED BY <1>2, <1>4, HandlerOnlyStep DEF TokenAuth, rpVars

(* A refused request goes idle.                                            *)
LEMMA HandlerStopStep ==
    ASSUME IInv, NEW h \in Handlers, HandlerStop(h),
           UNCHANGED <<userVars, rpVars, codes, tokens, tab, editing, ticked>>
    PROVE  IInv'
<1>1. TypeOK'
  BY HandlerTypes DEF HandlerStop, userVars, rpVars, IInv, TypeOK
<1>2. handler'[h] = IdleHandler
      /\ \A g \in Handlers : g # h => handler'[g] = handler[g]
  BY DEF HandlerStop, IInv, TypeOK
<1>3. HandlersOwnCode'
  BY <1>2 DEF IInv, HandlersOwnCode, OwnsCode, PastConsume, Spent, IdleHandler
<1> QED BY <1>1, <1>3, HandlerOnlyStep DEF rpVars

(* The conditional update makes the request the only owner of its code.    *)
LEMMA TokenConsumeStep ==
    ASSUME IInv, NEW h \in Handlers, TokenConsume(h)
    PROVE  IInv'
<1> DEFINE k == handler[h].code
<1>1. CASE codes[k].state # "live"
  BY <1>1, HandlerStopStep DEF TokenConsume
<1>2. CASE codes[k].state = "live"
  <2>1. k \in Codes /\ handler[h].pc = "authed"
    BY DEF TokenConsume, IInv, HandlersOwnCode, OwnsCode
  <2>2. codes[k] \in CodeRows /\ handler[h] \in HandlerStates
    BY <2>1 DEF IInv, TypeOK
  <2>3. [codes[k] EXCEPT !.state = "consumed"] \in CodeRows
    BY <2>2 DEF CodeRows
  <2>4. [handler[h] EXCEPT !.pc = "consumed"] \in HandlerStates
    BY <2>2 DEF HandlerStates
  <2>5. /\ codes' = [codes EXCEPT ![k] = [codes[k] EXCEPT !.state = "consumed"]]
        /\ handler' = [handler EXCEPT ![h] =
                                       [handler[h] EXCEPT !.pc = "consumed"]]
    BY <1>2 DEF TokenConsume
  <2>6. TypeOK'
    BY <2>3, <2>4, <2>5 DEF TokenConsume, userVars, rpVars, IInv, TypeOK
  <2>7. /\ codes'[k] = [codes[k] EXCEPT !.state = "consumed"]
        /\ \A i \in Codes : i # k => codes'[i] = codes[i]
        /\ handler'[h] = [handler[h] EXCEPT !.pc = "consumed"]
        /\ \A g \in Handlers : g # h => handler'[g] = handler[g]
    BY <2>1, <2>5 DEF IInv, TypeOK
  <2>8. /\ codes'[k].state = "consumed" /\ codes'[k].client = codes[k].client
        /\ codes'[k].items = codes[k].items /\ codes'[k].user = codes[k].user
        /\ handler'[h].pc = "consumed" /\ handler'[h].code = k
        /\ handler'[h].client = handler[h].client
    BY <2>2, <2>7 DEF CodeRows, HandlerStates
  <2>9. \A j \in Jtis : tokens[j].code # k
    BY <1>2, OidcConstants, <2>1
    DEF IInv, RowsWellFormed, Spent, Minted, FreeToken
  <2>10. \A g \in Handlers : PastConsume(g) => handler[g].code # k
    BY <1>2 DEF IInv, HandlersOwnCode, OwnsCode, Spent
  <2>11. RowsWellFormed'
    <3>1. \A i \in Codes :
            /\ codes'[i].state = "free" => codes'[i] = FreeCode
            /\ codes'[i].state # "free" => /\ codes'[i].client \in Clients
                                           /\ codes'[i].user \in Users
      <4>1. codes[k].client \in Clients /\ codes[k].user \in Users
        BY <1>2, <2>1 DEF IInv, RowsWellFormed
      <4>2. ASSUME NEW i \in Codes, i # k
            PROVE  /\ codes[i].state = "free" => codes[i] = FreeCode
                   /\ codes[i].state # "free" => codes[i].client \in Clients
                   /\ codes[i].state # "free" => codes[i].user \in Users
        BY DEF IInv, RowsWellFormed
      <4> QED BY <2>7, <2>8, <4>1, <4>2
    <3>2. \A j \in Jtis : /\ ~Minted(j) => tokens[j] = FreeToken
                          /\ Minted(j) => /\ tokens[j].user \in Users
                                          /\ tokens[j].code \in Codes
                                          /\ codes'[tokens[j].code].state
                                               \in {"consumed", "deleted"}
      BY <1>2, <2>7 DEF IInv, RowsWellFormed, Spent
    <3> QED BY <3>1, <3>2 DEF TokenConsume, RowsWellFormed, Minted, Spent
  <2>12. RecordsTicked' /\ TabsTicked'
    <3>1. /\ grants' = grants /\ ticked' = ticked /\ tab' = tab
      BY DEF TokenConsume, rpVars
    <3>2. \A i \in Codes : /\ codes'[i].client = codes[i].client
                           /\ codes'[i].items = codes[i].items
                           /\ codes'[i].state # "free" => codes[i].state # "free"
      BY <1>2, <2>7, <2>8
    <3>3. RecordsTicked'
      BY <3>1, <3>2 DEF IInv, RecordsTicked
    <3>4. TabsTicked'
      BY <3>1 DEF IInv, TabsTicked
    <3> QED BY <3>3, <3>4
  <2>13. HandlersOwnCode'
    <3>1. OwnsCode(h)'
      BY <2>1, <2>8, <2>9 DEF TokenConsume, IInv, HandlersOwnCode, OwnsCode,
                              PastConsume, Spent
    <3>2. \A i \in Codes : /\ codes'[i].client = codes[i].client
                           /\ codes'[i].items = codes[i].items
                           /\ codes[i].state # "free" => codes'[i].state # "free"
                           /\ Spent(i) => codes'[i] = codes[i]
      BY <1>2, <2>7, <2>8 DEF Spent
    <3>3. ASSUME NEW g \in Handlers, g # h PROVE OwnsCode(g)'
      <4>1. OwnsCode(g) /\ handler'[g] = handler[g]
        BY <3>3, <2>7 DEF IInv, HandlersOwnCode
      <4> QED BY <4>1, <3>2 DEF TokenConsume, OwnsCode, PastConsume, Spent
    <3>4. \A g \in Handlers : g # h /\ PastConsume(g)' =>
            PastConsume(g) /\ handler'[g].code = handler[g].code
      BY <2>7 DEF PastConsume
    <3>5. ASSUME NEW f \in Handlers, NEW g \in Handlers, PastConsume(f)',
                 PastConsume(g)', handler'[f].code = handler'[g].code
          PROVE  f = g
      BY <3>4, <3>5, <2>8, <2>10 DEF IInv, HandlersOwnCode
    <3> QED BY <3>1, <3>3, <3>5 DEF HandlersOwnCode
  <2>14. CodeSingleUse' /\ TokenFollowsConsent'
    BY <2>7, <2>8, <2>9 DEF TokenConsume, IInv, CodeSingleUse, Minted,
                            TokenFollowsConsent, RowsWellFormed
  <2> QED BY <2>6, <2>11, <2>12, <2>13, <2>14 DEF IInv
<1> QED BY <1>1, <1>2

LEMMA TokenValidateStep ==
    ASSUME IInv, NEW h \in Handlers, TokenValidate(h)
    PROVE  IInv'
<1> DEFINE k == handler[h].code
           seen == [handler[h] EXCEPT !.pc = "validated",
                      !.user = codes[k].user, !.items = codes[k].items]
<1>1. CASE ~CodeValid(h, k)
  BY <1>1, HandlerStopStep DEF TokenValidate
<1>2. CASE CodeValid(h, k)
  <2>1. /\ k \in Codes /\ handler[h].pc = "consumed"
        /\ codes[k].state # "free"
    BY DEF TokenValidate, IInv, HandlersOwnCode, OwnsCode
  <2>2. codes[k] \in CodeRows /\ handler[h] \in HandlerStates
        /\ codes[k].user \in Users
    BY <2>1 DEF IInv, TypeOK, RowsWellFormed
  <2>3. seen \in HandlerStates
    BY <2>2 DEF HandlerStates, CodeRows
  <2>4. TypeOK'
    BY <1>2, <2>3 DEF TokenValidate, userVars, rpVars, IInv, TypeOK
  <2>5. handler'[h] = seen
        /\ \A g \in Handlers : g # h => handler'[g] = handler[g]
    BY <1>2 DEF TokenValidate, IInv, TypeOK
  <2>6. /\ seen.pc = "validated" /\ seen.user = codes[k].user
        /\ seen.items = codes[k].items /\ seen.code = k
        /\ seen.client = codes[k].client /\ seen.client \in Clients
    BY <1>2, <2>1, <2>2 DEF HandlerStates, CodeValid, IInv, HandlersOwnCode,
                           OwnsCode
  <2>7. HandlersOwnCode'
    <3>1. OwnsCode(h)'
      BY <2>1, <2>2, <2>5, <2>6 DEF TokenValidate, IInv, HandlersOwnCode,
                                    OwnsCode, PastConsume, Spent
    <3>2. ASSUME NEW g \in Handlers, g # h PROVE OwnsCode(g)'
      BY <3>2, <2>5 DEF TokenValidate, IInv, HandlersOwnCode, OwnsCode,
                        PastConsume, Spent
    <3>3. \A g \in Handlers : /\ PastConsume(g)' <=> PastConsume(g)
                              /\ handler'[g].code = handler[g].code
      BY <2>1, <2>5, <2>6 DEF PastConsume
    <3> QED BY <3>1, <3>2, <3>3 DEF IInv, HandlersOwnCode
  <2> QED BY <2>4, <2>7, HandlerOnlyStep DEF TokenValidate, rpVars
<1> QED BY <1>1, <1>2

LEMMA TokenResolveStep ==
    ASSUME IInv, NEW h \in Handlers, TokenResolve(h)
    PROVE  IInv'
<1> DEFINE u == handler[h].user
           sub == ResolveSub(u, handler[h].client)
           seen == [handler[h] EXCEPT !.pc = "resolved", !.sub = sub]
<1>1. CASE mergedInto[u] # None
  BY <1>1, HandlerStopStep DEF TokenResolve
<1>2. CASE mergedInto[u] = None
  <2>1. /\ handler[h].pc = "validated" /\ handler[h] \in HandlerStates
        /\ u \in Users /\ handler[h].client \in Clients
    BY DEF TokenResolve, IInv, HandlersOwnCode, OwnsCode, TypeOK
  <2>2. sub \in Users \cup {None}
    BY <2>1 DEF ResolveSub, IInv, TypeOK
  <2>3. seen \in HandlerStates
    BY <2>1, <2>2 DEF HandlerStates
  <2>4. TypeOK'
    BY <1>2, <2>3 DEF TokenResolve, userVars, rpVars, IInv, TypeOK
  <2>5. handler'[h] = seen
        /\ \A g \in Handlers : g # h => handler'[g] = handler[g]
    BY <1>2 DEF TokenResolve, IInv, TypeOK
  <2>6. /\ seen.pc = "resolved" /\ seen.user = u
        /\ seen.items = handler[h].items /\ seen.code = handler[h].code
        /\ seen.client = handler[h].client
    BY <2>1 DEF HandlerStates
  <2>7. HandlersOwnCode'
    <3>1. OwnsCode(h)'
      BY <2>1, <2>5, <2>6 DEF TokenResolve, IInv, HandlersOwnCode, OwnsCode,
                              PastConsume, Spent
    <3>2. ASSUME NEW g \in Handlers, g # h PROVE OwnsCode(g)'
      BY <3>2, <2>5 DEF TokenResolve, IInv, HandlersOwnCode, OwnsCode,
                        PastConsume, Spent
    <3>3. \A g \in Handlers : /\ PastConsume(g)' <=> PastConsume(g)
                              /\ handler'[g].code = handler[g].code
      BY <2>1, <2>5, <2>6 DEF PastConsume
    <3> QED BY <3>1, <3>2, <3>3 DEF IInv, HandlersOwnCode
  <2> QED BY <2>4, <2>7, HandlerOnlyStep DEF TokenResolve, rpVars
<1> QED BY <1>1, <1>2

(* The mint: its code is its own, so the token is the code's first.        *)
LEMMA TokenMintStep ==
    ASSUME IInv, NEW h \in Handlers, NEW j \in Jtis, TokenMint(h, j)
    PROVE  IInv'
<1> DEFINE q == handler[h]
           row == [state |-> "live", client |-> q.client, user |-> q.user,
                   items |-> q.items, sub |-> q.sub, code |-> q.code]
<1>1. /\ q \in HandlerStates /\ q.pc = "resolved" /\ q.code \in Codes
      /\ q.user \in Users /\ q.client = codes[q.code].client
      /\ q.items = codes[q.code].items /\ Spent(q.code)
      /\ \A i \in Jtis : tokens[i].code # q.code
      /\ \A g \in Handlers : PastConsume(g) /\ handler[g].code = q.code => g = h
  BY DEF TokenMint, IInv, TypeOK, HandlersOwnCode, OwnsCode, PastConsume
<1>2. row \in TokenRows
  BY <1>1 DEF TokenRows, HandlerStates
<1>3. TypeOK'
  BY <1>2, HandlerTypes DEF TokenMint, HandlerStop, userVars, rpVars, IInv, TypeOK
<1>4. /\ tokens'[j] = row /\ \A i \in Jtis : i # j => tokens'[i] = tokens[i]
      /\ handler'[h] = IdleHandler
      /\ \A g \in Handlers : g # h => handler'[g] = handler[g]
  BY DEF TokenMint, HandlerStop, IInv, TypeOK
<1>5. RowsWellFormed'
  <2>1. \A i \in Jtis :
          /\ tokens'[i].state = "free" => tokens'[i] = FreeToken
          /\ tokens'[i].state # "free" => /\ tokens'[i].user \in Users
                                          /\ tokens'[i].code \in Codes
                                          /\ Spent(tokens'[i].code)
    BY <1>1, <1>4 DEF IInv, RowsWellFormed, Minted
  <2> QED BY <2>1 DEF TokenMint, IInv, RowsWellFormed, Minted, Spent, FreeToken
<1>6. RecordsTicked' /\ TabsTicked'
  BY DEF TokenMint, rpVars, IInv, RecordsTicked, TabsTicked
<1>7. HandlersOwnCode'
  BY <1>1, <1>4 DEF TokenMint, IInv, HandlersOwnCode, OwnsCode, PastConsume, Spent,
                    IdleHandler
<1>8. CodeSingleUse'
  BY <1>1, <1>4 DEF IInv, CodeSingleUse, Minted
<1>9. TokenFollowsConsent'
  BY <1>1, <1>4 DEF TokenMint, IInv, TokenFollowsConsent, Minted
<1> QED BY <1>3, <1>5, <1>6, <1>7, <1>8, <1>9 DEF IInv

-----------------------------------------------------------------------------
(* Every step, and stuttering, keeps the invariant.                        *)
LEMMA NextIInv == IInv /\ [Next]_vars => IInv'
<1> SUFFICES ASSUME IInv, [Next]_vars PROVE IInv'
  OBVIOUS
<1>1. CASE ConsentStep
  BY <1>1, AuthorizePageStep, ApproveLoadStep, ApproveReadGrantStep,
     ApproveCommitStep, LeavePageStep DEF ConsentStep
<1>2. CASE TokenStep
  BY <1>2, TokenAuthStep, TokenConsumeStep, TokenValidateStep, TokenResolveStep,
     TokenMintStep DEF TokenStep
<1>3. CASE ClockStep
  BY <1>3, CodeExpiresStep, TokenExpiresStep DEF ClockStep
<1>4. CASE AccountStep
  BY <1>4, BanUserStep, UnbanUserStep, RevokeAllSessionsStep, RpProfileCheckStep,
     RpProfileWriteStep, DeleteBadgeStep, MergeAccountsStep DEF AccountStep
<1>5. CASE ClientStep
  BY <1>5, UpdateOidcClientStep, RotateOidcClientSecretStep,
     DeleteOidcClientStep DEF ClientStep
<1>6. CASE UNCHANGED vars
  <2>1. UNCHANGED <<handler, tab, ticked, codes, tokens, grants>>
    BY <1>6 DEF vars
  <2>2. TypeOK'
    BY <1>6 DEF vars, IInv, TypeOK
  <2> QED BY <2>1, <2>2, KeptStep, CodesUnchangedKept, TokensUnchangedKept,
             GrantsStayTicked
<1> QED BY <1>1, <1>2, <1>3, <1>4, <1>5, <1>6 DEF Next

LEMMA SpecIInv == Spec => []IInv
BY InitIInv, NextIInv, PTL DEF Spec

(* Rows keep the shape of their tables in every reachable state.           *)
THEOREM TypeCorrect == Spec => []TypeOK
<1>1. IInv => TypeOK
  BY DEF IInv
<1> QED BY <1>1, SpecIInv, PTL

(* An authorization code yields at most one access token, for any number   *)
(* of racing POST /oidc/token requests.                                    *)
THEOREM SingleUse == Spec => []CodeSingleUse
<1>1. IInv => CodeSingleUse
  BY DEF IInv
<1> QED BY <1>1, SpecIInv, PTL

(* A token carries what the consent behind its code decided, for the       *)
(* relying party it named.                                                 *)
THEOREM FollowsConsent == Spec => []TokenFollowsConsent
<1>1. IInv => TokenFollowsConsent
  BY DEF IInv
<1> QED BY <1>1, SpecIInv, PTL

(* /oidc/userinfo discloses only what the owner ticked for that relying    *)
(* party.                                                                  *)
THEOREM DisclosureWithinConsent == Spec => []ConsentBound
<1>1. IInv => ConsentBound
  <2> SUFFICES ASSUME IInv, NEW j \in Jtis, UserinfoAnswers(j)
               PROVE  {tokens[j].client} \X UserinfoItems(j) \subseteq ticked
    BY DEF ConsentBound
  <2>1. Minted(j)
    BY DEF UserinfoAnswers, Minted
  <2>2. /\ tokens[j].code \in Codes /\ codes[tokens[j].code].state # "free"
        /\ tokens[j].client = codes[tokens[j].code].client
        /\ tokens[j].items = codes[tokens[j].code].items
    BY <2>1 DEF IInv, RowsWellFormed, Spent, TokenFollowsConsent
  <2>3. {tokens[j].client} \X tokens[j].items \subseteq ticked
    BY <2>2 DEF IInv, RecordsTicked
  <2> QED BY <2>3 DEF UserinfoItems
<1> QED BY <1>1, SpecIInv, PTL

-----------------------------------------------------------------------------
(* Refinement: each step maps to a step of ConsentPromise or to a stutter. *)

PromiseStep == [Promise!Next]_<<ticked, Decided, Access>>

LEMMA InitRefines == Init => Promise!Init
BY DEF Init, Promise!Init, Promise!NoAccess, Promise!Undecided, Decided, Access, FreeCode,
       FreeToken, UserinfoAnswers

LEMMA DecidedKept == ASSUME CodesKept PROVE Decided' = Decided
<1>1. \A k \in Codes : Decided'[k] = Decided[k]
  BY DEF CodesKept, Decided
<1> QED BY <1>1 DEF Decided

(* Steps that spend, revoke or move rows can only end access.              *)
LEMMA KeptRefines ==
    ASSUME CodesKept, TokensKept, UNCHANGED ticked,
           \A j \in Jtis : UserinfoAnswers(j)' => UserinfoAnswers(j)
    PROVE  PromiseStep
<1> DEFINE ended == {j \in Jtis : ~UserinfoAnswers(j)'}
<1>1. ASSUME NEW j \in Jtis
      PROVE  Access'[j] = IF j \in ended /\ Access[j].phase = "on"
                            THEN [Access[j] EXCEPT !.phase = "off"]
                            ELSE Access[j]
  <2>1. Access[j] = [code |-> tokens[j].code,
                     phase |-> IF ~Minted(j) THEN "never"
                               ELSE IF UserinfoAnswers(j) THEN "on" ELSE "off"]
    BY DEF Access, Minted
  <2>2. Access'[j] = [code |-> tokens'[j].code,
                      phase |-> IF ~Minted(j)' THEN "never"
                                ELSE IF UserinfoAnswers(j)' THEN "on" ELSE "off"]
    BY DEF Access, Minted
  <2>3. tokens'[j].code = tokens[j].code /\ (Minted(j)' <=> Minted(j))
    BY DEF TokensKept
  <2>4. ~Minted(j) => ~UserinfoAnswers(j)
    BY DEF Minted, UserinfoAnswers
  <2> QED BY <2>1, <2>2, <2>3, <2>4
<1>2. Access' = [j \in Jtis |-> IF j \in ended /\ Access[j].phase = "on"
                                  THEN [Access[j] EXCEPT !.phase = "off"]
                                  ELSE Access[j]]
  BY <1>1 DEF Access
<1>3. Promise!End(ended)
  BY <1>2, DecidedKept DEF Promise!End
<1> QED BY <1>3 DEF PromiseStep, Promise!Next

(* Nothing answers anew while tokens and tombstones stay as they are.      *)
LEMMA SilentRefines ==
    ASSUME IInv, CodesKept, UNCHANGED <<tokens, mergedInto, ticked>>
    PROVE  PromiseStep
<1>1. TokensKept
  BY TokensUnchangedKept
<1>2. \A j \in Jtis : UserinfoAnswers(j)' => UserinfoAnswers(j)
  BY DEF UserinfoAnswers
<1> QED BY <1>1, <1>2, KeptRefines

(* A revoked or deleted token row stops answering, the others go on.       *)
LEMMA RevokingRefines ==
    ASSUME CodesKept, TokensKept, UNCHANGED <<mergedInto, ticked>>,
           \A j \in Jtis : tokens'[j].state = "live" => tokens'[j] = tokens[j]
    PROVE  PromiseStep
<1>1. \A j \in Jtis : UserinfoAnswers(j)' => UserinfoAnswers(j)
  BY DEF UserinfoAnswers
<1> QED BY <1>1, KeptRefines

LEMMA ConsentRefines ==
    ASSUME IInv, ConsentStep
    PROVE  PromiseStep
<1>1. ASSUME NEW t \in Tabs, NEW u \in Users, NEW S \in SUBSET Items,
             ApproveLoad(t, u, S)
      PROVE  PromiseStep
  <2> DEFINE added == {tab[t].client} \X (S \cap Shown(u, tab[t].scopes))
  <2>1. tab[t].client \in Clients
    BY <1>1 DEF ApproveLoad, IInv, TabsTicked
  <2>2. added \in SUBSET (Clients \X Items)
    BY <2>1 DEF Shown
  <2>3. ticked' = ticked \cup added
    BY <1>1 DEF ApproveLoad
  <2>4. Decided' = Decided /\ Access' = Access
    BY <1>1 DEF ApproveLoad, userVars, Decided, Access, UserinfoAnswers
  <2>5. Promise!Tick(added)
    BY <2>3, <2>4 DEF Promise!Tick
  <2> QED BY <2>2, <2>5 DEF PromiseStep, Promise!Next
<1>2. ASSUME NEW t \in Tabs, NEW k \in Codes, ApproveCommit(t, k)
      PROVE  PromiseStep
  <2> DEFINE q == tab[t]
  <2>1. /\ q \in TabStates /\ q.client \in Clients /\ codes[k].state = "free"
        /\ {q.client} \X q.items \subseteq ticked
    BY <1>2 DEF ApproveCommit, IInv, TypeOK, TabsTicked
  <2>2. q.items \in SUBSET Items
    BY <2>1 DEF TabStates
  <2>3. codes' = [codes EXCEPT ![k] =
          [state |-> "live", expired |-> FALSE, client |-> q.client,
           user |-> q.user, items |-> q.items]]
    BY <1>2 DEF ApproveCommit
  <2>4. Decided[k] = Promise!Undecided
    <3>1. codes[k] = FreeCode
      BY <2>1 DEF IInv, RowsWellFormed
    <3> QED BY <3>1 DEF Decided, Promise!Undecided, FreeCode
  <2>5. Decided' = [Decided EXCEPT ![k] = [client |-> q.client,
                                           items |-> q.items]]
    BY <2>3 DEF Decided, IInv, TypeOK
  <2>6. ticked' = ticked /\ Access' = Access
    BY <1>2 DEF ApproveCommit, userVars, Access, UserinfoAnswers
  <2>7. Promise!Decide(k, q.client, q.items)
    BY <2>1, <2>4, <2>5, <2>6 DEF Promise!Decide
  <2> QED BY <2>1, <2>2, <2>7 DEF PromiseStep, Promise!Next
<1>3. ASSUME NEW t \in Tabs,
             \/ \E c \in Clients, r \in Requests : AuthorizePage(t, c, r)
             \/ ApproveReadGrant(t)
             \/ LeavePage(t)
      PROVE  PromiseStep
  BY <1>3, SilentRefines, CodesUnchangedKept
  DEF AuthorizePage, ApproveReadGrant, LeavePage, userVars
<1> QED BY <1>1, <1>2, <1>3 DEF ConsentStep

LEMMA TokenRefines ==
    ASSUME IInv, TokenStep
    PROVE  PromiseStep
<1>1. ASSUME NEW h \in Handlers, NEW j \in Jtis, TokenMint(h, j)
      PROVE  PromiseStep
  <2> DEFINE q == handler[h]
             phase == IF mergedInto[q.user] = None THEN "on" ELSE "off"
  <2>1. /\ q.pc = "resolved" /\ q.code \in Codes /\ Spent(q.code)
        /\ \A i \in Jtis : tokens[i].code # q.code
        /\ tokens[j] = FreeToken
    BY <1>1 DEF TokenMint, IInv, HandlersOwnCode, OwnsCode, PastConsume,
                RowsWellFormed, Minted
  <2>2. tokens' = [tokens EXCEPT ![j] =
          [state |-> "live", client |-> q.client, user |-> q.user,
           items |-> q.items, sub |-> q.sub, code |-> q.code]]
    BY <1>1 DEF TokenMint
  <2>3. Decided[q.code] # Promise!Undecided
    <3>1. codes[q.code].client # None
      BY <2>1, OidcConstants DEF IInv, RowsWellFormed, Spent
    <3> QED BY <2>1, <3>1 DEF Decided, Promise!Undecided
  <2>4. Access[j] = Promise!NoAccess
    BY <2>1 DEF Access, FreeToken, Promise!NoAccess
  <2>5. \A i \in Jtis : Access[i].code # q.code
    BY <2>1 DEF Access
  <2>6. Access' = [Access EXCEPT ![j] = [code |-> q.code, phase |-> phase]]
    <3>1. /\ tokens'[j].code = q.code /\ tokens'[j].state = "live"
          /\ tokens'[j].user = q.user
          /\ \A i \in Jtis : i # j => tokens'[i] = tokens[i]
      BY <2>2 DEF IInv, TypeOK
    <3>2. Access'[j] = [code |-> q.code, phase |-> phase]
      BY <1>1, <3>1 DEF TokenMint, userVars, Access, UserinfoAnswers
    <3>3. \A i \in Jtis : i # j => Access'[i] = Access[i]
      BY <1>1, <3>1 DEF TokenMint, userVars, Access, UserinfoAnswers
    <3> QED BY <3>2, <3>3 DEF Access
  <2>7. ticked' = ticked /\ Decided' = Decided
    BY <1>1 DEF TokenMint, Decided
  <2>8. Promise!Redeem(j, q.code, phase)
    BY <2>3, <2>4, <2>5, <2>6, <2>7 DEF Promise!Redeem
  <2> QED BY <2>1, <2>8 DEF PromiseStep, Promise!Next
<1>2. ASSUME NEW h \in Handlers, TokenConsume(h) PROVE PromiseStep
  <2>1. ASSUME codes[handler[h].code].state = "live" PROVE CodesKept
    <3> DEFINE k == handler[h].code
    <3>1. k \in Codes /\ codes[k] \in CodeRows
      BY <1>2 DEF TokenConsume, IInv, HandlersOwnCode, OwnsCode, TypeOK
    <3>2. [codes[k] EXCEPT !.state = "consumed"] \in CodeRows
      BY <3>1 DEF CodeRows
    <3>3. codes' = [codes EXCEPT ![k] = [codes[k] EXCEPT !.state = "consumed"]]
      BY <1>2, <2>1 DEF TokenConsume
    <3>4. codes' \in [Codes -> CodeRows]
      BY <3>2, <3>3 DEF IInv, TypeOK
    <3> QED BY <2>1, <3>1, <3>3, <3>4 DEF CodesKept, Spent, IInv, TypeOK, CodeRows
  <2>2. CodesKept
    BY <1>2, <2>1, CodesUnchangedKept DEF TokenConsume
  <2> QED BY <1>2, <2>2, SilentRefines DEF TokenConsume, userVars
<1>3. ASSUME NEW h \in Handlers,
             \/ \E c \in Clients, k \in Codes, good \in BOOLEAN :
                   TokenAuth(h, c, k, good)
             \/ TokenValidate(h)
             \/ TokenResolve(h)
      PROVE  PromiseStep
  BY <1>3, SilentRefines, CodesUnchangedKept
  DEF TokenAuth, TokenValidate, TokenResolve, userVars
<1> QED BY <1>1, <1>2, <1>3 DEF TokenStep

LEMMA ClockRefines == ASSUME IInv, ClockStep PROVE PromiseStep
<1>1. ASSUME NEW k \in Codes, CodeExpires(k) PROVE PromiseStep
  <2>1. CodesKept
    <3>1. [codes[k] EXCEPT !.expired = TRUE] \in CodeRows
      BY DEF IInv, TypeOK, CodeRows
    <3>2. codes' \in [Codes -> CodeRows]
      BY <1>1, <3>1 DEF CodeExpires, IInv, TypeOK
    <3> QED BY <1>1, <3>2 DEF CodesKept, CodeExpires, IInv, TypeOK, CodeRows,
                              Spent
  <2> QED BY <1>1, <2>1, SilentRefines DEF CodeExpires, userVars
<1>2. ASSUME NEW j \in Jtis, TokenExpires(j) PROVE PromiseStep
  <2>1. tokens[j] \in TokenRows /\ tokens[j].state = "live"
    BY <1>2 DEF TokenExpires, IInv, TypeOK
  <2>2. [tokens[j] EXCEPT !.state = "expired"] \in TokenRows
    BY <2>1 DEF TokenRows
  <2>3. tokens' \in [Jtis -> TokenRows]
    BY <1>2, <2>2 DEF TokenExpires, IInv, TypeOK
  <2>4. TokensKept /\ \A i \in Jtis : tokens'[i].state = "live"
                                        => tokens'[i] = tokens[i]
    BY <1>2, <2>1, <2>3 DEF TokensKept, TokenExpires, IInv, TypeOK, TokenRows,
                            Minted, RowsWellFormed
  <2> QED BY <1>2, <2>4, RevokingRefines, CodesUnchangedKept
          DEF TokenExpires, userVars
<1> QED BY <1>1, <1>2 DEF ClockStep

(* What is left of a client edit: rows are revoked, dropped or deleted.    *)
LEMMA ClientRefines == ASSUME IInv, ClientStep PROVE PromiseStep
<1>1. ASSUME NEW c \in Clients,
             \/ \E cfg \in Configs : UpdateOidcClient(c, cfg)
             \/ RotateOidcClientSecret(c)
      PROVE  PromiseStep
  <2>1. /\ codes' = DropCodes({k \in Codes : codes[k].client = c})
        /\ tokens' = RevokeTokens({j \in Jtis : tokens[j].client = c})
        /\ UNCHANGED <<mergedInto, ticked>>
    BY <1>1 DEF UpdateOidcClient, RotateOidcClientSecret, userVars
  <2>2. CodesKept /\ TokensKept
    BY <2>1, DropKept, RevokeKept,
       {k \in Codes : codes[k].client = c} \in SUBSET Codes,
       {j \in Jtis : tokens[j].client = c} \in SUBSET Jtis
  <2>3. \A j \in Jtis : tokens'[j].state = "live" => tokens'[j] = tokens[j]
    BY <2>1 DEF RevokeTokens, IInv, TypeOK, TokenRows
  <2> QED BY <2>1, <2>2, <2>3, RevokingRefines
<1>2. ASSUME NEW c \in Clients, DeleteOidcClient(c) PROVE PromiseStep
  <2>1. CodesKept
    BY <1>2, DropKept, {k \in Codes : codes[k].client = c} \in SUBSET Codes
    DEF DeleteOidcClient
  <2>2. \A j \in Jtis : tokens[j] \in TokenRows
    BY DEF IInv, TypeOK
  <2>3. \A j \in Jtis : [tokens[j] EXCEPT !.state = "deleted"] \in TokenRows
    BY <2>2 DEF TokenRows
  <2>4. tokens' \in [Jtis -> TokenRows]
    BY <1>2, <2>2, <2>3 DEF DeleteOidcClient
  <2>5. \A j \in Jtis : tokens[j].client = c => Minted(j)
    BY OidcConstants DEF IInv, RowsWellFormed, FreeToken
  <2>6. TokensKept
    BY <1>2, <2>2, <2>4, <2>5 DEF DeleteOidcClient, TokensKept, TokenRows, Minted,
                                  IInv, RowsWellFormed
  <2>7. \A j \in Jtis : tokens'[j].state = "live" => tokens'[j] = tokens[j]
    BY <1>2, <2>2 DEF DeleteOidcClient, TokenRows
  <2> QED BY <1>2, <2>1, <2>6, <2>7, RevokingRefines DEF DeleteOidcClient, userVars
<1> QED BY <1>1, <1>2 DEF ClientStep

LEMMA AccountRefines == ASSUME IInv, AccountStep PROVE PromiseStep
<1>1. ASSUME NEW u \in Users, BanUser(u) \/ RevokeAllSessions(u)
      PROVE  PromiseStep
  <2>1. /\ tokens' = RevokeTokens({j \in Jtis : tokens[j].user = u})
        /\ UNCHANGED <<codes, mergedInto, ticked>>
    BY <1>1 DEF BanUser, RevokeAllSessions, userVars
  <2>2. CodesKept /\ TokensKept
    BY <2>1, CodesUnchangedKept, RevokeKept,
       {j \in Jtis : tokens[j].user = u} \in SUBSET Jtis
  <2>3. \A j \in Jtis : tokens'[j].state = "live" => tokens'[j] = tokens[j]
    BY <2>1 DEF RevokeTokens, IInv, TypeOK, TokenRows
  <2> QED BY <2>1, <2>2, <2>3, RevokingRefines
<1>2. ASSUME \/ \E u \in Users : UnbanUser(u)
             \/ \E u \in Users : RpProfileWrite(u)
             \/ \E u \in Users, c \in Clients : RpProfileCheck(u, c)
             \/ \E b \in Badges : DeleteBadge(b)
      PROVE  PromiseStep
  BY <1>2, SilentRefines, CodesUnchangedKept
  DEF UnbanUser, RpProfileWrite, RpProfileCheck, DeleteBadge, userVars
<1>3. ASSUME NEW d \in Users, NEW s \in Users, MergeAccounts(d, s)
      PROVE  PromiseStep
  <2>1. CodesKept
    BY <1>3, DropKept, {k \in Codes : codes[k].user = d} \in SUBSET Codes
    DEF MergeAccounts
  <2>2. \A j \in Jtis : tokens[j] \in TokenRows
    BY DEF IInv, TypeOK
  <2>3. \A j \in Jtis : [tokens[j] EXCEPT !.user = s] \in TokenRows
    BY <2>2 DEF TokenRows
  <2>4. tokens' \in [Jtis -> TokenRows]
    BY <1>3, <2>2, <2>3 DEF MergeAccounts
  <2>5. \A j \in Jtis : tokens[j].user = d => Minted(j)
    BY OidcConstants DEF IInv, RowsWellFormed, FreeToken
  <2>6. TokensKept
    BY <1>3, <2>2, <2>4, <2>5 DEF MergeAccounts, TokensKept, TokenRows, Minted,
                                  IInv, RowsWellFormed
  <2>7. ASSUME NEW j \in Jtis, UserinfoAnswers(j)' PROVE UserinfoAnswers(j)
    <3>1. /\ tokens'[j].state = tokens[j].state
          /\ tokens[j].user = d \/ tokens'[j].user = tokens[j].user
      BY <1>3, <2>2 DEF MergeAccounts, TokenRows
    <3>2. /\ mergedInto[d] = None
          /\ tokens[j].user # d => mergedInto'[tokens[j].user]
                                     = mergedInto[tokens[j].user]
      BY <1>3 DEF MergeAccounts, IInv, TypeOK
    <3> QED BY <2>7, <3>1, <3>2 DEF UserinfoAnswers
  <2> QED BY <1>3, <2>1, <2>6, <2>7, KeptRefines DEF MergeAccounts
<1> QED BY <1>1, <1>2, <1>3 DEF AccountStep

(* A token that is revoked, deleted or expired never answers again.        *)
THEOREM RevokedForGood == Spec => RevocationFinal
<1> DEFINE Dead(j) == tokens[j].state \in {"revoked", "deleted", "expired"}
<1>1. ASSUME IInv, [Next]_vars, NEW j \in Jtis, Dead(j)
      PROVE  ~UserinfoAnswers(j)'
  <2> SUFFICES tokens'[j].state # "live"
    BY DEF UserinfoAnswers
  <2>1. tokens[j] \in TokenRows
    BY <1>1 DEF IInv, TypeOK
  <2>2. CASE UNCHANGED vars
    BY <1>1, <2>2 DEF vars
  <2>3. CASE ConsentStep
    BY <1>1, <2>3 DEF ConsentStep, AuthorizePage, ApproveLoad, ApproveReadGrant,
                      ApproveCommit, LeavePage
  <2>4. CASE TokenStep
    BY <1>1, <2>4 DEF TokenStep, TokenAuth, TokenConsume, TokenValidate,
                      TokenResolve, TokenMint, IInv, TypeOK
  <2>5. CASE ClockStep
    BY <1>1, <2>5 DEF ClockStep, CodeExpires, TokenExpires, IInv, TypeOK
  <2>6. CASE AccountStep
    <3>0. \A i \in Jtis : tokens[i] \in TokenRows
      BY <1>1 DEF IInv, TypeOK
    <3>1. ASSUME NEW J \in SUBSET Jtis, tokens' = RevokeTokens(J)
          PROVE  tokens'[j].state # "live"
      BY <1>1, <2>1, <3>1 DEF RevokeTokens, TokenRows
    <3>2. ASSUME NEW u \in Users, BanUser(u)
          PROVE  tokens'[j].state # "live"
      BY <3>1, <3>2, {i \in Jtis : tokens[i].user = u} \in SUBSET Jtis
      DEF BanUser
    <3>3. ASSUME NEW u \in Users, RevokeAllSessions(u)
          PROVE  tokens'[j].state # "live"
      BY <3>1, <3>3, {i \in Jtis : tokens[i].user = u} \in SUBSET Jtis
      DEF RevokeAllSessions
    <3>4. ASSUME NEW d \in Users, NEW s \in Users, MergeAccounts(d, s)
          PROVE  tokens'[j].state # "live"
      BY <1>1, <2>1, <3>4 DEF MergeAccounts, TokenRows
    <3>5. ASSUME tokens' = tokens PROVE tokens'[j].state # "live"
      BY <1>1, <3>5
    <3> QED BY <2>6, <3>2, <3>3, <3>4, <3>5
            DEF AccountStep, UnbanUser, RpProfileWrite, RpProfileCheck,
                DeleteBadge
  <2>7. CASE ClientStep
    BY <1>1, <2>1, <2>7 DEF ClientStep, UpdateOidcClient, DeleteOidcClient,
                      RotateOidcClientSecret, RevokeTokens, TokenRows
  <2> QED BY <1>1, <2>2, <2>3, <2>4, <2>5, <2>6, <2>7 DEF Next
<1>2. IInv /\ [Next]_vars =>
        [\A j \in Jtis : tokens[j].state \in {"revoked", "deleted", "expired"}
                           => ~UserinfoAnswers(j)']_vars
  BY <1>1
<1> QED BY <1>2, SpecIInv, PTL DEF Spec, RevocationFinal

(* The provider implements the promise, races, bans, client edits and      *)
(* merges included.                                                        *)
THEOREM Refinement == Spec => ImplementsPromise
<1>1. IInv /\ [Next]_vars => PromiseStep
  <2> SUFFICES ASSUME IInv, [Next]_vars PROVE PromiseStep
    OBVIOUS
  <2>1. CASE UNCHANGED vars
    BY <2>1, SilentRefines, CodesUnchangedKept DEF vars
  <2> QED BY <2>1, ConsentRefines, TokenRefines, ClockRefines, AccountRefines,
             ClientRefines DEF Next
<1>2. Init => Promise!Init
  BY InitRefines
<1> QED BY <1>1, <1>2, SpecIInv, PTL
        DEF Spec, ImplementsPromise, Promise!Spec, PromiseStep, Promise!pvars

-----------------------------------------------------------------------------
(***************************************************************************)
(* PersonaAuthoritative.  The persona row is written with the code, so a   *)
(* code that releases the name vouches for one; the token keeps the code's *)
(* account until a merge moves it, and then the property claims nothing.   *)
(***************************************************************************)

(* Nobody was merged into u.                                               *)
TookNobody(u) == \A d \in Users : mergedInto[d] # u

CodesNamed ==
    \A k \in Codes :
        codes[k].state # "free" /\ NameClaim \in codes[k].items
          /\ allowed[codes[k].client] # None
        => persona[codes[k].user][codes[k].client] # "absent"

HandlersTrue ==
    \A h \in Handlers : handler[h].pc \in {"validated", "resolved"} =>
        handler[h].user = codes[handler[h].code].user

TokensTrue ==
    \A j \in Jtis : Minted(j) /\ TookNobody(tokens[j].user) =>
        tokens[j].user = codes[tokens[j].code].user

PersonaInv == CodesNamed /\ HandlersTrue /\ TokensTrue

(* No persona row of a registered client goes away.                        *)
PersonasStay ==
    \A u \in Users, c \in Clients : allowed'[c] # None =>
        /\ allowed[c] # None
        /\ persona[u][c] # "absent" => persona'[u][c] # "absent"

HandlersStay ==
    \A h \in Handlers : handler'[h].pc \in {"validated", "resolved"} =>
        /\ handler[h].pc \in {"validated", "resolved"}
        /\ handler'[h].user = handler[h].user
        /\ handler'[h].code = handler[h].code

TokensStay ==
    \A j \in Jtis : Minted(j)' /\ TookNobody(tokens[j].user)' =>
        /\ Minted(j) /\ TookNobody(tokens[j].user)
        /\ tokens'[j].user = tokens[j].user
        /\ tokens'[j].code = tokens[j].code

LEMMA NamedFrame ==
    ASSUME IInv, CodesNamed, CodesKept, PersonasStay
    PROVE  CodesNamed'
BY DEF IInv, RowsWellFormed, CodesNamed, CodesKept, PersonasStay

LEMMA HandlersFrame ==
    ASSUME IInv, HandlersTrue, CodesKept, HandlersStay
    PROVE  HandlersTrue'
BY DEF IInv, HandlersOwnCode, OwnsCode, HandlersTrue, CodesKept, HandlersStay

LEMMA TokensFrame ==
    ASSUME IInv, TokensTrue, CodesKept, TokensStay
    PROVE  TokensTrue'
BY DEF IInv, RowsWellFormed, TokensTrue, CodesKept, TokensStay

(* What does not change, stays.                                            *)
LEMMA SameStay ==
    /\ UNCHANGED <<allowed, persona>> => PersonasStay
    /\ UNCHANGED handler => HandlersStay
    /\ UNCHANGED <<tokens, mergedInto>> => TokensStay
BY DEF PersonasStay, HandlersStay, TokensStay, Minted, TookNobody

(* Revoking or deleting token rows leaves their accounts and codes alone.  *)
LEMMA RevokeStay ==
    ASSUME IInv, UNCHANGED mergedInto, NEW S, tokens' = RevokeTokens(S)
    PROVE  TokensStay
<1>1. \A j \in Jtis : tokens[j] \in TokenRows
  BY DEF IInv, TypeOK
<1>2. \A j \in Jtis : /\ tokens'[j].user = tokens[j].user
                      /\ tokens'[j].code = tokens[j].code
                      /\ Minted(j)' => Minted(j)
  BY <1>1 DEF RevokeTokens, TokenRows, Minted
<1> QED BY <1>2 DEF TokensStay, TookNobody

(* A step that keeps everything the invariant speaks of keeps it.          *)
LEMMA StayStep ==
    ASSUME IInv, PersonaInv, CodesKept, PersonasStay, HandlersStay, TokensStay
    PROVE  PersonaInv'
BY NamedFrame, HandlersFrame, TokensFrame DEF PersonaInv

(* The commit writes the persona of an approved name with its code.        *)
LEMMA CommitPersona ==
    ASSUME IInv, PersonaInv, NEW t \in Tabs, NEW k \in Codes,
           ApproveCommit(t, k)
    PROVE  PersonaInv'
<1> DEFINE q == tab[t]
<1>1. q.client \in Clients /\ q.user \in Users /\ codes[k].state = "free"
  BY DEF ApproveCommit, IInv, TabsTicked
<1>2. /\ codes'[k].client = q.client /\ codes'[k].user = q.user
      /\ codes'[k].items = q.items
      /\ \A i \in Codes : i # k => codes'[i] = codes[i]
  BY DEF ApproveCommit, IInv, TypeOK
<1>3. /\ \A u \in Users, c \in Clients :
           persona[u][c] # "absent" => persona'[u][c] # "absent"
      /\ NameClaim \in q.items => persona'[q.user][q.client] # "absent"
  <2>1. PICK p \in PersonaAfter(q) :
          persona' = [persona EXCEPT ![q.user][q.client] = p]
    BY DEF ApproveCommit
  <2>2. /\ persona[q.user][q.client] # "absent" => p # "absent"
        /\ NameClaim \in q.items => p # "absent"
    BY <2>1 DEF PersonaAfter
  <2>3. persona'[q.user][q.client] = p
    BY <1>1, <2>1 DEF IInv, TypeOK
  <2>4. \A u \in Users, c \in Clients :
          u # q.user \/ c # q.client => persona'[u][c] = persona[u][c]
    BY <1>1, <2>1 DEF IInv, TypeOK
  <2> QED BY <2>2, <2>3, <2>4
<1>4. UNCHANGED <<allowed, tokens, handler, mergedInto>>
  BY DEF ApproveCommit, userVars
<1>5. CodesNamed'
  <2> SUFFICES ASSUME NEW i \in Codes, codes'[i].state # "free",
                      NameClaim \in codes'[i].items,
                      allowed[codes'[i].client] # None
               PROVE  persona'[codes'[i].user][codes'[i].client] # "absent"
    BY <1>4 DEF CodesNamed
  <2>1. CASE i = k
    BY <1>2, <1>3, <2>1
  <2>2. CASE i # k
    <3>1. codes'[i] = codes[i] /\ codes[i].user \in Users
          /\ codes[i].client \in Clients
      BY <1>2, <2>2 DEF IInv, RowsWellFormed
    <3>2. persona[codes[i].user][codes[i].client] # "absent"
      BY <3>1 DEF PersonaInv, CodesNamed
    <3> QED BY <1>3, <3>1, <3>2
  <2> QED BY <2>1, <2>2
<1>6. \A h \in Handlers : handler[h].pc # "idle" =>
        handler[h].code \in Codes /\ handler[h].code # k
  BY <1>1 DEF IInv, HandlersOwnCode, OwnsCode
<1>7. HandlersTrue'
  BY <1>2, <1>4, <1>6 DEF PersonaInv, HandlersTrue
<1>8. \A j \in Jtis : Minted(j) =>
        tokens[j].code \in Codes /\ tokens[j].code # k
  BY <1>1 DEF IInv, RowsWellFormed, Spent
<1>9. TokensTrue'
  BY <1>2, <1>4, <1>8 DEF PersonaInv, TokensTrue, Minted, TookNobody
<1> QED BY <1>5, <1>7, <1>9 DEF PersonaInv

LEMMA ConsentPersona == ASSUME IInv, PersonaInv, ConsentStep PROVE PersonaInv'
<1>1. ASSUME UNCHANGED <<userVars, rpVars, codes, tokens, handler>>
      PROVE  PersonaInv'
  BY <1>1, SameStay, CodesUnchangedKept, StayStep DEF userVars, rpVars
<1> QED BY <1>1, CommitPersona DEF ConsentStep, AuthorizePage, ApproveLoad,
                                   ApproveReadGrant, LeavePage

(* Consumption touches only the state of the code.                         *)
LEMMA ConsumePersona ==
    ASSUME IInv, PersonaInv, NEW h \in Handlers, TokenConsume(h)
    PROVE  PersonaInv'
<1> DEFINE k == handler[h].code
<1>1. k \in Codes /\ handler[h].pc = "authed" /\ handler[h] \in HandlerStates
  BY DEF TokenConsume, IInv, HandlersOwnCode, OwnsCode, TypeOK
<1>2. CodesKept
  <2>1. CASE codes[k].state # "live"
    BY <2>1, CodesUnchangedKept DEF TokenConsume
  <2>2. CASE codes[k].state = "live"
    <3>1. \A i \in Codes : codes[i] \in CodeRows
      BY DEF IInv, TypeOK
    <3>2. [codes[k] EXCEPT !.state = "consumed"] \in CodeRows
      BY <1>1, <3>1 DEF CodeRows
    <3>3. codes' = [codes EXCEPT ![k] = [codes[k] EXCEPT !.state = "consumed"]]
      BY <2>2 DEF TokenConsume
    <3>4. codes' \in [Codes -> CodeRows]
      BY <3>2, <3>3 DEF IInv, TypeOK
    <3> QED BY <1>1, <2>2, <3>1, <3>3, <3>4
            DEF CodesKept, CodeRows, Spent, IInv, TypeOK
  <2> QED BY <2>1, <2>2
<1>3. HandlersStay
  <2>1. handler'[h].pc \notin {"validated", "resolved"}
        /\ \A g \in Handlers : g # h => handler'[g] = handler[g]
    BY <1>1 DEF TokenConsume, HandlerStop, IdleHandler, IInv, TypeOK,
                HandlerStates
  <2> QED BY <2>1 DEF HandlersStay
<1>4. PersonasStay /\ TokensStay
  BY SameStay DEF TokenConsume, userVars, rpVars
<1> QED BY <1>2, <1>3, <1>4, StayStep

(* Validation copies the account of the code row.                          *)
LEMMA HandlerPersona ==
    ASSUME IInv, PersonaInv, NEW h \in Handlers, HandlersTrue',
           UNCHANGED <<userVars, rpVars, codes, tokens>>
    PROVE  PersonaInv'
BY SameStay, CodesUnchangedKept, NamedFrame, TokensFrame
DEF PersonaInv, userVars, rpVars

LEMMA ValidatePersona ==
    ASSUME IInv, PersonaInv, NEW h \in Handlers, TokenValidate(h)
    PROVE  PersonaInv'
<1> DEFINE k == handler[h].code
<1>1. handler[h] \in HandlerStates
  BY DEF IInv, TypeOK
<1>2. /\ handler'[h].pc \in {"validated", "resolved"} =>
           handler'[h].user = codes[k].user /\ handler'[h].code = k
      /\ \A g \in Handlers : g # h => handler'[g] = handler[g]
  <2>1. handler' = [handler EXCEPT ![h] =
                      [handler[h] EXCEPT !.pc = "validated",
                         !.user = codes[k].user, !.items = codes[k].items]]
        \/ handler' = [handler EXCEPT ![h] = IdleHandler]
    BY DEF TokenValidate, HandlerStop
  <2>2. \/ handler'[h] = [handler[h] EXCEPT !.pc = "validated",
                            !.user = codes[k].user, !.items = codes[k].items]
        \/ handler'[h] = IdleHandler
    BY <2>1 DEF IInv, TypeOK
  <2>3. \A g \in Handlers : g # h => handler'[g] = handler[g]
    BY <2>1 DEF IInv, TypeOK
  <2> DEFINE seen == [handler[h] EXCEPT !.pc = "validated",
                        !.user = codes[k].user, !.items = codes[k].items]
  <2>4. seen.user = codes[k].user /\ seen.code = k
    BY <1>1 DEF HandlerStates
  <2>5. IdleHandler.pc = "idle"
    BY DEF IdleHandler
  <2> HIDE DEF seen
  <2>6. handler'[h] = seen \/ handler'[h] = IdleHandler
    BY <2>2 DEF seen
  <2> QED BY <2>3, <2>4, <2>5, <2>6
<1>3. HandlersTrue'
  BY <1>2 DEF TokenValidate, PersonaInv, HandlersTrue
<1> QED BY <1>3, HandlerPersona DEF TokenValidate

LEMMA ResolvePersona ==
    ASSUME IInv, PersonaInv, NEW h \in Handlers, TokenResolve(h)
    PROVE  PersonaInv'
<1>1. handler[h] \in HandlerStates
  BY DEF IInv, TypeOK
<1>2. /\ handler'[h].pc \in {"validated", "resolved"} =>
           /\ handler[h].pc = "validated"
           /\ handler'[h].user = handler[h].user
           /\ handler'[h].code = handler[h].code
      /\ \A g \in Handlers : g # h => handler'[g] = handler[g]
  <2> DEFINE sub == ResolveSub(handler[h].user, handler[h].client)
  <2>1. handler[h].pc = "validated"
    BY DEF TokenResolve
  <2>2. handler' = [handler EXCEPT ![h] =
                      [handler[h] EXCEPT !.pc = "resolved", !.sub = sub]]
        \/ handler' = [handler EXCEPT ![h] = IdleHandler]
    BY DEF TokenResolve, HandlerStop
  <2>3. \/ handler'[h] = [handler[h] EXCEPT !.pc = "resolved", !.sub = sub]
        \/ handler'[h] = IdleHandler
    BY <2>2 DEF IInv, TypeOK
  <2>4. \A g \in Handlers : g # h => handler'[g] = handler[g]
    BY <2>2 DEF IInv, TypeOK
  <2> DEFINE seen == [handler[h] EXCEPT !.pc = "resolved", !.sub = sub]
  <2>5. seen.user = handler[h].user /\ seen.code = handler[h].code
    BY <1>1 DEF HandlerStates
  <2>6. IdleHandler.pc = "idle"
    BY DEF IdleHandler
  <2> HIDE DEF seen
  <2>7. handler'[h] = seen \/ handler'[h] = IdleHandler
    BY <2>3 DEF seen
  <2> QED BY <2>1, <2>4, <2>5, <2>6, <2>7
<1>3. HandlersTrue'
  BY <1>2 DEF TokenResolve, PersonaInv, HandlersTrue
<1> QED BY <1>3, HandlerPersona DEF TokenResolve

LEMMA AuthPersona ==
    ASSUME IInv, PersonaInv, NEW h \in Handlers, NEW c \in Clients,
           NEW k \in Codes, NEW good \in BOOLEAN, TokenAuth(h, c, k, good)
    PROVE  PersonaInv'
<1>1. /\ handler'[h].pc \notin {"validated", "resolved"}
      /\ \A g \in Handlers : g # h => handler'[g] = handler[g]
  BY DEF TokenAuth, IdleHandler, IInv, TypeOK
<1>2. HandlersTrue'
  BY <1>1 DEF TokenAuth, PersonaInv, HandlersTrue
<1> QED BY <1>2, HandlerPersona DEF TokenAuth

(* The token takes over the account the request validated.                 *)
LEMMA MintPersona ==
    ASSUME IInv, PersonaInv, NEW h \in Handlers, NEW j \in Jtis,
           TokenMint(h, j)
    PROVE  PersonaInv'
<1>1. handler[h].user = codes[handler[h].code].user
  BY DEF TokenMint, PersonaInv, HandlersTrue
<1>2. /\ tokens'[j].user = handler[h].user /\ tokens'[j].code = handler[h].code
      /\ \A i \in Jtis : i # j => tokens'[i] = tokens[i]
      /\ handler'[h].pc = "idle"
      /\ \A g \in Handlers : g # h => handler'[g] = handler[g]
  BY DEF TokenMint, HandlerStop, IdleHandler, IInv, TypeOK
<1>3. UNCHANGED <<allowed, persona, codes, mergedInto>>
  BY DEF TokenMint, userVars, rpVars
<1>4. CodesNamed'
  BY <1>3, SameStay, CodesUnchangedKept, NamedFrame DEF PersonaInv
<1>5. HandlersTrue'
  BY <1>2, <1>3 DEF PersonaInv, HandlersTrue
<1>6. TokensTrue'
  BY <1>1, <1>2, <1>3 DEF PersonaInv, TokensTrue, Minted, TookNobody
<1> QED BY <1>4, <1>5, <1>6 DEF PersonaInv

LEMMA TokenPersona == ASSUME IInv, PersonaInv, TokenStep PROVE PersonaInv'
BY AuthPersona, ConsumePersona, ValidatePersona, ResolvePersona, MintPersona
DEF TokenStep

-----------------------------------------------------------------------------
LEMMA ClockPersona == ASSUME IInv, PersonaInv, ClockStep PROVE PersonaInv'
<1>1. ASSUME NEW k \in Codes, CodeExpires(k) PROVE PersonaInv'
  <2>1. CodesKept
    <3>1. \A i \in Codes : codes[i] \in CodeRows
      BY DEF IInv, TypeOK
    <3>2. [codes[k] EXCEPT !.expired = TRUE] \in CodeRows
      BY <3>1 DEF CodeRows
    <3>3. codes' \in [Codes -> CodeRows]
      BY <1>1, <3>2 DEF CodeExpires, IInv, TypeOK
    <3> QED BY <1>1, <3>1, <3>3 DEF CodesKept, CodeExpires, IInv, TypeOK,
                                    CodeRows, Spent
  <2> QED BY <1>1, <2>1, SameStay, StayStep DEF CodeExpires, userVars, rpVars
<1>2. ASSUME NEW j \in Jtis, TokenExpires(j) PROVE PersonaInv'
  <2>1. \A i \in Jtis : tokens[i] \in TokenRows
    BY DEF IInv, TypeOK
  <2>2. \A i \in Jtis : /\ tokens'[i].user = tokens[i].user
                        /\ tokens'[i].code = tokens[i].code
                        /\ Minted(i)' => Minted(i)
    BY <1>2, <2>1 DEF TokenExpires, TokenRows, Minted, IInv, TypeOK
  <2>3. TokensStay
    BY <1>2, <2>2 DEF TokenExpires, userVars, TokensStay, TookNobody
  <2> QED BY <1>2, <2>3, SameStay, CodesUnchangedKept, StayStep
          DEF TokenExpires, userVars, rpVars
<1> QED BY <1>1, <1>2 DEF ClockStep

(* The tokens a merge moves are the ones the property stops speaking of.   *)
LEMMA MergePersona ==
    ASSUME IInv, PersonaInv, NEW d \in Users, NEW s \in Users,
           MergeAccounts(d, s)
    PROVE  PersonaInv'
<1>1. CodesKept
  BY DropKept, {k \in Codes : codes[k].user = d} \in SUBSET Codes
  DEF MergeAccounts
<1>2. PersonasStay /\ HandlersStay
  BY SameStay DEF MergeAccounts
<1>3. mergedInto[d] = None /\ mergedInto'[d] = s
      /\ \A u \in Users : u # d => mergedInto'[u] = mergedInto[u]
  BY DEF MergeAccounts, IInv, TypeOK
<1>4. ASSUME NEW j \in Jtis, Minted(j)', TookNobody(tokens[j].user)'
      PROVE  /\ Minted(j) /\ TookNobody(tokens[j].user)
             /\ tokens'[j].user = tokens[j].user
             /\ tokens'[j].code = tokens[j].code
  <2>1. tokens[j] \in TokenRows
    BY DEF IInv, TypeOK
  <2>2. tokens'[j] = IF tokens[j].user = d THEN [tokens[j] EXCEPT !.user = s]
                                           ELSE tokens[j]
    BY DEF MergeAccounts
  <2>3. tokens'[j].user # s
    BY <1>3, <1>4 DEF TookNobody
  <2>4. tokens'[j] = tokens[j]
    BY <2>1, <2>2, <2>3 DEF TokenRows
  <2>5. Minted(j)
    BY <1>4, <2>4 DEF Minted
  <2>6. tokens[j].user \in Users
    BY <2>5 DEF IInv, RowsWellFormed
  <2>7. TookNobody(tokens[j].user)
    BY <1>3, <1>4, <2>4, <2>6, OidcConstants DEF TookNobody
  <2> QED BY <2>4, <2>5, <2>7
<1>5. TokensStay
  BY <1>4 DEF TokensStay
<1> QED BY <1>1, <1>2, <1>5, StayStep

LEMMA AccountPersona == ASSUME IInv, PersonaInv, AccountStep PROVE PersonaInv'
<1>1. ASSUME NEW u \in Users, BanUser(u) \/ RevokeAllSessions(u)
      PROVE  PersonaInv'
  <2>1. /\ tokens' = RevokeTokens({j \in Jtis : tokens[j].user = u})
        /\ UNCHANGED <<mergedInto, allowed, persona, codes, handler>>
    BY <1>1 DEF BanUser, RevokeAllSessions, userVars, rpVars
  <2> QED BY <2>1, RevokeStay, SameStay, CodesUnchangedKept, StayStep
<1>2. ASSUME NEW u \in Users, RpProfileWrite(u) PROVE PersonaInv'
  <2>1. editing[u] \in Clients
    BY <1>2, OidcConstants DEF RpProfileWrite, IInv, TypeOK
  <2>2. PICK p \in {"set", "null"} :
          persona' = [persona EXCEPT ![u][editing[u]] = p]
    BY <1>2 DEF RpProfileWrite
  <2>3. \A v \in Users, c \in Clients :
          persona'[v][c] = persona[v][c] \/ persona'[v][c] = p
    BY <2>1, <2>2 DEF IInv, TypeOK
  <2>4. PersonasStay
    BY <1>2, <2>2, <2>3 DEF RpProfileWrite, PersonasStay
  <2>5. UNCHANGED <<codes, tokens, mergedInto, handler>>
    BY <1>2 DEF RpProfileWrite, userVars
  <2> QED BY <2>4, <2>5, SameStay, CodesUnchangedKept, StayStep
<1>3. ASSUME UNCHANGED <<mergedInto, allowed, persona, codes, tokens, handler>>
      PROVE  PersonaInv'
  BY <1>3, SameStay, CodesUnchangedKept, StayStep
<1> QED BY <1>1, <1>2, <1>3, MergePersona
        DEF AccountStep, UnbanUser, RpProfileCheck, DeleteBadge, userVars, rpVars

LEMMA ClientPersona == ASSUME IInv, PersonaInv, ClientStep PROVE PersonaInv'
<1> SUFFICES ASSUME NEW c \in Clients,
                    \/ \E cfg \in Configs : UpdateOidcClient(c, cfg)
                    \/ RotateOidcClientSecret(c)
                    \/ DeleteOidcClient(c)
             PROVE  PersonaInv'
  BY DEF ClientStep
<1>1. CodesKept
  BY DropKept, {k \in Codes : codes[k].client = c} \in SUBSET Codes
  DEF UpdateOidcClient, RotateOidcClientSecret, DeleteOidcClient
<1>2. HandlersStay /\ UNCHANGED mergedInto
  BY SameStay DEF UpdateOidcClient, RotateOidcClientSecret, DeleteOidcClient,
                  userVars
<1>3. PersonasStay
  <2>1. ASSUME NEW e \in Clients, allowed'[e] # None, NEW u \in Users
        PROVE  allowed[e] # None /\ persona'[u][e] = persona[u][e]
    <3>1. CASE DeleteOidcClient(c)
      <4>1. e # c
        BY <2>1, <3>1 DEF DeleteOidcClient, IInv, TypeOK
      <4> QED BY <2>1, <3>1, <4>1 DEF DeleteOidcClient, IInv, TypeOK
    <3>2. CASE RotateOidcClientSecret(c)
      BY <2>1, <3>2 DEF RotateOidcClientSecret, rpVars
    <3>3. CASE \E cfg \in Configs : UpdateOidcClient(c, cfg)
      BY <2>1, <3>3 DEF UpdateOidcClient, IInv, TypeOK
    <3> QED BY <3>1, <3>2, <3>3
  <2> QED BY <2>1 DEF PersonasStay
<1>4. TokensStay
  <2>1. CASE DeleteOidcClient(c)
    <3>1. \A j \in Jtis : tokens[j] \in TokenRows
      BY DEF IInv, TypeOK
    <3>2. \A j \in Jtis : ~Minted(j) => tokens[j].client = None
      BY DEF IInv, RowsWellFormed, FreeToken
    <3>3. \A j \in Jtis : /\ tokens'[j].user = tokens[j].user
                          /\ tokens'[j].code = tokens[j].code
                          /\ Minted(j)' => Minted(j)
      BY <2>1, <3>1, <3>2, OidcConstants
      DEF DeleteOidcClient, TokenRows, Minted
    <3> QED BY <1>2, <3>3 DEF TokensStay, TookNobody
  <2>2. CASE ~DeleteOidcClient(c)
    BY <1>2, <2>2, RevokeStay DEF UpdateOidcClient, RotateOidcClientSecret
  <2> QED BY <2>1, <2>2
<1> QED BY <1>1, <1>2, <1>3, <1>4, StayStep

(* A name goes out under the persona kept for that relying party, never    *)
(* under the global display name, for any number of consents, edits and    *)
(* token requests in between.                                              *)
THEOREM PersonaKept == Spec => []PersonaAuthoritative
<1>1. Init => PersonaInv
  BY DEF Init, PersonaInv, CodesNamed, HandlersTrue, TokensTrue, Minted,
         FreeCode, FreeToken, IdleHandler
<1>2. IInv /\ PersonaInv /\ [Next]_vars => PersonaInv'
  <2> SUFFICES ASSUME IInv, PersonaInv, [Next]_vars PROVE PersonaInv'
    OBVIOUS
  <2>1. CASE UNCHANGED vars
    BY <2>1, SameStay, CodesUnchangedKept, StayStep DEF vars
  <2> QED BY <2>1, ConsentPersona, TokenPersona, ClockPersona, AccountPersona,
             ClientPersona DEF Next
<1>3. IInv /\ PersonaInv => PersonaAuthoritative
  <2> SUFFICES ASSUME IInv, PersonaInv, NEW j \in Jtis, UserinfoAnswers(j),
                      allowed[tokens[j].client] # None,
                      TookNobody(tokens[j].user), NameClaim \in UserinfoItems(j)
               PROVE  NameSource(j) = "persona"
    BY DEF PersonaAuthoritative, TookNobody
  <2> DEFINE k == tokens[j].code
  <2>1. Minted(j)
    BY DEF UserinfoAnswers, Minted
  <2>2. /\ k \in Codes /\ codes[k].state # "free"
        /\ tokens[j].client = codes[k].client
        /\ tokens[j].items = codes[k].items
    BY <2>1 DEF IInv, RowsWellFormed, Spent, TokenFollowsConsent
  <2>3. tokens[j].user = codes[k].user
    BY <2>1 DEF PersonaInv, TokensTrue
  <2>4. NameClaim \in codes[k].items
    BY <2>2 DEF UserinfoItems
  <2>5. persona[codes[k].user][codes[k].client] # "absent"
    BY <2>2, <2>4 DEF PersonaInv, CodesNamed
  <2> QED BY <2>2, <2>3, <2>5 DEF NameSource
<1> QED BY <1>1, <1>2, <1>3, SpecIInv, PTL DEF Spec
=============================================================================
