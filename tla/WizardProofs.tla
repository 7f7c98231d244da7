---------------------------- MODULE WizardProofs ----------------------------
(***************************************************************************)
(* Proofs about the wizard runtime, for any accounts, credentials and      *)
(* plugins and any number of sessions, requests in flight, tokens and uses *)
(* of the invite code.                                                     *)
(***************************************************************************)
EXTENDS Wizard, FiniteSetTheorems, TLAPS

Steps == {"none", "scrubbed", "form", "magic", "authorize", "prove", "sign", "verify"}
StateType == [step : Steps, cred : Creds \union {NoCred}, tok : 0..MaxTokens]
InputType == [kind : {"none", "form", "info", "signature", "link", "callback", "presentation"},
              cred : Creds \union {NoCred}, tok : 0..MaxTokens,
              key : {"none", "other", "pin"}]
RowType == [user : Users, plugin : Plugins, st : StateType, token : 0..MaxTokens,
            fresh : BOOLEAN, done : BOOLEAN]

\* The batches there are.
CredBatches(c) ==
    EmailDomainBadges(c) \union EmailExactBadges(c) \union GithubBadges(c)
    \union GoogleBadges(c) \union RedditBadges(c) \union SteamBadges(c)
    \union InstagramBadges(c) \union YoutubeBadges(c) \union WalletBadges(c)
    \union PublicKeyBadges(c) \union HackerNewsBadges(c)
    \union DomainControlBadges(c) \union TlsnBadges(c)

Batches == {{}, InviteBadges} \union UNION {CredBatches(c) : c \in Creds}

CallType == [at : {"idle", "start", "create", "looked", "step", "continue", "redeem",
                   "issue", "mint", "finish", "auto"},
             user : Users \union {NoUser}, sid : 0..MaxSessions,
             plugin : Plugins \union {"none"}, in : InputType, st : StateType,
             cred : Creds \union {NoCred}, batch : Batches]

InviteType == [total : Nat, left : Nat, revoked : BOOLEAN, expired : BOOLEAN,
               by : SUBSET Users]

Shapes ==
    /\ row \in [Sessions -> RowType \union {Absent}]
    /\ born \in 0..MaxSessions /\ drawn \in 0..MaxTokens
    /\ call \in [Calls -> CallType]
    /\ sent \subseteq InputType
    /\ posted \in [Creds -> 0..MaxTokens]
    /\ lapsed \subseteq 1..MaxTokens
    /\ pending \subseteq Users
    /\ invite \in InviteType

\* A state that shows a token or a challenge has one, and its credential.
StateRight(st) ==
    /\ st.step \in {"sign", "verify"} => st.tok # 0
    /\ st.step \in {"magic", "sign", "verify", "prove"} => st.cred \in Creds

\* What a session holds was drawn before.
RowRight(s) ==
    row[s] \in RowType =>
        /\ s <= born /\ StateRight(row[s].st)
        /\ row[s].st.tok <= drawn /\ row[s].token <= drawn

\* What an input shows was shown by the person behind the account: a
\* signature, a login at a provider, a transcript under the pinned key.
Shown(in, u) ==
    /\ in.kind \in {"signature", "callback"} => in.cred \in Creds /\ in.cred.owner = u
    /\ in.kind = "presentation" /\ in.key = "pin" => in.cred \in Creds /\ in.cred.owner = u
    /\ in.kind = "form" => in.cred \in Creds

\* The badges whose proof the runtime answers for.  The mail plugins take any
\* token (see Mailed), and a transcript proves nothing about its page unless a
\* notary is pinned.
Answers(p) == p \notin MailPlugins \union {"invite-code"}
              /\ (p = "tlsn-attestation" => NotaryPinned)

CallRight(q) ==
    /\ q.at # "idle" => q.user \in Users
    /\ q.at \in {"start", "create"} => q.plugin \in Plugins
    /\ q.at \in {"looked", "step", "continue"} => q.sid \in Sessions
    /\ q.sid <= born /\ q.st.tok <= drawn /\ StateRight(q.st)
    /\ \A s \in Sessions : s = q.sid /\ row[s] \in RowType => row[s].user = q.user
    /\ Shown(q.in, q.user)
    /\ q.at \in {"issue", "mint"} /\ Answers(q.plugin) => q.cred.owner = q.user
    /\ q.at = "auto" => q.cred \in Creds /\ q.cred.owner = q.user
    /\ q.at = "redeem" => q.plugin = "invite-code"
    /\ q.at \in {"issue", "mint"} /\ q.plugin = "invite-code" => q.user \in invite.by

\* Who works with a random value: the account of a session that holds it or
\* of a request that read or drew it.
Has(u, t) ==
    \/ \E s \in Sessions : row[s] \in RowType /\ row[s].user = u /\ row[s].st.tok = t
    \/ \E k \in Calls : call[k].user = u /\ call[k].st.tok = t

\* A random value is one account's, and one that a credential's owner has
\* published is that owner's.
TokensPart ==
    /\ \A t \in 1..MaxTokens : \A u, v \in Users \union {NoUser} :
          Has(u, t) /\ Has(v, t) => u = v
    /\ \A c \in Creds : posted[c] <= drawn
    /\ \A c \in Creds : posted[c] # 0 =>
          \A u \in Users \union {NoUser} : Has(u, posted[c]) => u = c.owner

\* Callbacks and links on their way name credentials.
SentPart == \A m \in sent : m.kind \in {"link", "callback"} /\ m.cred \in Creds

InvitePart ==
    /\ IsFiniteSet(invite.by)
    /\ invite.total > 0 => invite.total = invite.left + Cardinality(invite.by)

BadgeRight(b) ==
    /\ b.user \in Users
    /\ Answers(b.plugin) => b.cred.owner = b.user
    /\ b.plugin = "invite-code" => b.user \in invite.by

BadgePart == \A b \in badges : BadgeRight(b)

RowPart == \A s \in Sessions : RowRight(s)
CallPart == \A k \in Calls : CallRight(call[k])
LapsedPart == lapsed \subseteq 1..drawn

WizInv ==
    /\ Shapes /\ RowPart /\ CallPart /\ TokensPart /\ SentPart /\ LapsedPart
    /\ InvitePart /\ BadgePart

-----------------------------------------------------------------------------
(* What plugins answer.                                                    *)

DoneWith(c, b) == [kind |-> "complete", cred |-> c, batch |-> b]

\* A plugin goes on to a state of a new random value, or from the challenge
\* to the place where its signature is pasted.
GoesOn(r, st, t) ==
    \/ \E step \in {"magic", "sign", "verify"}, c \in Creds : r = Continue(step, c, t)
    \/ st.step = "sign" /\ r = Continue("verify", st.cred, st.tok)

\* Why a plugin may take a credential for proved.
Reason(p, st, in, ps, c) ==
    \/ p \in MailPlugins /\ st.step = "magic" /\ c = st.cred
    \/ in.kind \in {"callback", "signature"} /\ c = in.cred
    \/ /\ in.kind = "presentation" /\ c = in.cred /\ AssertNotaryKey(in.key)
       /\ p = "tlsn-attestation"
    \/ st.step = "verify" /\ c = st.cred /\ ps[c] = st.tok

Completes(r, p, st, in, ps) ==
    \E c \in Creds : \E b \in CredBatches(c) : r = DoneWith(c, b) /\ Reason(p, st, in, ps, c)

LEMMA CompleteIs ==
    ASSUME NEW c, NEW bs, NEW r \in Complete(c, bs)
    PROVE  \E b \in bs : r = DoneWith(c, b)
  BY DEF Complete, DoneWith

LEMMA MailAnswers ==
    ASSUME NEW st, NEW in, NEW t, NEW bs, NEW r \in MailStep(st, in, t, bs)
    PROVE  \/ in.kind = "form" /\ r = Continue("magic", in.cred, t)
           \/ st.step = "magic" /\ \E b \in bs : r = DoneWith(st.cred, b)
<1>1. CASE st.step = "form" /\ in.kind = "form"
  BY <1>1 DEF MailStep
<1>2. CASE st.step = "magic" /\ in.kind = "link"
  <2>1. r \in Complete(st.cred, bs)
    BY <1>2 DEF MailStep
  <2>. QED BY <1>2, <2>1, CompleteIs
<1>3. CASE ~(st.step = "form" /\ in.kind = "form") /\ ~(st.step = "magic" /\ in.kind = "link")
  BY <1>3 DEF MailStep
<1>. QED BY <1>1, <1>2, <1>3

LEMMA CodeAnswers ==
    ASSUME NEW st, NEW in, NEW bs, NEW r \in CodeStep(st, in, bs)
    PROVE  in.kind = "callback" /\ \E b \in bs : r = DoneWith(in.cred, b)
<1>1. in.kind = "callback" /\ r \in Complete(in.cred, bs)
  BY DEF CodeStep
<1>. QED BY <1>1, CompleteIs

LEMMA ChallengeAnswers ==
    ASSUME NEW st, NEW in, NEW t, NEW ls, NEW ok, NEW bs,
           NEW r \in ChallengeStep(st, in, t, ls, ok, bs)
    PROVE  \/ in.kind = "form" /\ r = Continue("sign", in.cred, t)
           \/ st.step = "sign" /\ r = Continue("verify", st.cred, st.tok)
           \/ in.kind = "signature" /\ ok /\ st.step = "verify"
              /\ \E b \in bs : r = DoneWith(st.cred, b)
<1>1. CASE st.step = "form" /\ in.kind = "form"
  BY <1>1 DEF ChallengeStep
<1>2. CASE st.step = "sign"
  BY <1>2 DEF ChallengeStep
<1>. DEFINE pasted == /\ st.step = "verify" /\ in.kind = "signature"
                      /\ ~IsChallengeExpired(st, ls) /\ ok
<1>3. CASE pasted
  <2>1. r \in Complete(st.cred, bs)
    BY <1>3 DEF ChallengeStep
  <2>. QED BY <1>3, <2>1, CompleteIs
<1>4. CASE ~(st.step = "form" /\ in.kind = "form") /\ st.step # "sign" /\ ~pasted
  BY <1>4 DEF ChallengeStep
<1>. QED BY <1>1, <1>2, <1>3, <1>4

LEMMA PublishAnswers ==
    ASSUME NEW st, NEW in, NEW t, NEW found, NEW bs,
           NEW r \in PublishStep(st, in, t, found, bs)
    PROVE  \/ in.kind = "form" /\ r = Continue("verify", in.cred, t)
           \/ st.step = "verify" /\ found /\ \E b \in bs : r = DoneWith(st.cred, b)
<1>1. CASE st.step = "form" /\ in.kind = "form"
  BY <1>1 DEF PublishStep
<1>2. CASE st.step = "verify" /\ found
  <2>1. r \in Complete(st.cred, bs)
    BY <1>2 DEF PublishStep
  <2>. QED BY <1>2, <2>1, CompleteIs
<1>3. CASE ~(st.step = "form" /\ in.kind = "form") /\ ~(st.step = "verify" /\ found)
  BY <1>3 DEF PublishStep
<1>. QED BY <1>1, <1>2, <1>3

LEMMA PluginAnswers ==
    ASSUME NEW p, NEW st, StateRight(st), NEW in, NEW t, NEW ls, NEW ps,
           NEW r \in PluginStep(p, st, in, t, ls, ps), p # "invite-code",
           in.kind \in {"form", "callback", "signature"} => in.cred \in Creds
    PROVE  GoesOn(r, st, t) \/ Completes(r, p, st, in, ps)
<1>. DEFINE Goal == GoesOn(r, st, t) \/ Completes(r, p, st, in, ps)
<1>a. in.kind = "form" => in.cred \in Creds
  OBVIOUS
<1>1. ASSUME p \in MailPlugins, NEW bs, r \in MailStep(st, in, t, bs),
             bs \subseteq CredBatches(st.cred)
      PROVE  Goal
  <2>1. CASE in.kind = "form" /\ r = Continue("magic", in.cred, t)
    BY <1>a, <2>1 DEF GoesOn
  <2>2. CASE st.step = "magic" /\ \E b \in bs : r = DoneWith(st.cred, b)
    <3>1. st.cred \in Creds
      BY <2>2 DEF StateRight
    <3>. QED BY <1>1, <2>2, <3>1 DEF Completes, Reason
  <2>. QED BY <1>1, <2>1, <2>2, MailAnswers
<1>2. ASSUME NEW bs, r \in CodeStep(st, in, bs), bs \subseteq CredBatches(in.cred)
      PROVE  Goal
  <2>1. in.kind = "callback" /\ \E b \in bs : r = DoneWith(in.cred, b)
    BY <1>2, CodeAnswers
  <2>2. in.cred \in Creds
    BY <2>1
  <2>. QED BY <1>2, <2>1, <2>2 DEF Completes, Reason
<1>3. ASSUME NEW bs, NEW ok, r \in ChallengeStep(st, in, t, ls, ok, bs),
             ok => in.cred = st.cred, bs \subseteq CredBatches(st.cred)
      PROVE  Goal
  <2>1. CASE in.kind = "form" /\ r = Continue("sign", in.cred, t)
    BY <1>a, <2>1 DEF GoesOn
  <2>2. CASE st.step = "sign" /\ r = Continue("verify", st.cred, st.tok)
    BY <2>2 DEF GoesOn
  <2>3. CASE in.kind = "signature" /\ ok /\ st.step = "verify"
             /\ \E b \in bs : r = DoneWith(st.cred, b)
    <3>1. in.cred \in Creds /\ in.cred = st.cred
      BY <1>3, <2>3
    <3>. QED BY <1>3, <2>3, <3>1 DEF Completes, Reason
  <2>. QED BY <1>3, <2>1, <2>2, <2>3, ChallengeAnswers
<1>4. ASSUME NEW bs, NEW found, r \in PublishStep(st, in, t, found, bs),
             found => ps[st.cred] = st.tok, bs \subseteq CredBatches(st.cred)
      PROVE  Goal
  <2>1. CASE in.kind = "form" /\ r = Continue("verify", in.cred, t)
    BY <1>a, <2>1 DEF GoesOn
  <2>2. CASE st.step = "verify" /\ found /\ \E b \in bs : r = DoneWith(st.cred, b)
    <3>1. st.cred \in Creds
      BY <2>2 DEF StateRight
    <3>. QED BY <1>4, <2>2, <3>1 DEF Completes, Reason
  <2>. QED BY <1>4, <2>1, <2>2, PublishAnswers
<1>5. ASSUME p = "tlsn-attestation", r \in TlsnStep(st, in) PROVE Goal
  <2>1. /\ st.step = "prove" /\ in.kind = "presentation" /\ VerifyPresentation(st.cred, in)
        /\ r \in Complete(st.cred, TlsnBadges(st.cred))
    BY <1>5 DEF TlsnStep
  <2>2. /\ st.cred \in Creds /\ in.cred = st.cred /\ AssertNotaryKey(in.key)
        /\ \E b \in TlsnBadges(st.cred) : r = DoneWith(st.cred, b)
    BY <2>1, CompleteIs DEF StateRight, VerifyPresentation
  <2>. QED BY <1>5, <2>1, <2>2 DEF Completes, Reason, CredBatches
<1>6. CASE p = "email-domain"
  <2>1. r \in MailStep(st, in, t, EmailDomainBadges(st.cred)) /\ p \in MailPlugins
    BY <1>6 DEF PluginStep, EmailDomainStep, MailPlugins
  <2>. QED BY <1>1, <2>1 DEF CredBatches
<1>7. CASE p = "email-exact"
  <2>1. r \in MailStep(st, in, t, EmailExactBadges(st.cred)) /\ p \in MailPlugins
    BY <1>7 DEF PluginStep, EmailExactStep, MailPlugins
  <2>. QED BY <1>1, <2>1 DEF CredBatches
<1>8. CASE p = "github"
  <2>1. r \in CodeStep(st, in, GithubBadges(in.cred))
    BY <1>8 DEF PluginStep, GithubStep
  <2>. QED BY <1>2, <2>1 DEF CredBatches
<1>9. CASE p = "google"
  <2>1. r \in CodeStep(st, in, GoogleBadges(in.cred))
    BY <1>9 DEF PluginStep, GoogleStep, PkceStep
  <2>. QED BY <1>2, <2>1 DEF CredBatches
<1>10. CASE p = "reddit"
  <2>1. r \in CodeStep(st, in, RedditBadges(in.cred))
    BY <1>10 DEF PluginStep, RedditStep, PkceStep
  <2>. QED BY <1>2, <2>1 DEF CredBatches
<1>11. CASE p = "steam"
  <2>1. r \in CodeStep(st, in, SteamBadges(in.cred))
    BY <1>11 DEF PluginStep, SteamStep
  <2>. QED BY <1>2, <2>1 DEF CredBatches
<1>12. CASE p = "instagram"
  <2>1. r \in CodeStep(st, in, InstagramBadges(in.cred))
    BY <1>12 DEF PluginStep, InstagramStep
  <2>. QED BY <1>2, <2>1 DEF CredBatches
<1>13. CASE p = "youtube"
  <2>1. r \in CodeStep(st, in, YoutubeBadges(in.cred))
    BY <1>13 DEF PluginStep, YoutubeStep, PkceStep
  <2>. QED BY <1>2, <2>1 DEF CredBatches
<1>14. CASE p = "wallet"
  <2>. DEFINE ok == VerifyWalletSignature(st, in)
  <2>1. r \in ChallengeStep(st, in, t, ls, ok, WalletBadges(st.cred))
    BY <1>14 DEF PluginStep, WalletStep
  <2>2. ok => in.cred = st.cred
    BY DEF VerifyWalletSignature
  <2>. HIDE DEF ok
  <2>. QED BY <1>3, <2>1, <2>2 DEF CredBatches
<1>15. CASE p = "public-key"
  <2>. DEFINE ok == VerifyPgpSignature(st, in) \/ VerifySshSignature(st, in)
  <2>1. r \in ChallengeStep(st, in, t, ls, ok, PublicKeyBadges(st.cred))
    BY <1>15 DEF PluginStep, PublicKeyStep
  <2>2. ok => in.cred = st.cred
    BY DEF VerifyPgpSignature, VerifySshSignature
  <2>. HIDE DEF ok
  <2>. QED BY <1>3, <2>1, <2>2 DEF CredBatches
<1>16. CASE p = "hackernews"
  <2>. DEFINE found == st.step = "verify" /\ AboutContainsToken(ps, st)
  <2>1. r \in PublishStep(st, in, t, found, HackerNewsBadges(st.cred))
    BY <1>16 DEF PluginStep, HackerNewsStep
  <2>2. found => ps[st.cred] = st.tok
    BY DEF AboutContainsToken
  <2>. HIDE DEF found
  <2>. QED BY <1>4, <2>1, <2>2 DEF CredBatches
<1>17. CASE p = "dns-txt"
  <2>. DEFINE found == st.step = "verify" /\ Corroborated(ps, st)
  <2>1. r \in PublishStep(st, in, t, found, DomainControlBadges(st.cred))
    BY <1>17 DEF PluginStep, DnsTxtStep
  <2>2. found => ps[st.cred] = st.tok
    BY DEF Corroborated
  <2>. HIDE DEF found
  <2>. QED BY <1>4, <2>1, <2>2 DEF CredBatches
<1>18. CASE p = "tlsn-attestation"
  <2>1. r \in TlsnStep(st, in)
    BY <1>18 DEF PluginStep
  <2>. QED BY <1>5, <1>18, <2>1
<1>19. CASE p \notin {"email-domain", "email-exact", "github", "google", "reddit", "steam",
                      "instagram", "youtube", "wallet", "public-key", "hackernews",
                      "dns-txt", "tlsn-attestation"}
  BY <1>19 DEF PluginStep
<1>. QED BY <1>6, <1>7, <1>8, <1>9, <1>10, <1>11, <1>12, <1>13, <1>14, <1>15, <1>16,
            <1>17, <1>18, <1>19

-----------------------------------------------------------------------------
(* Rows, requests and random values from one step to the next.             *)

LEMMA AbsentIsNone == Absent \notin RowType
<1>. SUFFICES ASSUME Absent \in RowType PROVE FALSE
  OBVIOUS
<1>1. DOMAIN Absent = {"absent"}
  BY DEF Absent
<1>2. "user" \in DOMAIN Absent
  BY DEF RowType
<1>. QED BY <1>1, <1>2

LEMMA ExistsIs ==
    ASSUME Shapes, NEW s \in Sessions
    PROVE  /\ Exists(s) <=> row[s] \in RowType
           /\ Exists(s) \/ row[s] = Absent
<1>1. row[s] \in RowType \/ row[s] = Absent
  BY DEF Shapes
<1>2. CASE row[s] \in RowType
  <2>1. "user" \in DOMAIN row[s]
    BY <1>2 DEF RowType
  <2>. QED BY <1>2, <2>1 DEF Exists
<1>3. CASE row[s] = Absent
  <2>1. DOMAIN row[s] = {"absent"}
    BY <1>3 DEF Absent
  <2>2. "user" \notin DOMAIN row[s]
    BY <2>1
  <2>. QED BY <1>3, <2>2, AbsentIsNone DEF Exists
<1>. QED BY <1>1, <1>2, <1>3

\* A row keeps its account, and what is counted grows.
Grows ==
    /\ born' \in born..MaxSessions
    /\ drawn' \in drawn..MaxTokens
    /\ invite.by \subseteq invite'.by
    /\ \A s \in Sessions : s <= born /\ row'[s] \in RowType =>
          row[s] \in RowType /\ row'[s].user = row[s].user

LEMMA CallStands ==
    ASSUME Shapes, Grows, NEW q \in CallType, CallRight(q)
    PROVE  CallRight(q)'
<1>1. q.sid \in Nat /\ q.st.tok \in Nat
  BY WizardAssumption DEF CallType, StateType
<1>2. born \in Nat /\ drawn \in Nat /\ born' \in Nat /\ drawn' \in Nat /\ born <= born'
      /\ drawn <= drawn'
  BY WizardAssumption DEF Shapes, Grows
<1>3. q.sid <= born' /\ q.st.tok <= drawn'
  BY <1>1, <1>2 DEF CallRight
<1>4. ASSUME NEW s \in Sessions, s = q.sid, row'[s] \in RowType PROVE row'[s].user = q.user
  <2>1. s <= born
    BY <1>4 DEF CallRight
  <2>. QED BY <1>4, <2>1 DEF CallRight, Grows
<1>5. Shown(q.in, q.user)
  BY DEF CallRight
<1>6. /\ q.at # "idle" => q.user \in Users
      /\ q.at \in {"start", "create"} => q.plugin \in Plugins
      /\ q.at \in {"looked", "step", "continue"} => q.sid \in Sessions
      /\ StateRight(q.st)
      /\ q.at \in {"issue", "mint"} /\ Answers(q.plugin) => q.cred.owner = q.user
      /\ q.at = "auto" => q.cred \in Creds /\ q.cred.owner = q.user
      /\ q.at = "redeem" => q.plugin = "invite-code"
  BY DEF CallRight
<1>7. q.at \in {"issue", "mint"} /\ q.plugin = "invite-code" => q.user \in invite'.by
  BY DEF CallRight, Grows
<1>. QED BY <1>3, <1>4, <1>5, <1>6, <1>7 DEF CallRight

LEMMA CallsStand ==
    ASSUME Shapes, CallPart, Grows, NEW k \in Calls, NEW q \in CallType, CallRight(q)',
           call' = [call EXCEPT ![k] = q]
    PROVE  CallPart' /\ call' \in [Calls -> CallType]
<1>1. call' \in [Calls -> CallType]
  BY DEF Shapes
<1>2. ASSUME NEW j \in Calls PROVE CallRight(call[j])'
  <2>1. CASE j = k
    <3>1. call'[j] = q
      BY <2>1 DEF Shapes
    <3>. QED BY <3>1 DEF CallRight
  <2>2. CASE j # k
    <3>1. PICK d : d = call[j]
      OBVIOUS
    <3>2. call'[j] = d /\ d \in CallType /\ CallRight(d)
      BY <2>2, <3>1 DEF Shapes, CallPart
    <3>3. CallRight(d)'
      BY <3>2, CallStands
    <3>. QED BY <3>2, <3>3 DEF CallRight
  <2>. QED BY <2>1, <2>2
<1>. QED BY <1>1, <1>2 DEF CallPart

LEMMA HadIsDrawn ==
    ASSUME Shapes, RowPart, CallPart, NEW u, NEW t, Has(u, t)
    PROVE  t <= drawn
<1>1. CASE \E s \in Sessions : row[s] \in RowType /\ row[s].user = u /\ row[s].st.tok = t
  BY <1>1 DEF RowPart, RowRight
<1>2. CASE \E k \in Calls : call[k].user = u /\ call[k].st.tok = t
  BY <1>2 DEF CallPart, CallRight
<1>. QED BY <1>1, <1>2 DEF Has

\* Whoever has a random value after the step had it before, except for the
\* one account that may have drawn a new one.
HasFrom(w) ==
    \A u \in Users \union {NoUser} : \A t \in 1..MaxTokens :
        Has(u, t)' => Has(u, t) \/ (u = w /\ t > drawn)

LEMMA TokensStand ==
    ASSUME Shapes, RowPart, CallPart, TokensPart, NEW w, HasFrom(w),
           drawn' \in drawn..MaxTokens, posted' = posted
    PROVE  TokensPart'
<1>0. drawn \in Nat /\ drawn' \in Nat /\ drawn <= drawn' /\ MaxTokens \in Nat
  BY WizardAssumption DEF Shapes
<1>1. ASSUME NEW t \in 1..MaxTokens, NEW u \in Users \union {NoUser},
             NEW v \in Users \union {NoUser}, Has(u, t)', Has(v, t)'
      PROVE  u = v
  <2>1. CASE t > drawn
    <3>1. ~Has(u, t) /\ ~Has(v, t)
      BY <1>0, <2>1, HadIsDrawn
    <3>. QED BY <1>1, <3>1 DEF HasFrom
  <2>2. CASE ~(t > drawn)
    <3>1. Has(u, t) /\ Has(v, t)
      BY <1>1, <2>2 DEF HasFrom
    <3>. QED BY <3>1 DEF TokensPart
  <2>. QED BY <2>1, <2>2
<1>2. ASSUME NEW c \in Creds PROVE posted'[c] <= drawn'
  <2>1. posted[c] \in Nat /\ posted[c] <= drawn
    BY WizardAssumption DEF Shapes, TokensPart
  <2>. QED BY <1>0, <2>1
<1>3. ASSUME NEW c \in Creds, posted'[c] # 0, NEW u \in Users \union {NoUser},
             Has(u, posted[c])'
      PROVE  u = c.owner
  <2>1. PICK t \in 0..MaxTokens : t = posted[c]
    BY DEF Shapes
  <2>2. t \in 1..MaxTokens /\ t <= drawn
    BY <1>0, <1>3, <2>1 DEF TokensPart
  <2>3. Has(u, t)'
    BY <1>3, <2>1 DEF Has
  <2>4. Has(u, t)
    BY <1>0, <2>2, <2>3 DEF HasFrom
  <2>. QED BY <1>3, <2>1, <2>4 DEF TokensPart
<1>. QED BY <1>1, <1>2, <1>3 DEF TokensPart

\* The request k turns into q, and no row takes a value it did not have.
LEMMA HasMoves ==
    ASSUME Shapes, NEW k \in Calls, NEW q \in CallType, call' = [call EXCEPT ![k] = q],
           NEW w,
           \/ q.st.tok = 0
           \/ Has(q.user, q.st.tok)
           \/ q.user = w /\ q.st.tok > drawn,
           \A s \in Sessions : row'[s] \in RowType =>
              \/ row'[s].st.tok = 0
              \/ Has(row'[s].user, row'[s].st.tok)
              \/ row'[s].user = w /\ row'[s].st.tok > drawn
    PROVE  HasFrom(w)
<1>. SUFFICES ASSUME NEW u \in Users \union {NoUser}, NEW t \in 1..MaxTokens, Has(u, t)'
              PROVE  Has(u, t) \/ (u = w /\ t > drawn)
  BY DEF HasFrom
<1>0. t # 0
  BY WizardAssumption
<1>1. CASE \E s \in Sessions : row'[s] \in RowType /\ row'[s].user = u /\ row'[s].st.tok = t
  <2>1. PICK s \in Sessions : row'[s] \in RowType /\ row'[s].user = u /\ row'[s].st.tok = t
    BY <1>1
  <2>. QED BY <1>0, <2>1
<1>2. CASE \E j \in Calls : call'[j].user = u /\ call'[j].st.tok = t
  <2>1. PICK j \in Calls : call'[j].user = u /\ call'[j].st.tok = t
    BY <1>2
  <2>2. CASE j = k
    <3>1. call'[j] = q
      BY <2>2 DEF Shapes
    <3>. QED BY <1>0, <2>1, <3>1
  <2>3. CASE j # k
    <3>1. call'[j] = call[j]
      BY <2>3 DEF Shapes
    <3>. QED BY <2>1, <3>1 DEF Has
  <2>. QED BY <2>2, <2>3
<1>. QED BY <1>1, <1>2 DEF Has

LEMMA BadgesStand ==
    ASSUME BadgePart, Grows, badges' = badges
    PROVE  BadgePart'
<1>1. ASSUME NEW b \in badges PROVE BadgeRight(b)'
  <2>1. BadgeRight(b)
    BY DEF BadgePart
  <2>. QED BY <2>1 DEF BadgeRight, Grows
<1>. QED BY <1>1 DEF BadgePart

LEMMA LapsedStands ==
    ASSUME Shapes, LapsedPart, Grows, lapsed' = lapsed
    PROVE  LapsedPart'
  BY WizardAssumption DEF Shapes, LapsedPart, Grows

LEMMA RowsStand ==
    ASSUME Shapes, RowPart, Grows, row' = row
    PROVE  RowPart'
<1>1. ASSUME NEW s \in Sessions PROVE RowRight(s)'
  <2>1. RowRight(s) /\ s \in Nat
    BY WizardAssumption DEF RowPart, Sessions
  <2>2. CASE row[s] \in RowType
    <3>1. row[s].st.tok \in Nat /\ row[s].token \in Nat
      BY <2>2, WizardAssumption DEF RowType, StateType
    <3>2. born \in Nat /\ drawn \in Nat /\ born' \in Nat /\ drawn' \in Nat /\ born <= born'
          /\ drawn <= drawn'
      BY WizardAssumption DEF Shapes, Grows
    <3>3. s <= born' /\ row[s].st.tok <= drawn' /\ row[s].token <= drawn'
      BY <2>1, <2>2, <3>1, <3>2 DEF RowRight
    <3>4. StateRight(row[s].st)
      BY <2>1, <2>2 DEF RowRight
    <3>. QED BY <3>3, <3>4 DEF RowRight
  <2>3. CASE row[s] \notin RowType
    BY <2>3 DEF RowRight
  <2>. QED BY <2>2, <2>3
<1>. QED BY <1>1 DEF RowPart

\* A request moves on: what else there is changes only in that a random
\* value is drawn or a message sent.
LEMMA CallMoves ==
    ASSUME WizInv, NEW k \in Calls, NEW q \in CallType, call' = [call EXCEPT ![k] = q],
           drawn' \in drawn..MaxTokens, CallRight(q)',
           q.st.tok = 0 \/ Has(q.user, q.st.tok) \/ q.st.tok > drawn,
           sent' \subseteq InputType, SentPart',
           UNCHANGED <<row, born, posted, lapsed, pending, invite, badges>>
    PROVE  WizInv'
<1>0. Shapes /\ RowPart /\ CallPart /\ TokensPart /\ LapsedPart /\ InvitePart /\ BadgePart
  BY DEF WizInv
<1>1. Grows
  BY <1>0, WizardAssumption DEF Grows, Shapes
<1>2. CallPart' /\ call' \in [Calls -> CallType]
  BY <1>0, <1>1, CallsStand
<1>3. ASSUME NEW s \in Sessions, row'[s] \in RowType
      PROVE  row'[s].st.tok = 0 \/ Has(row'[s].user, row'[s].st.tok)
  BY <1>3 DEF Has
<1>4. HasFrom(q.user)
  BY <1>0, <1>3, HasMoves
<1>5. TokensPart'
  BY <1>0, <1>4, TokensStand
<1>6. RowPart' /\ LapsedPart' /\ BadgePart'
  BY <1>0, <1>1, RowsStand, LapsedStands, BadgesStand
<1>7. InvitePart'
  BY <1>0 DEF InvitePart
<1>8. Shapes'
  BY <1>0, <1>2, WizardAssumption DEF Shapes
<1>. QED BY <1>2, <1>5, <1>6, <1>7, <1>8 DEF WizInv

LEMMA IdleType == Idle \in CallType
<1>1. {} \in Batches /\ NoInput \in InputType /\ NoState \in StateType /\ 0 \in 0..MaxSessions
  BY WizardAssumption DEF Batches, NoInput, NoState, InputType, StateType, Steps
<1>. QED BY <1>1 DEF Idle, CallType

LEMMA FreshType ==
    ASSUME Shapes
    PROVE  /\ NoState \in StateType /\ StateRight(NoState) /\ NoState.tok = 0
           /\ NoInput \in InputType /\ \A u : Shown(NoInput, u)
<1>1. NoState \in StateType /\ NoInput \in InputType
  BY WizardAssumption DEF NoInput, NoState, InputType, StateType, Steps
<1>2. StateRight(NoState) /\ NoState.tok = 0
  BY DEF StateRight, NoState
<1>3. \A u : Shown(NoInput, u)
  BY DEF Shown, NoInput
<1>. QED BY <1>1, <1>2, <1>3

LEMMA IdleRight ==
    ASSUME born \in Nat, drawn \in Nat
    PROVE  CallRight(Idle)
<1>1. /\ Idle.at = "idle" /\ Idle.sid = 0 /\ Idle.st = NoState /\ Idle.in = NoInput
  BY DEF Idle
<1>2. StateRight(NoState) /\ NoState.tok = 0
  BY DEF StateRight, NoState
<1>3. Shown(NoInput, Idle.user)
  BY DEF Shown, NoInput
<1>4. \A s \in Sessions : s # 0
  BY WizardAssumption DEF Sessions
<1>5. Idle.sid <= born /\ Idle.st.tok <= drawn
  BY <1>1, <1>2
<1>. QED BY <1>1, <1>2, <1>3, <1>4, <1>5 DEF CallRight

LEMMA GoesIdle ==
    ASSUME WizInv, NEW k \in Calls, call' = [call EXCEPT ![k] = Idle],
           UNCHANGED <<row, born, drawn, sent, posted, lapsed, pending, invite, badges>>
    PROVE  WizInv'
<1>0. Shapes /\ SentPart /\ drawn \in Nat /\ born \in Nat
  BY WizardAssumption DEF WizInv, Shapes
<1>1. PICK q : q = Idle
  OBVIOUS
<1>2. q \in CallType /\ q.st.tok = 0
  BY <1>1, IdleType DEF Idle, NoState
<1>3. CallRight(q)
  BY <1>0, <1>1, IdleRight
<1>4. CallRight(q)'
  BY <1>3 DEF CallRight
<1>5. SentPart' /\ sent' \subseteq InputType /\ drawn' \in drawn..MaxTokens
  BY <1>0, WizardAssumption DEF SentPart, Shapes
<1>6. call' = [call EXCEPT ![k] = q]
  BY <1>1
<1>. QED BY <1>2, <1>4, <1>5, <1>6, CallMoves

\* A request goes on with the state it has or one it reads.
LEMMA GoesOnCall ==
    ASSUME WizInv, NEW k \in Calls, NEW q \in CallType, call' = [call EXCEPT ![k] = q],
           CallRight(q), q.st.tok = 0 \/ Has(q.user, q.st.tok),
           UNCHANGED <<row, born, drawn, sent, posted, lapsed, pending, invite, badges>>
    PROVE  WizInv'
<1>0. Shapes /\ SentPart
  BY DEF WizInv
<1>1. CallRight(q)'
  BY DEF CallRight
<1>2. SentPart' /\ sent' \subseteq InputType /\ drawn' \in drawn..MaxTokens
  BY <1>0, WizardAssumption DEF SentPart, Shapes
<1>. QED BY <1>1, <1>2, CallMoves

LEMMA StartsWizard ==
    ASSUME WizInv, NEW k \in Calls, NEW u \in Users, NEW p \in Plugins, StartWizard(k, u, p)
    PROVE  WizInv'
<1>0. Shapes /\ drawn \in Nat /\ born \in Nat
  BY WizardAssumption DEF WizInv, Shapes
<1>1. PICK q : q = [Idle EXCEPT !.at = "start", !.user = u, !.plugin = p]
  OBVIOUS
<1>2. /\ q \in CallType /\ q.at = "start" /\ q.user = u /\ q.plugin = p
      /\ q.sid = 0 /\ q.st = NoState /\ q.in = NoInput
  <2>1. q \in CallType
    BY <1>1, IdleType DEF CallType
  <2>2. /\ q.at = "start" /\ q.user = u /\ q.plugin = p /\ q.sid = Idle.sid
        /\ q.st = Idle.st /\ q.in = Idle.in
    BY <1>1, IdleType DEF CallType
  <2>. QED BY <2>1, <2>2 DEF Idle
<1>3. CallRight(q)
  <2>1. \A s \in Sessions : s # 0
    BY WizardAssumption DEF Sessions
  <2>2. q.sid <= born /\ q.st.tok <= drawn
    BY <1>0, <1>2, FreshType
  <2>. QED BY <1>0, <1>2, <2>1, <2>2, FreshType DEF CallRight
<1>4. call' = [call EXCEPT ![k] = q]
  BY <1>1 DEF StartWizard
<1>. QED BY <1>0, <1>2, <1>3, <1>4, FreshType, GoesOnCall DEF StartWizard

\* What reaches the server names a credential of the account's person where
\* it is a signature, a return from a provider or a genuine transcript.
LEMMA PresentationType ==
    ASSUME Shapes, NEW u, NEW in \in Presentations(u)
    PROVE  in \in InputType /\ Shown(in, u)
<1>0. \A t \in 1..drawn : t \in 0..MaxTokens
  BY WizardAssumption DEF Shapes
<1>2. CASE \E c \in {x \in Creds : x.owner = u}, t \in 1..drawn :
             in = Input("presentation", c, t, "pin")
  <2>1. PICK c \in {x \in Creds : x.owner = u}, t \in 1..drawn :
             in = Input("presentation", c, t, "pin")
    BY <1>2
  <2>2. in.kind = "presentation" /\ in.cred = c /\ c \in Creds /\ c.owner = u
    BY <2>1 DEF Input
  <2>3. in \in InputType
    BY <1>0, <2>1 DEF Input, InputType
  <2>. QED BY <2>2, <2>3 DEF Shown
<1>3. CASE \E c \in Creds, t \in 1..drawn, key \in {"other", "none"} :
             in = Input("presentation", c, t, key)
  <2>1. PICK c \in Creds, t \in 1..drawn, key \in {"other", "none"} :
             in = Input("presentation", c, t, key)
    BY <1>3
  <2>2. in.kind = "presentation" /\ in.key # "pin"
    BY <2>1 DEF Input
  <2>3. in \in InputType
    BY <1>0, <2>1 DEF Input, InputType
  <2>. QED BY <2>2, <2>3 DEF Shown
<1>. QED BY <1>2, <1>3 DEF Presentations

LEMMA SentType ==
    ASSUME Shapes, SentPart, NEW u, NEW in \in sent, in.cred.owner = u
    PROVE  in \in InputType /\ Shown(in, u)
<1>1. in \in InputType /\ in.kind \in {"link", "callback"} /\ in.cred \in Creds
  BY DEF Shapes, SentPart
<1>. QED BY <1>1 DEF Shown

LEMMA ClientInputType ==
    ASSUME Shapes, SentPart, NEW u, NEW in \in ClientInputs(u)
    PROVE  in \in InputType /\ Shown(in, u)
<1>0. \A t \in 1..drawn : t \in 0..MaxTokens
  BY WizardAssumption DEF Shapes
<1>1. CASE \E c \in Creds : in = Input("form", c, 0, "none")
  <2>1. PICK c \in Creds : in = Input("form", c, 0, "none")
    BY <1>1
  <2>2. in.kind = "form" /\ in.cred = c /\ in.tok = 0 /\ in.key = "none"
    BY <2>1 DEF Input
  <2>3. in \in InputType
    BY <2>1, WizardAssumption DEF Input, InputType
  <2>. QED BY <2>2, <2>3 DEF Shown
<1>2. CASE \E kind \in {"info", "link"} : in = Input(kind, NoCred, 0, "none")
  <2>0. PICK kind \in {"info", "link"} : in = Input(kind, NoCred, 0, "none")
    BY <1>2
  <2>1. in.kind = kind
    BY <2>0 DEF Input
  <2>2. in \in InputType
    BY <2>0, WizardAssumption DEF Input, InputType
  <2>. QED BY <2>1, <2>2 DEF Shown
<1>3. CASE \E c \in {x \in Creds : x.owner = u}, t \in 1..drawn :
             in = Input("signature", c, t, "none")
  <2>1. PICK c \in {x \in Creds : x.owner = u}, t \in 1..drawn :
             in = Input("signature", c, t, "none")
    BY <1>3
  <2>2. in.kind = "signature" /\ in.cred = c /\ c \in Creds /\ c.owner = u
    BY <2>1 DEF Input
  <2>3. in \in InputType
    BY <1>0, <2>1 DEF Input, InputType
  <2>. QED BY <2>2, <2>3 DEF Shown
<1>4. CASE in \in Callbacks(u)
  <2>1. in \in sent /\ in.cred.owner = u
    BY <1>4 DEF Callbacks
  <2>. QED BY <2>1, SentType
<1>5. CASE in \in Presentations(u)
  BY <1>5, PresentationType
<1>. QED BY <1>1, <1>2, <1>3, <1>4, <1>5 DEF ClientInputs

LEMMA ArrivalType ==
    ASSUME Shapes, SentPart, NEW u, NEW in \in Arrivals(u)
    PROVE  in \in InputType /\ Shown(in, u)
<1>1. CASE in \in sent /\ in.cred.owner = u
  BY <1>1, SentType
<1>2. CASE in \in Presentations(u)
  BY <1>2, PresentationType
<1>. QED BY <1>1, <1>2 DEF Arrivals, VerifyLinks, Callbacks

\* A request that has read a session of its account.
LEMMA ReadSession ==
    ASSUME WizInv, NEW u, NEW s \in Sessions, Readable(s, u)
    PROVE  /\ row[s] \in RowType /\ row[s].user = u /\ u \in Users
           /\ row[s].plugin \in Plugins /\ row[s].st \in StateType
           /\ StateRight(row[s].st) /\ row[s].st.tok <= drawn /\ s <= born
           /\ Has(u, row[s].st.tok)
<1>1. row[s] \in RowType /\ row[s].user = u
  BY ExistsIs DEF WizInv, Readable, Live
<1>2. u \in Users /\ row[s].plugin \in Plugins /\ row[s].st \in StateType
  BY <1>1 DEF RowType
<1>3. StateRight(row[s].st) /\ row[s].st.tok <= drawn /\ s <= born
  BY <1>1 DEF WizInv, RowPart, RowRight
<1>. QED BY <1>1, <1>2, <1>3 DEF Has

LEMMA SubmitsStep ==
    ASSUME WizInv, NEW k \in Calls, NEW u \in Users, NEW s \in Sessions, SubmitStep(k, u, s)
    PROVE  WizInv'
<1>0. Shapes /\ SentPart
  BY DEF WizInv
<1>1. PICK in \in ClientInputs(u) :
          call' = [call EXCEPT ![k] = [Idle EXCEPT !.at = "step", !.user = u, !.sid = s,
                      !.plugin = row[s].plugin, !.in = in, !.st = row[s].st]]
  BY DEF SubmitStep
<1>2. PICK q : q = [Idle EXCEPT !.at = "step", !.user = u, !.sid = s,
                      !.plugin = row[s].plugin, !.in = in, !.st = row[s].st]
  OBVIOUS
<1>3. /\ row[s] \in RowType /\ row[s].user = u /\ row[s].plugin \in Plugins
      /\ row[s].st \in StateType
      /\ StateRight(row[s].st) /\ row[s].st.tok <= drawn /\ s <= born
      /\ Has(u, row[s].st.tok)
  BY ReadSession DEF SubmitStep
<1>4. in \in InputType /\ Shown(in, u)
  BY <1>0, ClientInputType
<1>5. s \in 0..MaxSessions
  BY WizardAssumption DEF Sessions
<1>6. /\ q \in CallType /\ q.at = "step" /\ q.user = u /\ q.sid = s
      /\ q.plugin = row[s].plugin /\ q.in = in /\ q.st = row[s].st
  BY <1>2, <1>3, <1>4, <1>5, IdleType DEF CallType
<1>7. CallRight(q)
  BY <1>3, <1>4, <1>6 DEF CallRight
<1>8. Has(q.user, q.st.tok)
  BY <1>3, <1>6
<1>9. call' = [call EXCEPT ![k] = q]
  BY <1>1, <1>2
<1>. QED BY <1>6, <1>7, <1>8, <1>9, GoesOnCall DEF SubmitStep

LEMMA Resumes ==
    ASSUME WizInv, NEW k \in Calls, NEW u \in Users, NEW s \in Sessions, Resume(k, u, s)
    PROVE  WizInv'
<1>0. Shapes /\ SentPart /\ drawn \in Nat /\ born \in Nat
  BY WizardAssumption DEF WizInv, Shapes
<1>1. PICK in \in Arrivals(u) :
          call' = [call EXCEPT ![k] = [Idle EXCEPT !.at = "looked", !.user = u, !.sid = s,
                                         !.in = in]]
  BY DEF Resume
<1>2. PICK q : q = [Idle EXCEPT !.at = "looked", !.user = u, !.sid = s, !.in = in]
  OBVIOUS
<1>3. row[s] \in RowType /\ row[s].user = u /\ s <= born
  BY ReadSession DEF Resume
<1>4. in \in InputType /\ Shown(in, u)
  BY <1>0, ArrivalType
<1>5. s \in 0..MaxSessions
  BY WizardAssumption DEF Sessions
<1>6. /\ q \in CallType /\ q.at = "looked" /\ q.user = u /\ q.sid = s
      /\ q.in = in /\ q.st = NoState
  <2>1. /\ q \in CallType /\ q.at = "looked" /\ q.user = u /\ q.sid = s
        /\ q.in = in /\ q.st = Idle.st
    BY <1>2, <1>4, <1>5, IdleType DEF CallType
  <2>. QED BY <2>1 DEF Idle
<1>7. q.st.tok = 0 /\ StateRight(q.st)
  BY <1>0, <1>6, FreshType
<1>8. CallRight(q)
  BY <1>0, <1>3, <1>4, <1>6, <1>7 DEF CallRight
<1>9. call' = [call EXCEPT ![k] = q]
  BY <1>1, <1>2
<1>. QED BY <1>6, <1>7, <1>8, <1>9, GoesOnCall DEF Resume

LEMMA ReadsAgain ==
    ASSUME WizInv, NEW k \in Calls, ResumeRead(k)
    PROVE  WizInv'
<1>0. Shapes /\ CallPart
  BY DEF WizInv
<1>1. PICK d : d = call[k]
  OBVIOUS
<1>2. d \in CallType /\ CallRight(d) /\ d.at = "looked"
  BY <1>0, <1>1 DEF Shapes, CallPart, ResumeRead
<1>3. PICK s \in Sessions : s = d.sid
  BY <1>2 DEF CallRight
<1>4. CASE Readable(s, d.user) /\ row[s].st.step # "scrubbed"
  <2>1. PICK q : q = [d EXCEPT !.at = "step", !.plugin = row[s].plugin, !.st = row[s].st]
    OBVIOUS
  <2>2. call' = [call EXCEPT ![k] = q]
    BY <1>1, <1>3, <1>4, <2>1 DEF ResumeRead
  <2>3. /\ row[s] \in RowType /\ row[s].user = d.user /\ row[s].plugin \in Plugins
        /\ row[s].st \in StateType
        /\ StateRight(row[s].st) /\ row[s].st.tok <= drawn /\ s <= born
        /\ Has(d.user, row[s].st.tok)
    BY <1>4, ReadSession
  <2>4. /\ q \in CallType /\ q.at = "step" /\ q.user = d.user /\ q.sid = s
        /\ q.plugin = row[s].plugin /\ q.in = d.in /\ q.st = row[s].st
    BY <1>2, <1>3, <2>1, <2>3 DEF CallType
  <2>5. CallRight(q)
    BY <1>2, <2>3, <2>4 DEF CallRight
  <2>6. Has(q.user, q.st.tok)
    BY <2>3, <2>4
  <2>. QED BY <2>2, <2>4, <2>5, <2>6, GoesOnCall DEF ResumeRead
<1>5. CASE ~(Readable(s, d.user) /\ row[s].st.step # "scrubbed")
  <2>1. call' = [call EXCEPT ![k] = Idle]
    BY <1>1, <1>3, <1>5 DEF ResumeRead
  <2>. QED BY <2>1, GoesIdle DEF ResumeRead
<1>. QED BY <1>4, <1>5

\* A request that only moves to another place.
LEMMA MovesTo ==
    ASSUME WizInv, NEW k \in Calls, NEW d, d = call[k], NEW at,
           NEW q, q = [d EXCEPT !.at = at], q \in CallType, d.at # "idle",
           at \in {"redeem", "mint"},
           at = "redeem" => d.plugin = "invite-code",
           at = "mint" => d.at = "issue",
           call' = [call EXCEPT ![k] = q],
           UNCHANGED <<row, born, drawn, sent, posted, lapsed, pending, invite, badges>>
    PROVE  WizInv'
<1>1. d \in CallType /\ CallRight(d)
  BY DEF WizInv, Shapes, CallPart
<1>2. /\ q.at = at /\ q.user = d.user /\ q.sid = d.sid /\ q.plugin = d.plugin
      /\ q.in = d.in /\ q.st = d.st /\ q.cred = d.cred
  BY <1>1 DEF CallType
<1>3. CallRight(q)
  BY <1>1, <1>2 DEF CallRight
<1>4. Has(q.user, q.st.tok)
  BY <1>2 DEF Has
<1>. QED BY <1>3, <1>4, GoesOnCall

LEMMA ReadsInvite ==
    ASSUME WizInv, NEW k \in Calls, RedeemRead(k)
    PROVE  WizInv'
<1>1. PICK d : d = call[k]
  OBVIOUS
<1>2. PICK q : q = [d EXCEPT !.at = "redeem"]
  OBVIOUS
<1>3. d \in CallType
  BY <1>1 DEF WizInv, Shapes
<1>4. q \in CallType
  BY <1>2, <1>3 DEF CallType
<1>5. d.at = "step" /\ d.plugin = "invite-code" /\ call' = [call EXCEPT ![k] = q]
  BY <1>1, <1>2 DEF RedeemRead
<1>6. UNCHANGED <<row, born, drawn, sent, posted, lapsed, pending, invite, badges>>
  BY DEF RedeemRead
<1>7. d.at # "idle"
  BY <1>5
<1>. QED BY <1>1, <1>2, <1>4, <1>5, <1>6, <1>7, MovesTo

LEMMA PassesGate ==
    ASSUME WizInv, NEW k \in Calls, IssueGate(k)
    PROVE  WizInv'
<1>1. PICK d : d = call[k]
  OBVIOUS
<1>2. CASE d.user \in pending
  <2>1. call' = [call EXCEPT ![k] = Idle]
    BY <1>1, <1>2 DEF IssueGate
  <2>. QED BY <2>1, GoesIdle DEF IssueGate
<1>3. CASE d.user \notin pending
  <2>2. PICK q : q = [d EXCEPT !.at = "mint"]
    OBVIOUS
  <2>3. d \in CallType
    BY <1>1 DEF WizInv, Shapes
  <2>4. q \in CallType
    BY <2>2, <2>3 DEF CallType
  <2>5. d.at = "issue" /\ call' = [call EXCEPT ![k] = q]
    BY <1>1, <1>3, <2>2 DEF IssueGate
  <2>. QED BY <1>1, <2>2, <2>4, <2>5, MovesTo DEF IssueGate
<1>. QED BY <1>2, <1>3

LEMMA StartsAuto ==
    ASSUME WizInv, NEW k \in Calls, NEW c \in Creds, AutoIssue(k, c)
    PROVE  WizInv'
<1>0. Shapes /\ drawn \in Nat /\ born \in Nat /\ c.owner \in Users
  BY WizardAssumption DEF WizInv, Shapes
<1>1. PICK q : q = [Idle EXCEPT !.at = "auto", !.user = c.owner, !.cred = c]
  OBVIOUS
<1>2. /\ q \in CallType /\ q.at = "auto" /\ q.user = c.owner /\ q.cred = c
      /\ q.sid = 0 /\ q.st = NoState /\ q.in = NoInput
  <2>1. /\ q \in CallType /\ q.at = "auto" /\ q.user = c.owner /\ q.cred = c
        /\ q.sid = Idle.sid /\ q.st = Idle.st /\ q.in = Idle.in
    BY <1>0, <1>1, IdleType DEF CallType
  <2>. QED BY <2>1 DEF Idle
<1>3. CallRight(q)
  <2>1. \A s \in Sessions : s # 0
    BY WizardAssumption DEF Sessions
  <2>2. q.sid <= born /\ q.st.tok <= drawn
    BY <1>0, <1>2, FreshType
  <2>. QED BY <1>0, <1>2, <2>1, <2>2, FreshType DEF CallRight
<1>4. call' = [call EXCEPT ![k] = q]
  BY <1>1 DEF AutoIssue
<1>. QED BY <1>0, <1>2, <1>3, <1>4, FreshType, GoesOnCall DEF AutoIssue

(***************************************************************************)
(* The plugin's answer.                                                    *)
(***************************************************************************)
LEMMA InviteHasNoStep ==
    ASSUME NEW st, NEW in, NEW t, NEW ls, NEW ps
    PROVE  PluginStep("invite-code", st, in, t, ls, ps) = {}
  BY Zenon DEF PluginStep

\* A credential a plugin takes for proved is the account's own.
LEMMA TakenIsOwn ==
    ASSUME WizInv, NEW k \in Calls, NEW d, d = call[k], d.at = "step", Answers(d.plugin),
           NEW c \in Creds, Reason(d.plugin, d.st, d.in, posted, c)
    PROVE  c.owner = d.user
<1>0. d \in CallType /\ CallRight(d) /\ TokensPart /\ Shapes
  BY DEF WizInv, Shapes, CallPart
<1>1. Shown(d.in, d.user) /\ StateRight(d.st) /\ d.user \in Users /\ Has(d.user, d.st.tok)
  BY <1>0 DEF CallRight, Has
<1>2. d.plugin \notin MailPlugins
  BY DEF Answers
<1>3. CASE d.in.kind \in {"callback", "signature"} /\ c = d.in.cred
  BY <1>1, <1>3 DEF Shown
<1>4. CASE /\ d.in.kind = "presentation" /\ c = d.in.cred /\ AssertNotaryKey(d.in.key)
           /\ d.plugin = "tlsn-attestation"
  BY <1>1, <1>4 DEF Shown, Answers, AssertNotaryKey
<1>5. CASE d.st.step = "verify" /\ c = d.st.cred /\ posted[c] = d.st.tok
  <2>1. posted[c] # 0
    BY <1>1, <1>5 DEF StateRight
  <2>2. Has(d.user, posted[c])
    BY <1>1, <1>5
  <2>. QED BY <1>0, <1>1, <2>1, <2>2 DEF TokensPart
<1>. QED BY <1>2, <1>3, <1>4, <1>5 DEF Reason

LEMMA Advances ==
    ASSUME WizInv, NEW k \in Calls, NEW d, d = call[k], d.at = "step",
           NEW r, GoesOn(r, d.st, drawn + 1), Advance(k, r),
           UNCHANGED <<row, born, posted, lapsed, pending, invite, badges>>
    PROVE  WizInv'
<1>0. /\ d \in CallType /\ CallRight(d) /\ Shapes /\ SentPart
      /\ drawn \in 0..MaxTokens /\ MaxTokens \in Nat
  BY WizardAssumption DEF WizInv, Shapes, CallPart
<1>1. PICK q : q = [d EXCEPT !.at = "continue", !.st = r.st]
  OBVIOUS
<1>2. call' = [call EXCEPT ![k] = q]
  BY <1>0, <1>1 DEF Advance, Shapes
<1>3. /\ r.st \in StateType /\ StateRight(r.st) /\ drawn' \in drawn..MaxTokens
      /\ r.st.tok <= drawn'
      /\ Has(d.user, r.st.tok) \/ r.st.tok > drawn
      /\ r.st.step = "magic" => r.st.cred \in Creds
  <2>1. CASE \E step \in {"magic", "sign", "verify"}, c \in Creds :
                 r = Continue(step, c, drawn + 1)
    <3>1. PICK step \in {"magic", "sign", "verify"}, c \in Creds :
                 r = Continue(step, c, drawn + 1)
      BY <2>1
    <3>2. r.st = [step |-> step, cred |-> c, tok |-> drawn + 1]
      BY <3>1 DEF Continue
    <3>3. r.st.step = step /\ r.st.cred = c /\ r.st.tok = drawn + 1
      BY <3>2
    <3>4. drawn + 1 <= MaxTokens /\ drawn' = drawn + 1
      BY <1>0, <3>3 DEF Advance
    <3>5. r.st \in StateType
      BY <1>0, <3>2, <3>4 DEF StateType, Steps
    <3>6. StateRight(r.st)
      BY <1>0, <3>3 DEF StateRight
    <3>. QED BY <1>0, <3>3, <3>4, <3>5, <3>6
  <2>2. CASE d.st.step = "sign" /\ r = Continue("verify", d.st.cred, d.st.tok)
    <3>1. r.st = [step |-> "verify", cred |-> d.st.cred, tok |-> d.st.tok]
      BY <2>2 DEF Continue
    <3>2. r.st.step = "verify" /\ r.st.cred = d.st.cred /\ r.st.tok = d.st.tok
      BY <3>1
    <3>3. d.st \in StateType /\ StateRight(d.st) /\ d.st.tok <= drawn /\ d.st.tok \in Nat
      BY <1>0 DEF CallType, CallRight, StateType
    <3>4. drawn' = drawn
      BY <1>0, <3>2, <3>3 DEF Advance
    <3>5. r.st \in StateType
      BY <3>1, <3>3 DEF StateType, Steps
    <3>6. StateRight(r.st)
      BY <2>2, <3>2, <3>3 DEF StateRight
    <3>7. Has(d.user, r.st.tok)
      BY <3>2 DEF Has
    <3>. QED BY <1>0, <3>2, <3>3, <3>4, <3>5, <3>6, <3>7
  <2>. QED BY <2>1, <2>2 DEF GoesOn
<1>4. /\ q \in CallType /\ q.at = "continue" /\ q.user = d.user /\ q.sid = d.sid
      /\ q.plugin = d.plugin /\ q.in = d.in /\ q.st = r.st
  BY <1>0, <1>1, <1>3 DEF CallType
<1>5. CallRight(q)'
  <2>1. /\ d.user \in Users /\ d.sid \in Sessions /\ d.sid <= born
        /\ \A s \in Sessions : s = d.sid /\ row[s] \in RowType => row[s].user = d.user
        /\ Shown(d.in, d.user)
    BY <1>0 DEF CallRight
  <2>. QED BY <1>3, <1>4, <2>1 DEF CallRight
<1>6. sent' \subseteq InputType /\ SentPart'
  <2>1. CASE r.st.step = "magic"
    <3>1. PICK m : m = Input("link", r.st.cred, r.st.tok, "none")
      OBVIOUS
    <3>2. sent' = sent \union {m}
      BY <2>1, <3>1 DEF Advance
    <3>3. r.st.cred \in Creds /\ r.st.tok \in 0..MaxTokens
      BY <1>3, <2>1 DEF StateType
    <3>4. m \in InputType
      BY <3>1, <3>3 DEF Input, InputType
    <3>5. m.kind = "link" /\ m.cred \in Creds
      BY <3>1, <3>3 DEF Input
    <3>. QED BY <1>0, <3>2, <3>4, <3>5 DEF Shapes, SentPart
  <2>2. CASE r.st.step # "magic"
    BY <1>0, <2>2 DEF Advance, Shapes, SentPart
  <2>. QED BY <2>1, <2>2
<1>7. Has(q.user, q.st.tok) \/ q.st.tok > drawn
  BY <1>3, <1>4
<1>. QED BY <1>2, <1>3, <1>4, <1>5, <1>6, <1>7, CallMoves

LEMMA Verifies ==
    ASSUME WizInv, NEW k \in Calls, NEW d, d = call[k], d.at = "step",
           d.plugin # "invite-code",
           NEW r, Completes(r, d.plugin, d.st, d.in, posted), Verified(k, r),
           UNCHANGED <<row, born, posted, lapsed, pending, invite, badges>>
    PROVE  WizInv'
<1>0. d \in CallType /\ CallRight(d) /\ Shapes /\ SentPart
  BY DEF WizInv, Shapes, CallPart
<1>1. PICK c \in Creds : \E b \in CredBatches(c) :
          r = DoneWith(c, b) /\ Reason(d.plugin, d.st, d.in, posted, c)
  BY DEF Completes
<1>2. PICK b \in CredBatches(c) :
          r = DoneWith(c, b) /\ Reason(d.plugin, d.st, d.in, posted, c)
  BY <1>1
<1>3. r.cred = c /\ r.batch = b
  BY <1>2 DEF DoneWith
<1>4. b \in Batches
  BY DEF Batches
<1>5. PICK q : q = [d EXCEPT !.at = "issue", !.cred = c, !.batch = b]
  OBVIOUS
<1>6. call' = [call EXCEPT ![k] = q]
  BY <1>0, <1>3, <1>5 DEF Verified, Shapes
<1>7. /\ q \in CallType /\ q.at = "issue" /\ q.user = d.user /\ q.sid = d.sid
      /\ q.plugin = d.plugin /\ q.in = d.in /\ q.st = d.st /\ q.cred = c
  BY <1>0, <1>4, <1>5 DEF CallType
<1>8. Answers(d.plugin) => c.owner = d.user
  BY <1>2, TakenIsOwn
<1>9. drawn' = drawn
  BY DEF Verified
<1>10. CallRight(q)'
  <2>1. CallRight(q)
    BY <1>0, <1>7, <1>8 DEF CallRight
  <2>. QED BY <1>9, <2>1 DEF CallRight
<1>11. sent' \subseteq sent
  BY DEF Verified
<1>12. sent' \subseteq InputType /\ SentPart' /\ drawn' \in drawn..MaxTokens
  BY <1>0, <1>9, <1>11, WizardAssumption DEF Shapes, SentPart
<1>13. Has(q.user, q.st.tok)
  BY <1>7 DEF Has
<1>. QED BY <1>6, <1>7, <1>10, <1>12, <1>13, CallMoves

LEMMA HandlesStep ==
    ASSUME WizInv, NEW k \in Calls, HandleStep(k)
    PROVE  WizInv'
<1>1. PICK d : d = call[k]
  OBVIOUS
<1>2. d.at = "step" /\ CallRight(d)
  BY <1>1 DEF HandleStep, WizInv, CallPart
<1>3. PICK r \in PluginStep(d.plugin, d.st, d.in, drawn + 1, lapsed, posted) :
          Advance(k, r) \/ Verified(k, r)
  BY <1>1 DEF HandleStep
<1>4. d.plugin # "invite-code"
  BY <1>3, InviteHasNoStep
<1>5. StateRight(d.st)
      /\ (d.in.kind \in {"form", "callback", "signature"} => d.in.cred \in Creds)
  BY <1>2 DEF CallRight, Shown
<1>6. GoesOn(r, d.st, drawn + 1) \/ Completes(r, d.plugin, d.st, d.in, posted)
  BY <1>3, <1>4, <1>5, PluginAnswers
<1>7. UNCHANGED <<row, born, posted, lapsed, pending, invite, badges>>
  BY DEF HandleStep
<1>8. CASE Advance(k, r)
  <2>1. r.kind = "continue"
    BY <1>8 DEF Advance
  <2>2. ~Completes(r, d.plugin, d.st, d.in, posted)
    BY <2>1 DEF Completes, DoneWith
  <2>. QED BY <1>1, <1>2, <1>6, <1>7, <1>8, <2>2, Advances
<1>9. CASE Verified(k, r)
  <2>1. r.kind = "complete"
    BY <1>9 DEF Verified
  <2>2. ~GoesOn(r, d.st, drawn + 1)
    BY <2>1 DEF GoesOn, Continue
  <2>. QED BY <1>1, <1>2, <1>4, <1>6, <1>7, <1>9, <2>2, Verifies
<1>. QED BY <1>3, <1>8, <1>9

-----------------------------------------------------------------------------
(* Steps that write sessions.                                              *)

\* What a session may become: its account stays, and its random value is
\* one the account had.
Succeeds(e, s) ==
    e \in RowType =>
        /\ row[s] \in RowType /\ e.user = row[s].user /\ StateRight(e.st)
        /\ e.st.tok <= drawn /\ e.token <= drawn
        /\ e.st.tok = 0 \/ Has(e.user, e.st.tok)

RowsFrom ==
    /\ row' \in [Sessions -> RowType \union {Absent}]
    /\ \A s \in Sessions : \A e \in RowType : e = row'[s] => Succeeds(e, s)

LEMMA StaysAsIs ==
    ASSUME WizInv, NEW s \in Sessions, NEW e, e = row[s]
    PROVE  Succeeds(e, s)
<1>. SUFFICES ASSUME e \in RowType PROVE Succeeds(e, s)
  BY DEF Succeeds
<1>1. /\ StateRight(e.st) /\ e.st.tok <= drawn /\ e.token <= drawn
  BY DEF WizInv, RowPart, RowRight
<1>2. Has(e.user, e.st.tok)
  BY DEF Has
<1>. QED BY <1>1, <1>2 DEF Succeeds

LEMMA OneRow ==
    ASSUME WizInv, NEW s \in Sessions, NEW e \in RowType \union {Absent}, Succeeds(e, s),
           row' = [row EXCEPT ![s] = e]
    PROVE  RowsFrom
<1>0. row \in [Sessions -> RowType \union {Absent}]
  BY DEF WizInv, Shapes
<1>1. row' \in [Sessions -> RowType \union {Absent}]
  BY <1>0
<1>2. ASSUME NEW r \in Sessions, NEW f \in RowType, f = row'[r] PROVE Succeeds(f, r)
  <2>1. CASE r = s
    BY <1>0, <1>2, <2>1
  <2>2. CASE r # s
    <3>1. f = row[r]
      BY <1>0, <1>2, <2>2
    <3>. QED BY <3>1, StaysAsIs
  <2>. QED BY <2>1, <2>2
<1>. QED BY <1>1, <1>2 DEF RowsFrom

LEMMA RowsSucceed ==
    ASSUME WizInv, RowsFrom, born' = born, drawn' = drawn
    PROVE  RowPart'
<1>1. ASSUME NEW s \in Sessions PROVE RowRight(s)'
  <2>1. CASE row'[s] \in RowType
    <3>1. PICK e \in RowType : e = row'[s]
      BY <2>1
    <3>2. Succeeds(e, s)
      BY <3>1 DEF RowsFrom
    <3>3. row[s] \in RowType /\ StateRight(e.st) /\ e.st.tok <= drawn /\ e.token <= drawn
      BY <3>2 DEF Succeeds
    <3>4. s <= born
      BY <3>3 DEF WizInv, RowPart, RowRight
    <3>5. StateRight(row'[s].st)
      BY <3>1, <3>3
    <3>. QED BY <3>1, <3>3, <3>4, <3>5 DEF RowRight
  <2>2. CASE row'[s] \notin RowType
    BY <2>2 DEF RowRight
  <2>. QED BY <2>1, <2>2
<1>. QED BY <1>1 DEF RowPart

LEMMA RowsGrow ==
    ASSUME WizInv, RowsFrom, UNCHANGED <<born, drawn, invite>>
    PROVE  Grows
<1>1. ASSUME NEW s \in Sessions, row'[s] \in RowType
      PROVE  row[s] \in RowType /\ row'[s].user = row[s].user
  <2>1. PICK e \in RowType : e = row'[s]
    BY <1>1
  <2>2. Succeeds(e, s)
    BY <2>1 DEF RowsFrom
  <2>. QED BY <2>1, <2>2 DEF Succeeds
<1>2. born' \in born..MaxSessions /\ drawn' \in drawn..MaxTokens
  BY WizardAssumption DEF WizInv, Shapes
<1>. QED BY <1>1, <1>2 DEF Grows

LEMMA RowsHad ==
    ASSUME RowsFrom, NEW s \in Sessions, row'[s] \in RowType
    PROVE  row'[s].st.tok = 0 \/ Has(row'[s].user, row'[s].st.tok)
<1>1. PICK e \in RowType : e = row'[s]
  OBVIOUS
<1>2. Succeeds(e, s)
  BY <1>1 DEF RowsFrom
<1>. QED BY <1>1, <1>2 DEF Succeeds

\* Sessions are written, and the request that wrote them goes on as q.
LEMMA RowsMove ==
    ASSUME WizInv, RowsFrom, NEW k \in Calls, NEW q \in CallType,
           call' = [call EXCEPT ![k] = q], CallRight(q)',
           q.st.tok = 0 \/ Has(q.user, q.st.tok),
           UNCHANGED <<born, drawn, sent, posted, lapsed, pending, invite, badges>>
    PROVE  WizInv'
<1>0. /\ Shapes /\ RowPart /\ CallPart /\ TokensPart /\ LapsedPart /\ InvitePart /\ BadgePart
      /\ SentPart
  BY DEF WizInv
<1>1. Grows
  BY RowsGrow
<1>2. CallPart' /\ call' \in [Calls -> CallType]
  BY <1>0, <1>1, CallsStand
<1>3. HasFrom(q.user)
  BY <1>0, RowsHad, HasMoves
<1>4. drawn' \in drawn..MaxTokens
  BY <1>1 DEF Grows
<1>5. TokensPart'
  BY <1>0, <1>3, <1>4, TokensStand
<1>6. RowPart' /\ LapsedPart' /\ BadgePart'
  BY <1>0, <1>1, RowsSucceed, LapsedStands, BadgesStand
<1>7. InvitePart' /\ SentPart'
  BY <1>0 DEF InvitePart, SentPart
<1>8. Shapes'
  BY <1>0, <1>2 DEF Shapes, RowsFrom
<1>. QED BY <1>2, <1>5, <1>6, <1>7, <1>8 DEF WizInv

LEMMA CallsKept ==
    ASSUME Shapes, CallPart, Grows, call' = call
    PROVE  CallPart'
<1>1. ASSUME NEW j \in Calls PROVE CallRight(call[j])'
  <2>1. PICK d : d = call[j]
    OBVIOUS
  <2>2. call'[j] = d /\ d \in CallType /\ CallRight(d)
    BY <2>1 DEF Shapes, CallPart
  <2>3. CallRight(d)'
    BY <2>2, CallStands
  <2>. QED BY <2>2, <2>3 DEF CallRight
<1>. QED BY <1>1 DEF CallPart

\* Sessions are written by no request.
LEMMA RowsAlone ==
    ASSUME WizInv, RowsFrom,
           UNCHANGED <<born, drawn, call, sent, posted, lapsed, pending, invite, badges>>
    PROVE  WizInv'
<1>0. /\ Shapes /\ RowPart /\ CallPart /\ TokensPart /\ LapsedPart /\ InvitePart /\ BadgePart
      /\ SentPart
  BY DEF WizInv
<1>1. Grows
  BY RowsGrow
<1>2. CallPart'
  BY <1>0, <1>1, CallsKept
<1>3. HasFrom(NoUser)
  <2>. SUFFICES ASSUME NEW u \in Users \union {NoUser}, NEW t \in 1..MaxTokens, Has(u, t)'
                PROVE  Has(u, t)
    BY DEF HasFrom
  <2>1. CASE \E s \in Sessions : row'[s] \in RowType /\ row'[s].user = u /\ row'[s].st.tok = t
    <3>1. t # 0
      BY WizardAssumption
    <3>. QED BY <2>1, <3>1, RowsHad
  <2>2. CASE \E j \in Calls : call'[j].user = u /\ call'[j].st.tok = t
    BY <2>2 DEF Has
  <2>. QED BY <2>1, <2>2 DEF Has
<1>4. drawn' \in drawn..MaxTokens
  BY <1>1 DEF Grows
<1>5. TokensPart'
  BY <1>0, <1>3, <1>4, TokensStand
<1>6. RowPart' /\ LapsedPart' /\ BadgePart'
  BY <1>0, <1>1, RowsSucceed, LapsedStands, BadgesStand
<1>7. InvitePart' /\ SentPart'
  BY <1>0 DEF InvitePart, SentPart
<1>8. Shapes'
  BY <1>0 DEF Shapes, RowsFrom
<1>. QED BY <1>2, <1>5, <1>6, <1>7, <1>8 DEF WizInv

LEMMA AbsentSucceeds ==
    ASSUME NEW s
    PROVE  Succeeds(Absent, s)
  BY AbsentIsNone DEF Succeeds

LEMMA ObservesExpired ==
    ASSUME WizInv, NEW s \in Sessions, ObserveExpired(s)
    PROVE  WizInv'
<1>1. row' = [row EXCEPT ![s] = Absent]
  BY DEF ObserveExpired
<1>2. RowsFrom
  BY <1>1, AbsentSucceeds, OneRow
<1>. QED BY <1>2, RowsAlone DEF ObserveExpired

LEMMA Expires ==
    ASSUME WizInv, NEW s \in Sessions, Expire(s)
    PROVE  WizInv'
<1>0. Shapes
  BY DEF WizInv
<1>1. row[s] \in RowType
  BY <1>0, ExistsIs DEF Expire, Live
<1>2. PICK e : e = [row[s] EXCEPT !.fresh = FALSE]
  OBVIOUS
<1>3. /\ e \in RowType /\ e.user = row[s].user /\ e.st = row[s].st
      /\ e.token = row[s].token
  BY <1>1, <1>2 DEF RowType
<1>4. Succeeds(e, s)
  <2>1. PICK f : f = row[s]
    OBVIOUS
  <2>2. Succeeds(f, s)
    BY <2>1, StaysAsIs
  <2>. QED BY <1>1, <1>3, <2>1, <2>2 DEF Succeeds
<1>5. row' = [row EXCEPT ![s] = e]
  BY <1>0, <1>2 DEF Expire, Shapes
<1>6. RowsFrom
  BY <1>3, <1>4, <1>5, OneRow
<1>. QED BY <1>6, RowsAlone DEF Expire

LEMMA Purges ==
    ASSUME WizInv, NEW k \in Calls, StartPurge(k)
    PROVE  WizInv'
<1>0. Shapes /\ CallPart
  BY DEF WizInv
<1>1. PICK d : d = call[k]
  OBVIOUS
<1>2. PICK q : q = [d EXCEPT !.at = "create"]
  OBVIOUS
<1>3. d \in CallType /\ CallRight(d) /\ d.at = "start"
  BY <1>0, <1>1 DEF Shapes, CallPart, StartPurge
<1>4. /\ q \in CallType /\ q.at = "create" /\ q.user = d.user /\ q.sid = d.sid
      /\ q.plugin = d.plugin /\ q.in = d.in /\ q.st = d.st
  BY <1>2, <1>3 DEF CallType
<1>5. RowsFrom
  <2>1. ASSUME NEW s \in Sessions PROVE row'[s] = Absent \/ row'[s] = row[s]
    BY DEF StartPurge
  <2>2. row' \in [Sessions -> RowType \union {Absent}]
    <3>1. \A s \in Sessions : row[s] \in RowType \union {Absent}
      BY <1>0 DEF Shapes
    <3>. QED BY <3>1 DEF StartPurge
  <2>3. ASSUME NEW s \in Sessions, NEW e \in RowType, e = row'[s] PROVE Succeeds(e, s)
    BY <2>1, <2>3, AbsentIsNone, StaysAsIs
  <2>. QED BY <2>2, <2>3 DEF RowsFrom
<1>6. call' = [call EXCEPT ![k] = q]
  BY <1>0, <1>1, <1>2 DEF StartPurge, Shapes
<1>7. UNCHANGED <<born, drawn, sent, posted, lapsed, pending, invite, badges>>
  BY DEF StartPurge
<1>8. CallRight(q)'
  <2>1. CallRight(q)
    BY <1>3, <1>4 DEF CallRight
  <2>2. Grows
    BY <1>5, <1>7, RowsGrow
  <2>. QED BY <1>0, <1>4, <2>1, <2>2, CallStands
<1>9. Has(q.user, q.st.tok)
  BY <1>1, <1>4 DEF Has
<1>. QED BY <1>4, <1>5, <1>6, <1>7, <1>8, <1>9, RowsMove

\* A request that ends with its write.
LEMMA WritesAndEnds ==
    ASSUME WizInv, RowsFrom, NEW k \in Calls, call' = [call EXCEPT ![k] = Idle],
           UNCHANGED <<born, drawn, sent, posted, lapsed, pending, invite, badges>>
    PROVE  WizInv'
<1>0. Shapes /\ drawn \in Nat /\ born \in Nat
  BY WizardAssumption DEF WizInv, Shapes
<1>1. PICK q : q = Idle
  OBVIOUS
<1>2. q \in CallType /\ q.st.tok = 0
  BY <1>1, IdleType DEF Idle, NoState
<1>3. CallRight(q)
  BY <1>0, <1>1, IdleRight
<1>4. CallRight(q)'
  BY <1>0, <1>2, <1>3, RowsGrow, CallStands
<1>5. call' = [call EXCEPT ![k] = q]
  BY <1>1
<1>. QED BY <1>2, <1>4, <1>5, RowsMove

LEMMA TokenIs ==
    ASSUME NEW st \in StateType
    PROVE  PendingTokenFor(st) \in 0..MaxTokens /\ PendingTokenFor(st) <= st.tok
  BY WizardAssumption DEF PendingTokenFor, StateType

LEMMA ContinuesWrite ==
    ASSUME WizInv, NEW k \in Calls, ContinueWrite(k)
    PROVE  WizInv'
<1>0. Shapes /\ CallPart /\ drawn \in Nat
  BY WizardAssumption DEF WizInv, Shapes
<1>1. PICK d : d = call[k]
  OBVIOUS
<1>2. d \in CallType /\ CallRight(d) /\ d.at = "continue"
  BY <1>0, <1>1 DEF Shapes, CallPart, ContinueWrite
<1>3. PICK s \in Sessions : s = d.sid
  BY <1>2 DEF CallRight
<1>4. RowsFrom
  <2>1. CASE Exists(s)
    <3>1. row[s] \in RowType
      BY <1>0, <2>1, ExistsIs
    <3>2. PICK e : e = [row[s] EXCEPT !.st = d.st, !.token = PendingTokenFor(d.st), !.fresh = TRUE]
      OBVIOUS
    <3>3. row' = [row EXCEPT ![s] = e]
      BY <1>0, <1>1, <1>3, <2>1, <3>2 DEF ContinueWrite, Shapes
    <3>4. d.st \in StateType /\ StateRight(d.st) /\ d.st.tok <= drawn /\ d.st.tok \in Nat
      BY <1>2 DEF CallType, CallRight, StateType
    <3>5. PICK t \in 0..MaxTokens : t = PendingTokenFor(d.st) /\ t <= d.st.tok
      BY <3>4, TokenIs
    <3>6. e \in RowType /\ e.user = row[s].user /\ e.st = d.st /\ e.token = t
      BY <3>1, <3>2, <3>4, <3>5 DEF RowType
    <3>7. e.user = d.user
      BY <1>2, <1>3, <3>1, <3>6 DEF CallRight
    <3>8. Has(e.user, e.st.tok)
      BY <1>1, <3>6, <3>7 DEF Has
    <3>9. e.token <= drawn
      BY <1>0, <3>4, <3>5, <3>6
    <3>10. Succeeds(e, s)
      BY <3>1, <3>4, <3>6, <3>8, <3>9 DEF Succeeds
    <3>. QED BY <3>3, <3>6, <3>10, OneRow
  <2>2. CASE ~Exists(s)
    <3>1. row' = row
      BY <1>1, <1>3, <2>2 DEF ContinueWrite
    <3>. QED BY <1>0, <3>1, StaysAsIs DEF RowsFrom, Shapes
  <2>. QED BY <2>1, <2>2
<1>5. call' = [call EXCEPT ![k] = Idle]
  BY DEF ContinueWrite
<1>. QED BY <1>4, <1>5, WritesAndEnds DEF ContinueWrite

LEMMA Scrubs ==
    ASSUME WizInv, NEW s \in 0..MaxSessions, ScrubRow(s)
    PROVE  RowsFrom
<1>0. Shapes /\ drawn \in Nat
  BY WizardAssumption DEF WizInv, Shapes
<1>1. CASE s # 0 /\ Exists(s)
  <2>1. s \in Sessions
    BY <1>1, WizardAssumption DEF Sessions
  <2>2. row[s] \in RowType
    BY <1>0, <1>1, <2>1, ExistsIs
  <2>. DEFINE z == 0
  <2>z. z \in 0..MaxTokens /\ z = 0
    BY WizardAssumption
  <2>3. PICK e : e = [row[s] EXCEPT !.st = Scrubbed, !.token = z, !.done = TRUE]
    OBVIOUS
  <2>4. row' = [row EXCEPT ![s] = e]
    BY <1>0, <1>1, <2>1, <2>3 DEF ScrubRow, Shapes
  <2>. HIDE DEF z
  <2>5. Scrubbed \in StateType /\ StateRight(Scrubbed) /\ Scrubbed.tok = 0
    BY WizardAssumption DEF Scrubbed, StateType, StateRight, Steps
  <2>6. e \in RowType /\ e.user = row[s].user /\ e.st = Scrubbed /\ e.token = z
    BY <2>2, <2>3, <2>5, <2>z DEF RowType
  <2>7. Succeeds(e, s)
    BY <1>0, <2>2, <2>5, <2>6, <2>z DEF Succeeds
  <2>. QED BY <2>1, <2>4, <2>6, <2>7, OneRow
<1>2. CASE ~(s # 0 /\ Exists(s))
  <2>1. row' = row
    BY <1>2 DEF ScrubRow
  <2>. QED BY <1>0, <2>1, StaysAsIs DEF RowsFrom, Shapes
<1>. QED BY <1>1, <1>2

LEMMA AbortsMint ==
    ASSUME WizInv, NEW k \in Calls, MintAborts(k)
    PROVE  WizInv'
<1>0. Shapes
  BY DEF WizInv
<1>1. call[k].sid \in 0..MaxSessions
  BY <1>0 DEF Shapes, CallType
<1>2. RowsFrom
  <2>1. CASE AnchorSeen(call[k].batch)
    BY <1>1, <2>1, Scrubs DEF MintAborts
  <2>2. CASE ~AnchorSeen(call[k].batch)
    <3>1. row' = row
      BY <2>2 DEF MintAborts
    <3>. QED BY <1>0, <3>1, StaysAsIs DEF RowsFrom, Shapes
  <2>. QED BY <2>1, <2>2
<1>3. call' = [call EXCEPT ![k] = Idle]
  BY DEF MintAborts
<1>. QED BY <1>2, <1>3, WritesAndEnds DEF MintAborts

LEMMA Finishes ==
    ASSUME WizInv, NEW k \in Calls, Finish(k)
    PROVE  WizInv'
<1>1. call[k].sid \in 0..MaxSessions
  BY DEF WizInv, Shapes, CallType
<1>2. RowsFrom
  BY <1>1, Scrubs DEF Finish
<1>3. call' = [call EXCEPT ![k] = Idle]
  BY DEF Finish
<1>. QED BY <1>2, <1>3, WritesAndEnds DEF Finish

\* What a plugin starts with.
LEMMA StartsWith ==
    ASSUME NEW p, NEW t \in Nat \ {0}, NEW st, st = PluginStart(p, t)
    PROVE  /\ st.step \in Steps /\ st.cred \in Creds \union {NoCred}
           /\ st.tok \in {0, t} /\ StateRight(st)
           /\ st = [step |-> st.step, cred |-> st.cred, tok |-> st.tok]
<1>1. CASE st = FormStart
  BY <1>1 DEF FormStart, Steps, StateRight
<1>2. CASE st = RedirectStart(t)
  BY <1>2 DEF RedirectStart, Steps, StateRight
<1>3. CASE st = TlsnStart(t)
  BY <1>3, PluginsAssumption DEF TlsnStart, Steps, StateRight
<1>. QED BY <1>1, <1>2, <1>3 DEF PluginStart

LEMMA Creates ==
    ASSUME WizInv, NEW k \in Calls, StartCreate(k)
    PROVE  WizInv'
<1>0. /\ Shapes /\ RowPart /\ CallPart /\ TokensPart /\ LapsedPart /\ InvitePart /\ BadgePart
      /\ SentPart /\ born \in Nat /\ drawn \in Nat /\ MaxSessions \in Nat /\ MaxTokens \in Nat
  BY WizardAssumption DEF WizInv, Shapes
<1>1. PICK d : d = call[k]
  OBVIOUS
<1>2. d \in CallType /\ CallRight(d) /\ d.at = "create"
  BY <1>0, <1>1 DEF Shapes, CallPart, StartCreate
<1>3. d.user \in Users /\ d.plugin \in Plugins
  BY <1>2 DEF CallRight
<1>4. PICK st : st = PluginStart(d.plugin, drawn + 1)
  OBVIOUS
<1>5. PICK n \in Sessions : n = born + 1
  BY <1>0 DEF StartCreate, Sessions
<1>6. /\ st.step \in Steps /\ st.cred \in Creds \union {NoCred}
      /\ st.tok \in {0, drawn + 1} /\ StateRight(st)
      /\ st = [step |-> st.step, cred |-> st.cred, tok |-> st.tok]
  BY <1>0, <1>4, StartsWith
<1>7. st.tok <= MaxTokens /\ born' = n /\ drawn' = (IF st.tok = 0 THEN drawn ELSE st.tok)
  BY <1>1, <1>4, <1>5 DEF StartCreate
<1>8. st \in StateType
  BY <1>0, <1>6, <1>7 DEF StateType
<1>9. drawn' \in drawn..MaxTokens /\ st.tok <= drawn' /\ drawn' \in Nat
  BY <1>0, <1>6, <1>7 DEF Shapes
<1>10. PICK t \in 0..MaxTokens : t = PendingTokenFor(st) /\ t <= st.tok
  BY <1>8, TokenIs
<1>11. PICK e : e = NewRow(d.user, d.plugin, st)
  OBVIOUS
<1>12. e \in RowType /\ e.user = d.user /\ e.st = st /\ e.token = t
  BY <1>3, <1>8, <1>10, <1>11 DEF NewRow, RowType
<1>13. row' = [row EXCEPT ![n] = e]
  BY <1>1, <1>4, <1>5, <1>11 DEF StartCreate
<1>14. /\ row' \in [Sessions -> RowType \union {Absent}]
       /\ row'[n] = e
       /\ \A s \in Sessions : s # n => row'[s] = row[s]
  BY <1>0, <1>12, <1>13 DEF Shapes
<1>15. UNCHANGED <<sent, posted, lapsed, pending, invite, badges>>
  BY DEF StartCreate
<1>16. Grows
  <2>1. born' \in born..MaxSessions
    BY <1>0, <1>5, <1>7 DEF Sessions
  <2>2. \A s \in Sessions : s <= born => s # n
    BY <1>0, <1>5
  <2>. QED BY <1>9, <1>14, <1>15, <2>1, <2>2 DEF Grows
<1>17. RowPart'
  <2>1. ASSUME NEW s \in Sessions PROVE RowRight(s)'
    <3>1. CASE s = n
      <4>1. e.token <= drawn'
        BY <1>0, <1>8, <1>9, <1>10, <1>12 DEF StateType
      <4>2. n <= born'
        BY <1>0, <1>5, <1>7
      <4>. QED BY <1>6, <1>9, <1>12, <1>14, <3>1, <4>1, <4>2 DEF RowRight
    <3>2. CASE s # n
      <4>1. row'[s] = row[s]
        BY <1>14, <3>2
      <4>2. CASE row[s] \in RowType
        <5>1. /\ s <= born /\ StateRight(row[s].st)
              /\ row[s].st.tok <= drawn /\ row[s].token <= drawn
          BY <1>0, <4>2 DEF RowPart, RowRight
        <5>2. s \in Nat /\ row[s].st.tok \in Nat /\ row[s].token \in Nat
          BY <1>0, <4>2 DEF RowType, StateType, Sessions
        <5>3. s <= born' /\ row[s].st.tok <= drawn' /\ row[s].token <= drawn'
          BY <1>0, <1>5, <1>7, <1>9, <5>1, <5>2
        <5>. QED BY <4>1, <5>1, <5>3 DEF RowRight
      <4>3. CASE row[s] \notin RowType
        BY <4>1, <4>3 DEF RowRight
      <4>. QED BY <4>2, <4>3
    <3>. QED BY <3>1, <3>2
  <2>. QED BY <2>1 DEF RowPart
<1>18. PICK q : q = Idle
  OBVIOUS
<1>19. q \in CallType /\ q.st.tok = 0 /\ CallRight(q) /\ call' = [call EXCEPT ![k] = q]
  BY <1>0, <1>18, IdleType, IdleRight DEF Idle, NoState, StartCreate
<1>20. CallPart' /\ call' \in [Calls -> CallType]
  <2>1. CallRight(q)'
    BY <1>0, <1>16, <1>19, CallStands
  <2>. QED BY <1>0, <1>16, <1>19, <2>1, CallsStand
<1>21. HasFrom(d.user)
  <2>1. ASSUME NEW s \in Sessions, row'[s] \in RowType
        PROVE  \/ row'[s].st.tok = 0
               \/ Has(row'[s].user, row'[s].st.tok)
               \/ row'[s].user = d.user /\ row'[s].st.tok > drawn
    <3>1. CASE s = n
      BY <1>0, <1>6, <1>12, <1>14, <3>1
    <3>2. CASE s # n
      <4>1. row'[s] = row[s]
        BY <1>14, <3>2
      <4>. QED BY <2>1, <4>1 DEF Has
    <3>. QED BY <3>1, <3>2
  <2>. QED BY <1>0, <1>19, <2>1, HasMoves
<1>22. TokensPart'
  BY <1>0, <1>9, <1>15, <1>21, TokensStand
<1>23. LapsedPart' /\ BadgePart'
  BY <1>0, <1>15, <1>16, LapsedStands, BadgesStand
<1>24. InvitePart' /\ SentPart'
  BY <1>0, <1>15 DEF InvitePart, SentPart
<1>25. Shapes'
  <2>1. born' \in 0..MaxSessions /\ drawn' \in 0..MaxTokens
    BY <1>0, <1>5, <1>7, <1>9 DEF Sessions
  <2>. QED BY <1>0, <1>14, <1>15, <1>20, <2>1 DEF Shapes
<1>. QED BY <1>17, <1>20, <1>22, <1>23, <1>24, <1>25 DEF WizInv

-----------------------------------------------------------------------------
(* Redemptions and badges.                                                 *)

LEMMA CallIssues ==
    ASSUME WizInv, NEW k \in Calls, NEW q \in CallType, call' = [call EXCEPT ![k] = q],
           CallRight(q)', q.st.tok = 0 \/ Has(q.user, q.st.tok),
           invite' \in InviteType, invite.by \subseteq invite'.by, InvitePart', BadgePart',
           UNCHANGED <<row, born, drawn, sent, posted, lapsed, pending>>
    PROVE  WizInv'
<1>0. Shapes /\ RowPart /\ CallPart /\ TokensPart /\ LapsedPart /\ SentPart
  BY DEF WizInv
<1>1. Grows
  BY <1>0, WizardAssumption DEF Grows, Shapes
<1>2. CallPart' /\ call' \in [Calls -> CallType]
  BY <1>0, <1>1, CallsStand
<1>3. ASSUME NEW s \in Sessions, row'[s] \in RowType
      PROVE  row'[s].st.tok = 0 \/ Has(row'[s].user, row'[s].st.tok)
  BY <1>3 DEF Has
<1>4. HasFrom(q.user)
  BY <1>0, <1>3, HasMoves
<1>5. drawn' \in drawn..MaxTokens
  BY <1>1 DEF Grows
<1>6. TokensPart'
  BY <1>0, <1>4, <1>5, TokensStand
<1>7. RowPart' /\ LapsedPart'
  BY <1>0, <1>1, RowsStand, LapsedStands
<1>8. SentPart' /\ Shapes'
  BY <1>0, <1>2 DEF SentPart, Shapes
<1>. QED BY <1>2, <1>6, <1>7, <1>8 DEF WizInv

LEMMA CommitsRedemption ==
    ASSUME WizInv, NEW k \in Calls, RedeemCommit(k)
    PROVE  WizInv'
<1>0. Shapes /\ CallPart /\ InvitePart /\ BadgePart
  BY DEF WizInv
<1>1. PICK d : d = call[k]
  OBVIOUS
<1>2. d \in CallType /\ CallRight(d) /\ d.at = "redeem"
  BY <1>0, <1>1 DEF Shapes, CallPart, RedeemCommit
<1>3. d.user \in Users /\ d.plugin = "invite-code"
  BY <1>2 DEF CallRight
<1>4. UNCHANGED <<row, born, drawn, sent, posted, lapsed, pending, badges>>
  BY DEF RedeemCommit
<1>5. CASE Redeems(d.user)
  <2>1. PICK v : v = [invite EXCEPT !.by = @ \union {d.user},
                        !.left = IF invite.total > 0 THEN @ - 1 ELSE @]
    OBVIOUS
  <2>2. invite' = v
    BY <1>1, <1>5, <2>1 DEF RedeemCommit
  <2>3. /\ invite \in InviteType /\ d.user \notin invite.by /\ invite.left \in Nat
        /\ invite.total \in Nat /\ (invite.total > 0 => invite.left > 0)
    BY <1>0, <1>5 DEF Shapes, InviteType, Redeems
  <2>4. /\ v \in InviteType /\ v.by = invite.by \union {d.user} /\ v.total = invite.total
        /\ v.left = (IF invite.total > 0 THEN invite.left - 1 ELSE invite.left)
    <3>1. PICK n \in Nat : n = (IF invite.total > 0 THEN invite.left - 1 ELSE invite.left)
      BY <2>3
    <3>2. v = [invite EXCEPT !.by = invite.by \union {d.user}, !.left = n]
      BY <2>1, <2>3, <3>1 DEF InviteType
    <3>3. invite.by \union {d.user} \in SUBSET Users
      BY <1>3, <2>3 DEF InviteType
    <3>. QED BY <2>3, <3>1, <3>2, <3>3 DEF InviteType
  <2>5. IsFiniteSet(invite.by)
    BY <1>0 DEF InvitePart
  <2>6. IsFiniteSet(v.by) /\ Cardinality(v.by) = Cardinality(invite.by) + 1
    BY <2>3, <2>4, <2>5, FS_AddElement
  <2>7. Cardinality(invite.by) \in Nat
    BY <2>5, FS_CardinalityType
  <2>8. v.total > 0 => v.total = v.left + Cardinality(v.by)
    BY <1>0, <2>3, <2>4, <2>6, <2>7 DEF InvitePart
  <2>9. InvitePart'
    BY <2>2, <2>6, <2>8 DEF InvitePart
  <2>10. ASSUME NEW b \in badges PROVE BadgeRight(b)'
    <3>1. BadgeRight(b)
      BY <1>0 DEF BadgePart
    <3>. QED BY <2>2, <2>4, <3>1 DEF BadgeRight
  <2>11. BadgePart'
    BY <1>4, <2>10 DEF BadgePart
  <2>12. PICK q : q = [d EXCEPT !.at = "issue", !.batch = InviteBadges]
    OBVIOUS
  <2>13. call' = [call EXCEPT ![k] = q]
    BY <1>0, <1>1, <1>5, <2>12 DEF RedeemCommit, Shapes
  <2>14. InviteBadges \in Batches
    BY DEF Batches
  <2>15. /\ q \in CallType /\ q.at = "issue" /\ q.user = d.user /\ q.sid = d.sid
         /\ q.plugin = d.plugin /\ q.in = d.in /\ q.st = d.st
    BY <1>2, <2>12, <2>14 DEF CallType
  <2>16. ~Answers(q.plugin)
    BY <1>3, <2>15 DEF Answers
  <2>17. q.user \in invite'.by
    BY <2>2, <2>4, <2>15
  <2>18. CallRight(q)'
    BY <1>2, <1>3, <1>4, <2>15, <2>16, <2>17 DEF CallRight
  <2>19. Has(q.user, q.st.tok)
    BY <1>1, <2>15 DEF Has
  <2>. QED BY <1>4, <2>2, <2>4, <2>9, <2>11, <2>13, <2>15, <2>18, <2>19, CallIssues
<1>6. CASE ~Redeems(d.user)
  <2>1. invite' = invite /\ call' = [call EXCEPT ![k] = Idle]
    BY <1>1, <1>6 DEF RedeemCommit
  <2>. QED BY <1>4, <2>1, GoesIdle
<1>. QED BY <1>5, <1>6

LEMMA Mints ==
    ASSUME WizInv, NEW k \in Calls, Mint(k)
    PROVE  WizInv'
<1>0. Shapes /\ CallPart /\ InvitePart /\ BadgePart
  BY DEF WizInv
<1>1. PICK d : d = call[k]
  OBVIOUS
<1>2. d \in CallType /\ CallRight(d) /\ d.at = "mint"
  BY <1>0, <1>1 DEF Shapes, CallPart, Mint
<1>3. UNCHANGED <<row, born, drawn, sent, posted, lapsed, pending, invite>>
  BY DEF Mint
<1>4. ASSUME NEW b \in badges' PROVE BadgeRight(b)'
  <2>1. CASE b \in badges
    <3>1. BadgeRight(b)
      BY <1>0, <2>1 DEF BadgePart
    <3>. QED BY <1>3, <3>1 DEF BadgeRight
  <2>2. CASE b \notin badges
    <3>1. PICK x \in d.batch :
            b = [user |-> d.user, cred |-> d.cred, plugin |-> d.plugin,
                 type |-> x.type, says |-> x.says, anchor |-> x.anchor, reveals |-> x.reveals]
      BY <1>1, <2>2 DEF Mint
    <3>2. b.user = d.user /\ b.cred = d.cred /\ b.plugin = d.plugin
      BY <3>1
    <3>3. /\ d.user \in Users
          /\ Answers(d.plugin) => d.cred.owner = d.user
          /\ d.plugin = "invite-code" => d.user \in invite.by
      BY <1>2 DEF CallRight
    <3>. QED BY <1>3, <3>2, <3>3 DEF BadgeRight
  <2>. QED BY <2>1, <2>2
<1>5. BadgePart'
  BY <1>4 DEF BadgePart
<1>6. PICK q : q = [d EXCEPT !.at = "finish"]
  OBVIOUS
<1>7. call' = [call EXCEPT ![k] = q]
  BY <1>0, <1>1, <1>6 DEF Mint, Shapes
<1>8. /\ q \in CallType /\ q.at = "finish" /\ q.user = d.user /\ q.sid = d.sid
      /\ q.plugin = d.plugin /\ q.in = d.in /\ q.st = d.st
  BY <1>2, <1>6 DEF CallType
<1>9. CallRight(q)'
  BY <1>2, <1>3, <1>8 DEF CallRight
<1>10. Has(q.user, q.st.tok)
  BY <1>1, <1>8 DEF Has
<1>11. invite' \in InviteType /\ InvitePart'
  BY <1>0, <1>3 DEF Shapes, InvitePart
<1>. QED BY <1>3, <1>5, <1>7, <1>8, <1>9, <1>10, <1>11, CallIssues

LEMMA MintsAtSignIn ==
    ASSUME WizInv, NEW k \in Calls, AutoMint(k)
    PROVE  WizInv'
<1>0. Shapes /\ CallPart /\ InvitePart /\ BadgePart /\ born \in Nat /\ drawn \in Nat
  BY WizardAssumption DEF WizInv, Shapes
<1>1. PICK d : d = call[k]
  OBVIOUS
<1>2. d \in CallType /\ CallRight(d) /\ d.at = "auto"
  BY <1>0, <1>1 DEF Shapes, CallPart, AutoMint
<1>3. d.cred.owner \in Users
  BY <1>2, WizardAssumption DEF CallRight
<1>4. UNCHANGED <<row, born, drawn, sent, posted, lapsed, pending, invite>>
  BY DEF AutoMint
<1>5. PICK x : x = CHOOSE y \in (CHOOSE batch \in EmailDomainBadges(d.cred) : TRUE) : TRUE
  OBVIOUS
<1>6. ASSUME NEW b \in badges' PROVE BadgeRight(b)'
  <2>1. CASE b \in badges
    <3>1. BadgeRight(b)
      BY <1>0, <2>1 DEF BadgePart
    <3>. QED BY <1>4, <3>1 DEF BadgeRight
  <2>2. CASE b \notin badges
    <3>1. b = [user |-> d.cred.owner, cred |-> d.cred, plugin |-> "email-domain",
               type |-> x.type, says |-> x.says, anchor |-> x.anchor, reveals |-> x.reveals]
      BY <1>1, <1>5, <2>2 DEF AutoMint
    <3>2. b.user = d.cred.owner /\ b.cred = d.cred /\ b.plugin = "email-domain"
      BY <3>1
    <3>. QED BY <1>3, <3>2 DEF BadgeRight
  <2>. QED BY <2>1, <2>2
<1>7. BadgePart'
  BY <1>6 DEF BadgePart
<1>8. PICK q : q = Idle
  OBVIOUS
<1>9. q \in CallType /\ q.st.tok = 0 /\ CallRight(q) /\ call' = [call EXCEPT ![k] = q]
  BY <1>0, <1>8, IdleType, IdleRight DEF Idle, NoState, AutoMint
<1>10. CallRight(q)'
  BY <1>4, <1>9 DEF CallRight
<1>11. invite' \in InviteType /\ InvitePart'
  BY <1>0, <1>4 DEF Shapes, InvitePart
<1>. QED BY <1>4, <1>7, <1>9, <1>10, <1>11, CallIssues

-----------------------------------------------------------------------------
(* The world.                                                              *)

\* Sessions, requests and badges stay as they are.
LEMMA WorldMoves ==
    ASSUME WizInv, UNCHANGED <<row, born, drawn, call, badges>>, invite'.by = invite.by
    PROVE  /\ RowPart' /\ CallPart' /\ BadgePart'
           /\ \A u \in Users \union {NoUser} : \A t \in 0..MaxTokens : Has(u, t)' <=> Has(u, t)
<1>1. Grows
  BY WizardAssumption DEF Grows, WizInv, Shapes
<1>2. RowPart' /\ CallPart' /\ BadgePart'
  BY <1>1, RowsStand, CallsKept, BadgesStand DEF WizInv
<1>3. \A u \in Users \union {NoUser} : \A t \in 0..MaxTokens : Has(u, t)' <=> Has(u, t)
  BY DEF Has
<1>. QED BY <1>2, <1>3

LEMMA TokensSame ==
    ASSUME WizInv, UNCHANGED <<row, drawn, call, posted>>
    PROVE  TokensPart'
<1>0. Shapes /\ RowPart /\ CallPart /\ TokensPart /\ drawn' \in drawn..MaxTokens
  BY WizardAssumption DEF WizInv, Shapes
<1>1. HasFrom(NoUser)
  BY DEF HasFrom, Has
<1>. QED BY <1>0, <1>1, TokensStand

LEMMA LogsIn ==
    ASSUME WizInv, NEW s \in Sessions, NEW c \in Creds, ProviderLogin(s, c)
    PROVE  WizInv'
<1>0. Shapes /\ SentPart /\ LapsedPart /\ InvitePart
  BY DEF WizInv
<1>1. row[s] \in RowType
  BY <1>0, ExistsIs DEF ProviderLogin, Live
<1>2. PICK t \in 0..MaxTokens : t = row[s].st.tok
  BY <1>1 DEF RowType, StateType
<1>3. PICK m : m = Input("callback", c, t, "none")
  OBVIOUS
<1>4. m \in InputType /\ m.kind = "callback" /\ m.cred = c
  BY <1>3 DEF Input, InputType
<1>5. sent' = sent \union {m}
  BY <1>2, <1>3 DEF ProviderLogin
<1>6. sent' \subseteq InputType /\ SentPart'
  BY <1>0, <1>4, <1>5 DEF Shapes, SentPart
<1>7. RowPart' /\ CallPart' /\ BadgePart' /\ TokensPart'
  BY WorldMoves, TokensSame DEF ProviderLogin
<1>8. Shapes' /\ LapsedPart' /\ InvitePart'
  BY <1>0, <1>6 DEF ProviderLogin, Shapes, LapsedPart, InvitePart
<1>. QED BY <1>6, <1>7, <1>8 DEF WizInv

LEMMA Publishes ==
    ASSUME WizInv, NEW s \in Sessions, Publish(s)
    PROVE  WizInv'
<1>0. Shapes /\ SentPart /\ LapsedPart /\ InvitePart /\ TokensPart /\ RowPart
  BY DEF WizInv
<1>1. row[s] \in RowType
  BY <1>0, ExistsIs DEF Publish, Live
<1>2. PICK t \in 0..MaxTokens : t = row[s].st.tok
  BY <1>1 DEF RowType, StateType
<1>3. StateRight(row[s].st) /\ t <= drawn
  BY <1>0, <1>1, <1>2 DEF RowPart, RowRight
<1>4. PICK c \in Creds : c = row[s].st.cred
  BY <1>3 DEF Publish, StateRight
<1>5. t # 0 /\ c.owner = row[s].user /\ posted' = [posted EXCEPT ![c] = t]
  BY <1>2, <1>3, <1>4 DEF Publish, StateRight
<1>6. posted' \in [Creds -> 0..MaxTokens]
  BY <1>0, <1>5 DEF Shapes
<1>7. UNCHANGED <<row, born, drawn, call, sent, lapsed, pending, invite, badges>>
  BY DEF Publish
<1>8. RowPart' /\ CallPart' /\ BadgePart'
  BY <1>7, WorldMoves
<1>9. \A u \in Users \union {NoUser} : \A w \in 0..MaxTokens : Has(u, w)' <=> Has(u, w)
  BY <1>7, WorldMoves
<1>10. Has(row[s].user, t) /\ row[s].user \in Users
  BY <1>1, <1>2 DEF Has, RowType
<1>11. TokensPart'
  <2>1. ASSUME NEW w \in 1..MaxTokens, NEW u \in Users \union {NoUser},
               NEW v \in Users \union {NoUser}, Has(u, w)', Has(v, w)'
        PROVE  u = v
    <3>1. w \in 0..MaxTokens
      BY WizardAssumption
    <3>2. Has(u, w) /\ Has(v, w)
      BY <1>9, <2>1, <3>1
    <3>. QED BY <1>0, <3>2 DEF TokensPart
  <2>2. ASSUME NEW e \in Creds PROVE posted'[e] <= drawn'
    <3>1. posted'[e] = t \/ posted'[e] = posted[e]
      BY <1>0, <1>5 DEF Shapes
    <3>. QED BY <1>0, <1>3, <1>7, <3>1 DEF TokensPart
  <2>3. ASSUME NEW e \in Creds, posted'[e] # 0, NEW u \in Users \union {NoUser},
               Has(u, posted[e])'
        PROVE  u = e.owner
    <3>1. PICK w \in 0..MaxTokens : w = posted'[e]
      BY <1>6
    <3>2. Has(u, w)'
      BY <2>3, <3>1 DEF Has
    <3>3. Has(u, w)
      BY <1>9, <3>2
    <3>4. CASE e = c
      <4>1. w = t
        BY <1>0, <1>5, <3>1, <3>4 DEF Shapes
      <4>2. t \in 1..MaxTokens
        BY <1>5, WizardAssumption
      <4>. QED BY <1>0, <1>5, <1>10, <3>3, <3>4, <4>1, <4>2 DEF TokensPart
    <3>5. CASE e # c
      <4>1. w = posted[e]
        BY <1>0, <1>5, <3>1, <3>5 DEF Shapes
      <4>. QED BY <1>0, <2>3, <3>1, <3>3, <4>1 DEF TokensPart
    <3>. QED BY <3>4, <3>5
  <2>. QED BY <2>1, <2>2, <2>3 DEF TokensPart
<1>12. Shapes' /\ LapsedPart' /\ InvitePart' /\ SentPart'
  BY <1>0, <1>6, <1>7 DEF Shapes, LapsedPart, InvitePart, SentPart
<1>. QED BY <1>8, <1>11, <1>12 DEF WizInv

LEMMA Lapses ==
    ASSUME WizInv, NEW t \in 1..MaxTokens, LapseChallenge(t)
    PROVE  WizInv'
<1>0. Shapes /\ SentPart /\ LapsedPart /\ InvitePart
  BY DEF WizInv
<1>1. PICK s \in Sessions : Live(s) /\ row[s].st.tok = t
  BY DEF LapseChallenge
<1>2. row[s] \in RowType
  BY <1>0, <1>1, ExistsIs DEF Live
<1>3. t <= drawn
  BY <1>1, <1>2 DEF WizInv, RowPart, RowRight
<1>4. lapsed' = lapsed \union {t} /\ drawn' = drawn
  BY DEF LapseChallenge
<1>5. LapsedPart' /\ lapsed' \subseteq 1..MaxTokens
  BY <1>0, <1>3, <1>4, WizardAssumption DEF Shapes, LapsedPart
<1>6. RowPart' /\ CallPart' /\ BadgePart' /\ TokensPart'
  BY WorldMoves, TokensSame DEF LapseChallenge
<1>7. Shapes' /\ InvitePart' /\ SentPart'
  BY <1>0, <1>5 DEF LapseChallenge, Shapes, InvitePart, SentPart
<1>. QED BY <1>5, <1>6, <1>7 DEF WizInv

LEMMA BacksUp ==
    ASSUME WizInv, NEW u \in Users, SeedGenerated(u) \/ BackupConfirmed(u)
    PROVE  WizInv'
<1>0. Shapes /\ SentPart /\ LapsedPart /\ InvitePart
  BY DEF WizInv
<1>1. UNCHANGED <<row, born, drawn, call, sent, posted, lapsed, invite, badges>>
  BY DEF SeedGenerated, BackupConfirmed
<1>2. pending' \subseteq Users
  BY <1>0 DEF Shapes, SeedGenerated, BackupConfirmed
<1>3. RowPart' /\ CallPart' /\ BadgePart' /\ TokensPart'
  BY <1>1, WorldMoves, TokensSame
<1>4. Shapes' /\ InvitePart' /\ SentPart' /\ LapsedPart'
  BY <1>0, <1>1, <1>2 DEF Shapes, InvitePart, SentPart, LapsedPart
<1>. QED BY <1>3, <1>4 DEF WizInv

LEMMA InviteEnds ==
    ASSUME WizInv, RevokeInviteCode \/ InviteExpires
    PROVE  WizInv'
<1>0. Shapes /\ SentPart /\ LapsedPart /\ InvitePart
  BY DEF WizInv
<1>1. UNCHANGED <<row, born, drawn, call, sent, posted, lapsed, pending, badges>>
  BY DEF RevokeInviteCode, InviteExpires
<1>2. /\ invite' \in InviteType /\ invite'.by = invite.by /\ invite'.total = invite.total
      /\ invite'.left = invite.left
  BY <1>0 DEF Shapes, InviteType, RevokeInviteCode, InviteExpires
<1>3. RowPart' /\ CallPart' /\ BadgePart' /\ TokensPart'
  BY <1>1, <1>2, WorldMoves, TokensSame
<1>4. Shapes' /\ SentPart' /\ LapsedPart'
  BY <1>0, <1>1, <1>2 DEF Shapes, SentPart, LapsedPart
<1>5. InvitePart'
  BY <1>0, <1>2 DEF InvitePart
<1>. QED BY <1>3, <1>4, <1>5 DEF WizInv

-----------------------------------------------------------------------------
(* The theorems.                                                           *)

LEMMA WizInit == Init => WizInv
<1>. SUFFICES ASSUME Init PROVE WizInv
  OBVIOUS
<1>1. born = 0 /\ drawn = 0 /\ badges = {} /\ sent = {} /\ lapsed = {} /\ pending = {}
  BY DEF Init
<1>2. PICK n \in InviteTotals :
        invite = [total |-> n, left |-> n, revoked |-> FALSE, expired |-> FALSE, by |-> {}]
  BY DEF Init
<1>3. n \in Nat
  BY WizardAssumption
<1>4. invite \in InviteType /\ invite.total = n /\ invite.left = n /\ invite.by = {}
  BY <1>2, <1>3 DEF InviteType
<1>5. InvitePart
  <2>1. IsFiniteSet({}) /\ Cardinality({}) = 0
    BY FS_EmptySet
  <2>. QED BY <1>3, <1>4, <2>1 DEF InvitePart
<1>6. Shapes
  <2>1. row \in [Sessions -> RowType \union {Absent}]
    BY DEF Init
  <2>2. call \in [Calls -> CallType]
    BY IdleType DEF Init
  <2>3. posted \in [Creds -> 0..MaxTokens]
    BY WizardAssumption DEF Init
  <2>4. born \in 0..MaxSessions /\ drawn \in 0..MaxTokens
    BY <1>1, WizardAssumption
  <2>. QED BY <1>1, <1>4, <2>1, <2>2, <2>3, <2>4 DEF Shapes
<1>7. \A s \in Sessions : row[s] \notin RowType
  BY AbsentIsNone DEF Init
<1>8. RowPart
  BY <1>7 DEF RowPart, RowRight
<1>9. \A k \in Calls : call[k] = Idle
  BY DEF Init
<1>10. CallPart
  <2>1. CallRight(Idle)
    BY <1>1, IdleRight
  <2>. QED BY <1>9, <2>1 DEF CallPart
<1>11. TokensPart
  <2>1. \A k \in Calls : call[k].st.tok = 0
    BY <1>9 DEF Idle, NoState
  <2>2. \A t \in 1..MaxTokens : t # 0
    BY WizardAssumption
  <2>3. \A t \in 1..MaxTokens : \A u : ~Has(u, t)
    BY <1>7, <2>1, <2>2 DEF Has
  <2>4. \A c \in Creds : posted[c] = 0
    BY DEF Init
  <2>. QED BY <1>1, <2>3, <2>4 DEF TokensPart
<1>12. SentPart /\ LapsedPart /\ BadgePart
  BY <1>1 DEF SentPart, LapsedPart, BadgePart
<1>. QED BY <1>5, <1>6, <1>8, <1>10, <1>11, <1>12 DEF WizInv

LEMMA WizStutters == WizInv /\ UNCHANGED vars => WizInv'
<1>. SUFFICES ASSUME WizInv, UNCHANGED vars PROVE WizInv'
  OBVIOUS
<1>0. Shapes /\ SentPart /\ LapsedPart /\ InvitePart
  BY DEF WizInv
<1>1. UNCHANGED <<row, born, drawn, call, sent, posted, lapsed, pending, invite, badges>>
  BY DEF vars
<1>2. RowPart' /\ CallPart' /\ BadgePart' /\ TokensPart'
  BY <1>1, WorldMoves, TokensSame
<1>3. Shapes' /\ InvitePart' /\ SentPart' /\ LapsedPart'
  BY <1>0, <1>1 DEF Shapes, InvitePart, SentPart, LapsedPart
<1>. QED BY <1>2, <1>3 DEF WizInv

LEMMA RequestKeeps ==
    ASSUME WizInv, NEW k \in Calls, Request(k)
    PROVE  WizInv'
<1>1. CASE StartPurge(k)
  BY <1>1, Purges
<1>2. CASE StartCreate(k)
  BY <1>2, Creates
<1>3. CASE ResumeRead(k)
  BY <1>3, ReadsAgain
<1>4. CASE HandleStep(k)
  BY <1>4, HandlesStep
<1>5. CASE StepFails(k)
  BY <1>5, GoesIdle DEF StepFails
<1>6. CASE ContinueWrite(k)
  BY <1>6, ContinuesWrite
<1>7. CASE RedeemRead(k)
  BY <1>7, ReadsInvite
<1>8. CASE RedeemCommit(k)
  BY <1>8, CommitsRedemption
<1>9. CASE IssueGate(k)
  BY <1>9, PassesGate
<1>10. CASE Mint(k)
  BY <1>10, Mints
<1>11. CASE MintAborts(k)
  BY <1>11, AbortsMint
<1>12. CASE Finish(k)
  BY <1>12, Finishes
<1>13. CASE AutoMint(k)
  BY <1>13, MintsAtSignIn
<1>14. CASE AutoFails(k)
  BY <1>14, GoesIdle DEF AutoFails
<1>. QED BY <1>1, <1>2, <1>3, <1>4, <1>5, <1>6, <1>7, <1>8, <1>9, <1>10, <1>11, <1>12,
            <1>13, <1>14 DEF Request

LEMMA WizStep == WizInv /\ [Next]_vars => WizInv'
<1>. SUFFICES ASSUME WizInv, [Next]_vars PROVE WizInv'
  OBVIOUS
<1>1. CASE \E k \in Calls : Request(k)
  BY <1>1, RequestKeeps
<1>2. CASE \E k \in Calls, u \in Users, p \in Plugins : StartWizard(k, u, p)
  BY <1>2, StartsWizard
<1>3. CASE \E k \in Calls, u \in Users, s \in Sessions : SubmitStep(k, u, s) \/ Resume(k, u, s)
  BY <1>3, SubmitsStep, Resumes
<1>4. CASE \E k \in Calls, c \in Creds : AutoIssue(k, c)
  BY <1>4, StartsAuto
<1>5. CASE \E s \in Sessions : ObserveExpired(s) \/ Publish(s) \/ Expire(s)
  BY <1>5, ObservesExpired, Publishes, Expires
<1>6. CASE \E s \in Sessions, c \in Creds : ProviderLogin(s, c)
  BY <1>6, LogsIn
<1>7. CASE \E t \in 1..MaxTokens : LapseChallenge(t)
  BY <1>7, Lapses
<1>8. CASE \E u \in Users : SeedGenerated(u) \/ BackupConfirmed(u)
  BY <1>8, BacksUp
<1>9. CASE RevokeInviteCode \/ InviteExpires
  BY <1>9, InviteEnds
<1>10. CASE UNCHANGED vars
  BY <1>10, WizStutters
<1>. QED BY <1>1, <1>2, <1>3, <1>4, <1>5, <1>6, <1>7, <1>8, <1>9, <1>10 DEF Next

\* In every reachable state the inductive invariant holds: a session keeps
\* its account, a random value is one account's, and what a request carries
\* to the mint was shown by the account's person (apps/minister/src/server/
\* wizard.ts and the plugins).
THEOREM WizInvariant == Spec => []WizInv
  BY WizInit, WizStep, PTL DEF Spec

\* Every session, request and badge has its shape, and no session names a
\* random value that was not drawn (the WizardSession rows of wizard.ts).
THEOREM WizTypeCorrect == Spec => []TypeOK
<1>1. WizInv => TypeOK
  <2>. SUFFICES ASSUME WizInv PROVE TypeOK
    OBVIOUS
  <2>0. /\ Shapes /\ born \in 0..MaxSessions /\ drawn \in 0..MaxTokens /\ born \in Nat
        /\ drawn \in Nat
    BY WizardAssumption DEF WizInv, Shapes
  <2>1. ASSUME NEW s \in Sessions, Exists(s)
        PROVE  /\ s <= born
               /\ row[s].user \in Users /\ row[s].plugin \in Plugins
               /\ row[s].token \in 0..drawn
               /\ row[s].st.cred \in Creds \union {NoCred}
    <3>1. row[s] \in RowType
      BY <2>0, <2>1, ExistsIs
    <3>2. s <= born /\ row[s].token <= drawn
      BY <3>1 DEF WizInv, RowPart, RowRight
    <3>3. row[s].token \in Nat
      BY <3>1, WizardAssumption DEF RowType
    <3>4. row[s].token \in 0..drawn
      BY <2>0, <3>2, <3>3
    <3>5. row[s].user \in Users /\ row[s].plugin \in Plugins
          /\ row[s].st.cred \in Creds \union {NoCred}
      BY <3>1 DEF RowType, StateType
    <3>. QED BY <3>2, <3>4, <3>5
  <2>2. ASSUME NEW k \in Calls
        PROVE  call[k].user \in Users \union {NoUser} /\ call[k].sid \in 0..born
    <3>1. call[k] \in CallType /\ call[k].sid <= born
      BY DEF WizInv, Shapes, CallPart, CallRight
    <3>2. call[k].user \in Users \union {NoUser} /\ call[k].sid \in Nat
      BY <3>1, WizardAssumption DEF CallType
    <3>. QED BY <2>0, <3>1, <3>2
  <2>3. pending \subseteq Users /\ lapsed \subseteq 1..drawn /\ \A b \in badges : b.user \in Users
    BY DEF WizInv, Shapes, LapsedPart, BadgePart, BadgeRight
  <2>. QED BY <2>0, <2>1, <2>2, <2>3 DEF TypeOK
<1>. QED BY <1>1, WizInvariant, PTL

\* A limited invite code is never redeemed beyond its limit, its remaining
\* uses account for every redemption, and each invite badge has one behind it,
\* however redemptions race (redeemInviteCode and its transaction).
THEOREM InvitesAreBounded == Spec => []InviteBounded
<1>1. WizInv => InviteBounded
  <2>. SUFFICES ASSUME WizInv PROVE InviteBounded
    OBVIOUS
  <2>1. invite.total \in Nat /\ invite.left \in Nat /\ InvitePart
    BY DEF WizInv, Shapes, InviteType
  <2>2. Cardinality(invite.by) \in Nat
    BY <2>1, FS_CardinalityType DEF InvitePart
  <2>3. invite.total > 0 =>
          /\ Cardinality(invite.by) <= invite.total
          /\ invite.left = invite.total - Cardinality(invite.by)
    BY <2>1, <2>2 DEF InvitePart
  <2>4. \A b \in badges : b.plugin = "invite-code" => b.user \in invite.by
    BY DEF WizInv, BadgePart, BadgeRight
  <2>. QED BY <2>3, <2>4 DEF InviteBounded
<1>. QED BY <1>1, WizInvariant, PTL

-----------------------------------------------------------------------------
(* Mailed links.  A session at the magic step, a request that read it, and *)
(* the badge that comes of it name an address a link was mailed to.        *)

RowMailed(s) ==
    row[s] \in RowType /\ row[s].st.step = "magic" => Mailed(row[s].st.cred)

CallMailed(q) ==
    /\ q.st.step = "magic" => Mailed(q.st.cred)
    /\ q.at \in {"issue", "mint"} /\ q.plugin \in MailPlugins => Mailed(q.cred)

BadgeMailed(b) == b.plugin \in MailPlugins => b.cred.owner = b.user \/ Mailed(b.cred)

MailInv ==
    /\ \A s \in Sessions : RowMailed(s)
    /\ \A k \in Calls : CallMailed(call[k])
    /\ \A b \in badges : BadgeMailed(b)

\* A link that was mailed was mailed.
LinksStay == \A m \in sent : m.kind = "link" => m \in sent'

LEMMA MailedStays ==
    ASSUME LinksStay, NEW c, Mailed(c)
    PROVE  Mailed(c)'
  BY DEF LinksStay, Mailed

\* Sessions keep their state, take one that a request carries, or are not at
\* the magic step.
RowsMailed ==
    \A s \in Sessions : row'[s] \in RowType /\ row'[s].st.step = "magic" =>
        \/ row[s] \in RowType /\ row'[s].st = row[s].st
        \/ \E k \in Calls : row'[s].st = call[k].st

LEMMA RowsSame ==
    ASSUME row' = row
    PROVE  RowsMailed
  BY DEF RowsMailed

LEMMA MailRows ==
    ASSUME MailInv, LinksStay, RowsMailed, NEW s \in Sessions
    PROVE  RowMailed(s)'
<1>1. SUFFICES ASSUME row'[s] \in RowType, row'[s].st.step = "magic"
               PROVE  Mailed(row[s].st.cred)'
  BY DEF RowMailed
<1>2. PICK c : c = row'[s].st.cred
  OBVIOUS
<1>3. Mailed(c)
  BY <1>1, <1>2 DEF MailInv, RowMailed, CallMailed, RowsMailed
<1>4. Mailed(c)'
  BY <1>3, MailedStays
<1>. QED BY <1>2, <1>4 DEF Mailed

LEMMA MailCallKept ==
    ASSUME MailInv, LinksStay, NEW j \in Calls, call'[j] = call[j]
    PROVE  CallMailed(call[j])'
<1>1. PICK q : q = call[j]
  OBVIOUS
<1>2. CallMailed(q)
  BY <1>1 DEF MailInv
<1>3. CallMailed(q)'
  BY <1>2, MailedStays DEF CallMailed
<1>. QED BY <1>1, <1>3 DEF CallMailed

LEMMA MailBadgesKept ==
    ASSUME MailInv, LinksStay, NEW b \in badges
    PROVE  BadgeMailed(b)'
<1>1. BadgeMailed(b)
  BY DEF MailInv
<1>. QED BY <1>1, MailedStays DEF BadgeMailed

\* Request k turns into q.
LEMMA MailMoves ==
    ASSUME WizInv, MailInv, LinksStay, RowsMailed, NEW k \in Calls, NEW q,
           call' = [call EXCEPT ![k] = q], CallMailed(q)',
           \A b \in badges' : b \in badges \/ BadgeMailed(b)'
    PROVE  MailInv'
<1>1. \A s \in Sessions : RowMailed(s)'
  BY MailRows
<1>2. ASSUME NEW j \in Calls PROVE CallMailed(call[j])'
  <2>1. CASE j = k
    <3>1. call'[j] = q
      BY <2>1 DEF WizInv, Shapes
    <3>. QED BY <3>1 DEF CallMailed
  <2>2. CASE j # k
    <3>1. call'[j] = call[j]
      BY <2>2 DEF WizInv, Shapes
    <3>. QED BY <3>1, MailCallKept
  <2>. QED BY <2>1, <2>2
<1>3. \A b \in badges' : BadgeMailed(b)'
  BY MailBadgesKept
<1>. QED BY <1>1, <1>2, <1>3 DEF MailInv

\* The world moves, or a session expires.
LEMMA MailStays ==
    ASSUME WizInv, MailInv, LinksStay, RowsMailed, UNCHANGED <<call, badges>>
    PROVE  MailInv'
<1>1. \A s \in Sessions : RowMailed(s)'
  BY MailRows
<1>2. \A j \in Calls : CallMailed(call[j])'
  BY MailCallKept
<1>3. \A b \in badges' : BadgeMailed(b)'
  BY MailBadgesKept
<1>. QED BY <1>1, <1>2, <1>3 DEF MailInv

\* A request ends.
LEMMA MailEnds ==
    ASSUME WizInv, MailInv, RowsMailed, NEW k \in Calls, call' = [call EXCEPT ![k] = Idle],
           UNCHANGED <<sent, badges>>
    PROVE  MailInv'
<1>1. PICK q : q = Idle
  OBVIOUS
<1>2. q.at = "idle" /\ q.st.step = "none"
  BY <1>1 DEF Idle, NoState
<1>3. CallMailed(q)'
  BY <1>2 DEF CallMailed
<1>4. call' = [call EXCEPT ![k] = q] /\ LinksStay
  BY <1>1 DEF LinksStay
<1>. QED BY <1>3, <1>4, MailMoves

\* A request begins, holding no state yet.
LEMMA MailBegins ==
    ASSUME WizInv, MailInv, NEW k \in Calls, NEW q, call' = [call EXCEPT ![k] = q],
           q.st = NoState, q.at \in {"start", "looked", "auto"},
           UNCHANGED <<row, sent, badges>>
    PROVE  MailInv'
<1>1. CallMailed(q)'
  BY DEF CallMailed, NoState
<1>2. LinksStay /\ RowsMailed
  BY RowsSame DEF LinksStay
<1>. QED BY <1>1, <1>2, MailMoves

\* A request goes on with the state of its session or its own.
LEMMA MailGoesOn ==
    ASSUME WizInv, MailInv, NEW k \in Calls, NEW q, call' = [call EXCEPT ![k] = q],
           CallMailed(q), RowsMailed, UNCHANGED <<sent, badges>>
    PROVE  MailInv'
<1>1. CallMailed(q)'
  BY DEF CallMailed, Mailed
<1>2. LinksStay
  BY DEF LinksStay
<1>. QED BY <1>1, <1>2, MailMoves

\* A mail plugin completes at the magic step, with the address of the state.
LEMMA MailTakes ==
    ASSUME NEW p \in MailPlugins, NEW st, NEW in, NEW t, NEW ls, NEW ps,
           NEW r \in PluginStep(p, st, in, t, ls, ps), r.kind = "complete"
    PROVE  st.step = "magic" /\ r.cred = st.cred
<1>1. PICK bs : r \in MailStep(st, in, t, bs)
  <2>1. CASE p = "email-domain"
    BY <2>1 DEF PluginStep, EmailDomainStep
  <2>2. CASE p = "email-exact"
    BY <2>2 DEF PluginStep, EmailExactStep
  <2>. QED BY <2>1, <2>2 DEF MailPlugins
<1>2. r # Continue("magic", in.cred, t)
  BY DEF Continue
<1>3. st.step = "magic" /\ \E b \in bs : r = DoneWith(st.cred, b)
  BY <1>1, <1>2, MailAnswers
<1>. QED BY <1>3 DEF DoneWith

LEMMA MailAnswered ==
    ASSUME WizInv, MailInv, NEW k \in Calls, HandleStep(k)
    PROVE  MailInv'
<1>1. PICK d : d = call[k]
  OBVIOUS
<1>2. d \in CallType /\ CallMailed(d)
  BY <1>1 DEF WizInv, Shapes, MailInv
<1>3. PICK r \in PluginStep(d.plugin, d.st, d.in, drawn + 1, lapsed, posted) :
          Advance(k, r) \/ Verified(k, r)
  BY <1>1 DEF HandleStep
<1>4. row' = row /\ badges' = badges
  BY DEF HandleStep
<1>5. CASE Advance(k, r)
  <2>1. PICK q : q = [d EXCEPT !.at = "continue", !.st = r.st]
    OBVIOUS
  <2>2. call' = [call EXCEPT ![k] = q]
    BY <1>1, <1>5, <2>1 DEF Advance, WizInv, Shapes
  <2>3. q.at = "continue" /\ q.st = r.st
    BY <1>2, <2>1 DEF CallType
  <2>4. CallMailed(q)'
    <3>1. SUFFICES ASSUME r.st.step = "magic" PROVE Mailed(r.st.cred)'
      BY <2>3 DEF CallMailed
    <3>2. PICK m : m = Input("link", r.st.cred, r.st.tok, "none")
      OBVIOUS
    <3>3. m \in sent' /\ m.kind = "link" /\ m.cred = r.st.cred
      BY <1>5, <3>1, <3>2 DEF Advance, Input
    <3>. QED BY <3>3 DEF Mailed
  <2>5. LinksStay
    BY <1>5 DEF Advance, LinksStay
  <2>. QED BY <1>4, <2>2, <2>4, <2>5, RowsSame, MailMoves
<1>6. CASE Verified(k, r)
  <2>1. PICK q : q = [d EXCEPT !.at = "issue", !.cred = r.cred, !.batch = r.batch]
    OBVIOUS
  <2>2. call' = [call EXCEPT ![k] = q]
    BY <1>1, <1>6, <2>1 DEF Verified, WizInv, Shapes
  <2>3. q.at = "issue" /\ q.st = d.st /\ q.cred = r.cred /\ q.plugin = d.plugin
    BY <1>2, <2>1 DEF CallType
  <2>4. LinksStay
    <3>1. \A m \in sent : m.kind = "link" => m # d.in \/ d.in.kind # "callback"
      OBVIOUS
    <3>. QED BY <1>1, <1>6, <3>1 DEF Verified, LinksStay
  <2>5. CallMailed(q)
    <3>1. r.kind = "complete"
      BY <1>6 DEF Verified
    <3>2. d.plugin \in MailPlugins => d.st.step = "magic" /\ r.cred = d.st.cred
      BY <1>3, <3>1, MailTakes
    <3>. QED BY <1>2, <2>3, <3>2 DEF CallMailed
  <2>6. CallMailed(q)'
    BY <2>4, <2>5, MailedStays DEF CallMailed
  <2>. QED BY <1>4, <2>2, <2>4, <2>6, RowsSame, MailMoves
<1>. QED BY <1>3, <1>5, <1>6

LEMMA MailRead ==
    ASSUME WizInv, MailInv, NEW u, NEW s \in Sessions, Readable(s, u), NEW q,
           q.at = "step", q.st = row[s].st
    PROVE  CallMailed(q)
<1>1. row[s] \in RowType
  BY ReadSession
<1>2. q.st.step = "magic" => Mailed(q.st.cred)
  BY <1>1 DEF MailInv, RowMailed
<1>. QED BY <1>2 DEF CallMailed

LEMMA MailSubmitted ==
    ASSUME WizInv, MailInv, NEW k \in Calls, NEW u \in Users, NEW s \in Sessions,
           SubmitStep(k, u, s)
    PROVE  MailInv'
<1>1. PICK in \in ClientInputs(u) :
          call' = [call EXCEPT ![k] = [Idle EXCEPT !.at = "step", !.user = u, !.sid = s,
                      !.plugin = row[s].plugin, !.in = in, !.st = row[s].st]]
  BY DEF SubmitStep
<1>2. PICK q : q = [Idle EXCEPT !.at = "step", !.user = u, !.sid = s,
                      !.plugin = row[s].plugin, !.in = in, !.st = row[s].st]
  OBVIOUS
<1>3. q.at = "step" /\ q.st = row[s].st
  BY <1>2, IdleType DEF CallType
<1>4. CallMailed(q)
  BY <1>3, MailRead DEF SubmitStep
<1>5. call' = [call EXCEPT ![k] = q]
  BY <1>1, <1>2
<1>. QED BY <1>4, <1>5, RowsSame, MailGoesOn DEF SubmitStep

LEMMA MailResumed ==
    ASSUME WizInv, MailInv, NEW k \in Calls, ResumeRead(k)
    PROVE  MailInv'
<1>1. PICK d : d = call[k]
  OBVIOUS
<1>2. d \in CallType /\ CallRight(d) /\ d.at = "looked"
  BY <1>1 DEF WizInv, Shapes, CallPart, ResumeRead
<1>3. PICK s \in Sessions : s = d.sid
  BY <1>2 DEF CallRight
<1>4. CASE Readable(s, d.user) /\ row[s].st.step # "scrubbed"
  <2>1. PICK q : q = [d EXCEPT !.at = "step", !.plugin = row[s].plugin, !.st = row[s].st]
    OBVIOUS
  <2>2. call' = [call EXCEPT ![k] = q]
    BY <1>1, <1>3, <1>4, <2>1 DEF ResumeRead
  <2>3. q.at = "step" /\ q.st = row[s].st
    BY <1>2, <2>1 DEF CallType
  <2>4. CallMailed(q)
    BY <1>4, <2>3, MailRead
  <2>. QED BY <2>2, <2>4, RowsSame, MailGoesOn DEF ResumeRead
<1>5. CASE ~(Readable(s, d.user) /\ row[s].st.step # "scrubbed")
  <2>1. call' = [call EXCEPT ![k] = Idle]
    BY <1>1, <1>3, <1>5 DEF ResumeRead
  <2>. QED BY <2>1, RowsSame, MailEnds DEF ResumeRead
<1>. QED BY <1>4, <1>5

\* A request keeps its state and moves to another place; the way to the mint
\* leads through "issue", and a redemption is no mail plugin's.
LEMMA MailOnward ==
    ASSUME WizInv, MailInv, NEW k \in Calls, NEW d, d = call[k], NEW q,
           q.st = d.st, q.cred = d.cred, q.plugin = d.plugin,
           \/ q.at \in {"create", "redeem", "finish"}
           \/ q.at = "mint" /\ d.at = "issue"
           \/ q.at = "issue" /\ d.at = "redeem",
           call' = [call EXCEPT ![k] = q],
           RowsMailed, UNCHANGED sent, \A b \in badges' : b \in badges \/ BadgeMailed(b)'
    PROVE  MailInv'
<1>1. CallMailed(d) /\ CallRight(d)
  BY DEF MailInv, WizInv, CallPart
<1>2. d.at = "redeem" => d.plugin \notin MailPlugins
  BY <1>1 DEF CallRight, MailPlugins
<1>3. CallMailed(q)
  BY <1>1, <1>2 DEF CallMailed
<1>4. CallMailed(q)' /\ LinksStay
  BY <1>3 DEF CallMailed, Mailed, LinksStay
<1>. QED BY <1>4, MailMoves

LEMMA MailIssued ==
    ASSUME WizInv, MailInv, NEW k \in Calls,
           \/ StartPurge(k) \/ RedeemRead(k) \/ RedeemCommit(k) \/ IssueGate(k)
    PROVE  MailInv'
<1>1. PICK d : d = call[k]
  OBVIOUS
<1>2. d \in CallType /\ CallRight(d)
  BY <1>1 DEF WizInv, Shapes, CallPart
<1>a. UNCHANGED <<sent, badges>>
  BY DEF StartPurge, RedeemRead, RedeemCommit, IssueGate
<1>b. RowsMailed
  <2>1. ASSUME NEW s \in Sessions, row'[s] \in RowType PROVE row'[s] = row[s]
    BY <2>1, AbsentIsNone DEF StartPurge, RedeemRead, RedeemCommit, IssueGate
  <2>. QED BY <2>1 DEF RowsMailed
<1>3. CASE call' = [call EXCEPT ![k] = Idle]
  BY <1>3, <1>a, <1>b, MailEnds
<1>4. ASSUME NEW at,
             \/ at \in {"create", "redeem"}
             \/ at = "mint" /\ d.at = "issue",
             call' = [call EXCEPT ![k] = [d EXCEPT !.at = at]]
      PROVE  MailInv'
  <2>1. PICK q : q = [d EXCEPT !.at = at]
    OBVIOUS
  <2>2. q.at = at /\ q.st = d.st /\ q.cred = d.cred /\ q.plugin = d.plugin
    BY <1>2, <2>1 DEF CallType
  <2>. QED BY <1>1, <1>4, <1>a, <1>b, <2>1, <2>2, MailOnward
<1>5. CASE StartPurge(k)
  <2>1. call' = [call EXCEPT ![k] = [d EXCEPT !.at = "create"]]
    BY <1>1, <1>5 DEF StartPurge, WizInv, Shapes
  <2>. QED BY <1>4, <2>1
<1>6. CASE RedeemRead(k)
  <2>1. call' = [call EXCEPT ![k] = [d EXCEPT !.at = "redeem"]]
    BY <1>1, <1>6 DEF RedeemRead, WizInv, Shapes
  <2>. QED BY <1>4, <2>1
<1>7. CASE IssueGate(k)
  <2>1. CASE d.user \notin pending
    <3>1. d.at = "issue" /\ call' = [call EXCEPT ![k] = [d EXCEPT !.at = "mint"]]
      BY <1>1, <1>7, <2>1 DEF IssueGate
    <3>. QED BY <1>4, <3>1
  <2>2. CASE d.user \in pending
    <3>1. call' = [call EXCEPT ![k] = Idle]
      BY <1>1, <1>7, <2>2 DEF IssueGate
    <3>. QED BY <1>3, <3>1
  <2>. QED BY <2>1, <2>2
<1>8. CASE RedeemCommit(k) /\ Redeems(d.user)
  <2>1. PICK q : q = [d EXCEPT !.at = "issue", !.batch = InviteBadges]
    OBVIOUS
  <2>2. call' = [call EXCEPT ![k] = q] /\ d.at = "redeem"
    BY <1>1, <1>8, <2>1 DEF RedeemCommit, WizInv, Shapes
  <2>3. q.at = "issue" /\ q.st = d.st /\ q.cred = d.cred /\ q.plugin = d.plugin
    BY <1>2, <2>1 DEF CallType
  <2>. QED BY <1>1, <1>a, <1>b, <2>2, <2>3, MailOnward
<1>9. CASE RedeemCommit(k) /\ ~Redeems(d.user)
  <2>1. call' = [call EXCEPT ![k] = Idle]
    BY <1>1, <1>9 DEF RedeemCommit
  <2>. QED BY <1>3, <2>1
<1>. QED BY <1>5, <1>6, <1>7, <1>8, <1>9

LEMMA MailMinted ==
    ASSUME WizInv, MailInv, NEW k \in Calls, Mint(k)
    PROVE  MailInv'
<1>1. PICK d : d = call[k]
  OBVIOUS
<1>2. d \in CallType /\ CallMailed(d) /\ d.at = "mint"
  BY <1>1 DEF WizInv, Shapes, MailInv, Mint
<1>3. row' = row /\ sent' = sent
  BY DEF Mint
<1>4. ASSUME NEW b \in badges', b \notin badges PROVE BadgeMailed(b)'
  <2>1. PICK x \in d.batch :
            b = [user |-> d.user, cred |-> d.cred, plugin |-> d.plugin,
                 type |-> x.type, says |-> x.says, anchor |-> x.anchor, reveals |-> x.reveals]
    BY <1>1, <1>4 DEF Mint
  <2>2. b.cred = d.cred /\ b.plugin = d.plugin
    BY <2>1
  <2>. QED BY <1>2, <1>3, <2>2 DEF CallMailed, BadgeMailed, Mailed
<1>5. PICK q : q = [d EXCEPT !.at = "finish"]
  OBVIOUS
<1>6. q.at = "finish" /\ q.st = d.st /\ q.cred = d.cred /\ q.plugin = d.plugin
  BY <1>2, <1>5 DEF CallType
<1>7. call' = [call EXCEPT ![k] = q]
  BY <1>1, <1>5 DEF Mint, WizInv, Shapes
<1>. QED BY <1>1, <1>3, <1>4, <1>6, <1>7, RowsSame, MailOnward

LEMMA MailAuto ==
    ASSUME WizInv, MailInv, NEW k \in Calls, AutoMint(k)
    PROVE  MailInv'
<1>1. PICK d : d = call[k]
  OBVIOUS
<1>2. row' = row /\ sent' = sent /\ call' = [call EXCEPT ![k] = Idle]
  BY DEF AutoMint
<1>3. PICK x : x = CHOOSE y \in (CHOOSE batch \in EmailDomainBadges(d.cred) : TRUE) : TRUE
  OBVIOUS
<1>4. ASSUME NEW b \in badges', b \notin badges PROVE BadgeMailed(b)'
  <2>1. b = [user |-> d.cred.owner, cred |-> d.cred, plugin |-> "email-domain",
             type |-> x.type, says |-> x.says, anchor |-> x.anchor, reveals |-> x.reveals]
    BY <1>1, <1>3, <1>4 DEF AutoMint
  <2>2. b.user = b.cred.owner
    BY <2>1
  <2>. QED BY <2>2 DEF BadgeMailed
<1>5. PICK q : q = Idle
  OBVIOUS
<1>6. q.at = "idle" /\ q.st.step = "none" /\ call' = [call EXCEPT ![k] = q]
  BY <1>2, <1>5 DEF Idle, NoState
<1>7. CallMailed(q)' /\ LinksStay
  BY <1>2, <1>6 DEF CallMailed, LinksStay
<1>. QED BY <1>2, <1>4, <1>6, <1>7, RowsSame, MailMoves

\* The steps with which a request ends.
LEMMA MailEnded ==
    ASSUME WizInv, MailInv, NEW k \in Calls,
           \/ StartCreate(k) \/ StepFails(k) \/ ContinueWrite(k)
           \/ MintAborts(k) \/ Finish(k) \/ AutoFails(k)
    PROVE  MailInv'
<1>0. Shapes
  BY DEF WizInv
<1>1. call' = [call EXCEPT ![k] = Idle] /\ UNCHANGED <<sent, badges>>
  BY DEF StartCreate, StepFails, ContinueWrite, MintAborts, Finish, AutoFails
<1>2. ASSUME NEW n \in Sessions, NEW e, row' = [row EXCEPT ![n] = e],
             \/ e.st.step # "magic"
             \/ e.st = call[k].st
      PROVE  RowsMailed
  <2>1. ASSUME NEW s \in Sessions, row'[s] \in RowType, row'[s].st.step = "magic"
        PROVE  \/ row[s] \in RowType /\ row'[s].st = row[s].st
               \/ \E j \in Calls : row'[s].st = call[j].st
    <3>1. CASE s = n
      <4>1. row'[s] = e
        BY <1>0, <1>2, <3>1 DEF Shapes
      <4>. QED BY <1>2, <2>1, <4>1
    <3>2. CASE s # n
      <4>1. row'[s] = row[s]
        BY <1>0, <1>2, <3>2 DEF Shapes
      <4>. QED BY <2>1, <4>1
    <3>. QED BY <3>1, <3>2
  <2>. QED BY <2>1 DEF RowsMailed
<1>3. CASE StartCreate(k)
  <2>1. PICK st : st = PluginStart(call[k].plugin, drawn + 1)
    OBVIOUS
  <2>2. PICK n \in Sessions : n = born + 1
    BY <1>0, <1>3, WizardAssumption DEF StartCreate, Sessions, Shapes
  <2>3. PICK e : e = NewRow(call[k].user, call[k].plugin, st)
    OBVIOUS
  <2>4. row' = [row EXCEPT ![n] = e]
    BY <1>3, <2>1, <2>2, <2>3 DEF StartCreate
  <2>5. st.step # "magic"
    BY <2>1 DEF PluginStart, FormStart, RedirectStart, TlsnStart
  <2>6. e.st = st
    BY <2>3 DEF NewRow
  <2>. QED BY <1>1, <1>2, <2>4, <2>5, <2>6, MailEnds
<1>4. CASE ContinueWrite(k)
  <2>1. CASE Exists(call[k].sid)
    <3>1. PICK n \in Sessions : n = call[k].sid
      BY <1>4 DEF ContinueWrite, WizInv, CallPart, CallRight
    <3>2. row[n] \in RowType
      BY <1>0, <2>1, <3>1, ExistsIs
    <3>3. PICK e : e = [row[n] EXCEPT !.st = call[k].st, !.token = PendingTokenFor(call[k].st),
                                      !.fresh = TRUE]
      OBVIOUS
    <3>4. row' = [row EXCEPT ![n] = e]
      BY <1>0, <1>4, <2>1, <3>1, <3>3 DEF ContinueWrite, Shapes
    <3>5. e.st = call[k].st
      BY <3>2, <3>3 DEF RowType
    <3>. QED BY <1>1, <1>2, <3>4, <3>5, MailEnds
  <2>2. CASE ~Exists(call[k].sid)
    BY <1>1, <1>4, <2>2, RowsSame, MailEnds DEF ContinueWrite
  <2>. QED BY <2>1, <2>2
<1>5. ASSUME ScrubRow(call[k].sid) PROVE MailInv'
  <2>1. PICK n \in 0..MaxSessions : n = call[k].sid
    BY <1>0 DEF Shapes, CallType
  <2>2. CASE n # 0 /\ Exists(n)
    <3>1. n \in Sessions
      BY <2>2, WizardAssumption DEF Sessions
    <3>2. row[n] \in RowType
      BY <1>0, <2>2, <3>1, ExistsIs
    <3>3. PICK e : e = [row[n] EXCEPT !.st = Scrubbed, !.token = 0, !.done = TRUE]
      OBVIOUS
    <3>4. row' = [row EXCEPT ![n] = e]
      BY <1>0, <1>5, <2>1, <2>2, <3>1, <3>3 DEF ScrubRow, Shapes
    <3>5. e.st.step # "magic"
      BY <3>2, <3>3 DEF RowType, Scrubbed
    <3>. QED BY <1>1, <1>2, <3>1, <3>4, <3>5, MailEnds
  <2>3. CASE ~(n # 0 /\ Exists(n))
    BY <1>1, <1>5, <2>1, <2>3, RowsSame, MailEnds DEF ScrubRow
  <2>. QED BY <2>2, <2>3
<1>6. CASE row' = row
  BY <1>1, <1>6, RowsSame, MailEnds
<1>7. CASE MintAborts(k)
  BY <1>5, <1>6, <1>7 DEF MintAborts
<1>8. CASE StepFails(k) \/ AutoFails(k)
  BY <1>6, <1>8 DEF StepFails, AutoFails
<1>9. CASE Finish(k)
  BY <1>5, <1>9 DEF Finish
<1>. QED BY <1>3, <1>4, <1>7, <1>8, <1>9

LEMMA MailBegun ==
    ASSUME WizInv, MailInv, NEW k \in Calls,
           \/ \E u \in Users, p \in Plugins : StartWizard(k, u, p)
           \/ \E u \in Users, s \in Sessions : Resume(k, u, s)
           \/ \E c \in Creds : AutoIssue(k, c)
    PROVE  MailInv'
<1>0. UNCHANGED <<row, sent, badges>>
  BY DEF StartWizard, Resume, AutoIssue
<1>1. CASE \E u \in Users, p \in Plugins : StartWizard(k, u, p)
  <2>1. PICK u \in Users, p \in Plugins : StartWizard(k, u, p)
    BY <1>1
  <2>2. PICK q : q = [Idle EXCEPT !.at = "start", !.user = u, !.plugin = p]
    OBVIOUS
  <2>3. q.at = "start" /\ q.st = Idle.st /\ call' = [call EXCEPT ![k] = q]
    BY <2>1, <2>2, IdleType DEF StartWizard, CallType
  <2>4. Idle.st = NoState
    BY DEF Idle
  <2>. QED BY <1>0, <2>3, <2>4, MailBegins
<1>2. CASE \E u \in Users, s \in Sessions : Resume(k, u, s)
  <2>1. PICK u \in Users, s \in Sessions : Resume(k, u, s)
    BY <1>2
  <2>2. PICK in : call' = [call EXCEPT ![k] =
                      [Idle EXCEPT !.at = "looked", !.user = u, !.sid = s, !.in = in]]
    BY <2>1 DEF Resume
  <2>3. PICK q : q = [Idle EXCEPT !.at = "looked", !.user = u, !.sid = s, !.in = in]
    OBVIOUS
  <2>4. q.at = "looked" /\ q.st = Idle.st /\ call' = [call EXCEPT ![k] = q]
    BY <2>2, <2>3, IdleType DEF CallType
  <2>5. Idle.st = NoState
    BY DEF Idle
  <2>. QED BY <1>0, <2>4, <2>5, MailBegins
<1>3. CASE \E c \in Creds : AutoIssue(k, c)
  <2>1. PICK c \in Creds : AutoIssue(k, c)
    BY <1>3
  <2>2. PICK q : q = [Idle EXCEPT !.at = "auto", !.user = c.owner, !.cred = c]
    OBVIOUS
  <2>3. q.at = "auto" /\ q.st = Idle.st /\ call' = [call EXCEPT ![k] = q]
    BY <2>1, <2>2, IdleType DEF AutoIssue, CallType
  <2>4. Idle.st = NoState
    BY DEF Idle
  <2>. QED BY <1>0, <2>3, <2>4, MailBegins
<1>. QED BY <1>1, <1>2, <1>3

\* Steps of no request.
WorldSteps ==
    \/ \E s \in Sessions : ObserveExpired(s) \/ Publish(s) \/ Expire(s)
    \/ \E s \in Sessions, c \in Creds : ProviderLogin(s, c)
    \/ \E t \in 1..MaxTokens : LapseChallenge(t)
    \/ \E u \in Users : SeedGenerated(u) \/ BackupConfirmed(u)
    \/ RevokeInviteCode \/ InviteExpires \/ UNCHANGED vars

LEMMA MailWorld ==
    ASSUME WizInv, MailInv, WorldSteps
    PROVE  MailInv'
<1>0. Shapes
  BY DEF WizInv
<1>1. UNCHANGED <<call, badges>> /\ LinksStay
  BY DEF WorldSteps, ObserveExpired, Publish, Expire, ProviderLogin, LapseChallenge,
         SeedGenerated, BackupConfirmed, RevokeInviteCode, InviteExpires, vars, LinksStay
<1>2. RowsMailed
  <2>1. CASE row' = row
    BY <2>1, RowsSame
  <2>2. CASE \E n \in Sessions : ObserveExpired(n) \/ Expire(n)
    <3>1. PICK n \in Sessions : ObserveExpired(n) \/ Expire(n)
      BY <2>2
    <3>2. row[n] \in RowType
      BY <1>0, <3>1, ExistsIs DEF ObserveExpired, Expire, Live
    <3>3. PICK e : row' = [row EXCEPT ![n] = e] /\ (e \in RowType => e.st = row[n].st)
      <4>1. CASE ObserveExpired(n)
        BY <4>1, AbsentIsNone DEF ObserveExpired
      <4>2. CASE Expire(n)
        <5>1. PICK e : e = [row[n] EXCEPT !.fresh = FALSE]
          OBVIOUS
        <5>2. e.st = row[n].st
          BY <3>2, <5>1 DEF RowType
        <5>3. row' = [row EXCEPT ![n] = e]
          BY <1>0, <4>2, <5>1 DEF Expire, Shapes
        <5>. QED BY <5>2, <5>3
      <4>. QED BY <3>1, <4>1, <4>2
    <3>4. ASSUME NEW s \in Sessions, row'[s] \in RowType
          PROVE  row[s] \in RowType /\ row'[s].st = row[s].st
      <4>1. CASE s = n
        <5>1. row'[s] = e
          BY <1>0, <3>3, <4>1 DEF Shapes
        <5>. QED BY <3>2, <3>3, <3>4, <4>1, <5>1
      <4>2. CASE s # n
        <5>1. row'[s] = row[s]
          BY <1>0, <3>3, <4>2 DEF Shapes
        <5>. QED BY <3>4, <5>1
      <4>. QED BY <4>1, <4>2
    <3>. QED BY <3>4 DEF RowsMailed
  <2>. QED BY <2>1, <2>2 DEF WorldSteps, Publish, ProviderLogin, LapseChallenge,
              SeedGenerated, BackupConfirmed, RevokeInviteCode, InviteExpires, vars
<1>. QED BY <1>1, <1>2, MailStays

LEMMA MailNext == WizInv /\ MailInv /\ [Next]_vars => MailInv'
<1>. SUFFICES ASSUME WizInv, MailInv, [Next]_vars PROVE MailInv'
  OBVIOUS
<1>1. CASE \E k \in Calls : Request(k)
  BY <1>1, MailIssued, MailEnded, MailResumed, MailAnswered, MailMinted, MailAuto DEF Request
<1>2. CASE \E k \in Calls, u \in Users, p \in Plugins : StartWizard(k, u, p)
  BY <1>2, MailBegun
<1>3. CASE \E k \in Calls, u \in Users, s \in Sessions : SubmitStep(k, u, s) \/ Resume(k, u, s)
  BY <1>3, MailSubmitted, MailBegun
<1>4. CASE \E k \in Calls, c \in Creds : AutoIssue(k, c)
  BY <1>4, MailBegun
<1>5. CASE WorldSteps
  BY <1>5, MailWorld
<1>. QED BY <1>1, <1>2, <1>3, <1>4, <1>5 DEF Next, WorldSteps

LEMMA MailInit == Init => MailInv
<1>. SUFFICES ASSUME Init PROVE MailInv
  OBVIOUS
<1>1. \A s \in Sessions : row[s] \notin RowType
  BY AbsentIsNone DEF Init
<1>2. \A k \in Calls : call[k].at = "idle" /\ call[k].st.step = "none"
  BY DEF Init, Idle, NoState
<1>3. badges = {}
  BY DEF Init
<1>. QED BY <1>1, <1>2, <1>3 DEF MailInv, RowMailed, CallMailed

\* With a notary key pinned, every badge not earned by mail or by an invite
\* attests a credential its account's person showed control of, and one
\* earned by mail names an address that a sign-in proved or that a link was
\* mailed to, whatever is submitted at whatever step and whatever concurrent
\* requests did to the session between the read, the plugin's check and the
\* mint (submitStepAction of wizard-actions.ts, submitStep and
\* issueBadgesAndComplete of wizard.ts).  Without a pin a transcript says
\* nothing of its page.
THEOREM EveryBadgeIsProven == Spec => [](NotaryPinned => BadgeProven)
<1>1. WizInv /\ MailInv => (NotaryPinned => BadgeProven)
  BY DEF WizInv, BadgePart, BadgeRight, Answers, BadgeProven, MailInv, BadgeMailed
<1>2. Spec => []MailInv
  BY MailInit, MailNext, WizInvariant, PTL DEF Spec
<1>. QED BY <1>1, <1>2, WizInvariant, PTL
=============================================================================
