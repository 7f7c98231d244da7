------------------------------ MODULE Plugins ------------------------------
(***************************************************************************)
(* The badge plugins, apps/minister/src/plugins: what each one's           *)
(* startWizard returns and what its handleStep answers to a state and an   *)
(* input.  Everything here is constant-level; the runtime that persists    *)
(* the states and mints the badges is module Wizard.                       *)
(*                                                                         *)
(* A credential is what a plugin proves control of: an address, a provider *)
(* account, a wallet, a key, a domain, a page.  It is a record             *)
(*   id      the value used as Sybil anchor (normalised address, numeric   *)
(*           account id, fingerprint ...)                                  *)
(*   handle  the public name the provider shows for it                     *)
(*   host    the domain part of an address, the domain of a domain         *)
(*   age     whole months since it was created                             *)
(*   fans    its followers                                                 *)
(*   owner   the account of the person who controls it                     *)
(* A plugin state is [step, cred, tok]: currentStep.id, the credential     *)
(* kept in `data`, and the random value of the step (the mailed token, the *)
(* OAuth state and its PKCE verifier, the nonce of a challenge, the token  *)
(* to publish).                                                            *)
(***************************************************************************)
EXTENDS Naturals, FiniteSets

CONSTANTS
    Creds,        \* the credentials
    TlsnPage,     \* the page tlsn-attestation is configured for
    NotaryPinned, \* MINISTER_TLSN_EXPECTED_NOTARY_KEY is set
    NoCred        \* a plugin state that keeps no credential

ASSUME PluginsAssumption == TlsnPage \in Creds /\ NotaryPinned \in BOOLEAN

(***************************************************************************)
(* Claim values.  A claim holds strings and numbers; `provider` holds one  *)
(* of the registered slugs.                                                *)
(***************************************************************************)
Str(v) == <<"str", v>>
Num(n) == <<"num", n>>
Provider(slug) == <<"provider", slug>>

NoAnchor == "none"

\* An IssuedBadge: `says` are the values of its attributes and claims (every
\* plugin sets both alike).
Badge(type, says, anchor, reveals) ==
    [type |-> type, says |-> says, anchor |-> anchor, reveals |-> reveals]

AccountAgeMonths == {12, 24, 36, 60}
FollowersBuckets == {10, 50, 100, 500, 1000}

\* The highest bucket the value reaches, 0 for null.
HighestBucket(value, buckets) ==
    LET met == {b \in buckets : value >= b}
    IN IF met = {} THEN 0 ELSE CHOOSE b \in met : \A o \in met : b >= o

\* accountAgeBadge: nothing below the lowest bucket.
AgeBadges(slug, c) ==
    LET bucket == HighestBucket(c.age, AccountAgeMonths)
    IN IF bucket = 0 THEN {}
       ELSE {Badge("account-age", {Provider(slug), Num(bucket)}, c.id, FALSE)}

FollowingBadges(slug, c) ==
    LET bucket == HighestBucket(c.fans, FollowersBuckets)
    IN IF bucket = 0 THEN {}
       ELSE {Badge("social-following", {Provider(slug), Num(bucket)}, c.id, FALSE)}

\* A provider may leave a fact out of its answer; the badge it supports is
\* then not derived.
Optional(badges) == {{}, badges}

OAuthBadge(slug, says, c) ==
    Badge("oauth-account", {Provider(slug)} \union says, c.id, FALSE)

(***************************************************************************)
(* The batches a plugin can complete with, for a credential it verified.   *)
(***************************************************************************)
EmailDomainBadges(c) == {{Badge("email-domain", {Str(c.host)}, c.id, FALSE)}}

EmailExactBadges(c) == {{Badge("email-exact", {Str(c.id)}, c.id, TRUE)}}

GithubBadges(c) ==
    {{OAuthBadge("github", {Str(c.handle)}, c)} \union age \union fans :
        age \in Optional(AgeBadges("github", c)),
        fans \in Optional(FollowingBadges("github", c))}

RedditBadges(c) ==
    {{OAuthBadge("reddit", {Str(c.handle)}, c)} \union age :
        age \in Optional(AgeBadges("reddit", c))}

\* Google discloses the address only when it is verified; YouTube, Instagram
\* and Steam the name only when the provider sends one.
HandleMaybe(slug, c) ==
    {{OAuthBadge(slug, h, c)} : h \in Optional({Str(c.handle)})}

\* The handle is the anchor, disclosed by design; the age badge hides it.
HackerNewsBadges(c) ==
    {{Badge("oauth-account", {Provider("hackernews"), Str(c.id)}, c.id, TRUE)} \union age :
        age \in Optional(AgeBadges("hackernews", c))}

DomainControlBadges(c) == {{Badge("domain-control", {Str(c.id)}, c.id, TRUE)}}

PublicKeyBadges(c) ==
    {{Badge("public-key", {Str("kind"), Str(c.id), Str("algorithm")}, c.id, TRUE)}}

WalletControl(c) == Badge("wallet-control", {Str("chain")}, c.id, FALSE)

WalletAgeBadges(c) ==
    LET bucket == HighestBucket(c.age, AccountAgeMonths)
    IN IF bucket = 0 THEN {}
       ELSE {Badge("wallet-age", {Str("chain"), Num(bucket)}, c.id, FALSE)}

GenesisBadges(c) == {Badge("onchain-event", {Str("eth2-genesis-depositor")}, c.id, FALSE)}

\* Whether the address is in the list of genesis depositors, and whether the
\* explorer answers with a first transaction, is left open.
WalletBadges(c) ==
    {{WalletControl(c)} \union age \union event :
        age \in Optional(WalletAgeBadges(c)), event \in Optional(GenesisBadges(c))}

TlsnBadges(c) == {{Badge("tlsn-attestation", {Str(c.host), Str("claim")}, NoAnchor, FALSE)}}

InviteBadges == {Badge("invite-code", {Str("label")}, NoAnchor, FALSE)}

(***************************************************************************)
(* Results of handleStep.  An error leaves no trace and is always          *)
(* possible: a malformed input, an unreachable service.                    *)
(***************************************************************************)
Continue(step, c, t) ==
    [kind |-> "continue", st |-> [step |-> step, cred |-> c, tok |-> t]]
Complete(c, batches) ==
    {[kind |-> "complete", cred |-> c, batch |-> b] : b \in batches}

FormStart == [step |-> "form", cred |-> NoCred, tok |-> 0]

RedirectStart(t) == [step |-> "authorize", cred |-> NoCred, tok |-> t]

TlsnStart(t) == [step |-> "prove", cred |-> TlsnPage, tok |-> t]

\* email-domain and email-exact: the form mails a link, the link completes.
\* The magic step wants a token in the input, of any text: it leaves comparing
\* it to the runtime, and reads the address from the state.
MailStep(st, in, t, batches) ==
    CASE st.step = "form" /\ in.kind = "form" -> {Continue("magic", in.cred, t)}
      [] st.step = "magic" /\ in.kind = "link" -> Complete(st.cred, batches)
      [] OTHER -> {}

EmailDomainStep(st, in, t) == MailStep(st, in, t, EmailDomainBadges(st.cred))

EmailExactStep(st, in, t) == MailStep(st, in, t, EmailExactBadges(st.cred))

\* github and instagram exchange the code the callback brings.
CodeStep(st, in, batches) ==
    IF st.step = "authorize" /\ in.kind = "callback"
    THEN Complete(in.cred, batches) ELSE {}

GithubStep(st, in) == CodeStep(st, in, GithubBadges(in.cred))

InstagramBadges(c) == HandleMaybe("instagram", c)
InstagramStep(st, in) == CodeStep(st, in, InstagramBadges(in.cred))

\* google, reddit and youtube also replay the PKCE verifier kept in the state:
\* the provider refuses a code of another authorization request.
PkceStep(st, in, batches) ==
    IF in.tok = st.tok THEN CodeStep(st, in, batches) ELSE {}

GoogleBadges(c) == HandleMaybe("google", c)
GoogleStep(st, in) == PkceStep(st, in, GoogleBadges(in.cred))

RedditStep(st, in) == PkceStep(st, in, RedditBadges(in.cred))

YoutubeBadges(c) == HandleMaybe("youtube", c)
YoutubeStep(st, in) == PkceStep(st, in, YoutubeBadges(in.cred))

\* steam compares the signed return_to, which carries the state value, with
\* the one it sent before it asks Steam whether the assertion is valid.
SteamBadges(c) == HandleMaybe("steam", c)
SteamStep(st, in) ==
    IF in.tok = st.tok THEN CodeStep(st, in, SteamBadges(in.cred)) ELSE {}

\* What a pasted signature must show: made by the key of the challenge, over
\* the text of this very challenge.  An Ethereum or Bitcoin signature is
\* recovered against the address; a clearsigned PGP block must hold the
\* challenge and verify under the pasted key; an SSHSIG must name the key,
\* the namespace and the digest of the challenge.
VerifyWalletSignature(st, in) == in.cred = st.cred /\ in.tok = st.tok

VerifyPgpSignature(st, in) == in.cred = st.cred /\ in.tok = st.tok

VerifySshSignature(st, in) == in.cred = st.cred /\ in.tok = st.tok

\* A challenge is good for fifteen minutes.
IsChallengeExpired(st, lapsed) == st.tok \in lapsed

\* wallet and public-key: a challenge is shown, then its signature pasted.
ChallengeStep(st, in, t, lapsed, verified, batches) ==
    CASE st.step = "form" /\ in.kind = "form" -> {Continue("sign", in.cred, t)}
      [] st.step = "sign" -> {Continue("verify", st.cred, st.tok)}
      [] /\ st.step = "verify" /\ in.kind = "signature"
         /\ ~IsChallengeExpired(st, lapsed) /\ verified
             -> Complete(st.cred, batches)
      [] OTHER -> {}

WalletStep(st, in, t, lapsed) ==
    ChallengeStep(st, in, t, lapsed, VerifyWalletSignature(st, in), WalletBadges(st.cred))

\* Whether the pasted key is a PGP or an SSH key decides which check applies.
PublicKeyStep(st, in, t, lapsed) ==
    ChallengeStep(st, in, t, lapsed,
        VerifyPgpSignature(st, in) \/ VerifySshSignature(st, in), PublicKeyBadges(st.cred))

\* hackernews looks for the token in the profile text; dns-txt asks every
\* corroborating resolver and wants them all to return it.
AboutContainsToken(posted, st) == posted[st.cred] = st.tok

Corroborated(posted, st) == posted[st.cred] = st.tok

\* hackernews and dns-txt: a token is shown, and looked for where the owner
\* publishes it; the verify step takes any input.
PublishStep(st, in, t, found, batches) ==
    CASE st.step = "form" /\ in.kind = "form" -> {Continue("verify", in.cred, t)}
      [] st.step = "verify" /\ found -> Complete(st.cred, batches)
      [] OTHER -> {}

HackerNewsStep(st, in, t, posted) ==
    PublishStep(st, in, t, st.step = "verify" /\ AboutContainsToken(posted, st), HackerNewsBadges(st.cred))

DnsTxtStep(st, in, t, posted) ==
    PublishStep(st, in, t, st.step = "verify" /\ Corroborated(posted, st), DomainControlBadges(st.cred))

\* A transcript counts when it names the notary key it was checked against,
\* and the pinned one when a pin is configured.
MutAssertNotaryKey(key) == TRUE

AssertNotaryKey(key) == key # "none" /\ (NotaryPinned => key = "pin")

\* The verifier confirms the server the page came from; the notary key is
\* checked on its answer.
VerifyPresentation(c, in) == in.cred = c /\ AssertNotaryKey(in.key)

TlsnStep(st, in) ==
    IF st.step = "prove" /\ in.kind = "presentation" /\ VerifyPresentation(st.cred, in)
    THEN Complete(st.cred, TlsnBadges(st.cred)) ELSE {}

(***************************************************************************)
(* The registry.                                                           *)
(***************************************************************************)
MailPlugins == {"email-domain", "email-exact"}
RedirectPlugins == {"github", "google", "reddit", "steam", "instagram", "youtube"}
FormPlugins == MailPlugins \union {"wallet", "public-key", "hackernews", "dns-txt", "invite-code"}
AllPlugins == FormPlugins \union RedirectPlugins \union {"tlsn-attestation"}

PluginStart(p, t) ==
    IF p \in FormPlugins THEN FormStart
    ELSE IF p \in RedirectPlugins THEN RedirectStart(t) ELSE TlsnStart(t)

\* invite-code redeems in the database: see RedeemRead and RedeemCommit of
\* module Wizard.
PluginStep(p, st, in, t, lapsed, posted) ==
    CASE p = "email-domain" -> EmailDomainStep(st, in, t)
      [] p = "email-exact" -> EmailExactStep(st, in, t)
      [] p = "github" -> GithubStep(st, in)
      [] p = "google" -> GoogleStep(st, in)
      [] p = "reddit" -> RedditStep(st, in)
      [] p = "steam" -> SteamStep(st, in)
      [] p = "instagram" -> InstagramStep(st, in)
      [] p = "youtube" -> YoutubeStep(st, in)
      [] p = "wallet" -> WalletStep(st, in, t, lapsed)
      [] p = "public-key" -> PublicKeyStep(st, in, t, lapsed)
      [] p = "hackernews" -> HackerNewsStep(st, in, t, posted)
      [] p = "dns-txt" -> DnsTxtStep(st, in, t, posted)
      [] p = "tlsn-attestation" -> TlsnStep(st, in)
      [] OTHER -> {}
=============================================================================
