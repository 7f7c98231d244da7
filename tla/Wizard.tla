------------------------------- MODULE Wizard -------------------------------
(***************************************************************************)
(* The wizard runtime, apps/minister/src/server/wizard.ts: the sessions of *)
(* the badge wizards, the requests that work on them, the links, callbacks *)
(* and presentations that resume them, invite codes, and the badge issued  *)
(* at sign-in.  A request reads its session, awaits the plugin (mail, a    *)
(* provider, a resolver), and writes afterwards by id; requests of several *)
(* tabs and of the callback routes interleave at those awaits.             *)
(*                                                                         *)
(* The dedup ledger is module DedupLedger: a batch it refuses, or an       *)
(* issuance that fails, is MintAborts here.                                *)
(***************************************************************************)
EXTENDS Plugins

CONSTANTS
    Users,        \* accounts
    Plugins,      \* the configured plugins
    Calls,        \* slots for requests in flight
    MaxSessions,  \* wizard sessions ever created
    MaxTokens,    \* random values ever drawn
    InviteTotals, \* usesTotal of the invite code (0: unlimited)
    Freemail,     \* freemail hosts
    NoUser

ASSUME WizardAssumption ==
    /\ Plugins \subseteq AllPlugins
    /\ MaxSessions \in Nat /\ MaxTokens \in Nat
    /\ InviteTotals \subseteq Nat
    /\ \A c \in Creds : c.owner \in Users

VARIABLES
    row,      \* WizardSession rows, by the order of creation
    born,     \* sessions created so far
    drawn,    \* random values drawn so far
    call,     \* requests in flight
    sent,     \* mailed links and provider callbacks on their way to a browser
    posted,   \* the token each credential's owner has published, 0 for none
    lapsed,   \* challenges past their expiry
    pending,  \* accounts whose anonymous identity is not backed up
    invite,   \* the InviteCode row with its redemptions
    badges    \* Badge rows

vars == <<row, born, drawn, call, sent, posted, lapsed, pending, invite, badges>>

Sessions == 1..MaxSessions
Absent == [absent |-> TRUE]
Exists(s) == "user" \in DOMAIN row[s]

NoState == [step |-> "none", cred |-> NoCred, tok |-> 0]
Scrubbed == [step |-> "scrubbed", cred |-> NoCred, tok |-> 0]
NoInput == [kind |-> "none", cred |-> NoCred, tok |-> 0, key |-> "none"]
Input(kind, c, t, key) == [kind |-> kind, cred |-> c, tok |-> t, key |-> key]

Idle == [at |-> "idle", user |-> NoUser, sid |-> 0, plugin |-> "none",
         in |-> NoInput, st |-> NoState, cred |-> NoCred, batch |-> {}]

\* pendingTokenFor: the value by which a link, a callback or a submission
\* finds the session.
PendingTokenFor(st) == IF st.step \in {"magic", "authorize", "prove"} THEN st.tok ELSE 0

Live(s) == Exists(s) /\ ~row[s].done
Readable(s, u) == Live(s) /\ row[s].user = u /\ row[s].fresh

Holding(type, u, c) == \E b \in badges : b.type = type /\ b.user = u /\ b.cred.host = c.host

Init ==
    /\ row = [s \in Sessions |-> Absent]
    /\ born = 0
    /\ drawn = 0
    /\ call = [k \in Calls |-> Idle]
    /\ sent = {}
    /\ posted = [c \in Creds |-> 0]
    /\ lapsed = {}
    /\ pending = {}
    /\ \E n \in InviteTotals :
           invite = [total |-> n, left |-> n, revoked |-> FALSE, expired |-> FALSE, by |-> {}]
    /\ badges = {}

(***************************************************************************)
(* startWizard.  The backup gate, the plugin's first state (it awaits the  *)
(* audit log), the sweep and the removal of the own unfinished sessions,   *)
(* then the insert.                                                        *)
(***************************************************************************)
StartWizard(k, u, p) ==
    /\ call[k] = Idle
    /\ born < MaxSessions
    /\ u \notin pending
    /\ call' = [call EXCEPT ![k] = [Idle EXCEPT !.at = "start", !.user = u, !.plugin = p]]
    /\ UNCHANGED <<row, born, drawn, sent, posted, lapsed, pending, invite, badges>>

Swept(s) == Live(s) /\ ~row[s].fresh
Replaced(s, u, p) == Live(s) /\ row[s].user = u /\ row[s].plugin = p

StartPurge(k) ==
    /\ call[k].at = "start"
    /\ row' = [s \in Sessions |->
                  IF Swept(s) \/ Replaced(s, call[k].user, call[k].plugin)
                  THEN Absent ELSE row[s]]
    /\ call' = [call EXCEPT ![k].at = "create"]
    /\ UNCHANGED <<born, drawn, sent, posted, lapsed, pending, invite, badges>>

NewRow(u, p, st) ==
    [user |-> u, plugin |-> p, st |-> st, token |-> PendingTokenFor(st),
     fresh |-> TRUE, done |-> FALSE]

StartCreate(k) ==
    LET st == PluginStart(call[k].plugin, drawn + 1)
    IN /\ call[k].at = "create"
       /\ born < MaxSessions
       /\ st.tok <= MaxTokens
       /\ born' = born + 1
       /\ drawn' = IF st.tok = 0 THEN drawn ELSE st.tok
       /\ row' = [row EXCEPT ![born + 1] = NewRow(call[k].user, call[k].plugin, st)]
       /\ call' = [call EXCEPT ![k] = Idle]
       /\ UNCHANGED <<sent, posted, lapsed, pending, invite, badges>>

(***************************************************************************)
(* Reads.  loadWizard and submitStep delete a session they find expired.   *)
(***************************************************************************)
ObserveExpired(s) ==
    /\ Live(s) /\ ~row[s].fresh
    /\ row' = [row EXCEPT ![s] = Absent]
    /\ UNCHANGED <<born, drawn, call, sent, posted, lapsed, pending, invite, badges>>

\* What reaches the routes that resume a session, each for the account that
\* is signed in: a link mailed to an address of its person, the return from a
\* provider that person logged in at, and a presentation the extension
\* submits.  A genuine transcript shows a page its owner can fetch; one checked
\* against another notary key, or against none, may name any page.
VerifyLinks(u) == {m \in sent : m.kind = "link" /\ m.cred.owner = u}

Callbacks(u) == {m \in sent : m.kind = "callback" /\ m.cred.owner = u}

Presentations(u) ==
    {Input("presentation", c, t, "pin") : c \in {x \in Creds : x.owner = u}, t \in 1..drawn}
    \union {Input("presentation", c, t, key) : c \in Creds, t \in 1..drawn, key \in {"other", "none"}}

Arrivals(u) == VerifyLinks(u) \union Callbacks(u) \union Presentations(u)

\* What submitStepAction takes from a signed-in browser, at any step and with
\* no pending token to match: what the page's forms and buttons post, a pasted
\* signature, a token of whatever text, and what the person brought back from
\* a provider or from the extension.
ClientInputs(u) ==
    {Input("form", c, 0, "none") : c \in Creds}
    \union {Input("info", NoCred, 0, "none"), Input("link", NoCred, 0, "none")}
    \union {Input("signature", c, t, "none") : c \in {x \in Creds : x.owner = u}, t \in 1..drawn}
    \union Callbacks(u) \union Presentations(u)

SubmitStep(k, u, s) ==
    /\ call[k] = Idle
    /\ Readable(s, u)
    /\ row[s].st.step # "scrubbed"
    /\ \E in \in ClientInputs(u) :
          call' = [call EXCEPT ![k] = [Idle EXCEPT !.at = "step", !.user = u, !.sid = s,
                       !.plugin = row[s].plugin, !.in = in, !.st = row[s].st]]
    /\ UNCHANGED <<row, born, drawn, sent, posted, lapsed, pending, invite, badges>>

\* resumeViaPendingToken: the lookup by token and its checks; submitStep then
\* reads the row again.
Resume(k, u, s) ==
    /\ call[k] = Idle
    /\ Readable(s, u)
    /\ row[s].token # 0
    /\ \E in \in Arrivals(u) :
          /\ in.tok = row[s].token
          /\ (in.kind = "presentation") = (row[s].plugin = "tlsn-attestation")
          /\ call' = [call EXCEPT ![k] = [Idle EXCEPT !.at = "looked", !.user = u, !.sid = s, !.in = in]]
    /\ UNCHANGED <<row, born, drawn, sent, posted, lapsed, pending, invite, badges>>

ResumeRead(k) ==
    LET s == call[k].sid
    IN /\ call[k].at = "looked"
       /\ call' = [call EXCEPT ![k] =
             IF Readable(s, call[k].user) /\ row[s].st.step # "scrubbed"
             THEN [call[k] EXCEPT !.at = "step", !.plugin = row[s].plugin, !.st = row[s].st]
             ELSE Idle]
       /\ UNCHANGED <<row, born, drawn, sent, posted, lapsed, pending, invite, badges>>

(***************************************************************************)
(* The plugin's answer, after its awaits.  A mail plugin has mailed the    *)
(* link by then, though the row does not hold its token yet.  A code and   *)
(* an assertion are good for one exchange.                                 *)
(***************************************************************************)
Advance(k, r) ==
    /\ r.kind = "continue"
    /\ r.st.tok <= MaxTokens
    /\ drawn' = IF r.st.tok > drawn THEN r.st.tok ELSE drawn
    /\ sent' = IF r.st.step = "magic"
               THEN sent \union {Input("link", r.st.cred, r.st.tok, "none")} ELSE sent
    /\ call' = [call EXCEPT ![k].at = "continue", ![k].st = r.st]

Verified(k, r) ==
    /\ r.kind = "complete"
    /\ drawn' = drawn
    /\ sent' = IF call[k].in.kind = "callback" THEN sent \ {call[k].in} ELSE sent
    /\ call' = [call EXCEPT ![k].at = "issue", ![k].cred = r.cred, ![k].batch = r.batch]

HandleStep(k) ==
    /\ call[k].at = "step"
    /\ call[k].in.kind = "callback" => call[k].in \in sent
    /\ \E r \in PluginStep(call[k].plugin, call[k].st, call[k].in, drawn + 1, lapsed, posted) :
           Advance(k, r) \/ Verified(k, r)
    /\ UNCHANGED <<row, born, posted, lapsed, pending, invite, badges>>

StepFails(k) ==
    /\ call[k].at = "step"
    /\ call' = [call EXCEPT ![k] = Idle]
    /\ UNCHANGED <<row, born, drawn, sent, posted, lapsed, pending, invite, badges>>

\* The update names the id alone; it throws when the row is gone.
ContinueWrite(k) ==
    LET s == call[k].sid
        st == call[k].st
    IN /\ call[k].at = "continue"
       /\ row' = IF Exists(s)
                 THEN [row EXCEPT ![s].st = st, ![s].token = PendingTokenFor(st), ![s].fresh = TRUE]
                 ELSE row
       /\ call' = [call EXCEPT ![k] = Idle]
       /\ UNCHANGED <<born, drawn, sent, posted, lapsed, pending, invite, badges>>

(***************************************************************************)
(* redeemInviteCode: the row is read and judged, then one transaction      *)
(* takes a use of a limited code and records the redemption.               *)
(***************************************************************************)
EvaluateInvite(u) ==
    /\ ~invite.revoked /\ ~invite.expired
    /\ ~(invite.total > 0 /\ invite.left = 0)
    /\ u \notin invite.by

RedeemRead(k) ==
    /\ call[k].at = "step" /\ call[k].plugin = "invite-code"
    /\ call[k].st.step = "form" /\ call[k].in.kind = "form"
    /\ EvaluateInvite(call[k].user)
    /\ call' = [call EXCEPT ![k].at = "redeem"]
    /\ UNCHANGED <<row, born, drawn, sent, posted, lapsed, pending, invite, badges>>

\* The conditional decrement of a limited code; the unique pair of code and
\* account rolls a second redemption back.
MutRedeems(u) == invite.total > 0 => ~invite.revoked

Redeems(u) ==
    /\ invite.total > 0 => (~invite.revoked /\ invite.left > 0)
    /\ u \notin invite.by

RedeemCommit(k) ==
    LET u == call[k].user
    IN /\ call[k].at = "redeem"
       /\ IF Redeems(u)
          THEN /\ invite' = [invite EXCEPT !.by = @ \union {u},
                                !.left = IF invite.total > 0 THEN @ - 1 ELSE @]
               /\ call' = [call EXCEPT ![k].at = "issue", ![k].batch = InviteBadges]
          ELSE /\ invite' = invite
               /\ call' = [call EXCEPT ![k] = Idle]
       /\ UNCHANGED <<row, born, drawn, sent, posted, lapsed, pending, badges>>

(***************************************************************************)
(* issueBadgesAndComplete: the backup gate again, the leak guard, the      *)
(* mints (with the ledger, module DedupLedger), and the final update.      *)
(***************************************************************************)
IssueGate(k) ==
    /\ call[k].at = "issue"
    /\ call' = [call EXCEPT ![k] = IF call[k].user \in pending THEN Idle
                                   ELSE [call[k] EXCEPT !.at = "mint"]]
    /\ UNCHANGED <<row, born, drawn, sent, posted, lapsed, pending, invite, badges>>

\* anchorAppearsAsValue: string leaves are compared, numbers are not, and the
\* value of a registered provider slug is exempt.
Leaks(b) == b.anchor # NoAnchor /\ ~b.reveals /\ Str(b.anchor) \in b.says

AnchorSeen(batch) == \E b \in batch : b.anchor # NoAnchor

ScrubRow(s) ==
    row' = IF s # 0 /\ Exists(s)
           THEN [row EXCEPT ![s].st = Scrubbed, ![s].token = 0, ![s].done = TRUE]
           ELSE row

Mint(k) ==
    /\ call[k].at = "mint"
    /\ ~\E b \in call[k].batch : Leaks(b)
    /\ badges' = badges \union
          {[user |-> call[k].user, cred |-> call[k].cred, plugin |-> call[k].plugin,
            type |-> b.type, says |-> b.says, anchor |-> b.anchor, reveals |-> b.reveals]
             : b \in call[k].batch}
    /\ call' = [call EXCEPT ![k].at = "finish"]
    /\ UNCHANGED <<row, born, drawn, sent, posted, lapsed, pending, invite>>

\* A leaking batch, a taken credential or a failing mint: compensateBatch
\* removes what this batch minted and ends the session when it carried an
\* anchor.
MintAborts(k) ==
    /\ call[k].at = "mint"
    /\ IF AnchorSeen(call[k].batch) THEN ScrubRow(call[k].sid) ELSE row' = row
    /\ call' = [call EXCEPT ![k] = Idle]
    /\ UNCHANGED <<born, drawn, sent, posted, lapsed, pending, invite, badges>>

\* The final update throws when the row is gone; the badges stand.
Finish(k) ==
    /\ call[k].at = "finish"
    /\ ScrubRow(call[k].sid)
    /\ call' = [call EXCEPT ![k] = Idle]
    /\ UNCHANGED <<born, drawn, sent, posted, lapsed, pending, invite, badges>>

(***************************************************************************)
(* autoIssueEmailDomainBadge: a sign-in by mail has proved the inbox.  The *)
(* unique dedupeKey lets one of two concurrent sign-ins through.           *)
(***************************************************************************)
AutoIssue(k, c) ==
    /\ call[k] = Idle
    /\ c.host \notin Freemail
    /\ ~Holding("email-domain", c.owner, c)
    /\ call' = [call EXCEPT ![k] = [Idle EXCEPT !.at = "auto", !.user = c.owner, !.cred = c]]
    /\ UNCHANGED <<row, born, drawn, sent, posted, lapsed, pending, invite, badges>>

AutoMint(k) ==
    LET c == call[k].cred
        b == CHOOSE x \in (CHOOSE batch \in EmailDomainBadges(c) : TRUE) : TRUE
    IN /\ call[k].at = "auto"
       /\ badges' = badges \union
             {[user |-> c.owner, cred |-> c, plugin |-> "email-domain",
               type |-> b.type, says |-> b.says, anchor |-> b.anchor, reveals |-> b.reveals]}
       /\ call' = [call EXCEPT ![k] = Idle]
       /\ UNCHANGED <<row, born, drawn, sent, posted, lapsed, pending, invite>>

AutoFails(k) ==
    /\ call[k].at = "auto"
    /\ call' = [call EXCEPT ![k] = Idle]
    /\ UNCHANGED <<row, born, drawn, sent, posted, lapsed, pending, invite, badges>>

(***************************************************************************)
(* The world: a person logs in at a provider with an account of theirs,    *)
(* publishes the token their own wizard shows, time passes, a seed is      *)
(* generated and backed up (module AnonIdentity), an admin revokes the     *)
(* code.                                                                   *)
(***************************************************************************)
ProviderLogin(s, c) ==
    /\ Live(s) /\ row[s].st.step = "authorize"
    /\ c.owner = row[s].user
    /\ sent' = sent \union {Input("callback", c, row[s].st.tok, "none")}
    /\ UNCHANGED <<row, born, drawn, call, posted, lapsed, pending, invite, badges>>

Publish(s) ==
    /\ Live(s) /\ row[s].st.step = "verify" /\ row[s].plugin \in {"hackernews", "dns-txt"}
    /\ row[s].st.cred.owner = row[s].user
    /\ posted' = [posted EXCEPT ![row[s].st.cred] = row[s].st.tok]
    /\ UNCHANGED <<row, born, drawn, call, sent, lapsed, pending, invite, badges>>

Expire(s) ==
    /\ Live(s) /\ row[s].fresh
    /\ row' = [row EXCEPT ![s].fresh = FALSE]
    /\ UNCHANGED <<born, drawn, call, sent, posted, lapsed, pending, invite, badges>>

LapseChallenge(t) ==
    /\ t \notin lapsed
    /\ \E s \in Sessions : Live(s) /\ row[s].plugin \in {"wallet", "public-key"} /\ row[s].st.tok = t
    /\ lapsed' = lapsed \union {t}
    /\ UNCHANGED <<row, born, drawn, call, sent, posted, pending, invite, badges>>

SeedGenerated(u) ==
    /\ u \notin pending
    /\ pending' = pending \union {u}
    /\ UNCHANGED <<row, born, drawn, call, sent, posted, lapsed, invite, badges>>

BackupConfirmed(u) ==
    /\ u \in pending
    /\ pending' = pending \ {u}
    /\ UNCHANGED <<row, born, drawn, call, sent, posted, lapsed, invite, badges>>

RevokeInviteCode ==
    /\ ~invite.revoked
    /\ invite' = [invite EXCEPT !.revoked = TRUE]
    /\ UNCHANGED <<row, born, drawn, call, sent, posted, lapsed, pending, badges>>

InviteExpires ==
    /\ ~invite.expired
    /\ invite' = [invite EXCEPT !.expired = TRUE]
    /\ UNCHANGED <<row, born, drawn, call, sent, posted, lapsed, pending, badges>>

Request(k) ==
    \/ StartPurge(k) \/ StartCreate(k)
    \/ ResumeRead(k) \/ HandleStep(k) \/ StepFails(k) \/ ContinueWrite(k)
    \/ RedeemRead(k) \/ RedeemCommit(k)
    \/ IssueGate(k) \/ Mint(k) \/ MintAborts(k) \/ Finish(k)
    \/ AutoMint(k) \/ AutoFails(k)

Next ==
    \/ \E k \in Calls : Request(k)
    \/ \E k \in Calls, u \in Users, p \in Plugins : StartWizard(k, u, p)
    \/ \E k \in Calls, u \in Users, s \in Sessions : SubmitStep(k, u, s) \/ Resume(k, u, s)
    \/ \E k \in Calls, c \in Creds : AutoIssue(k, c)
    \/ \E s \in Sessions : ObserveExpired(s) \/ Publish(s) \/ Expire(s)
    \/ \E s \in Sessions, c \in Creds : ProviderLogin(s, c)
    \/ \E t \in 1..MaxTokens : LapseChallenge(t)
    \/ \E u \in Users : SeedGenerated(u) \/ BackupConfirmed(u)
    \/ RevokeInviteCode \/ InviteExpires

Spec == Init /\ [][Next]_vars

----------------------------------------------------------------------------
(* Properties. *)

\* Every row, request and badge has the shape the schema and the code give it.
TypeOK ==
    /\ born \in 0..MaxSessions /\ drawn \in 0..MaxTokens
    /\ \A s \in Sessions : Exists(s) =>
          /\ s <= born
          /\ row[s].user \in Users /\ row[s].plugin \in Plugins
          /\ row[s].token \in 0..drawn
          /\ row[s].st.cred \in Creds \union {NoCred}
    /\ \A k \in Calls : call[k].user \in Users \union {NoUser} /\ call[k].sid \in 0..born
    /\ pending \subseteq Users
    /\ lapsed \subseteq 1..drawn
    /\ \A b \in badges : b.user \in Users

\* A link was mailed to this address.
Mailed(c) == \E m \in sent : m.kind = "link" /\ m.cred = c

\* A badge attests a credential that the person behind its account showed
\* control of, whatever is submitted at whatever step and whatever other
\* requests did to the session between the read, the verification and the
\* write: a signature, a published token, a login or a transcript of one
\* attempt never carries the credential of another.  Of a badge for an
\* address the code promises less: unless a sign-in proved the inbox, a link
\* was mailed there, but the magic step takes any token that submitStepAction
\* hands it, and a link may resume a session that has moved on to another
\* address.
BadgeProven ==
    \A b \in badges :
        /\ b.plugin \notin MailPlugins \union {"invite-code"} => b.cred.owner = b.user
        /\ b.plugin \in MailPlugins => b.cred.owner = b.user \/ Mailed(b.cred)

\* A code with a limit is redeemed at most that often, its remaining uses
\* account for every redemption, and each invite badge has a redemption of
\* its account behind it, however the redeemers race.
InviteBounded ==
    /\ invite.total > 0 =>
          /\ Cardinality(invite.by) <= invite.total
          /\ invite.left = invite.total - Cardinality(invite.by)
    /\ \A b \in badges : b.plugin = "invite-code" => b.user \in invite.by
=============================================================================
