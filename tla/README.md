# Minister in TLA+

Minister issues badges to people, lets relying parties (RPs) learn about those
badges through OpenID Connect, and sees to it that one credential belongs to
one account. This directory models the parts of it where requests, transactions
and remote calls interleave. TLC checks the models on small instances, and
TLAPS proves the safety properties, of all components but the policy engine,
for instances of any size. Paths below are relative to
`src/apps/minister/src/` unless they start with `src/`.

1. [The system](#the-system)
2. [The modules](#the-modules)
3. [The runs](#the-runs)
4. [The proofs](#the-proofs)
5. [Where code and documentation disagree](#where-code-and-documentation-disagree)
6. [What is not modelled](#what-is-not-modelled)
7. [The plan](#the-plan)

`PROJECT.json` maps every definition to the lines it models, and lists the
components, the hazards, the runs and the theorems.

## The system

A Next.js server holds all state in Postgres through Prisma. Any number of
requests run at once, and every `await` lets another one in. Statements run at
READ COMMITTED unless a transaction asks for more; only the merge does. There is
one remote stateful service, Signet, which may keep the dedup ledger in place of
the local table. Users have several browsers and tabs, RPs call from their own
servers, and administrators act at any time.

| Component | State | Operations | What is hard | What makes it correct |
|---|---|---|---|---|
| **OIDC provider** (`server/oidc-actions.ts`, `app/oidc/**`, `lib/oidc-*.ts`) | authorization codes, access tokens, grants, personas, subject overrides, clients | authorize page, `approveConsent`, `POST /oidc/token`, `GET /oidc/userinfo`, bans, "sign out everywhere", edits, rotation and deletion of clients | the token route awaits five times between reading a code and minting; consents in two tabs; badges, clients and accounts that change under an open page | a code pays once; an RP learns only what its owner ticked for it; revoked stays revoked; names go out under the persona |
| **Dedup ledger** (`lib/nullifier/*`, `server/wizard.ts`, `server/badge-actions.ts`) | ledger entries (local or at Signet), badges, advisory locks, re-tag work | `register`, insert, `probe` and self-heal, `compensateBatch`, `deleteBadge`, `release`, `reassignOwner` | the ledger and the badges are two stores; answers get lost; a lock transaction times out under its holder | one credential, one account; a badge handed out keeps its entry; nobody waits for ever |
| **Account merge** (`lib/merge.ts`, `lib/merge-proof.ts`, `server/merge-actions.ts`) | tombstones, merge records with snapshots, owners of all rows, overrides | link, proof, confirm, merge transaction, reversal | two ceremonies at once; what happens between merge and reversal; rows both sides hold | what a merge moves does not stay on a tombstone; RPs keep their subject; a reversal puts rows back; bans survive |
| **Credentials** (`auth.ts`, `lib/credential-*.ts`, `lib/signin-otp.ts`, `server/credential-actions.ts`) | `UserEmail` rows, cached `User.email`, links and codes, passkeys, sessions | sign-in by link, code or passkey; adding, verifying, removing and promoting addresses; enrolling and removing passkeys | checks by one statement, writes by a later one | an inbox opens only accounts that proved it; the cooldown is skipped once |
| **Recovery** (`lib/recovery-*.ts`, `server/recovery-*.ts`) | recovery codes, attempts and proofs, tickets | drawing and redeeming codes, starting an attempt, re-proof, consuming, signing in with a ticket | a code or attempt used twice at once; late proofs; a request dying half-way | each lets somebody in once; the score is what was proved |
| **Recovery settings** (`server/recovery-config-actions.ts`, `lib/recovery-config-guardrails.ts`) | weight, solo flag and threshold, each with a scheduled value | raising, lowering and scheduling them, clearing a schedule | two edits that each look at the other's table; schedules that land by the clock; attempts that run meanwhile | no type recovers alone unless flagged; recovery never gets easier at once |
| **Status lists** (`lib/status-list/*`) | handles, tombstones, published lists, the publisher's latch | allocate, revoke, publish, serve | a disclosure that overlaps the revocation; publishers racing on one list; a signer that fails | a handle dies with its anchor; lists only grow; every revocation is served in the end |
| **Groups** (`server/group-actions.ts`) | groups, memberships, slugs | create, add, remove, change a role, delete | roles and ids read before the transaction that relies on them | an anchor is revoked exactly when the membership ends |
| **Wizard and plugins** (`server/wizard*.ts`, `plugins/*`, `lib/invite-codes.ts`, `lib/tlsn-verifier.ts`) | wizard sessions with their step and data, pending tokens, invite codes | start, submit, mailed link, OAuth callback, presentation, completion, sweep | double submission; a callback in a stale session; the last use of a code taken twice | a badge is of a credential its holder proved; invite limits hold |
| **Anonymous identity and pairing** (`lib/anon-seed/*`, `server/anon-seed-actions.ts`, `server/anon-pair.ts`) | epoch and backup of an enrollment, wrapped copies, relay sessions, roots in memory and in device stores | enrol, confirm, reset, re-key, copy, unlock, pair | two devices, two accounts in one browser, pages older than the epoch, lost answers | what a device keeps, copies or derives from is its account's, of its epoch and backed up, unless it was given to it as such |
| **Badge policy** (`lib/oidc-policy*.ts`, `server/oidc-consent-minimize.ts`, `components/consent-screen.tsx`) | the open consent page, what was disclosed before | evaluate, select, find gaps, minimise | branches that compete for a badge; badges that change under the page | the matching is maximal, gaps are real, disclosure is minimal |
| **Sybil score, statistics** (`lib/sybil-*.ts`, `lib/stats-recompute.ts`, `lib/transparency-view.ts`) | weights, caps, cutoffs and their cached copy; statistic tables | edits, scoring, recompute, the public page | rounding, caps and floors; rows of an older deployment | a badge never lowers a score; the page hides what its ranges hide |
| **Share links** (`lib/share-links.ts`) | links | create, revoke, view | a view reads link, badges and gate one after the other | a page misses nothing that ended before its request |
| **Rate limits** (`lib/rate-limit.ts`) | hits per client | check, sweep | a sweep inside a check; forged forwarding headers | the window is kept, and a client cannot choose whose |
| **VC signing, ws-proxy, SDK, pages, demo client** | little or none | signing, piping, rendering | I/O and cryptography | outside this development, see below |

Components meet in the database. A merge moves the rows of all others; a ban
ends sessions and tokens; minting a badge writes the ledger; deleting one
releases its entry; consent reads the badges and the policy of the request;
recovery reads who holds an address and who may draw codes; ending a group
membership revokes a status-list anchor; the wizard ends in the ledger; the
scorer, the policy engine, the statistics and share links read the badges that
the wizard inserts and holders delete.

## The modules

| Module | Models | Composed of |
|---|---|---|
| `OidcProvider` | consent, codes, tokens, userinfo, grants, personas, and what revokes or moves them | |
| `ConsentPromise` | abstract specification: what the provider promises about disclosure | implemented by `OidcProvider` |
| `OidcProviderProofs` | theorems about `OidcProvider` | extends it and TLAPS |
| `DedupLedger` | issuing, deleting and re-tagging badges, with both ledger backends | |
| `AccountMerge` | ceremony, merge transaction and reversal | |
| `Credentials` | addresses, sign-in links and codes, passkeys, sessions | |
| `Recovery` | recovery codes, attempts, proofs, tickets | |
| `AccountAccess` | an account's credentials and the ways back in | extends `Credentials` and `Recovery` |
| `RecoveryConfig` | the operator's edits of the recovery settings, and attempts running meanwhile | |
| `StatusList` | handles, revocation, publication | |
| `Groups` | groups and memberships, whose ends revoke | extends `StatusList` |
| `Plugins` | what each badge plugin starts with and answers (constant-level) | |
| `Wizard` | wizard sessions, callbacks, invite codes, issuing | extends `Plugins` |
| `AnonIdentity` | enrollment, vault, copies, pairing relay | |
| `BadgeTable` | the badge rows and the clock that readers see | |
| `Policy` | the policy engine and the consent page around it | extends `BadgeTable` |
| `SybilScore`, `Stats`, `ShareLinks` | the other readers of the badge table | extend `BadgeTable`; `Stats` extends `SybilScore` |
| `RateLimit` | the limiter in front of public pages | |
| `BadgeReaders` | score, statistics, links and limiter over one table | extends `Stats`, `ShareLinks` and `RateLimit` |
| `AllReaders` | the same, with the consent page | extends `BadgeReaders` and `Policy` |
| `DedupLedgerProofs`, `AccountMergeProofs`, `AnonIdentityProofs`, `WizardProofs`, `BadgeReadersProofs` | theorems about the module each is named after | extend it and TLAPS |
| `AccountAccessProofs` | theorems about `AccountAccess` and `RecoveryConfig` | extends both and TLAPS |
| `RevocationProofs` | theorems about `StatusList` and `Groups` | extends `Groups` and TLAPS |
| `MC*` | instances, bounds and symmetry for TLC | extend the module they are named after |

**OidcProvider.** An *item* is one thing an RP can be told: a badge instance or
a per-claim flag such as the name. `tab` is a consent screen:
`AuthorizePage` renders it, `ApproveLoad` is `approveConsent` up to its
transaction (dropping ticks that the account does not hold now or that the
signed request does not ask for), `ApproveReadGrant` and `ApproveCommit` are the
transaction, split between `upsertGrant`'s read and its write because the
isolation level lets another consent commit there. `handler` is a request to
`/oidc/token`: `TokenAuth`, `TokenConsume` (the conditional `updateMany`),
`TokenValidate`, `TokenResolve` (subject) and `TokenMint`, one step per await
on which a later write relies; the first two refuse by not being enabled or by
returning the handler to idle. Userinfo does not write, so it is an operator
(`UserinfoAnswers`, `UserinfoItems`, `NameSource`), and the properties speak
about what it *would* answer in every state. A deleted row keeps its blank
shell so that a property can speak about it; codes and token ids are random and
never reused. `ticked` is a history variable: what an owner ticked, for whom.

**ConsentPromise** knows only ticks, decisions and access. Decisions cover only
ticked items, yield access once, and access that ended does not come back.
`OidcProvider!Promise` maps a code to its decision and a token to an access
that is on as long as userinfo answers.

**DedupLedger.** A batch (`issueBadgesAndComplete`) is `register`, `lookup`,
`window`, `write`, `probe` and, when something fails, `abort` and `undo`; a
release is `want`, `counted`, `sent`. A step ends at every await. With
`backend = "interim"` the ledger is a table and release is one conditional
DELETE, which looks for badges in the snapshot it starts from
(`ReleaseSnapshot`) and takes the row at its commit (`ReleaseInterim`); with `"signet"` it is remote, and an advisory lock per entry orders a
release against the mint window. Faults: signing, database or network calls
that fail (`RegisterFails`, `WindowFails`, `ReleaseFails`, `ReassignFails`), a
process that dies in a batch or a compensation whose own `deleteMany` throws
(`MintDies`; the ghost `adrift` keeps the badge left behind), a lock transaction that Postgres ends under its holder (`LockLost`), and a
request given up on that Signet runs anyway (`LateRelease`). A merge moves
badges at once and leaves re-tagging as work behind the commit. Signet itself
is external: it is modelled from how `lib/nullifier/signet-backend.ts` uses it.

**AccountMerge.** `StartMerge` mails the link, `CompleteDonorLink` turns it into
a proof, `ConfirmStart` spends the proof, `ConfirmCheck` and `MergeDerive` are
what `confirmMerge` and `mergeAccounts` read before the transaction, `MergeTx`
is the transaction and `MergeThrows` its failure. The transactions run at
REPEATABLE READ and every one updates the User rows of its pair; two that share
an account conflict, and the loser is retried from a fresh snapshot. Therefore
each is one step. Rows are told apart by how merge and reversal treat them: by
primary key, only from the survivor (passkeys), emails with their primary flag,
tokens, eligibility rows, of which an account has at most one, and the tables
that the merge has no statement for (`Left`). Everything else an account does
is a request (`req`) that reads its session in one step and writes in a later one; a
token exchange reads the user (`StartExchange`), the subject (`ReadSub`) and
creates its row (`CreateToken`). The ghost `late` holds the rows of requests that
a merge or a reversal overtook in between.

**Credentials.** A browser carries one session and waits for at most one
request. A request is as many steps as it awaits reads on which a later write
relies: `RemoveEmailCheck` counts, `RemoveEmail` deletes; `OtpMatches`,
`OtpMismatch`, `OtpBurn` follow a `SubmitOtp` that read the row. Two ghosts:
`proved` holds who has shown control of which address, and `raced` the accounts
two of whose credential changes overlapped. `OneBootstrap` excepts the
accounts in `raced`, because there the code's check-then-write really fails
(see [below](#where-code-and-documentation-disagree)).

**Recovery.** Redeeming a code is a read and a conditional claim, and so is
consuming an attempt; then `IssueTicket` and the sign-in spend the ticket.
`RequestDies` stops a request between any two of these. The configuration of
weights and thresholds is an input: a re-proof counts any weight in `Weights`,
an attempt begins with any threshold in `Thresholds`.

**AccountAccess** adds what recovery reads of the credentials: who an address
identifies (`Identified`: any row, verified or not, else the cached address),
who may draw codes, and the reduced session that a recovery ends in.

**RecoveryConfig.** An edit takes the advisory lock and reads (`WeightRead`,
`SoloRead`, `ThresholdRead`), then writes (`UpdateRecoveryWeight`,
`SetAllowSoloRecovery`, `UpdateRecoveryThreshold`) or is refused and rolls back
(`EditThrows`); a change that makes recovery easier is scheduled
`WeakenDelay` ahead and takes effect by the clock alone (`Effective`), one that
makes it harder applies at once. Attempts fix the threshold when they start and
read weights at every proof, without the lock. Admins are the sessions
`gateRecoveryConfig` lets through; inputs are within the bounds the forms
enforce; `recordReProof`'s expiry check and weight read are one step.

**StatusList.** A handle is a bit of one list, keyed by anchor and RP. A
disclosure is find, shard, create, re-check of the tombstone and, if there is
one, force; a revoking transaction is a scan and a commit; a publisher's pass is
latch, lists, row, signature, guarded write and end. `held` is a ghost: what an
RP was given, and whether that overlapped a commit. Time is counted in
publisher epochs.

**Groups** adds the requests of `server/group-actions.ts` to `StatusList`. Every
request is a check and a transaction; removing and deleting read the ids they
revoke first. Publishers only read handles and are left to the `status` run.

**Plugins and Wizard.** A plugin is two operators: what it starts with, and what
it answers to a state and an input. A credential is a record of what the
provider shows of it. `Wizard` runs them: a request (`call`) loads its session,
awaits the plugin, and writes by id, while links, callbacks and presentations
resume sessions in other requests. What the ledger refuses is `MintAborts`.
Inputs are what can be submitted to `submitStepAction` at any step: forms,
signatures, callbacks and presentations of one's own, and a token made up on the
spot, which the code does not compare with the mailed one. `TlsnPage`
stands for a page that only its owner can fetch.

**AnonIdentity.** A device has a page (account and epoch it was rendered with),
a cookie, roots in memory and a store. Server actions are split between their
statements. A root remembers whose it is and the epoch it was enrolled in;
encryption is what it binds. A copy waits for the passkey prompt (`wrap`) and
wraps what the vault holds by then. Anybody may type in, or have filled in, any root
ever made, on the unlock panel or the get-key page: the code sees a bare root and
takes it for the page's account and epoch and for backed up. Two ghosts: `backed`
has the roots that were typed back in on their backup screen, `relabelled` what
was typed in or wrapped as something it is not.

**Policy** contains the pure algorithms of `lib/oidc-policy.ts` (with RECURSIVE
operators, so nothing is proved there) and the page around them; properties
compare them with direct definitions (`LargestMatch`, `Satisfiable`).

**BadgeReaders and AllReaders.** No reader writes what another reads, except that the statistics
use the scorer, so a behaviour follows one reader, chosen by `Init`, against
every history of `BadgeTable`. `SybilScore` loads three tables at once into a
cached configuration. `Stats` runs the job statement by statement under READ
COMMITTED, except that all (type, key) pairs are counted in one step, and both
sides of a cohort in one (no property compares two counts of a run). `ShareLinks`
splits a view at each read. `RateLimit` has the window, the sweep and the bucket:
the trusted header, the entry of `X-Forwarded-For`, or the one for all. The
deployment around it (`deploy`) is what the environment variables say and which
proxies are really there. `AllReaders` adds the consent
page. A step of the page changes nothing that `BadgeReaders` has, so every
behaviour of `AllSpec` is one of `BadgeReaders!Spec`, about which the theorems are;
the two modules are separate only to keep RECURSIVE operators from the proofs.

## The runs

Deadlock checking is off: all of these systems may come to rest (bounded ids run
out, and nobody is obliged to click). States outside a `CONSTRAINT` are not
explored further, but are still checked. Symmetry is over ids that the code
treats alike; the properties checked with it are invariants and action
properties that treat them alike too. `dedup_ends` checks liveness and uses none.

| Run | Checks | Shows |
|---|---|---|
| `oidc` | TypeOK, CodeSingleUse, TokenFollowsConsent, PersonaAuthoritative, ConsentBound, RevocationFinal, ImplementsPromise | Two token requests race over two codes, beside every administrative operation; repeated consents under a policy while personas and badges change; consents to share sibling badges around a merge. |
| `account` | InboxProves, OneBootstrap, ScoreHonest, EntersOnce | Two accounts, addresses and browsers, three passkeys: all sign-ins, credential changes and recoveries interleave. |
| `recovery_config` | SoloBlocked, NoSoloEntry, NeverEasierAtOnce | Two overlapping edits of weights, flags and threshold, with an attempt running and schedules landing. |
| `dedup` | BadgeAnchored, OneAccountPerCredential | Two batches and a delete, on either backend, with all faults, late deliveries and merges that may be reversed. |
| `dedup_ends` | RequestsEnd | Under fairness a batch and a delete on Signet end, whatever fails. |
| `merge` | SubKept, NoRowUnderTombstone, SubUnique, BanSticks, ReversalRestores | Two donors merge into one survivor at once, beside token exchanges, other requests and bans; one pair is merged, used, reversed and merged again; a chain of merges. |
| `status` | PublishedIsRevoked, ListsGrow, RevokedIsServed | A disclosure, a revocation and two publishers of which one may have lost the lock; what is served only grows, and every revocation is served in the end though signing fails. |
| `groups` | HeldIsRevoked, RevokedWhenGone | Overlapping requests on a group whose members' badges are being disclosed. |
| `wizard` | BadgeProven, InviteBounded | Each of the fourteen plugins with two people, two requests in flight, up to two sessions, and anything submitted at any step. |
| `anon` | NoStaleBranch, RootStaysHome, KeptIsBackedUp | Two devices, two accounts, resets, re-keys, copies, typed keys and the pairing relay. |
| `readers` | MatchingIsMaximum, NoFalseGap, OneMinimalSet, MoreBadgesNeverLower, PublicHides, NoStalePage, WindowHonoured | Each reader of the badge table against its histories. |
| `merge_cycle` | NoRowUnderTombstone | A counterexample, see [below](#where-code-and-documentation-disagree). |

Every module has a type invariant. The one of `OidcProvider` is part of a run;
the others (`CredTypeOK`, `StatusTypeOK` and so on) document the state, can be
added to the cfg of their run, and are proved for every module that has a proof
module.

**Bounds, and why they are enough.** A race needs two contenders, and each
instance has two of whatever contends: two token requests (`h1`, `h2`) for a
code, two minters for a credential, two confirmations, two browsers.

* `oidc` explores the union of three regions: everything around a single consent
  to share the name (`OneConsent`); repeated consents under a policy, with
  personas edited and a badge deleted, while one request at a time serves one RP
  (`OneRelyingParty`); and consents of two accounts to share sibling badges
  around their merge (`OneMerger`). A race for a code needs only one consent;
  folding old grants needs several consents and no race. `AdminOps` says whom the
  administrative operations may hit: one account and one of two clients. Two
  consent screens at once lose a grant update (see below) and are left out here;
  the theorems cover any number of them.
* `dedup` runs a batch of two on the interim ledger (compensating the first
  badge of a batch needs a second) and merges on Signet (re-tagging is remote
  there). Two batches at once, and a third badge, occur while nothing is merged,
  late, overtaken or left behind, and of these one happens in a behaviour. `HealAttempts` is 2 and `Attempts` is 1, where the code has 3 of
  each: 2 already gives a self-heal that fails and one that follows it.
* `merge` is the union of regions too: tokens are issued, or accounts banned,
  while two donors merge at once (`Traffic`, `Bans`); addresses are promoted while
  they merge one after the other; one pair with two rows is merged and undone, or
  with one row merged again (`Undone`); merges in a chain. A reversal out of its
  region is still taken and checked, once. One request runs beside the
  ceremonies, which is enough for a straddling one, and starts when no link or
  proof is outstanding (`Calm`). `MaxGen = 1` allows one ban.
* `recovery_config`: the delay (2) outlasts an attempt (1) as in the code, the
  highest weight equals the lowest threshold as in the code, and time runs to 3,
  enough for a schedule made at 1 to land.
* `status`: one handle in one list, since lists share nothing; two publishers,
  two optimistic attempts, two epochs, a jitter of one. `groups` has shards of two
  bits that fill up, three memberships, two requests and two disclosures;
  `MCGroups!Bound` says which of them overlap.
* `wizard`: sessions of two plugins share nothing but the backup state, so each
  behaviour follows one. A second session is for the shortest flow of each kind
  (form and mail, OAuth, invite). One credential per person; the second person's
  public name and age are written with the characters of its anchor, which the
  leak guard of the mint meets. A request whose input its step cannot use can only
  fail, and is not followed further.
* `anon`: two epochs, two roots, two relay sessions. Copies and relay are not in
  use together, one copy waits for a passkey, one root is relabelled, and a second
  account appears where nothing is reset.
* `readers`: five badges of three types, eight policies (overlapping branches,
  branches of distinct types of which one, two or all are wanted, an empty `anyOf`,
  one too deep and one too wide to be admitted), one edited configuration row, two
  allowlists, one link (links share nothing) and one page of it, two clients in
  five deployments, two of which break what `lib/rate-limit.ts` asks of them. The
  caps of the selection (`n + 4`, 500, 16 badges) are larger than any of these
  policies needs.
* `account` bounds mails and rows plus twice the passkeys by `MaxWork = 7`.
  Guessing at sign-in codes happens before there is a passkey (the OTP rows and
  the passkeys share no statement); recovery codes for an account with one
  address; badge recovery for one that has neither passkey nor session left,
  which is the case it is made for. `OtpMaxAttempts` is 2.

**Fairness.** `DedupLedger!FairSpec`: a request that the server has begun is run
on, as is the work behind a commit: weak fairness of `MintStep`, `DeleteStep`,
`ReleaseStep` and `Reassign`. `WindowOpen` and `ReleaseLock` wait for an advisory
lock. They are enabled only while it is free, and another caller may take it again
and again; Postgres queues the waiters first come, first served, hence strong
fairness for these two. Nothing is assumed about faults, users or arrivals.
`RequestsEnd` lets off a batch when the finite set of entry ids is used up.

`StatusList!StatusFair`: workers are timers that start a pass again and again
(`PublishStart`) and run it on, disclosures and revoking transactions that began
are run on, and the clock moves: weak fairness. Signing may fail any number of
times but not for ever: strong fairness of `SignList`, per list, without which
nothing could be published at all. Lost locks, lost writes and aborted passes
may recur without limit of fairness.

## The proofs

Every theorem is about all values of the constants that satisfy the `ASSUME` of
the module concerned. These say that the parameters have their shapes: pairs of
accounts that may merge consist of two different accounts, `None` is not an id,
limits are natural numbers, tokens are not rows of another table, `Null` is no
link, weights are natural, users, badges and score categories are finitely many. Some
say a little more, and the code justifies each. `RecoveryConfigConstants` has an
attempt expire before a change scheduled meanwhile lands (`AttemptTTL <
WeakenDelay`: 15 minutes and 72 hours) and seeds only the solo types with a weight that
reaches the lowest threshold. `OneWorld` has the accounts and requests of
`Recovery` be those of `Credentials`. `WizardAssumption` gives every credential
one person behind it. `StatsConstants` has 0 and the suppression threshold
among the lower ends of the published ranges, as the table of ranges in
`lib/stats-public.ts` has. `SybilConstants` has a largest cap and, among
the cutoffs, a ladder whose steps rise: the seeded one. `RateConstants` only has
the shapes: any deployment is covered. Nothing bounds how many requests, sessions, merges,
publishers or devices there are, so the theorems cover the interleavings that
the runs leave out with their `CONSTRAINT`s.

| Theorem | Property | Establishes |
|---|---|---|
| **`OidcProviderProofs`** (`OidcConstants`) | | |
| `TypeCorrect` | `TypeOK` | |
| `SingleUse` | `CodeSingleUse` | at most one token comes from a code |
| `FollowsConsent` | `TokenFollowsConsent` | a token carries its code's items and client |
| `DisclosureWithinConsent` | `ConsentBound` | userinfo tells an RP only what was ticked for it |
| `RevokedForGood` | `RevocationFinal` | a token that ended never answers again |
| `Refinement` | `ImplementsPromise` | the provider implements `ConsentPromise` |
| `PersonaKept` | `PersonaAuthoritative` | names go out under the persona where there is one |
| **`AccountAccessProofs`** (`CredentialConstants`, `RecoveryConstants`, `OneWorld`, `RecoveryConfigConstants`) | | |
| `AccTypeCorrect` | `TypeOK` | |
| `InboxIsProved` | `InboxProves` | an inbox opens only accounts that proved it |
| `BootstrapOnce` | `OneBootstrap` | the cooldown is skipped once, if changes do not overlap |
| `RecoveryEntersOnce` | `EntersOnce` | a code or attempt lets somebody in at most once |
| `AttemptsHonest` | `ScoreHonest` | an attempt's score is the worth of its proofs, each type once, and what it opens was earned |
| `RcTypeCorrect` | `RcTypeOK` | |
| `NobodyAlone` | `SoloBlocked` | no type without the flag reaches the threshold alone, now or when schedules land |
| `EntryNeedsSolo` | `NoSoloEntry` | nor does one enter alone while settings change under its attempt |
| `EasierOnlyInTime` | `NeverEasierAtOnce` | no edit makes recovery easier at once |
| **`DedupLedgerProofs`** (`LedgerConstants`) | | |
| `LedgerTypeCorrect` | `TypeOK` | |
| `HandedOutIsAnchored` | `BadgeAnchored` | a badge that passed its probe keeps a live entry for its credential, unless a release that cannot be stopped takes it |
| `OneCredentialOneAccount` | `OneAccountPerCredential` | badges for one credential are one account's, with the exceptions of `Settled` and `Escaped` |
| **`AccountMergeProofs`** (`MergeConstants`) | | |
| `MergeTypeCorrect` | `TypeOK` | |
| `BansStick` | `BanSticks` | merges lift no ban |
| `ReversalPutsBack` | `ReversalRestores` | undoing a merge puts its rows back |
| `TombstonesAreEmpty` | `Apart => NoRowUnderTombstone` | no row of a table the merge moves is a tombstone's, but for late ones, where nobody is donor of one pair and survivor of another |
| `SubjectsDiffer` | `SubUnique` | no two accounts present one subject, however merges chain, cross and are undone, but for the override that was moved on (see [below](#where-code-and-documentation-disagree)) |
| `SubjectsKept` | `Apart \/ NoneUndone => SubKept` | an RP finds a token's owner under the subject it knows, where merges do not chain or none has been undone, but for tokens whose exchange a merge overtook |
| **`AnonIdentityProofs`** (`AnonConstants`) | | |
| `AnonTypeCorrect` | `TypeOK` | |
| `StaleRootRefused` | `NoStaleBranch` | no secret of an epoch comes from another epoch's root, unless it was given as one of this epoch |
| `RootsDoNotCross` | `RootStaysHome` | roots stay with their account, unless given to another as its own |
| `NothingOrphans` | `KeptIsBackedUp` | nothing is kept before its backup, unless given as backed up |
| **`RevocationProofs`** (`StatusConstants`, `GroupConstants`) | | |
| `StatusTypeCorrect`, `GroupTypeCorrect` | `StatusTypeOK`, `TypeOK` | |
| `ListsTellOnNobody` | `PublishedIsRevoked` | a bit that is served was revoked, and its floor has passed |
| `ServedListsGrow` | `ListsGrow` | a served list takes nothing back |
| `HeldRevokedAlone`, `HeldIsRevokedWithMember` | `HeldIsRevoked` | a handle dies with its anchor: under `StatusSpec`, and under `Groups!Spec` |
| `RevokedExactlyWhenGone` | `RevokedWhenGone` | an anchor is revoked exactly when the membership ended |
| **`WizardProofs`** (`PluginsAssumption`, `WizardAssumption`) | | |
| `WizTypeCorrect` | `TypeOK` | |
| `EveryBadgeIsProven` | `NotaryPinned => BadgeProven` | a badge is of a credential its holder proved; one for an address, of an inbox that was proved or mailed |
| `InvitesAreBounded` | `InviteBounded` | invite limits hold however redemptions race |
| **`BadgeReadersProofs`** (`BadgeConstants`, `SybilConstants`, `StatsConstants`, `ShareConstants`, `RateConstants`) | | |
| `NeverLowers` | `MoreBadgesNeverLower` | a further badge never lowers a score or a bucket |
| `RangesHide` | `PublicHides` | the public page changes only when a range changes |
| `PagesAreCurrent` | `NoStalePage` | a page shows nothing that had ended when it was asked for, and every page shown is recorded |
| `LimiterHolds` | `WindowHonoured` | no bucket lets through more than its window allows, and where the deployment is configured as demanded a client has one bucket |

The inductive invariants are theorems too (`AccInvariant`, `LedgerInvariant`,
`MergeInvariant`, `PublishedInvariant`, `GroupInvariant`, `WizInvariant`; the
others are lemmas). Hardly any of the properties is inductive by itself, mostly for
the same reason: a write relies on what was read some awaits before, and one has
to say what keeps that reading true.

Four of the theorems are about a sum, a sorted list or a count over sets of any
size, and the induction theorems of the library cannot be used for them (they
take an operator as a parameter). There the induction is done by hand: the set of
the sizes for which a statement fails is written down as a set of natural
numbers, and a least element of it refuted. The lemmas that result say that a
fold over a finite set exists and how it grows with the set (`WorthExists`,
`WorthGrows`, `SumMonotone`), and that of two lists in descending order the one
with more entries is larger place by place (`PlaceByPlace`).

**OidcProvider.** `CodeSingleUse` alone is not inductive: `TokenMint` writes a token
several awaits after the code was consumed, so one must know that no other
request is past consumption with the same code and that no token came from it
yet. `HandlersOwnCode` says so, and that what the handler carries is still what
the code's row says, which gives `TokenFollowsConsent`. `ConsentBound` needs the
chain behind a token: a tab on its way to the commit holds ticked items only
(`TabsTicked`), so do grants and codes (`RecordsTicked`), and a token has the
items of its code. `RowsWellFormed` relates the state of a row to which of its
fields are set: deleting a row keeps client and items, which both the single-use
argument and the refinement mapping need. `IInv` is the conjunction of these
with `TypeOK`; `InitIInv` and one lemma per action give `SpecIInv`, from which
the invariants follow. Most actions leave the codes and tokens alone or only
revoke them, and share the lemmas `KeptStep`, `DropKept` and `RevokeKept`.
The refinement sorts actions into those that stutter (`SilentRefines`), those
that end access (`RevokingRefines`), and the consent and token steps that tick,
decide and redeem. `PersonaInv` stands on top of `IInv` and follows the name
along the same chain: a code that gives a registered client the name has a
persona of its owner behind it (`CodesNamed`), a request past validation acts
for that owner (`HandlersTrue`), and so does a token, unless its account took
another over (`TokensTrue`).

**RecoveryConfig.** `RcInv`: an edit that has read holds the lock, and what it read
is still so (`EditOK`); and while an attempt runs, a type that could not recover
alone when it began stays below what the attempt needs, either by its weight or
because the heavier one lands after the attempt has expired (`RunOK`). The second
is where the delay has to outlast the attempt.

**AccountAccess.** `AccInv`. Verified rows and cached addresses were proved, and row
ids are never used again, so a request that comes back to a row by id finds it
as it left it or gone (`AddressInv`, `CallOK`). An account that ever had a passkey
has one: a removal under way leaves another, unless two changes overlapped
(`KeyInv`); hence no second enrolment is a first one. A code or attempt that was
spent has at most one request on its way to a session, and none once somebody
entered (`EntryInv`). `Honest` is about the score: a finite set of proofs, one per
type, whose `Worth` the score is, so that a proof recorded twice adds nothing and
a threshold once met stays met.

**DedupLedger.** `DedupInv` tells which badges are *due* an anchor: live ones that
their batch is not about to take back or point elsewhere. While a release that
counted no badge keeps the entry's lock, no badge becomes due for that entry
(`ReleaseSafe`); this is the mint window and the probe at work, and `Anchors`
follows whether or not the lock is lost before the request is sent. On the interim
ledger there is no lock; what a DELETE takes after a badge came in is marked
(`"overtaken"`), and everything else that it takes had no badge. `OwnerInv` adds that
credentials have one live entry (`OneEntry`), and that badges, entries and the
re-tagging still to be done agree on who an account has become (`OwnersAgree`).

**AccountMerge.** `MergeInv`: what a snapshot says is true of the moment it was
taken (`RecPart`); the donor of a standing merge is its tombstone, and donor of no
other (`MergedPart`); and a row of a standing merge is with its survivor, or where
another donor's merge or its undoing put it, or was resolved away
(`HistoryPart`). The last is an invariant about the whole past of a row, which
`reverseMerge` relies on without checking. `ApartInv` gives the tombstones; that
it needs `Apart` is the finding of `merge_cycle`. `SubInv` is about overrides:
each goes back to a merge that created it and either still stands at this
account or had its survivor merged on (`OriginPart`); what a standing merge
wrote is still there, and no other standing merge wrote it (`WrotePart`); two
accounts never hold the same override, unless the one of a merge undone had
moved on (`OncePart`). This gives `SubUnique` without any restriction on chains
and cycles. `KeptInv` follows tokens: each is known under its subject, is one of
the exceptions of `SubKept` or is late. `CurrentInv` says of a request that no merge
overtook that its account is live and the subject it read still the account's. Undoing a merge keeps this where donors have no
overrides of their own (`PlainPart`, from `Apart`), and not in general; see below.

**AnonIdentity.** Wherever a root rests or travels (vault, store, copy, a copy on
its way, a sealed or claimed payload) it is accompanied by an account and an
epoch. `AnonInv` says of each such place that account and epoch are the root's own
and that it was backed up (except in a vault that is not yet active), or that this
very root was relabelled with this account and epoch; so one that slipped in is
followed wherever it goes, and no other can cross.

**StatusList and Groups.** `Tracked`: of a handle in an RP's hands, every transaction
about to revoke its anchor has seen it or finds it revoked; a disclosure that
believes in a tombstone is right. It is proved action by action, so that both
specifications use it. `PublishedInv` adds publishers: the row a pass has read is
the list's or an older one, and what it signed goes beyond what it read
(`PubRight`), so a write guarded by the version cannot take a bit back. `GroupInv`
adds that what a request on a group has scanned is what it will end, but for
memberships that began since.

**Wizard.** `WizInv`: a session keeps its account, a random value belongs to one
account (`TokensPart`), and what a request carries to the mint was shown by the
person behind its account (`CallRight`). Remaining uses and redemptions of an
invite add up (`InvitePart`). Without a pinned notary key a transcript proves
nothing about its page; the hypothesis is the deployment setting
`MINISTER_TLSN_EXPECTED_NOTARY_KEY`. `MailInv` follows addresses: a session at
the magic step, a request that has read one, and the badge that comes of it name an
address that a link was mailed to.

**BadgeReaders.** One invariant per reader. `RateInv`: the hits kept for a client
are the end of the list of all that it was allowed, and what was left out, by a
check or by a sweep, is out of the window; in a deployment as the module demands it the bucket of a request depends on the address
it comes from alone (`OwnBucket`), whatever the client wrote into either header,
because the edge overwrites the one and the proxies in front are counted from the
right in the other. `ShareInv`: what had ended when a view's request came in has
ended in every row the view reads since, so each read can drop it. `StatsInv`: counts are natural numbers, so the printed range determines
the lower bound from which order and percentage are computed. `SybilInv`: the cached
configuration is one that admins could have set up, with a ladder of cutoffs;
the rest is about the score itself: with a badge more, the list of a category
is larger place by place, decay and cap preserve that (`DecayedMonotone`,
`ContributionGrows`), and so do the sum and the number of categories that count
(`ScoreGrows`).

Several properties name a case as an exception, because there the code does what
the property would forbid; the theorems have the same exceptions, and nothing more.
They are described in the next section: `Escaped` and `Settled` (dedup), `late` and
`Left` (merge), rows resolved away (`ReversalRestores`), `raced` (credentials),
`relabelled` (anonymous identity), overlapping disclosures and requests
(`HeldIsRevoked`, `RevokedWhenGone`) and the mail plugins (`BadgeProven`).

**Only model-checked**, and why:

* `RequestsEnd`, `RevokedIsServed`: liveness under fairness, for which this proof
  system has no rules.
* `MatchingIsMaximum`, `NoFalseGap`, `OneMinimalSet`: `Policy` follows the recursion
  of the code over policies and badges with RECURSIVE operators, and the proof
  system has no arithmetic or set reasoning in a module with one.
* `SubKept` where merges chain and are undone as well: false there. Merge a into b
  and issue b a token under a's subject; undo the merge, which leaves that token
  (an exception `SubKept` states for b); merge b into c. The token moves along, and
  c presents b's subject or its own. The `merge` run has chains and reversals, but
  in separate regions, as the theorem has.
* `NoRowUnderTombstone` without `Apart`: false, see `merge_cycle`.

## Where code and documentation disagree

One run ends in a counterexample to what the repository says of itself.

* **`merge_cycle`**. The transaction re-checks the donor's tombstone and not the
  survivor's (`lib/merge.ts:276`): two confirmed merges in opposite directions
  leave two tombstones, and the rows of both with a tombstone.

The following were met while modelling. They have no run of their own; each is
visible as an exception that a property states, or as an input that a run leaves
out.

*OIDC.*

* `upsertGrant` (`lib/oidc-grants.ts:111`) reads the grant and writes the union
  it computed. Two consents that overlap leave the later union only, though
  line 94 calls the arrays the "monotone 'ever disclosed' sets". A live token can
  then disclose what the grant does not show. No property relies on the union,
  and `oidc` has one consent screen.
* A ban does not silence outstanding codes (`app/oidc/token/route.ts:131`). A
  client deleted in the middle of an exchange keeps the token
  (`server/admin-actions.ts:421`), hence "as long as the client is registered"
  in `PersonaAuthoritative`. A ban or a rotation that lands inside an exchange
  finds no token to revoke, and the exchange mints one afterwards. Scopes taken from a
  client while a page is open still count for that page: `approveConsent` takes
  them from the signed request, which it trusts for five minutes
  (`server/oidc-actions.ts:74-88`), and does not look at the client again.
* A merge leaves persona rows with the donor (`lib/oidc-claims.ts:182`), so the
  survivor shows its own name to the donor's RPs; `PersonaAuthoritative` excepts
  accounts that took another over.

*Dedup.*

* `deleteBadge` reads `nullifierRef` and deletes later
  (`server/badge-actions.ts:89`). If the self-heal re-points the badge in
  between, the wrong ref is released and the credential is "permanently burned",
  which lines 86-88 set out to prevent. No fault is needed.
* A release that Signet performs after its deadline can take the entry of a badge
  issued since (`Settled` excepts it). A badge deleted after a merge and before
  its re-tag burns the entry. A ledger outage in the middle of a batch leaves
  its first badge issued (`server/wizard.ts:578`). After a reversal two accounts
  can hold badges for one credential, hence the exception in
  `OneAccountPerCredential`. The property also asks for merges that do not chain
  (`NoChains`), since it compares accounts one merge apart.
* A merge takes the badges of a batch that has not ended. If the batch then
  fails, `compensateBatch` deletes by badge id and the batch's own account
  (`server/wizard.ts:514`) and passes over the badge that has moved. If that was
  the badge whose probe found its entry gone, it stands without an entry, and
  another account can register the credential.
  `BadgeAnchored` and `OneAccountPerCredential` except it (`Escaped`).
* A process that dies in a batch, or a compensation whose `deleteMany` throws
  (`server/wizard.ts:513`), leaves the badge that was being written or healed without
  an entry for good, though lines 507-508 promise "no orphan badge" on abort.
  `Escaped` excepts that badge (`adrift`); the ones probed before it keep theirs.
* On the interim backend a DELETE whose snapshot is older than a re-issued badge
  can commit after that badge's probe, and take its entry. `lib/nullifier/interim.ts:105`
  knows this residual and accepts it while there are no users. `Settled` excepts
  badges that lost their entry this way (`"overtaken"`), and no others.

*Merge.*

* "Every userId-FK row the donor owned is re-pointed" (`lib/merge.ts:79`) is false
  of `OidcProfileOverride`, `GroupMembership`, `Group.ownerUserId`,
  `AnonSeedEnrollment` and its blobs, `AnonPairSession` and `UserAvatar`: no
  statement of the merge moves them, and they stay with the tombstone.
  `NoRowUnderTombstone` is about the other tables (`Left`).
* A request that has read its session, or a token exchange that has read the user
  and the subject, goes on after a merge or reversal commits: rows appear on the
  tombstone, and a token under a subject that is no longer its account's.
  `app/oidc/token/route.ts:137-140` says "never mint for a tombstone"; the row is
  created at 217, several awaits after that look. `NoRowUnderTombstone` and `SubKept`
  except these rows (`late`), whether the exchange is the donor's or the
  survivor's.
* Which RPs count as shared is decided by the survivor's overrides, not by its
  tokens (`lib/merge.ts:566`, 331-332), so merging an account that absorbed another
  can re-key the survivor at an RP it already uses; `SubKept` excepts it.
* Reversing a merge into an account that was itself merged on removes the override
  from the first survivor only (1112-1117), where it is no longer; the final
  survivor and the revived donor then present one subject, though lines 888-889
  say "so the survivor stops presenting the donor's identity". `SubUnique`
  excepts it.
* A reversal restores the survivor's earlier ban flag (1188, announced at 885) and
  so lifts a ban imposed or inherited since; `BanSticks` excepts reversals.
* A row that both sides hold is resolved when a second donor is merged, and its
  reversal makes it anew; undoing the first merge meanwhile does not find it.
  `ReversalRestores` excepts rows that another donor's merge resolved away.
* In a chain of merges two overrides can clash on their key (679). A reversal may
  lose an eligibility row when merges are reversed out of order (1077), and may
  leave a survivor without a primary address (1024).

*Credentials and recovery.*

* `removeEmail` leaves `User.email` alone and sign-in falls back to it
  (`lib/email-signin-user.ts:76`), so a removed primary address still opens the
  account. The schema (`schema.prisma:30-32`) says that the `UserEmail` table is
  "the source of truth for which emails a user holds".
* Two overlapping `removeEmail` calls can take both verified addresses, which
  `server/credential-actions.ts:461` ("Never strand ...") means to exclude. Two
  `removePasskey` calls can leave none, and the next passkey skips the cooldown.
  Two `setPrimaryEmail` calls can leave two primaries, and removing the primary
  leaves none, where the schema says exactly one. A sign-in code can be redeemed
  by two requests at once; two requests for a code can leave two rows; two
  batches of recovery codes can coexist.
* `server/recovery-code-actions.ts:45-50` says a recovered user can draw new codes
  right away; with the lost passkey still on file the new one is quarantined and
  the gate refuses. Of the badge types, only email-domain is wired to a live
  proof, and its default weight does not reach the threshold.
* Raising a weight whose scheduled value has already landed measures the change
  against the old live column: the effective weight falls back to that column
  until the new schedule lands 72 hours later. This makes recovery harder, so
  `NeverEasierAtOnce` holds.

*Status lists and groups.*

* A disclosure that waits between its last check of the tombstone and its answer
  can hand out a handle that a revocation misses, if the revoking transaction
  scanned before the handle's row existed and committed after the check
  (`lib/status-list/allocate.ts:203`). Line 102 says "a late allocation can never
  mint an un-revocable handle". `held` records the overlap and `HeldIsRevoked`
  excepts it.
* `removeMember` revokes the membership id it read; a member removed and added
  again in between is deleted under the new id, whose anchor stays. `deleteGroup`
  lists the memberships and then deletes by cascade, so one added in between is
  not revoked. Roles are read before the transaction that relies on them; group
  quota and slug cooldown are counted before the insert they limit.

*Wizard.*

* A late `continue` of a session that another request completed writes the
  plugin's state back (`server/wizard.ts:347`), after the scrubbing that lines
  740-743 call unconditional.
* "The wizard runtime has already confirmed `token` matches"
  (`plugins/email-domain/index.ts:142`; likewise `email-exact`, 132-140) is true of
  the mailed link only. `submitStepAction` (`server/wizard-actions.ts:28-39`) takes
  any input at any step and has no pending token to compare it with, so a token
  made up on the spot completes the magic step for the address the link went to.
  Also, the row behind a mailed link is read again on the way, and may meanwhile hold
  another address. Hence `BadgeProven` promises less about the two mail
  plugins: the inbox was proved at a sign-in, or a link was mailed to it.
* The final update throws when the row was replaced, though the badges stand. An invite
  is consumed before its badge is minted. Two requests can complete one session.
  Two starts at once leave two unfinished sessions. The dedup key is the anchor
  and the badge type, without the provider.

*Anonymous identity.*

* A confirmation that overlaps another device's reset stamps a row whose
  generation is gone (`server/anon-seed-actions.ts:225`), while lines 24-26 let derivation start
  when "backup confirmed": the device begins again, and its new root is active at
  once, without a backup. Lines 204-208 say that no security control may rest on
  the stamp, and no property here does: `backed` has the roots really typed back.
* A key typed in or filled in by the password manager is a bare root. Its account, its
  epoch and its backup are taken from the page, on the unlock panel and, for
  an account in any state, on the get-key page
  (`lib/anon-seed/vault.ts:563-607`, `app/settings/private-identity/get-key/get-key-client.tsx:162`); the password
  manager's entry is one for all accounts (57-58). Against that, `vault.ts:66-67`
  says that accounts "can never cross seeds", line 320 "Only used for ACTIVE
  enrollments", and `root-store.ts:84-86` that "a mid-backup write must never happen".
* `enrollPasskeyBlob` asks the server, waits for the passkey, and wraps what the vault
  holds then under the account and epoch of before (`lib/anon-seed/vault.ts:456`). A page
  older than a reset stores a copy of the old root under the new epoch, which the
  comment at 253-257 ("a stale root MUST NOT derive a newer branch") excludes, and
  a root that is not backed up yet can be copied.
* `NoStaleBranch`, `RootStaysHome` and `KeptIsBackedUp` except what was typed in or
  wrapped as something it is not (`relabelled`), each with the account and epoch
  it was taken for.
* The weekly limit on re-keys and the cap on copies are counted before the write
  (`server/anon-seed-actions.ts:476`). Overlapping beginnings make two roots in
  one epoch. `purgeVault` is never called. The page that displays a pairing code
  gives up on a sealed session at its TTL, which is still claimable.

*Readers.*

* Policy. With `atLeast` branches that overlap, the page can offer a selection that
  `evaluate` rejects; branches that are composite are counted by the selection and
  not by `evaluate`, so minimising can break satisfaction; `allOf[A, anyOf[A, B]]` may
  disclose both; a composite branch is shown by the type of its first leaf. A badge
  disclosed earlier takes its whole type out of the picker, so a holder whose
  policy needs another badge of that type cannot tick it, though
  `lib/oidc-policy-view.ts:203-204` says that this "only avoids showing the same
  type twice". `anyOf` of nothing is admitted (`lib/oidc-policy.ts:95-96`), cannot be
  satisfied and has no gaps; `NoFalseGap` excepts it (`Reachable`). The run has a policy
  with overlapping `atLeast` branches, on which `MatchingIsMaximum` and `NoFalseGap`
  are checked; `OneMinimalSet` asks for branches that do not compete (`Separate`), and
  the run has an `anyOf`, an `atLeast` and a nested `allOf` of those.
* Sybil score. When rows disagree about the category of a type the score takes any
  of them; families collapse per category; the row "eth2-genesis-depositor" is never
  reached by the qualifier chain.
* Statistics. "numerator <= denominator" (`lib/transparency-view.ts:207`) is false
  after a badge was deleted between runs; at READ COMMITTED a run does not see "a
  consistent snapshot" (`lib/stats-recompute.ts:11`); a manual run stamps its time
  outside its transaction; overlapping runs can mix rows.
* Share links. A view that read its link before a revocation still shows its badges;
  `NoStalePage` is about what had ended when the request came in. A badge that
  has expired is still shown, under a heading that calls it "valid until" the link's own
  expiry (`app/share/[token]/page.tsx:83-85`). The credentials that a view re-mints never reach
  the browser: the page passes on the attributes only.
* Rate limits. `lib/rate-limit.ts:71-110` makes the limiter's promise conditional on the
  deployment. With the default environment behind a proxy that passes
  `CF-Connecting-IP` on, or with more trusted hops than there are proxies, a client
  picks its bucket; the run has both, and `WindowHonoured` then only promises the
  window of each bucket.

## What is not modelled

* Cryptography (signatures, HMAC, OPRF, WebAuthn, encryption of vaults) is
  opaque: a subject is named by the account it derives from, a code by itself.
* Audit rows, mail delivery and notices, wording and layout, `Retry-After`
  seconds. Rate limits are modelled by themselves (`RateLimit`) and refuse
  nothing in the other modules.
* The merge transactions are one step each, as argued above. `OidcProvider` has
  merges without their reversal, which `AccountMerge` has.
* Auth.js. Registering a passkey without a session is the library's own path
  (`auth.ts:113-120`, 271-276): whether it could make an account for an address that
  nobody proved, although line 114 says "always supplies a verified address", is
  not decided here, and `InboxProves` does not speak about it. The backfill of
  `emailVerified` at a sign-in by code (`auth.ts:211-223`) finds nothing to do: the
  one writer of accounts, `createEmailUser`, sets it.
* `AccountAccess` has no bans or tombstones (`OidcProvider` and `AccountMerge`
  do), and the badge issued automatically on the first sign-in with a
  domain address is an input (`BadgesChange`). Promoting administrators is left
  out: whoever is one is given.
* `RecoveryConfig`: input outside the bounds of the forms, and the mail broadcast
  after an edit.
* `Groups`: renaming a group, which touches no membership.
* `AnonIdentity`: the re-authentication in front of a re-key, more than one
  cooldown window in a behaviour, and the facts a pairing peer shows to
  the user; the typed code is compared as a whole.
* `Policy`: a consent submission reads in one step (`OidcProvider` has the
  interleavings of the grant).
* `BadgeReaders`: the three queries behind a scoring configuration are read at
  once, and one statistics job runs at a time; re-minting a credential for a share
  page succeeds or fails, and what it would contain is left out.
* TLSNotary's verifier is external: it answers with what a presentation shows.
  VC signing, the SDK, pages, the demo client and the extension are stateless
  computation or clients. The WebSocket proxy pipes bytes between two sockets
  and keeps nothing.

## The plan

The order follows what would hurt most if it were wrong.

1. *Done*: `OidcProvider` with `ConsentPromise` and its proofs, `DedupLedger`,
   `AccountMerge`, `Credentials`, `Recovery`, `AccountAccess`.
2. *Done*: `StatusList` and `Groups`, with liveness of publication.
3. *Done*: `Plugins` and `Wizard`, with invite codes.
4. *Done*: `AnonIdentity`, the vault and the pairing relay.
5. *Done*: `RecoveryConfig`.
6. *Done*: `Policy`, `SybilScore`, `Stats`, `ShareLinks`, `RateLimit` over one
   `BadgeTable`.
7. *Done*: theorems about `OidcProvider`, `RecoveryConfig`, `AccountAccess`,
   `DedupLedger`, `AccountMerge`, `AnonIdentity`, `StatusList`, `Groups`, `Wizard`
   and `BadgeReaders`: every safety property of their runs, with the hypotheses
   that the table names.
8. Left: the policy engine, whose matching and minimising would have to be written
   as recursive functions before anything can be proved about them; and liveness,
   which stays with TLC.
