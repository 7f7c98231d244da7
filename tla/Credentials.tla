---------------------------- MODULE Credentials -----------------------------
(***************************************************************************)
(* The credentials of an account and the sessions they open: sign-in by    *)
(* mailed link or code, UserEmail rows, passkeys with their cooldown, and  *)
(* the server actions that change the set.  A browser has at most one      *)
(* request under way; a request is as many steps as it awaits reads that a *)
(* later write relies on.                                                  *)
(***************************************************************************)
EXTENDS Naturals, FiniteSets

CONSTANTS
    Users,          \* accounts that can come into being
    Emails, Passkeys,
    Browsers,
    MaxRows,        \* bound: UserEmail rows an address sees
    MaxCodes,       \* bound: sign-in codes an address is sent
    OtpMaxAttempts, \* OTP_MAX_ATTEMPTS
    None

ASSUME CredentialConstants ==
    /\ MaxRows \in Nat /\ MaxCodes \in Nat /\ OtpMaxAttempts \in Nat \ {0}
    /\ None \notin Users \cup Emails \cup Passkeys

VARIABLES
    cache,      \* User.email; None: there is no such account
    row,        \* the UserEmail row of each address
    rows,       \* rows created so far for each address: the last row id
    links,      \* outstanding verification links: address and row id
    magic,      \* outstanding sign-in links of each address
    otp,        \* the SignInOtp row of each address
    sent,       \* codes sent so far to each address: the last code
    passkey,    \* Authenticator rows
    sess,       \* the session token of each browser
    call,       \* the request each browser is waiting for
    proved,     \* ghost: whose account has shown control of which address
    raced       \* ghost: accounts two of whose credential changes overlapped

emailVars == <<cache, row, rows, links, proved, raced>>
otpVars == <<magic, otp, sent>>
credVars == <<emailVars, otpVars, passkey, sess, call>>

NoRow == [user |-> None, verified |-> FALSE, primary |-> FALSE, id |-> 0]
NoOtp == [code |-> 0, attempts |-> 0]
NoKey == [user |-> None, state |-> "none", first |-> FALSE]
NoSess == [user |-> None, aal |-> 0, cred |-> None, recovered |-> FALSE,
           via |-> None]
NoCall == [pc |-> "idle", email |-> None, arg |-> None]

CredInit ==
    /\ cache = [u \in Users |-> None]
    /\ row = [e \in Emails |-> NoRow] /\ rows = [e \in Emails |-> 0]
    /\ links = {} /\ magic = [e \in Emails |-> 0]
    /\ otp = [e \in Emails |-> NoOtp] /\ sent = [e \in Emails |-> 0]
    /\ passkey = [k \in Passkeys |-> NoKey]
    /\ sess = [b \in Browsers |-> NoSess]
    /\ call = [b \in Browsers |-> NoCall]
    /\ proved = {} /\ raced = {}

Idle(b) == call[b] = NoCall
Await(b, pc, e, x) == call' = [call EXCEPT ![b] = [pc |-> pc, email |-> e, arg |-> x]]
Answer(b) == call' = [call EXCEPT ![b] = NoCall]

RowsOf(u) == {e \in Emails : row[e].user = u}
Held(u) == {k \in Passkeys : passkey[k].user = u /\ passkey[k].state # "removed"}

-----------------------------------------------------------------------------
(* Sign-in by email.  The mail holds a link and a code, either of which    *)
(* proves the inbox; the account is looked up and, if need be, created.    *)

(* sendVerificationRequest: createSignInOtp replaces the code; Auth.js     *)
(* adds a link.                                                            *)
RequestSignIn(e) ==
    /\ sent[e] < MaxCodes
    /\ sent' = [sent EXCEPT ![e] = @ + 1]
    /\ otp' = [otp EXCEPT ![e] = [NoOtp EXCEPT !.code = sent[e] + 1]]
    /\ magic' = [magic EXCEPT ![e] = @ + 1]
    /\ UNCHANGED <<emailVars, passkey, sess, call>>

(* A code or a link outlives its hour.                                     *)
SignInExpires(e) ==
    /\ \/ otp[e] # NoOtp /\ otp' = [otp EXCEPT ![e] = NoOtp] /\ UNCHANGED magic
       \/ magic[e] > 0 /\ magic' = [magic EXCEPT ![e] = @ - 1] /\ UNCHANGED otp
    /\ UNCHANGED <<emailVars, sent, passkey, sess, call>>

FollowMagicLink(b, e) ==
    /\ Idle(b)
    /\ magic[e] > 0
    /\ magic' = [magic EXCEPT ![e] = @ - 1]
    /\ Await(b, "resolve", e, None)
    /\ UNCHANGED <<emailVars, otp, sent, passkey, sess>>

(* verifySignInOtp reads the row and compares; n = 0 is a wrong guess.     *)
SubmitOtp(b, e, n) ==
    /\ Idle(b)
    /\ otp[e] # NoOtp
    /\ IF n = otp[e].code THEN Await(b, "match", e, None)
                          ELSE Await(b, "mismatch", e, otp[e].code)
    /\ UNCHANGED <<emailVars, otpVars, passkey, sess>>

(* Every code of the address goes, the one read or a newer one.            *)
OtpMatches(b) ==
    /\ call[b].pc = "match"
    /\ otp' = [otp EXCEPT ![call[b].email] = NoOtp]
    /\ Await(b, "resolve", call[b].email, None)
    /\ UNCHANGED <<emailVars, magic, sent, passkey, sess>>

Countable(x, n) == x.code = n /\ x.attempts < OtpMaxAttempts

(* The guarded increment; at the ceiling the code is burned.               *)
OtpMismatch(b) ==
    LET e == call[b].email
        x == otp[e]
    IN
    /\ call[b].pc = "mismatch"
    /\ IF Countable(x, call[b].arg)
         THEN /\ otp' = [otp EXCEPT ![e].attempts = @ + 1]
              /\ IF x.attempts + 1 < OtpMaxAttempts THEN Answer(b)
                                                    ELSE Await(b, "burn", e, None)
         ELSE Await(b, "burn", e, None) /\ UNCHANGED otp
    /\ UNCHANGED <<emailVars, magic, sent, passkey, sess>>

OtpBurn(b) ==
    /\ call[b].pc = "burn"
    /\ otp' = [otp EXCEPT ![call[b].email] = NoOtp]
    /\ Answer(b)
    /\ UNCHANGED <<emailVars, magic, sent, passkey, sess>>

(* Mutant: an unverified row resolves as well.                             *)
MutOwner(e) ==
    IF row[e].user # None THEN {row[e].user} ELSE {u \in Users : cache[u] = e}

(* getUserByEmailIdentity: a verified row, or else the cached address.     *)
Owner(e) == IF row[e].verified THEN {row[e].user} ELSE {u \in Users : cache[u] = e}

EmailSession(u, e) == [NoSess EXCEPT !.user = u, !.aal = 1, !.via = e]

ResolveOwner(b) ==
    /\ call[b].pc = "resolve"
    /\ IF Owner(call[b].email) = {} THEN Await(b, "create", call[b].email, None)
       ELSE \E u \in Owner(call[b].email) : Await(b, "enter", call[b].email, u)
    /\ UNCHANGED <<emailVars, otpVars, passkey, sess>>

(* The account found signs in.  The code's backfill of a missing           *)
(* emailVerified finds nothing to do: createEmailUser, the one place that  *)
(* makes an account with a cached address, sets it.                        *)
EnterByEmail(b) ==
    /\ call[b].pc = "enter"
    /\ sess' = [sess EXCEPT ![b] = EmailSession(call[b].arg, call[b].email)]
    /\ Answer(b)
    /\ UNCHANGED <<emailVars, otpVars, passkey>>

(* createEmailUser clears an unverified claim; a verified row that is      *)
(* there by now makes the insert, and so the sign-in, fail.                *)
CreateEmailUser(b) ==
    LET e == call[b].email IN
    /\ call[b].pc = "create"
    /\ IF row[e].verified THEN UNCHANGED <<emailVars, sess>>
       ELSE \E u \in Users :
              /\ cache[u] = None
              /\ rows[e] < MaxRows
              /\ cache' = [cache EXCEPT ![u] = e]
              /\ rows' = [rows EXCEPT ![e] = @ + 1]
              /\ row' = [row EXCEPT ![e] = [user |-> u, verified |-> TRUE,
                                            primary |-> TRUE, id |-> rows[e] + 1]]
              /\ proved' = proved \cup {<<u, e>>}
              /\ sess' = [sess EXCEPT ![b] = EmailSession(u, e)]
              /\ UNCHANGED <<links, raced>>
    /\ Answer(b)
    /\ UNCHANGED <<otpVars, passkey>>

SignOut(b) ==
    /\ Idle(b)
    /\ sess[b] # NoSess
    /\ sess' = [sess EXCEPT ![b] = NoSess]
    /\ UNCHANGED <<emailVars, otpVars, passkey, call>>

-----------------------------------------------------------------------------
(* Passkeys.                                                               *)

KeySession(k, u) == [NoSess EXCEPT !.user = u, !.aal = 2, !.cred = k]

(* Mutant: only passkeys out of their cooldown are counted.                *)
MutFirstPasskey(u) == \A k \in Held(u) : passkey[k].state # "active"

(* lifecycleForNewPasskey, under the advisory lock with the insert.        *)
FirstPasskey(u) == Held(u) = {}

(* The ceremony ends in a sign-in with the new passkey.  Only a signed-in  *)
(* browser registers one here; what Auth.js itself would do with a         *)
(* registration without a session is outside the repository.               *)
EnrollPasskey(b, k) ==
    LET u == sess[b].user IN
    /\ Idle(b)
    /\ u # None
    /\ passkey[k] = NoKey
    /\ passkey' = [passkey EXCEPT ![k] =
         [user |-> u, state |-> IF FirstPasskey(u) THEN "active" ELSE "quarantined",
          first |-> FirstPasskey(u)]]
    /\ sess' = [sess EXCEPT ![b] = KeySession(k, u)]
    /\ UNCHANGED <<emailVars, otpVars, call>>

PasskeySignIn(b, k) ==
    /\ Idle(b)
    /\ passkey[k].state \in {"active", "quarantined"}
    /\ sess' = [sess EXCEPT ![b] = KeySession(k, passkey[k].user)]
    /\ UNCHANGED <<emailVars, otpVars, passkey, call>>

(* effectiveCredentialStatus: 72 hours have passed.                        *)
QuarantineLapses(k) ==
    /\ passkey[k].state = "quarantined"
    /\ passkey' = [passkey EXCEPT ![k].state = "active"]
    /\ UNCHANGED <<emailVars, otpVars, sess, call>>

(* A request that has read what it is about to change; two of them for one *)
(* account are noted.                                                      *)
Changing(b) == call[b].pc \in {"removePasskey", "removeEmail", "clear", "primary"}

Overlap(b) ==
    raced' = raced \cup {u \in {sess[b].user} :
                           \E c \in Browsers \ {b} : Changing(c) /\ sess[c].user = u}

(* requireAal(2) and rejectRecovered.                                      *)
Strong(b) == sess[b].aal = 2 /\ ~sess[b].recovered

RemovePasskeyCheck(b, k) ==
    /\ Idle(b)
    /\ Strong(b)
    /\ k \in Held(sess[b].user)
    /\ Cardinality(Held(sess[b].user)) > 1
    /\ Await(b, "removePasskey", None, k)
    /\ Overlap(b)
    /\ UNCHANGED <<cache, row, rows, links, proved, otpVars, passkey, sess>>

RemovePasskey(b) ==
    /\ call[b].pc = "removePasskey"
    /\ passkey' = [passkey EXCEPT ![call[b].arg].state = "removed"]
    /\ Answer(b)
    /\ UNCHANGED <<emailVars, otpVars, sess>>

-----------------------------------------------------------------------------
(* Addresses.                                                              *)

(* The unverified row is there before the mail is sent.                    *)
AddEmail(b, e) ==
    /\ Idle(b)
    /\ Strong(b)
    /\ row[e] = NoRow
    /\ rows[e] < MaxRows
    /\ rows' = [rows EXCEPT ![e] = @ + 1]
    /\ row' = [row EXCEPT ![e] = [NoRow EXCEPT !.user = sess[b].user,
                                               !.id = rows[e] + 1]]
    /\ Await(b, "mail", e, rows[e] + 1)
    /\ UNCHANGED <<cache, links, proved, raced, otpVars, passkey, sess>>

AddEmailSent(b) ==
    /\ call[b].pc = "mail"
    /\ links' = links \cup {<<call[b].email, call[b].arg>>}
    /\ Answer(b)
    /\ UNCHANGED <<cache, row, rows, proved, raced, otpVars, passkey, sess>>

(* Whatever has the row's id is deleted.                                   *)
DropRow(e, id) == IF row[e].id = id THEN [row EXCEPT ![e] = NoRow] ELSE row

AddEmailFails(b) ==
    /\ call[b].pc = "mail"
    /\ row' = DropRow(call[b].email, call[b].arg)
    /\ Answer(b)
    /\ UNCHANGED <<cache, rows, links, proved, raced, otpVars, passkey, sess>>

(* The link counts for the row it was mailed for, and for that row only.   *)
VerifyEmail(x) ==
    /\ x \in links
    /\ links' = links \ {x}
    /\ IF row[x[1]].id = x[2]
         THEN /\ row' = [row EXCEPT ![x[1]].verified = TRUE]
              /\ proved' = proved \cup {<<row[x[1]].user, x[1]>>}
         ELSE UNCHANGED <<row, proved>>
    /\ UNCHANGED <<cache, rows, raced, otpVars, passkey, sess, call>>

LinkExpires(x) ==
    /\ x \in links
    /\ links' = links \ {x}
    /\ UNCHANGED <<cache, row, rows, proved, raced, otpVars, passkey, sess, call>>

Spare(u, e) == {f \in RowsOf(u) \ {e} : row[f].verified}

RemoveEmailCheck(b, e) ==
    /\ Idle(b)
    /\ Strong(b)
    /\ row[e].user = sess[b].user
    /\ row[e].verified \/ row[e].primary => Spare(sess[b].user, e) # {}
    /\ Await(b, "removeEmail", e, row[e].id)
    /\ Overlap(b)
    /\ UNCHANGED <<cache, row, rows, links, proved, otpVars, passkey, sess>>

(* Nothing is promoted in its place, and the cached address stays.         *)
RemoveEmail(b) ==
    /\ call[b].pc = "removeEmail"
    /\ row' = DropRow(call[b].email, call[b].arg)
    /\ Answer(b)
    /\ UNCHANGED <<cache, rows, links, proved, raced, otpVars, passkey, sess>>

(* evaluatePrivilegedGate.                                                 *)
Gate(b) ==
    /\ \E k \in Held(sess[b].user) : passkey[k].state = "active"
    /\ sess[b].cred # None => /\ sess[b].cred \in Held(sess[b].user)
                              /\ passkey[sess[b].cred].state = "active"

SetPrimaryCheck(b, e) ==
    /\ Idle(b)
    /\ Strong(b)
    /\ Gate(b)
    /\ row[e].user = sess[b].user /\ row[e].verified
    /\ Await(b, "clear", e, row[e].id)
    /\ Overlap(b)
    /\ UNCHANGED <<cache, row, rows, links, proved, otpVars, passkey, sess>>

(* The first statement picks the rows to clear; it waits for the row locks *)
(* of a transaction before it, but does not see what that one promoted.    *)
SetPrimaryClear(b) ==
    /\ call[b].pc = "clear"
    /\ Await(b, "primary", call[b].email,
             <<call[b].arg, {f \in RowsOf(sess[b].user) : row[f].primary}>>)
    /\ UNCHANGED <<emailVars, otpVars, passkey, sess>>

Demotes(x) == x[2]

SetPrimaryCommit(b) ==
    LET e == call[b].email
        x == call[b].arg
    IN
    /\ call[b].pc = "primary"
    /\ IF row[e].id = x[1]
         THEN /\ row' = [f \in Emails |->
                           IF f = e THEN [row[f] EXCEPT !.primary = TRUE]
                           ELSE IF f \in Demotes(x) THEN [row[f] EXCEPT !.primary = FALSE]
                           ELSE row[f]]
              /\ cache' = [cache EXCEPT ![row[e].user] = e]
         ELSE UNCHANGED <<row, cache>>
    /\ Answer(b)
    /\ UNCHANGED <<rows, links, proved, raced, otpVars, passkey, sess>>

-----------------------------------------------------------------------------

SignInStep ==
    \/ \E e \in Emails : RequestSignIn(e) \/ SignInExpires(e)
    \/ \E b \in Browsers :
         \/ \E e \in Emails : \/ FollowMagicLink(b, e)
                              \/ \E n \in 0..MaxCodes : SubmitOtp(b, e, n)
         \/ OtpMatches(b) \/ OtpMismatch(b) \/ OtpBurn(b)
         \/ ResolveOwner(b) \/ EnterByEmail(b) \/ CreateEmailUser(b) \/ SignOut(b)

PasskeyStep ==
    \E k \in Passkeys :
        \/ QuarantineLapses(k)
        \/ \E b \in Browsers : \/ EnrollPasskey(b, k) \/ PasskeySignIn(b, k)
                               \/ RemovePasskeyCheck(b, k)

AddressStep ==
    \/ \E x \in links : VerifyEmail(x) \/ LinkExpires(x)
    \/ \E b \in Browsers :
         \/ \E e \in Emails : \/ AddEmail(b, e) \/ RemoveEmailCheck(b, e)
                              \/ SetPrimaryCheck(b, e)
         \/ AddEmailSent(b) \/ AddEmailFails(b) \/ RemoveEmail(b)
         \/ SetPrimaryClear(b) \/ SetPrimaryCommit(b) \/ RemovePasskey(b)

CredNext == SignInStep \/ PasskeyStep \/ AddressStep

-----------------------------------------------------------------------------
(* Properties.                                                             *)

(* Every table holds values of its shape, and no code more attempts than   *)
(* the ceiling.                                                            *)
CredTypeOK ==
    /\ cache \in [Users -> Emails \cup {None}]
    /\ row \in [Emails -> [user : Users \cup {None}, verified : BOOLEAN,
                           primary : BOOLEAN, id : 0..MaxRows]]
    /\ rows \in [Emails -> 0..MaxRows]
    /\ links \subseteq Emails \X (1..MaxRows) /\ magic \in [Emails -> 0..MaxCodes]
    /\ otp \in [Emails -> [code : 0..MaxCodes, attempts : 0..OtpMaxAttempts]]
    /\ sent \in [Emails -> 0..MaxCodes]
    /\ passkey \in [Passkeys -> [user : Users \cup {None}, first : BOOLEAN,
                      state : {"none", "active", "quarantined", "removed"}]]
    /\ sess \in [Browsers -> [user : Users \cup {None}, aal : 0..2,
                   cred : Passkeys \cup {None}, recovered : BOOLEAN,
                   via : Emails \cup {None}]]
    /\ \A b \in Browsers : call[b].email \in Emails \cup {None}
    /\ proved \subseteq Users \X Emails /\ raced \subseteq Users

(* Whoever signs in with an inbox gets an account that has shown control   *)
(* of that inbox: never one that only claimed the address, however claims, *)
(* verifications, removals and first sign-ins interleave.  (Registering a  *)
(* passkey without a session, inside Auth.js, is not part of the model.)   *)
InboxProves ==
    \A b \in Browsers : sess[b].via # None => <<sess[b].user, sess[b].via>> \in proved

(* Only the passkey an account began with skips the cooldown: no sequence  *)
(* of sign-ins, recoveries, enrolments and removals skips it again, unless *)
(* two removals overlapped.                                                *)
OneBootstrap ==
    \A u \in Users \ raced :
        Cardinality({k \in Passkeys : passkey[k].user = u /\ passkey[k].first}) <= 1
=============================================================================
