------------------------ MODULE AccountAccessProofs -------------------------
(***************************************************************************)
(* Proofs about AccountAccess (Credentials and Recovery together), for any *)
(* number of accounts, addresses, passkeys, browsers, recovery codes and   *)
(* attempts; and, in the second part, about RecoveryConfig, the settings   *)
(* that attempts are measured by, for any badge types, weights,            *)
(* thresholds, delays and numbers of overlapping edits and attempts.       *)
(***************************************************************************)
EXTENDS AccountAccess, RecoveryConfig, FiniteSetTheorems, WellFoundedInduction, TLAPS

(* Addresses.  Row ids of an address are never used again; a verified row  *)
(* and a cached address have been proved.                                  *)
RowOK(e) ==
    /\ row[e].id <= rows[e]
    /\ row[e].id >= 1 => row[e].user \in Users
    /\ row[e].verified => row[e].id >= 1 /\ <<row[e].user, e>> \in proved

AddressInv ==
    /\ \A e \in Emails : RowOK(e)
    /\ \A u \in Users, e \in Emails : cache[u] = e => <<u, e>> \in proved

(* What a request that read addresses still relies on: the account it is   *)
(* about to enter proved the inbox; the row it is about to promote, if it  *)
(* is still there, is verified.                                            *)
CallOK(b) ==
    LET e == call[b].email
        x == call[b].arg
    IN  /\ call[b].pc \in {"match", "mismatch", "burn", "resolve", "create", "enter",
                           "mail", "removeEmail", "clear", "primary"} => e \in Emails
        /\ call[b].pc = "enter" => x \in Users /\ <<x, e>> \in proved
        /\ call[b].pc = "mail" => x \in 1..rows[e]
        /\ call[b].pc = "clear" =>
             x \in 1..rows[e] /\ (row[e].id = x => row[e].verified)
        /\ call[b].pc = "primary" =>
             x[1] \in 1..rows[e] /\ (row[e].id = x[1] => row[e].verified)
        /\ call[b].pc \in {"codes", "batch"} => sess[b].user \in Users

SessionInv ==
    /\ \A b \in Browsers : sess[b].aal = 2 => sess[b].user \in Users
    /\ \A k \in Passkeys : passkey[k].state # "none" => passkey[k].user \in Users

(* Passkeys.  A removal under way is of a key of its own account and,      *)
(* unless two changes overlapped, leaves another one.  So an account that  *)
(* ever had a passkey has one, and its next enrolment is not its first.    *)
RemovalOK(b) ==
    call[b].pc = "removePasskey" =>
        /\ call[b].arg \in Passkeys /\ sess[b].user \in Users
        /\ passkey[call[b].arg].user = sess[b].user
        /\ sess[b].user \notin raced => Held(sess[b].user) \ {call[b].arg} # {}

OverlapNoted ==
    \A b, c \in Browsers :
        b # c /\ Changing(b) /\ Changing(c) /\ sess[b].user = sess[c].user
           => sess[b].user \in raced

KeysStay == \A u \in Users \ raced, k \in Passkeys : passkey[k].user = u => Held(u) # {}

OneFirst ==
    \A k, l \in Passkeys :
        passkey[k].first /\ passkey[l].first /\ passkey[k].user = passkey[l].user
          /\ passkey[k].user \in Users \ raced => k = l

KeyInv ==
    /\ \A b \in Browsers : RemovalOK(b)
    /\ OverlapNoted
    /\ KeysStay
    /\ OneFirst

(* Recovery.  A code or an attempt that has been spent has at most one     *)
(* request on its way to a session, and none once somebody entered.        *)
Spent(s) == IF s \in Codes THEN code[s].state = "used" ELSE attempt[s].status = "consumed"
OnItsWay(q, s) == req[q].of = s /\ req[q].pc \in {"mint", "signin"}

EntryInv ==
    /\ \A s \in Sources : entered[s] \in {0, 1}
    /\ \A s \in Sources : ~Spent(s) => entered[s] = 0
    /\ \A s \in Sources, q \in Requests :
         OnItsWay(q, s) => Spent(s) /\ entered[s] = 0
    /\ \A s \in Sources, p, q \in Requests : OnItsWay(p, s) /\ OnItsWay(q, s) => p = q

AttemptRows == [user : Accounts \cup {Nobody}, need : Nat, score : Nat, expired : BOOLEAN,
                status : {"none", "pending", "satisfied", "consumed"},
                proofs : SUBSET (Types \X Weights)]
ReqRows == [pc : {"idle", "redeem", "record", "consume", "mint", "signin"},
            of : Sources \cup {Nobody}, type : Types \cup {Nobody}, weight : Nat]

CodeRows == [user : Accounts \cup {Nobody}, state : {"none", "unused", "used", "deleted"}]

CodesOK ==
    /\ code \in [Codes -> CodeRows]
    /\ \A c \in Codes : code[c].state # "none" => code[c].user \in Accounts

AttemptsOK ==
    /\ attempt \in [Attempts -> AttemptRows]
    /\ \A a \in Attempts : attempt[a].status # "none" => attempt[a].user \in Accounts

(* What a recovery request under way is about.                             *)
ReqOK(x) ==
    /\ x.pc = "redeem" => x.of \in Codes
    /\ x.pc \in {"record", "consume"} => x.of \in Attempts
    /\ x.pc = "record" => x.type \in Types /\ x.weight \in Weights
    /\ x.pc \in {"mint", "signin"} => x.of \in Sources

ReqsOK ==
    /\ req \in [Requests -> ReqRows]
    /\ \A q \in Requests : ReqOK(req[q])

TicketsOK ==
    /\ mails \subseteq Attempts \X Mails \X Types
    /\ holds \in [Accounts -> SUBSET Types]
    /\ ticket \in [Sources -> Accounts \cup {Nobody}]
    /\ entered \in [Sources -> Nat]

RecTyped == CodesOK /\ AttemptsOK /\ ReqsOK /\ TicketsOK

CredTyped ==
    /\ CredTypeOK
    /\ call = [b \in Browsers |-> call[b]]
    /\ \A e \in Emails : magic[e] <= sent[e]

CredPart ==
    /\ CredTyped
    /\ AddressInv
    /\ \A b \in Browsers : CallOK(b)
    /\ SessionInv
    /\ KeyInv
    /\ InboxProves

RecPart == RecTyped /\ EntryInv

AccInv == CredPart /\ RecPart

-----------------------------------------------------------------------------
(* What a step leaves alone.                                               *)

EmailRows == [user : Users \cup {None}, verified : BOOLEAN, primary : BOOLEAN,
              id : 0..MaxRows]
KeyRows == [user : Users \cup {None}, first : BOOLEAN,
            state : {"none", "active", "quarantined", "removed"}]
Tokens == [user : Users \cup {None}, aal : 0..2, cred : Passkeys \cup {None},
           recovered : BOOLEAN, via : Emails \cup {None}]

(* A row is deleted, or replaced by a newer one, or stays as verified as   *)
(* it was.                                                                 *)
RowsOnlyRenewed ==
    /\ proved \subseteq proved'
    /\ \A e \in Emails : rows[e] <= rows'[e]
    /\ \A e \in Emails : \/ row'[e].id = 0
                          \/ row'[e].id > rows[e]
                          \/ /\ row'[e].id = row[e].id
                             /\ row[e].verified => row'[e].verified

(* A request that waits is none the worse for it.                          *)
LEMMA CallKept ==
    ASSUME CredentialConstants, CredTyped, CredTyped', RowsOnlyRenewed,
           NEW c \in Browsers, CallOK(c), call'[c] = call[c], sess'[c] = sess[c]
    PROVE  CallOK(c)'
<1> DEFINE e == call[c].email
<1>1. CASE e \in Emails
  <2>1. /\ rows[e] \in Nat /\ rows'[e] \in Nat /\ rows[e] <= rows'[e]
        /\ row[e] \in EmailRows /\ row'[e] \in EmailRows
    BY <1>1 DEF CredentialConstants, CredTyped, CredTypeOK, RowsOnlyRenewed, EmailRows
  <2>2. \A n \in 1..rows[e] : (row[e].id = n => row[e].verified)
          => n \in 1..rows'[e] /\ (row'[e].id = n => row'[e].verified)
    BY <1>1, <2>1 DEF RowsOnlyRenewed, EmailRows
  <2>3. \A n \in 1..rows[e] : n \in 1..rows'[e]
    BY <2>1
  <2> QED
    BY <2>2, <2>3 DEF CallOK, RowsOnlyRenewed
<1>2. CASE e \notin Emails
  BY <1>2 DEF CallOK
<1> QED
  BY <1>1, <1>2

LEMMA AddressesSame ==
    ASSUME CredentialConstants, CredTyped, AddressInv, UNCHANGED emailVars
    PROVE  AddressInv' /\ RowsOnlyRenewed
<1> UNCHANGED <<cache, row, rows, links, proved, raced>>
  BY DEF emailVars
<1>1. AddressInv'
  BY DEF AddressInv, RowOK
<1>2. \A e \in Emails : rows[e] \in Nat
  BY DEF CredentialConstants, CredTyped, CredTypeOK
<1> QED
  BY <1>1, <1>2 DEF RowsOnlyRenewed

LEMMA KeysKept ==
    ASSUME KeyInv, UNCHANGED <<passkey, raced>>,
           \A c \in Browsers : Changing(c)' =>
               /\ Changing(c) /\ sess'[c] = sess[c]
               /\ call'[c] = call[c] \/ call'[c].pc # "removePasskey"
    PROVE  KeyInv'
<1>1. ASSUME NEW c \in Browsers PROVE RemovalOK(c)'
  BY DEF KeyInv, RemovalOK, Changing, Held
<1>2. OverlapNoted'
  BY DEF KeyInv, OverlapNoted
<1>3. KeysStay' /\ OneFirst'
  BY DEF KeyInv, KeysStay, OneFirst, Held
<1> QED
  BY <1>1, <1>2, <1>3 DEF KeyInv

LEMMA KeysSame ==
    ASSUME KeyInv, UNCHANGED <<passkey, raced>>,
           \A c \in Browsers : Changing(c)' => call'[c] = call[c] /\ sess'[c] = sess[c]
    PROVE  KeyInv'
<1>1. \A c \in Browsers : Changing(c)' => Changing(c)
  BY DEF Changing
<1> QED
  BY <1>1, KeysKept

(* A change that begins while another one of the account is under way is   *)
(* noted as overlapping it.                                                *)
LEMMA OverlapStep ==
    ASSUME CredTyped, KeyInv, NEW b \in Browsers, Overlap(b), ~Changing(b),
           UNCHANGED <<passkey, sess>>, sess[b].user \in Users,
           \A c \in Browsers \ {b} : call'[c] = call[c],
           RemovalOK(b)'
    PROVE  KeyInv' /\ raced' \subseteq Users
<1>1. raced \subseteq raced' /\ raced' \subseteq Users
  BY DEF Overlap, CredTyped, CredTypeOK
<1>2. \A c \in Browsers \ {b} : Changing(c)' <=> Changing(c)
  BY DEF Changing
<1>3. \A c \in Browsers \ {b} : Changing(c) /\ sess[c].user = sess[b].user
                                => sess[b].user \in raced'
  BY DEF Overlap
<1>4. ASSUME NEW c \in Browsers PROVE RemovalOK(c)'
  BY <1>1 DEF KeyInv, RemovalOK, Held
<1>5. OverlapNoted'
  BY <1>1, <1>2, <1>3 DEF KeyInv, OverlapNoted
<1>6. KeysStay' /\ OneFirst'
  BY <1>1 DEF KeyInv, KeysStay, OneFirst, Held
<1> QED
  BY <1>1, <1>4, <1>5, <1>6 DEF KeyInv

(* A step of one browser: what is left to show is what is new.             *)
LEMMA BrowserStep ==
    ASSUME CredentialConstants, CredPart, CredTyped', AddressInv', RowsOnlyRenewed, KeyInv',
           NEW b \in Browsers, CallOK(b)',
           \A c \in Browsers \ {b} : call'[c] = call[c] /\ sess'[c] = sess[c],
           sess'[b].aal = 2 => sess'[b].user \in Users,
           sess'[b].via # None => <<sess'[b].user, sess'[b].via>> \in proved',
           \A k \in Passkeys : passkey'[k].state # "none" => passkey'[k].user \in Users
    PROVE  CredPart'
<1>1. \A c \in Browsers : CallOK(c)'
  BY CallKept DEF CredPart
<1>2. SessionInv'
  BY DEF CredPart, SessionInv
<1>3. InboxProves'
  BY DEF CredPart, InboxProves, RowsOnlyRenewed
<1> QED
  BY <1>1, <1>2, <1>3 DEF CredPart

(* A step that only reads, or only changes sign-in codes.                  *)
LEMMA QuietStep ==
    ASSUME CredentialConstants, CredPart, CredTyped', UNCHANGED <<emailVars, passkey, sess>>,
           NEW b \in Browsers, CallOK(b)', ~Changing(b)',
           \A c \in Browsers \ {b} : call'[c] = call[c]
    PROVE  CredPart'
<1>1. AddressInv' /\ RowsOnlyRenewed
  BY AddressesSame DEF CredPart
<1>2. KeyInv'
  BY KeysSame DEF CredPart, emailVars
<1> QED
  BY <1>1, <1>2, BrowserStep DEF CredPart, SessionInv, InboxProves, emailVars

(* call is a record for each browser; what an await leaves there.          *)
LEMMA Awaits ==
    ASSUME CredTyped, NEW b \in Browsers, NEW pc, NEW e, NEW x, Await(b, pc, e, x)
    PROVE  /\ call' = [c \in Browsers |-> call'[c]]
           /\ call'[b].pc = pc /\ call'[b].email = e /\ call'[b].arg = x
           /\ \A c \in Browsers \ {b} : call'[c] = call[c]
BY DEF CredTyped, Await

LEMMA Answers ==
    ASSUME CredTyped, NEW b \in Browsers, Answer(b)
    PROVE  /\ call' = [c \in Browsers |-> call'[c]]
           /\ call'[b].pc = "idle" /\ call'[b].email = None
           /\ \A c \in Browsers \ {b} : call'[c] = call[c]
BY DEF CredTyped, Answer, NoCall

(* A request that has been answered asks nothing of the tables.            *)
LEMMA IdleOK ==
    ASSUME NEW b \in Browsers, call'[b].pc = "idle"
    PROVE  CallOK(b)' /\ ~Changing(b)'
BY DEF CallOK, Changing

-----------------------------------------------------------------------------
(* Sign-in.                                                                *)

LEMMA LinkSpent ==
    ASSUME CredentialConstants, CredTyped, NEW e \in Emails, magic[e] > 0,
           magic' = [magic EXCEPT ![e] = @ - 1], UNCHANGED sent
    PROVE  magic' \in [Emails -> 0..MaxCodes] /\ \A f \in Emails : magic'[f] <= sent'[f]
<1>1. /\ magic \in [Emails -> 0..MaxCodes] /\ sent \in [Emails -> 0..MaxCodes]
      /\ \A f \in Emails : magic[f] <= sent[f] /\ MaxCodes \in Nat
  BY DEF CredentialConstants, CredTyped, CredTypeOK
<1>2. magic[e] - 1 \in 0..MaxCodes /\ magic[e] - 1 <= sent[e]
  BY <1>1
<1>3. magic'[e] = magic[e] - 1 /\ \A f \in Emails \ {e} : magic'[f] = magic[f]
  BY <1>1
<1> QED
  BY <1>1, <1>2, <1>3

LEMMA MailSteps ==
    ASSUME CredentialConstants, CredPart, NEW e \in Emails,
           RequestSignIn(e) \/ SignInExpires(e)
    PROVE  CredPart'
<1> UNCHANGED <<emailVars, passkey, sess, call>>
  BY DEF RequestSignIn, SignInExpires
<1>1. CredTyped'
  <2>1. CASE RequestSignIn(e)
    <3>1. /\ sent \in [Emails -> 0..MaxCodes] /\ magic \in [Emails -> 0..MaxCodes]
          /\ otp \in [Emails -> [code : 0..MaxCodes, attempts : 0..OtpMaxAttempts]]
          /\ \A f \in Emails : magic[f] <= sent[f]
          /\ MaxCodes \in Nat /\ OtpMaxAttempts \in Nat
      BY DEF CredPart, CredTyped, CredTypeOK, CredentialConstants
    <3>2. /\ sent[e] < MaxCodes /\ sent' = [sent EXCEPT ![e] = @ + 1]
          /\ otp' = [otp EXCEPT ![e] = [code |-> sent[e] + 1, attempts |-> 0]]
          /\ magic' = [magic EXCEPT ![e] = @ + 1]
      <4>1. [NoOtp EXCEPT !.code = sent[e] + 1] = [code |-> sent[e] + 1, attempts |-> 0]
        BY DEF NoOtp
      <4> QED
        BY <2>1, <4>1 DEF RequestSignIn
    <3>3. sent[e] + 1 \in 0..MaxCodes /\ magic[e] + 1 \in 0..MaxCodes
      BY <3>1, <3>2
    <3>4. [code |-> sent[e] + 1, attempts |-> 0]
            \in [code : 0..MaxCodes, attempts : 0..OtpMaxAttempts]
      BY <3>1, <3>3
    <3>5. /\ sent' \in [Emails -> 0..MaxCodes] /\ magic' \in [Emails -> 0..MaxCodes]
          /\ otp' \in [Emails -> [code : 0..MaxCodes, attempts : 0..OtpMaxAttempts]]
      BY <3>1, <3>2, <3>3, <3>4
    <3>6. \A f \in Emails : magic'[f] <= sent'[f]
      BY <3>1, <3>2, <3>3
    <3> QED
      BY <3>5, <3>6 DEF CredPart, CredTyped, CredTypeOK, emailVars
  <2>2. CASE SignInExpires(e)
    <3>1. NoOtp \in [code : 0..MaxCodes, attempts : 0..OtpMaxAttempts]
      BY DEF NoOtp, CredentialConstants
    <3>2. CASE /\ magic[e] > 0 /\ magic' = [magic EXCEPT ![e] = @ - 1]
               /\ UNCHANGED <<otp, sent>>
      BY <3>2, LinkSpent DEF CredPart, CredTyped, CredTypeOK, emailVars
    <3>3. CASE otp' = [otp EXCEPT ![e] = NoOtp] /\ UNCHANGED <<magic, sent>>
      BY <3>1, <3>3 DEF CredPart, CredTyped, CredTypeOK, emailVars
    <3> QED
      BY <2>2, <3>2, <3>3 DEF SignInExpires
  <2> QED
    BY <2>1, <2>2
<1>2. AddressInv' /\ RowsOnlyRenewed
  BY AddressesSame DEF CredPart
<1>3. KeyInv'
  BY KeysSame DEF CredPart, emailVars
<1>4. \A c \in Browsers : CallOK(c)'
  BY <1>1, <1>2, CallKept DEF CredPart
<1>5. SessionInv' /\ InboxProves'
  BY DEF CredPart, SessionInv, InboxProves, emailVars
<1> QED
  BY <1>1, <1>2, <1>3, <1>4, <1>5 DEF CredPart

LEMMA FollowLinkStep ==
    ASSUME CredentialConstants, CredPart, NEW b \in Browsers, NEW e \in Emails,
           FollowMagicLink(b, e)
    PROVE  CredPart'
<1>1. CredTyped
  BY DEF CredPart
<1>2. /\ call' = [c \in Browsers |-> call'[c]]
      /\ call'[b].pc = "resolve" /\ call'[b].email = e
      /\ \A c \in Browsers \ {b} : call'[c] = call[c]
  BY <1>1, Awaits DEF FollowMagicLink
<1>3. CredTyped'
  BY <1>1, <1>2, LinkSpent DEF FollowMagicLink, CredTyped, CredTypeOK, emailVars
<1>4. CallOK(b)' /\ ~Changing(b)'
  BY <1>2 DEF CallOK, Changing
<1> QED
  BY <1>2, <1>3, <1>4, QuietStep DEF FollowMagicLink

LEMMA SubmitOtpStep ==
    ASSUME CredentialConstants, CredPart, NEW b \in Browsers, NEW e \in Emails, NEW n,
           SubmitOtp(b, e, n)
    PROVE  CredPart'
<1>1. CredTyped
  BY DEF CredPart
<1>2. /\ call' = [c \in Browsers |-> call'[c]]
      /\ call'[b].pc \in {"match", "mismatch"} /\ call'[b].email = e
      /\ \A c \in Browsers \ {b} : call'[c] = call[c]
  BY <1>1, Awaits DEF SubmitOtp
<1>3. CredTyped'
  BY <1>1, <1>2 DEF SubmitOtp, CredTyped, CredTypeOK, emailVars, otpVars
<1>4. CallOK(b)' /\ ~Changing(b)'
  BY <1>2 DEF CallOK, Changing
<1> QED
  BY <1>2, <1>3, <1>4, QuietStep DEF SubmitOtp

LEMMA OtpSteps ==
    ASSUME CredentialConstants, CredPart, NEW b \in Browsers,
           OtpMatches(b) \/ OtpMismatch(b) \/ OtpBurn(b)
    PROVE  CredPart'
<1> DEFINE e == call[b].email
<1>1. CredTyped /\ e \in Emails
  BY DEF CredPart, CallOK, OtpMatches, OtpMismatch, OtpBurn
<1>2. /\ call' = [c \in Browsers |-> call'[c]]
      /\ \/ call'[b].pc \in {"resolve", "burn"} /\ call'[b].email = e
         \/ call'[b].pc = "idle" /\ call'[b].email = None
      /\ \A c \in Browsers \ {b} : call'[c] = call[c]
  BY <1>1, Awaits, Answers DEF OtpMatches, OtpMismatch, OtpBurn
<1>3. UNCHANGED <<emailVars, magic, sent, passkey, sess>>
  BY DEF OtpMatches, OtpMismatch, OtpBurn
<1>4. otp' \in [Emails -> [code : 0..MaxCodes, attempts : 0..OtpMaxAttempts]]
  <2>1. NoOtp \in [code : 0..MaxCodes, attempts : 0..OtpMaxAttempts]
    BY DEF NoOtp, CredentialConstants
  <2>2. CASE OtpMatches(b) \/ OtpBurn(b)
    BY <1>1, <2>1, <2>2 DEF OtpMatches, OtpBurn, CredTyped, CredTypeOK
  <2>3. CASE OtpMismatch(b)
    <3>1. otp[e] \in [code : 0..MaxCodes, attempts : 0..OtpMaxAttempts]
      BY <1>1 DEF CredTyped, CredTypeOK
    <3>2. CASE UNCHANGED otp
      BY <1>1, <3>2 DEF CredTyped, CredTypeOK
    <3>3. CASE /\ otp' = [otp EXCEPT ![e].attempts = @ + 1]
               /\ otp[e].attempts < OtpMaxAttempts
      <4>1. otp[e].attempts + 1 \in 0..OtpMaxAttempts
        BY <3>1, <3>3 DEF CredentialConstants
      <4>2. [otp[e] EXCEPT !.attempts = @ + 1]
               \in [code : 0..MaxCodes, attempts : 0..OtpMaxAttempts]
        BY <3>1, <4>1
      <4> QED
        BY <1>1, <3>3, <4>2 DEF CredTyped, CredTypeOK
    <3> QED
      BY <2>3, <3>2, <3>3 DEF OtpMismatch, Countable
  <2> QED
    BY <2>2, <2>3
<1>5. CredTyped'
  BY <1>1, <1>2, <1>3, <1>4 DEF CredTyped, CredTypeOK, emailVars
<1>6. CallOK(b)' /\ ~Changing(b)'
  BY <1>1, <1>2 DEF CallOK, Changing
<1> QED
  BY <1>2, <1>3, <1>5, <1>6, QuietStep

(* Who is found for an inbox has proved it.                                *)
LEMMA ResolveOwnerStep ==
    ASSUME CredentialConstants, CredPart, NEW b \in Browsers, ResolveOwner(b)
    PROVE  CredPart'
<1> DEFINE e == call[b].email
<1>1. CredTyped /\ e \in Emails
  BY DEF CredPart, CallOK, ResolveOwner
<1>2. \A u \in Owner(e) : u \in Users /\ <<u, e>> \in proved
  <2>1. row[e] \in EmailRows
    BY <1>1 DEF CredTyped, CredTypeOK, EmailRows
  <2> QED
    BY <1>1, <2>1 DEF CredPart, AddressInv, RowOK, Owner, EmailRows
<1>3. /\ call' = [c \in Browsers |-> call'[c]]
      /\ \/ call'[b].pc = "create" /\ call'[b].email = e
         \/ \E u \in Owner(e) : call'[b].pc = "enter" /\ call'[b].email = e /\ call'[b].arg = u
      /\ \A c \in Browsers \ {b} : call'[c] = call[c]
  BY <1>1, Awaits DEF ResolveOwner
<1>4. UNCHANGED <<emailVars, otpVars, passkey, sess>>
  BY DEF ResolveOwner
<1>5. CredTyped'
  BY <1>1, <1>3, <1>4 DEF CredTyped, CredTypeOK, emailVars, otpVars
<1>6. CallOK(b)' /\ ~Changing(b)'
  <2> UNCHANGED proved
    BY <1>4 DEF emailVars
  <2> QED
    BY <1>1, <1>2, <1>3 DEF CallOK, Changing
<1> QED
  BY <1>3, <1>4, <1>5, <1>6, QuietStep

(* A session begins or ends and nothing else changes but the request.      *)
LEMMA SessionStep ==
    ASSUME CredentialConstants, CredPart, UNCHANGED <<emailVars, otpVars, passkey>>,
           NEW b \in Browsers, NEW t \in Tokens, sess' = [sess EXCEPT ![b] = t],
           t.aal = 2 => t.user \in Users,
           t.via # None => <<t.user, t.via>> \in proved,
           call'[b].pc = "idle", call'[b].email = None,
           call' = [c \in Browsers |-> call'[c]],
           \A c \in Browsers \ {b} : call'[c] = call[c]
    PROVE  CredPart'
<1>1. /\ sess' \in [Browsers -> Tokens] /\ sess'[b] = t
      /\ \A c \in Browsers \ {b} : sess'[c] = sess[c]
  BY DEF CredPart, CredTyped, CredTypeOK, Tokens
<1>2. CredTyped'
  BY <1>1 DEF CredPart, CredTyped, CredTypeOK, Tokens, emailVars, otpVars
<1>3. AddressInv' /\ RowsOnlyRenewed
  BY AddressesSame DEF CredPart
<1>4. CallOK(b)' /\ ~Changing(b)'
  BY IdleOK
<1>5. KeyInv'
  BY <1>1, <1>4, KeysSame DEF CredPart, emailVars
<1>6. \A k \in Passkeys : passkey'[k].state # "none" => passkey'[k].user \in Users
  BY DEF CredPart, SessionInv
<1> UNCHANGED proved
  BY DEF emailVars
<1> QED
  BY <1>1, <1>2, <1>3, <1>4, <1>5, <1>6, BrowserStep

LEMMA TokenShapes ==
    ASSUME CredentialConstants
    PROVE  /\ NoSess \in Tokens /\ NoSess.aal = 0 /\ NoSess.via = None
           /\ \A u \in Users, e \in Emails :
                /\ EmailSession(u, e) \in Tokens
                /\ EmailSession(u, e).user = u /\ EmailSession(u, e).via = e
                /\ EmailSession(u, e).aal = 1
           /\ \A u \in Users, k \in Passkeys :
                /\ KeySession(k, u) \in Tokens
                /\ KeySession(k, u).user = u /\ KeySession(k, u).via = None
<1>1. NoSess \in Tokens /\ NoSess.aal = 0 /\ NoSess.via = None
  BY DEF Tokens, NoSess
<1>2. ASSUME NEW u \in Users, NEW e \in Emails
      PROVE  /\ EmailSession(u, e) \in Tokens
             /\ EmailSession(u, e).user = u /\ EmailSession(u, e).via = e
             /\ EmailSession(u, e).aal = 1
  <2> DEFINE one == 1
  <2>1. one \in 0..2
    OBVIOUS
  <2>2. EmailSession(u, e) = [NoSess EXCEPT !.user = u, !.aal = one, !.via = e]
    BY DEF EmailSession
  <2>3. EmailSession(u, e).aal = one => EmailSession(u, e).aal = 1
    OBVIOUS
  <2> HIDE DEF one
  <2> QED
    BY <1>1, <2>1, <2>2, <2>3 DEF Tokens
<1>3. ASSUME NEW u \in Users, NEW k \in Passkeys
      PROVE  /\ KeySession(k, u) \in Tokens
             /\ KeySession(k, u).user = u /\ KeySession(k, u).via = None
  <2> DEFINE two == 2
  <2>1. two \in 0..2
    OBVIOUS
  <2>2. KeySession(k, u) = [NoSess EXCEPT !.user = u, !.aal = two, !.cred = k]
    BY DEF KeySession
  <2> HIDE DEF two
  <2> QED
    BY <1>1, <2>1, <2>2 DEF Tokens
<1> QED
  BY <1>1, <1>2, <1>3

LEMMA EnterStep ==
    ASSUME CredentialConstants, CredPart, NEW b \in Browsers, EnterByEmail(b)
    PROVE  CredPart'
<1> DEFINE e == call[b].email
           u == call[b].arg
           t == EmailSession(u, e)
<1>1. CredTyped /\ e \in Emails /\ u \in Users /\ <<u, e>> \in proved
  BY DEF CredPart, CallOK, EnterByEmail
<1>2. t \in Tokens /\ t.user = u /\ t.via = e /\ t.aal = 1
  BY <1>1, TokenShapes
<1>3. sess' = [sess EXCEPT ![b] = t] /\ Answer(b) /\ UNCHANGED <<emailVars, otpVars, passkey>>
  BY DEF EnterByEmail
<1> HIDE DEF t
<1> QED
  BY <1>1, <1>2, <1>3, Answers, SessionStep

LEMMA SignOutStep ==
    ASSUME CredentialConstants, CredPart, NEW b \in Browsers, SignOut(b)
    PROVE  CredPart'
<1>1. call[b].pc = "idle" /\ call[b].email = None /\ call' = call
  BY DEF SignOut, Idle, NoCall
<1>2. call' = [c \in Browsers |-> call'[c]]
  BY <1>1 DEF CredPart, CredTyped
<1> QED
  <2>1. NoSess \in Tokens /\ NoSess.aal # 2 /\ NoSess.via = None
    BY TokenShapes
  <2>2. sess' = [sess EXCEPT ![b] = NoSess] /\ UNCHANGED <<emailVars, otpVars, passkey>>
    BY DEF SignOut
  <2> QED
    BY <1>1, <1>2, <2>1, <2>2, SessionStep

LEMMA PasskeySignInStep ==
    ASSUME CredentialConstants, CredPart, NEW b \in Browsers, NEW k \in Passkeys,
           PasskeySignIn(b, k)
    PROVE  CredPart'
<1> DEFINE t == KeySession(k, passkey[k].user)
<1>1. call[b].pc = "idle" /\ call[b].email = None /\ call' = call
  BY DEF PasskeySignIn, Idle, NoCall
<1>2. call' = [c \in Browsers |-> call'[c]]
  BY <1>1 DEF CredPart, CredTyped
<1>3. passkey[k].user \in Users
  BY DEF CredPart, SessionInv, PasskeySignIn
<1>4. t \in Tokens /\ t.user \in Users /\ t.via = None
  BY <1>3, TokenShapes
<1>5. sess' = [sess EXCEPT ![b] = t] /\ UNCHANGED <<emailVars, otpVars, passkey>>
  BY DEF PasskeySignIn
<1> HIDE DEF t
<1> QED
  BY <1>1, <1>2, <1>4, <1>5, SessionStep

(* Whoever the code or attempt belongs to; the session is below AAL2.      *)
LEMMA RecoverySignInCred ==
    ASSUME CredentialConstants, OneWorld, RecoveryConstants, CredPart, RecTyped, EntryInv,
           NEW q \in Browsers, RecoverySignIn(q)
    PROVE  CredPart'
<1> DEFINE s == req[q].of
           u == UserOf(s)
           t == [NoSess EXCEPT !.user = u, !.aal = 1, !.recovered = TRUE]
<1>1. call[q].pc = "idle" /\ call[q].email = None /\ call' = call
  BY DEF RecoverySignIn, Idle, NoCall
<1>2. call' = [c \in Browsers |-> call'[c]]
  BY <1>1 DEF CredPart, CredTyped
<1>3. s \in Sources /\ Spent(s)
  BY DEF OneWorld, RecTyped, ReqsOK, ReqOK, EntryInv, OnItsWay, RecoverySignIn, SpendTicket
<1>4. u \in Users
  BY <1>3 DEF Spent, UserOf, RecTyped, CodesOK, AttemptsOK, OneWorld, Sources
<1>5. t \in Tokens /\ t.aal # 2 /\ t.via = None
  <2> DEFINE one == 1
  <2>1. one \in 0..2 /\ one # 2
    OBVIOUS
  <2>2. t = [NoSess EXCEPT !.user = u, !.aal = one, !.recovered = TRUE]
    OBVIOUS
  <2> HIDE DEF one, t, u
  <2> QED
    BY <1>4, <2>1, <2>2, TokenShapes DEF Tokens
<1>6. sess' = [sess EXCEPT ![q] = t] /\ UNCHANGED <<emailVars, otpVars, passkey>>
  BY DEF RecoverySignIn
<1> HIDE DEF t
<1> QED
  BY <1>1, <1>2, <1>5, <1>6, SessionStep

(* createEmailUser: a new account, which has shown control of the inbox.   *)
LEMMA CreateUserStep ==
    ASSUME CredentialConstants, CredPart, NEW b \in Browsers, CreateEmailUser(b)
    PROVE  CredPart'
<1> DEFINE e == call[b].email
<1>1. CredTyped /\ e \in Emails
  BY DEF CredPart, CallOK, CreateEmailUser
<1>2. /\ call' = [c \in Browsers |-> call'[c]]
      /\ call'[b].pc = "idle" /\ call'[b].email = None
      /\ \A c \in Browsers \ {b} : call'[c] = call[c]
  BY <1>1, Answers DEF CreateEmailUser
<1>3. CallOK(b)' /\ ~Changing(b)'
  BY <1>2, IdleOK
<1>4. UNCHANGED <<otpVars, passkey>>
  BY DEF CreateEmailUser
<1>5. CASE UNCHANGED <<emailVars, sess>>
  <2>1. CredTyped'
    BY <1>1, <1>2, <1>4, <1>5 DEF CredTyped, CredTypeOK, emailVars, otpVars
  <2> QED
    BY <1>2, <1>3, <1>4, <1>5, <2>1, QuietStep
<1>6. CASE ~UNCHANGED <<emailVars, sess>>
  <2> DEFINE t(u) == EmailSession(u, e)
             r(u) == [user |-> u, verified |-> TRUE, primary |-> TRUE, id |-> rows[e] + 1]
  <2>1. PICK u \in Users :
            /\ rows[e] < MaxRows
            /\ cache' = [cache EXCEPT ![u] = e]
            /\ rows' = [rows EXCEPT ![e] = @ + 1]
            /\ row' = [row EXCEPT ![e] = r(u)]
            /\ proved' = proved \cup {<<u, e>>}
            /\ sess' = [sess EXCEPT ![b] = t(u)]
            /\ UNCHANGED <<links, raced>>
    BY <1>6 DEF CreateEmailUser
  <2>2. t(u) \in Tokens /\ t(u).user = u /\ t(u).via = e /\ t(u).aal = 1
    BY <1>1, TokenShapes
  <2>3. /\ rows[e] \in Nat /\ rows[e] + 1 \in 0..MaxRows /\ r(u) \in EmailRows
        /\ r(u).user = u /\ r(u).verified /\ r(u).id = rows[e] + 1
    BY <1>1, <2>1 DEF CredTyped, CredTypeOK, EmailRows, CredentialConstants
  <2> HIDE DEF t, r
  <2>4. /\ sess' \in [Browsers -> Tokens] /\ sess'[b] = t(u)
        /\ \A c \in Browsers \ {b} : sess'[c] = sess[c]
    BY <1>1, <2>1, <2>2 DEF CredTyped, CredTypeOK, Tokens
  <2>5. /\ row' \in [Emails -> EmailRows] /\ row'[e] = r(u)
        /\ \A f \in Emails \ {e} : row'[f] = row[f]
    BY <1>1, <2>1, <2>3 DEF CredTyped, CredTypeOK, EmailRows
  <2>6. /\ rows' \in [Emails -> 0..MaxRows] /\ rows'[e] = rows[e] + 1
        /\ \A f \in Emails \ {e} : rows'[f] = rows[f]
    BY <1>1, <2>1, <2>3 DEF CredTyped, CredTypeOK
  <2>7. /\ cache' \in [Users -> Emails \cup {None}] /\ cache'[u] = e
        /\ \A v \in Users \ {u} : cache'[v] = cache[v]
    BY <1>1, <2>1 DEF CredTyped, CredTypeOK
  <2>8. CredTyped'
    <3>1. proved' \subseteq Users \X Emails
      BY <1>1, <2>1 DEF CredTyped, CredTypeOK
    <3>2. \A c \in Browsers : call'[c].email \in Emails \cup {None}
      BY <1>1, <1>2 DEF CredTyped, CredTypeOK
    <3> QED
      BY <1>1, <1>2, <1>4, <2>1, <2>4, <2>5, <2>6, <2>7, <3>1, <3>2
         DEF CredTyped, CredTypeOK, otpVars, Tokens, EmailRows
  <2>9. AddressInv'
    BY <2>1, <2>3, <2>5, <2>6, <2>7 DEF CredPart, AddressInv, RowOK
  <2>10. RowsOnlyRenewed
    <3>1. \A f \in Emails : rows[f] \in Nat
      BY <1>1 DEF CredTyped, CredTypeOK, CredentialConstants
    <3> QED
      BY <2>1, <2>3, <2>5, <2>6, <3>1 DEF RowsOnlyRenewed
  <2>11. KeyInv'
    BY <1>2, <1>3, <1>4, <2>1, <2>4, KeysSame DEF CredPart
  <2>12. \A k \in Passkeys : passkey'[k].state # "none" => passkey'[k].user \in Users
    BY <1>4 DEF CredPart, SessionInv
  <2> QED
    BY <1>2, <1>3, <2>1, <2>2, <2>4, <2>8, <2>9, <2>10, <2>11, <2>12, BrowserStep
<1> QED
  BY <1>5, <1>6

-----------------------------------------------------------------------------
(* Passkeys.                                                               *)

LEMMA QuarantineLapsesStep ==
    ASSUME CredentialConstants, CredPart, NEW k \in Passkeys, QuarantineLapses(k)
    PROVE  CredPart'
<1>1. /\ passkey[k] \in KeyRows /\ passkey[k].state = "quarantined"
      /\ UNCHANGED <<emailVars, otpVars, sess, call>>
  BY DEF QuarantineLapses, CredPart, CredTyped, CredTypeOK, KeyRows
<1>2. [passkey[k] EXCEPT !.state = "active"] \in KeyRows
  BY <1>1 DEF KeyRows
<1>3. /\ passkey' \in [Passkeys -> KeyRows] /\ passkey'[k].state = "active"
      /\ passkey'[k].user = passkey[k].user /\ passkey'[k].first = passkey[k].first
      /\ \A l \in Passkeys \ {k} : passkey'[l] = passkey[l]
  BY <1>1, <1>2 DEF QuarantineLapses, CredPart, CredTyped, CredTypeOK, KeyRows
<1>4. CredTyped'
  BY <1>1, <1>3 DEF CredPart, CredTyped, CredTypeOK, KeyRows, emailVars, otpVars
<1>5. AddressInv' /\ RowsOnlyRenewed
  BY <1>1, AddressesSame DEF CredPart
<1>6. \A c \in Browsers : CallOK(c)'
  BY <1>1, <1>4, <1>5, CallKept DEF CredPart
<1>7. \A u : Held(u)' = Held(u)
  BY <1>1, <1>3 DEF Held
<1>8. KeyInv'
  <2> UNCHANGED <<sess, call, raced>> /\ \A c : Changing(c)' = Changing(c)
    BY <1>1 DEF emailVars, Changing
  <2>1. \A l \in Passkeys : passkey'[l].user = passkey[l].user /\ passkey'[l].first = passkey[l].first
    BY <1>3
  <2>2. \A c \in Browsers : RemovalOK(c)'
    BY <1>7, <2>1 DEF CredPart, KeyInv, RemovalOK
  <2> QED
    BY <1>7, <2>1, <2>2 DEF CredPart, KeyInv, OverlapNoted, KeysStay, OneFirst
<1>9. SessionInv' /\ InboxProves'
  BY <1>1, <1>3 DEF CredPart, SessionInv, InboxProves, emailVars
<1> QED
  BY <1>4, <1>5, <1>6, <1>8, <1>9 DEF CredPart

(* A key is the first of its account only if the account never had one.    *)
LEMMA EnrollStep ==
    ASSUME CredentialConstants, CredPart, NEW b \in Browsers, NEW k \in Passkeys,
           EnrollPasskey(b, k)
    PROVE  CredPart'
<1> DEFINE u == sess[b].user
           t == KeySession(k, u)
           x == [user |-> u, state |-> IF FirstPasskey(u) THEN "active" ELSE "quarantined",
                 first |-> FirstPasskey(u)]
<1>1. /\ call[b].pc = "idle" /\ call[b].email = None
      /\ UNCHANGED <<emailVars, otpVars, call>>
  BY DEF EnrollPasskey, Idle, NoCall
<1>2. u \in Users /\ passkey[k].user = None /\ None \notin Users
  BY DEF EnrollPasskey, NoKey, CredPart, CredTyped, CredTypeOK, CredentialConstants
<1>3. /\ x \in KeyRows /\ x.user = u /\ x.state \in {"active", "quarantined"}
      /\ x.first = (Held(u) = {})
  BY <1>2 DEF KeyRows, FirstPasskey
<1>4. t \in Tokens /\ t.user = u /\ t.via = None
  BY <1>2, TokenShapes
<1>5. passkey' = [passkey EXCEPT ![k] = x] /\ sess' = [sess EXCEPT ![b] = t]
  BY DEF EnrollPasskey
<1> HIDE DEF x, t
<1>6. /\ passkey' \in [Passkeys -> KeyRows] /\ passkey'[k] = x
      /\ \A l \in Passkeys \ {k} : passkey'[l] = passkey[l]
  BY <1>3, <1>5 DEF CredPart, CredTyped, CredTypeOK, KeyRows
<1>7. /\ sess' \in [Browsers -> Tokens] /\ sess'[b] = t
      /\ \A c \in Browsers \ {b} : sess'[c] = sess[c]
  BY <1>4, <1>5 DEF CredPart, CredTyped, CredTypeOK, Tokens
<1>8. CredTyped'
  BY <1>1, <1>6, <1>7 DEF CredPart, CredTyped, CredTypeOK, KeyRows, Tokens, emailVars, otpVars
<1>9. AddressInv' /\ RowsOnlyRenewed
  BY <1>1, AddressesSame DEF CredPart
<1>10. CallOK(b)' /\ ~Changing(b)'
  BY <1>1, IdleOK
<1>11. KeyInv'
  <2>1. \A v \in Users : Held(v) \subseteq Held(v)'
    BY <1>2, <1>6 DEF Held
  <2>2. \A v \in Users : v = u => k \in Held(v)'
    BY <1>3, <1>6 DEF Held
  <2>3. UNCHANGED raced
    BY <1>1 DEF emailVars
  <2>4. ASSUME NEW c \in Browsers PROVE RemovalOK(c)'
    <3>1. CASE c = b
      BY <1>1, <3>1 DEF RemovalOK
    <3>2. CASE c # b
      <4>1. RemovalOK(c) /\ call'[c] = call[c] /\ sess'[c] = sess[c]
        BY <1>1, <1>7, <3>2 DEF CredPart, KeyInv
      <4> QED
        BY <1>2, <1>6, <2>1, <2>3, <4>1 DEF RemovalOK
    <3> QED
      BY <3>1, <3>2
  <2>5. OverlapNoted'
    <3>1. \A c \in Browsers : Changing(c)' => Changing(c) /\ c # b
      BY <1>1, <1>10 DEF Changing
    <3> QED
      BY <1>7, <2>3, <3>1 DEF CredPart, KeyInv, OverlapNoted
  <2>6. KeysStay'
    BY <1>3, <1>6, <2>1, <2>2, <2>3 DEF CredPart, KeyInv, KeysStay
  <2>7. OneFirst'
    <3>1. ASSUME NEW l \in Passkeys \ {k}, x.first, passkey[l].user = u, u \notin raced
          PROVE  FALSE
      BY <1>2, <1>3, <3>1 DEF CredPart, KeyInv, KeysStay
    <3> QED
      BY <1>3, <1>6, <2>3, <3>1 DEF CredPart, KeyInv, OneFirst
  <2> QED
    BY <2>4, <2>5, <2>6, <2>7 DEF KeyInv
<1>12. \A l \in Passkeys : passkey'[l].state # "none" => passkey'[l].user \in Users
  BY <1>2, <1>3, <1>6 DEF CredPart, SessionInv
<1> QED
  BY <1>1, <1>2, <1>4, <1>7, <1>8, <1>9, <1>10, <1>11, <1>12, BrowserStep

(* The check leaves a key besides the one to be removed.                   *)
LEMMA RemovePasskeyCheckStep ==
    ASSUME CredentialConstants, CredPart, NEW b \in Browsers, NEW k \in Passkeys,
           RemovePasskeyCheck(b, k)
    PROVE  CredPart'
<1> DEFINE u == sess[b].user
<1>1. /\ CredTyped /\ ~Changing(b) /\ k \in Held(u)
      /\ UNCHANGED <<cache, row, rows, links, proved, otpVars, passkey, sess>>
  BY DEF RemovePasskeyCheck, CredPart, Changing, Idle, NoCall
<1>2. u \in Users /\ Overlap(b)
  BY DEF RemovePasskeyCheck, Strong, CredPart, SessionInv
<1>3. /\ call' = [c \in Browsers |-> call'[c]]
      /\ call'[b].pc = "removePasskey" /\ call'[b].email = None /\ call'[b].arg = k
      /\ \A c \in Browsers \ {b} : call'[c] = call[c]
  BY <1>1, Awaits DEF RemovePasskeyCheck
<1>4. Held(u) \ {k} # {}
  <2>1. SUFFICES ASSUME Held(u) = {k} PROVE FALSE
    BY <1>1
  <2>2. Cardinality({k}) = 1
    BY FS_Singleton
  <2> QED
    BY <2>1, <2>2 DEF RemovePasskeyCheck
<1>5. RemovalOK(b)'
  BY <1>1, <1>2, <1>3, <1>4 DEF RemovalOK, Held
<1>6. KeyInv' /\ raced' \subseteq Users
  BY <1>1, <1>2, <1>3, <1>5, OverlapStep DEF CredPart
<1>7. CredTyped'
  BY <1>1, <1>3, <1>6 DEF CredTyped, CredTypeOK, otpVars
<1>8. AddressInv' /\ RowsOnlyRenewed
  <2>1. \A e \in Emails : rows[e] \in Nat
    BY <1>1 DEF CredTyped, CredTypeOK, CredentialConstants
  <2> QED
    BY <1>1, <2>1 DEF CredPart, AddressInv, RowOK, RowsOnlyRenewed
<1>9. CallOK(b)'
  BY <1>3 DEF CallOK
<1> QED
  BY <1>1, <1>2, <1>3, <1>6, <1>7, <1>8, <1>9, BrowserStep DEF CredPart, SessionInv, InboxProves

LEMMA RemovePasskeyStep ==
    ASSUME CredentialConstants, CredPart, NEW b \in Browsers, RemovePasskey(b)
    PROVE  CredPart'
<1> DEFINE u == sess[b].user
           k == call[b].arg
<1>1. /\ CredTyped /\ k \in Passkeys /\ u \in Users /\ passkey[k].user = u
      /\ u \notin raced => Held(u) \ {k} # {}
      /\ UNCHANGED <<emailVars, otpVars, sess>> /\ Changing(b)
  BY DEF RemovePasskey, CredPart, KeyInv, RemovalOK, Changing
<1>2. /\ call' = [c \in Browsers |-> call'[c]]
      /\ call'[b].pc = "idle" /\ call'[b].email = None
      /\ \A c \in Browsers \ {b} : call'[c] = call[c]
  BY <1>1, Answers DEF RemovePasskey
<1>3. passkey \in [Passkeys -> KeyRows]
      /\ [passkey[k] EXCEPT !.state = "removed"] \in KeyRows
  <2>1. passkey \in [Passkeys -> KeyRows]
    BY <1>1 DEF CredTyped, CredTypeOK, KeyRows
  <2>2. passkey[k] \in KeyRows
    BY <1>1, <2>1
  <2> QED
    BY <2>1, <2>2 DEF KeyRows
<1>4. /\ passkey' \in [Passkeys -> KeyRows] /\ passkey'[k].state = "removed"
      /\ passkey'[k].user = u /\ passkey'[k].first = passkey[k].first
      /\ \A l \in Passkeys \ {k} : passkey'[l] = passkey[l]
  BY <1>1, <1>3 DEF RemovePasskey, CredTyped, CredTypeOK, KeyRows
<1>5. CredTyped'
  BY <1>1, <1>2, <1>4 DEF CredTyped, CredTypeOK, KeyRows, emailVars, otpVars
<1>6. AddressInv' /\ RowsOnlyRenewed
  BY <1>1, AddressesSame DEF CredPart
<1>7. CallOK(b)' /\ ~Changing(b)'
  BY <1>2, IdleOK
<1>8. KeyInv'
  <2>1. \A v \in Users \ {u} : Held(v)' = Held(v)
    BY <1>1, <1>4 DEF Held
  <2>2. \A v \in Users : v = u => Held(v) \ {k} \subseteq Held(v)'
    BY <1>4 DEF Held
  <2>3. UNCHANGED <<raced, sess>>
    BY <1>1 DEF emailVars
  <2>4. \A l \in Passkeys : passkey'[l].user = passkey[l].user
                            /\ passkey'[l].first = passkey[l].first
    BY <1>1, <1>4
  <2>5. ASSUME NEW c \in Browsers PROVE RemovalOK(c)'
    <3>1. CASE c = b
      BY <1>2, <3>1 DEF RemovalOK
    <3>2. CASE c # b /\ call[c].pc = "removePasskey" /\ sess[c].user = u
      <4>1. u \in raced
        BY <1>1, <3>2 DEF CredPart, KeyInv, OverlapNoted, Changing
      <4> QED
        BY <1>2, <2>3, <2>4, <3>2, <4>1 DEF CredPart, KeyInv, RemovalOK
    <3>3. CASE c # b /\ call[c].pc = "removePasskey" /\ sess[c].user # u
      <4>1. RemovalOK(c) /\ call'[c] = call[c]
        BY <1>2, <3>3 DEF CredPart, KeyInv
      <4> QED
        BY <2>1, <2>3, <2>4, <3>3, <4>1 DEF RemovalOK
    <3>4. CASE c # b /\ call[c].pc # "removePasskey"
      BY <1>2, <3>4 DEF RemovalOK
    <3> QED
      BY <3>1, <3>2, <3>3, <3>4
  <2>6. OverlapNoted'
    <3>1. \A c \in Browsers : Changing(c)' => Changing(c)
      BY <1>2, <1>7 DEF Changing
    <3> QED
      BY <2>3, <3>1 DEF CredPart, KeyInv, OverlapNoted
  <2>7. KeysStay'
    BY <1>1, <2>1, <2>2, <2>3, <2>4 DEF CredPart, KeyInv, KeysStay
  <2>8. OneFirst'
    BY <2>3, <2>4 DEF CredPart, KeyInv, OneFirst
  <2> QED
    BY <2>5, <2>6, <2>7, <2>8 DEF KeyInv
<1>9. \A l \in Passkeys : passkey'[l].state # "none" => passkey'[l].user \in Users
  BY <1>1, <1>4 DEF CredPart, SessionInv
<1> QED
  BY <1>1, <1>2, <1>5, <1>6, <1>7, <1>8, <1>9, BrowserStep
     DEF CredPart, SessionInv, InboxProves, emailVars

-----------------------------------------------------------------------------
(* Addresses.                                                              *)

(* Tables of addresses change; no request goes on.                         *)
LEMMA TableStep ==
    ASSUME CredentialConstants, CredPart, CredTyped', AddressInv', RowsOnlyRenewed,
           UNCHANGED <<passkey, sess, call, raced>>
    PROVE  CredPart'
<1>1. \A c \in Browsers : CallOK(c)'
  BY CallKept DEF CredPart
<1>2. KeyInv'
  BY KeysSame DEF CredPart
<1>3. SessionInv' /\ InboxProves'
  BY DEF CredPart, SessionInv, InboxProves, RowsOnlyRenewed
<1> QED
  BY <1>1, <1>2, <1>3 DEF CredPart

(* Tables of addresses change, and one request goes on.                    *)
LEMMA RequestStep ==
    ASSUME CredentialConstants, CredPart, CredTyped', AddressInv', RowsOnlyRenewed,
           UNCHANGED <<passkey, sess>>, KeyInv',
           NEW b \in Browsers, CallOK(b)',
           \A c \in Browsers \ {b} : call'[c] = call[c]
    PROVE  CredPart'
<1>1. sess'[b].via # None => <<sess'[b].user, sess'[b].via>> \in proved'
  BY DEF CredPart, InboxProves, RowsOnlyRenewed
<1> QED
  BY <1>1, BrowserStep DEF CredPart, SessionInv

LEMMA RowsTyped ==
    ASSUME CredentialConstants, CredTyped
    PROVE  /\ row \in [Emails -> EmailRows] /\ rows \in [Emails -> 0..MaxRows]
           /\ \A e \in Emails : rows[e] \in Nat /\ row[e].id \in Nat
           /\ NoRow \in EmailRows /\ NoRow.id = 0 /\ ~NoRow.verified /\ NoRow.user = None
<1>1. row \in [Emails -> EmailRows] /\ rows \in [Emails -> 0..MaxRows]
  BY DEF CredTyped, CredTypeOK, EmailRows
<1>2. \A e \in Emails : rows[e] \in Nat /\ row[e].id \in Nat
  BY <1>1 DEF EmailRows, CredentialConstants
<1>3. NoRow \in EmailRows /\ NoRow.id = 0 /\ ~NoRow.verified /\ NoRow.user = None
  BY DEF NoRow, EmailRows, CredentialConstants
<1> QED
  BY <1>1, <1>2, <1>3

LEMMA AddEmailStep ==
    ASSUME CredentialConstants, CredPart, NEW b \in Browsers, NEW e \in Emails, AddEmail(b, e)
    PROVE  CredPart'
<1> DEFINE u == sess[b].user
           x == [NoRow EXCEPT !.user = u, !.id = rows[e] + 1]
<1>1. CredTyped /\ u \in Users /\ UNCHANGED <<cache, links, proved, raced, otpVars, passkey, sess>>
  BY DEF AddEmail, Strong, CredPart, SessionInv
<1>2. /\ call' = [c \in Browsers |-> call'[c]]
      /\ call'[b].pc = "mail" /\ call'[b].email = e /\ call'[b].arg = rows[e] + 1
      /\ \A c \in Browsers \ {b} : call'[c] = call[c]
  BY <1>1, Awaits DEF AddEmail
<1>3. rows[e] \in Nat /\ rows[e] + 1 \in 0..MaxRows
  BY <1>1, RowsTyped DEF AddEmail, CredentialConstants
<1>4. x \in EmailRows /\ x.user = u /\ ~x.verified /\ x.id = rows[e] + 1
  <2> DEFINE n == rows[e] + 1
  <2>1. n \in 0..MaxRows
    BY <1>3
  <2>2. x = [NoRow EXCEPT !.user = u, !.id = n]
    OBVIOUS
  <2> HIDE DEF n
  <2>3. x \in EmailRows /\ x.user = u /\ ~x.verified /\ x.id = n
    BY <1>1, <2>1, <2>2, RowsTyped DEF EmailRows
  <2> QED
    BY <2>3 DEF n
<1>5. row' = [row EXCEPT ![e] = x] /\ rows' = [rows EXCEPT ![e] = @ + 1]
  BY DEF AddEmail
<1> HIDE DEF x
<1>6. /\ row' \in [Emails -> EmailRows] /\ row'[e] = x
      /\ \A f \in Emails \ {e} : row'[f] = row[f]
  BY <1>1, <1>4, <1>5, RowsTyped
<1>7. /\ rows' \in [Emails -> 0..MaxRows] /\ rows'[e] = rows[e] + 1
      /\ \A f \in Emails \ {e} : rows'[f] = rows[f]
  BY <1>1, <1>3, <1>5, RowsTyped
<1>8. CredTyped'
  BY <1>1, <1>2, <1>6, <1>7 DEF CredTyped, CredTypeOK, EmailRows, otpVars
<1>9. AddressInv'
  BY <1>1, <1>3, <1>4, <1>6, <1>7 DEF CredPart, AddressInv, RowOK
<1>10. RowsOnlyRenewed
  BY <1>1, <1>3, <1>4, <1>6, <1>7, RowsTyped DEF RowsOnlyRenewed
<1>11. CallOK(b)' /\ ~Changing(b)'
  BY <1>2, <1>3, <1>7 DEF CallOK, Changing
<1>12. KeyInv'
  BY <1>1, <1>2, <1>11, KeysSame DEF CredPart
<1> QED
  BY <1>1, <1>2, <1>8, <1>9, <1>10, <1>11, <1>12, RequestStep

LEMMA AddEmailSentStep ==
    ASSUME CredentialConstants, CredPart, NEW b \in Browsers, AddEmailSent(b)
    PROVE  CredPart'
<1> DEFINE e == call[b].email
<1>1. /\ CredTyped /\ e \in Emails /\ call[b].arg \in 1..rows[e]
      /\ UNCHANGED <<cache, row, rows, proved, raced, otpVars, passkey, sess>>
  BY DEF AddEmailSent, CredPart, CallOK
<1>2. /\ call' = [c \in Browsers |-> call'[c]]
      /\ call'[b].pc = "idle" /\ call'[b].email = None
      /\ \A c \in Browsers \ {b} : call'[c] = call[c]
  BY <1>1, Answers DEF AddEmailSent
<1>3. links' \subseteq Emails \X (1..MaxRows)
  <2>1. rows[e] \in 0..MaxRows
    BY <1>1, RowsTyped
  <2>2. call[b].arg \in 1..MaxRows
    BY <1>1, <2>1 DEF CredentialConstants
  <2>3. links \subseteq Emails \X (1..MaxRows) /\ links' = links \cup {<<e, call[b].arg>>}
    BY <1>1 DEF AddEmailSent, CredTyped, CredTypeOK
  <2> QED
    BY <1>1, <2>2, <2>3
<1>4. CredTyped'
  BY <1>1, <1>2, <1>3 DEF CredTyped, CredTypeOK, otpVars
<1>5. AddressInv' /\ RowsOnlyRenewed
  BY <1>1, RowsTyped DEF CredPart, AddressInv, RowOK, RowsOnlyRenewed
<1>6. CallOK(b)' /\ ~Changing(b)'
  BY <1>2, IdleOK
<1>7. KeyInv'
  BY <1>1, <1>2, <1>6, KeysSame DEF CredPart
<1> QED
  BY <1>1, <1>2, <1>4, <1>5, <1>6, <1>7, RequestStep

(* The row goes, if it is still the one that was read.                     *)
LEMMA DropStep ==
    ASSUME CredentialConstants, CredPart, NEW b \in Browsers, AddEmailFails(b) \/ RemoveEmail(b)
    PROVE  CredPart'
<1> DEFINE e == call[b].email
<1>1. /\ CredTyped /\ e \in Emails
      /\ UNCHANGED <<cache, rows, links, proved, raced, otpVars, passkey, sess>>
  BY DEF AddEmailFails, RemoveEmail, CredPart, CallOK
<1>2. /\ call' = [c \in Browsers |-> call'[c]]
      /\ call'[b].pc = "idle" /\ call'[b].email = None
      /\ \A c \in Browsers \ {b} : call'[c] = call[c]
  BY <1>1, Answers DEF AddEmailFails, RemoveEmail
<1>3. /\ row' \in [Emails -> EmailRows]
      /\ \A f \in Emails : row'[f] = row[f] \/ row'[f] = NoRow
  BY <1>1, RowsTyped DEF AddEmailFails, RemoveEmail, DropRow
<1>4. CredTyped'
  BY <1>1, <1>2, <1>3 DEF CredTyped, CredTypeOK, EmailRows, otpVars
<1>5. AddressInv' /\ RowsOnlyRenewed
  BY <1>1, <1>3, RowsTyped DEF CredPart, AddressInv, RowOK, RowsOnlyRenewed
<1>6. CallOK(b)' /\ ~Changing(b)'
  BY <1>2, IdleOK
<1>7. KeyInv'
  BY <1>1, <1>2, <1>6, KeysSame DEF CredPart
<1> QED
  BY <1>1, <1>2, <1>4, <1>5, <1>6, <1>7, RequestStep

(* A link proves the inbox for whoever has the row it was mailed for.      *)
LEMMA VerifyEmailStep ==
    ASSUME CredentialConstants, CredPart, NEW x, VerifyEmail(x) \/ LinkExpires(x)
    PROVE  CredPart'
<1> DEFINE e == x[1]
<1>1. /\ CredTyped /\ e \in Emails /\ x[2] \in 1..MaxRows
      /\ links' \subseteq links
      /\ UNCHANGED <<cache, rows, raced, otpVars, passkey, sess, call>>
  BY DEF VerifyEmail, LinkExpires, CredPart, CredTyped, CredTypeOK
<1>2. CASE UNCHANGED <<row, proved>>
  <2>1. CredTyped'
    BY <1>1, <1>2 DEF CredTyped, CredTypeOK, otpVars
  <2>2. AddressInv' /\ RowsOnlyRenewed
    BY <1>1, <1>2, RowsTyped DEF CredPart, AddressInv, RowOK, RowsOnlyRenewed
  <2> QED
    BY <1>1, <2>1, <2>2, TableStep
<1>3. CASE ~UNCHANGED <<row, proved>>
  <2>1. /\ row[e].id = x[2]
        /\ row' = [row EXCEPT ![e].verified = TRUE]
        /\ proved' = proved \cup {<<row[e].user, e>>}
    BY <1>3 DEF VerifyEmail, LinkExpires
  <2>2. row[e] \in EmailRows /\ row[e].user \in Users /\ row[e].id >= 1
    <3>1. row[e].id >= 1
      BY <1>1, <2>1 DEF CredentialConstants
    <3>2. RowOK(e)
      BY <1>1 DEF CredPart, AddressInv
    <3> QED
      BY <1>1, <3>1, <3>2, RowsTyped DEF RowOK
  <2>3. [row[e] EXCEPT !.verified = TRUE] \in EmailRows
    BY <2>2 DEF EmailRows
  <2>4. /\ row' \in [Emails -> EmailRows]
        /\ row'[e].verified /\ row'[e].id = row[e].id /\ row'[e].user = row[e].user
        /\ \A f \in Emails \ {e} : row'[f] = row[f]
    <3>1. row' = [row EXCEPT ![e] = [row[e] EXCEPT !.verified = TRUE]]
      BY <1>1, <2>1, RowsTyped
    <3> QED
      BY <1>1, <2>2, <2>3, <3>1, RowsTyped DEF EmailRows
  <2>5. CredTyped'
    <3>1. proved' \subseteq Users \X Emails
      BY <1>1, <2>1, <2>2 DEF CredTyped, CredTypeOK
    <3> QED
      BY <1>1, <2>4, <3>1 DEF CredTyped, CredTypeOK, EmailRows, otpVars
  <2>6. AddressInv'
    BY <1>1, <2>1, <2>2, <2>4 DEF CredPart, AddressInv, RowOK
  <2>7. RowsOnlyRenewed
    BY <1>1, <2>1, <2>4, RowsTyped DEF RowsOnlyRenewed
  <2> QED
    BY <1>1, <2>5, <2>6, <2>7, TableStep
<1> QED
  BY <1>2, <1>3

LEMMA AddressCheckStep ==
    ASSUME CredentialConstants, CredPart, NEW b \in Browsers, NEW e \in Emails,
           RemoveEmailCheck(b, e) \/ SetPrimaryCheck(b, e)
    PROVE  CredPart'
<1> DEFINE u == sess[b].user
<1>1. /\ CredTyped /\ ~Changing(b) /\ u \in Users /\ Overlap(b)
      /\ UNCHANGED <<cache, row, rows, links, proved, otpVars, passkey, sess>>
  BY DEF RemoveEmailCheck, SetPrimaryCheck, CredPart, Changing, Idle, NoCall, Strong, SessionInv
<1>2. /\ call' = [c \in Browsers |-> call'[c]] /\ call'[b].email = e
      /\ \/ call'[b].pc = "removeEmail"
         \/ call'[b].pc = "clear" /\ call'[b].arg = row[e].id /\ row[e].verified
      /\ \A c \in Browsers \ {b} : call'[c] = call[c]
  BY <1>1, Awaits DEF RemoveEmailCheck, SetPrimaryCheck
<1>3. RemovalOK(b)'
  BY <1>2 DEF RemovalOK
<1>4. KeyInv' /\ raced' \subseteq Users
  BY <1>1, <1>2, <1>3, OverlapStep DEF CredPart
<1>5. CredTyped'
  BY <1>1, <1>2, <1>4 DEF CredTyped, CredTypeOK, otpVars
<1>6. AddressInv' /\ RowsOnlyRenewed
  BY <1>1, RowsTyped DEF CredPart, AddressInv, RowOK, RowsOnlyRenewed
<1>7. CallOK(b)'
  <2>1. row[e].verified => row[e].id \in 1..rows[e]
    <3>1. RowOK(e)
      BY DEF CredPart, AddressInv
    <3>2. rows[e] \in Nat /\ row[e].id \in Nat
      BY <1>1, RowsTyped
    <3> QED
      BY <3>1, <3>2 DEF RowOK
  <2> QED
    BY <1>1, <1>2, <2>1 DEF CallOK
<1> QED
  BY <1>1, <1>2, <1>4, <1>5, <1>6, <1>7, RequestStep

LEMMA SetPrimaryClearStep ==
    ASSUME CredentialConstants, CredPart, NEW b \in Browsers, SetPrimaryClear(b)
    PROVE  CredPart'
<1> DEFINE e == call[b].email
           s == {f \in RowsOf(sess[b].user) : row[f].primary}
<1>1. /\ CredTyped /\ e \in Emails /\ Changing(b)
      /\ call[b].arg \in 1..rows[e] /\ (row[e].id = call[b].arg => row[e].verified)
      /\ UNCHANGED <<emailVars, otpVars, passkey, sess>>
  BY DEF SetPrimaryClear, CredPart, CallOK, Changing
<1>2. /\ call' = [c \in Browsers |-> call'[c]]
      /\ call'[b].pc = "primary" /\ call'[b].email = e /\ call'[b].arg = <<call[b].arg, s>>
      /\ \A c \in Browsers \ {b} : call'[c] = call[c]
  BY <1>1, Awaits DEF SetPrimaryClear
<1>3. CredTyped'
  BY <1>1, <1>2 DEF CredTyped, CredTypeOK, emailVars, otpVars
<1>4. AddressInv' /\ RowsOnlyRenewed
  BY <1>1, AddressesSame DEF CredPart
<1>5. CallOK(b)'
  BY <1>1, <1>2 DEF CallOK, emailVars
<1>6. KeyInv'
  <2>1. \A c \in Browsers : Changing(c)' => Changing(c)
    BY <1>1, <1>2 DEF Changing
  <2> QED
    BY <1>1, <1>2, <2>1, KeysKept DEF CredPart, emailVars
<1> QED
  BY <1>1, <1>2, <1>3, <1>4, <1>5, <1>6, RequestStep

(* The promoted row, if it is still there, is verified: so is the address  *)
(* that becomes the cached one.                                            *)
LEMMA SetPrimaryCommitStep ==
    ASSUME CredentialConstants, CredPart, NEW b \in Browsers, SetPrimaryCommit(b)
    PROVE  CredPart'
<1> DEFINE e == call[b].email
           x == call[b].arg
<1>1. /\ CredTyped /\ e \in Emails
      /\ x[1] \in 1..rows[e] /\ (row[e].id = x[1] => row[e].verified)
      /\ UNCHANGED <<rows, links, proved, raced, otpVars, passkey, sess>>
  BY DEF SetPrimaryCommit, CredPart, CallOK
<1>2. /\ call' = [c \in Browsers |-> call'[c]]
      /\ call'[b].pc = "idle" /\ call'[b].email = None
      /\ \A c \in Browsers \ {b} : call'[c] = call[c]
  BY <1>1, Answers DEF SetPrimaryCommit
<1>3. /\ row' \in [Emails -> EmailRows]
      /\ \A f \in Emails : /\ row'[f].id = row[f].id /\ row'[f].user = row[f].user
                           /\ row'[f].verified = row[f].verified
  <2>1. ASSUME NEW f \in Emails, NEW p \in BOOLEAN
        PROVE  LET y == [row[f] EXCEPT !.primary = p] IN
               /\ y \in EmailRows /\ y.id = row[f].id /\ y.user = row[f].user
               /\ y.verified = row[f].verified
    <3>1. row[f] \in EmailRows
      BY <1>1, RowsTyped
    <3> QED
      BY <3>1 DEF EmailRows
  <2>2. CASE UNCHANGED row
    BY <1>1, <2>2, RowsTyped
  <2>3. CASE row' = [f \in Emails |-> IF f = e THEN [row[f] EXCEPT !.primary = TRUE]
                                      ELSE IF f \in Demotes(x) THEN [row[f] EXCEPT !.primary = FALSE]
                                      ELSE row[f]]
    BY <1>1, <2>1, <2>3, RowsTyped
  <2> QED
    BY <2>2, <2>3 DEF SetPrimaryCommit
<1>4. /\ cache' \in [Users -> Emails \cup {None}]
      /\ \A u \in Users : \/ cache'[u] = cache[u]
                          \/ cache'[u] = e /\ <<u, e>> \in proved
  <2>1. CASE UNCHANGED cache
    BY <1>1, <2>1 DEF CredTyped, CredTypeOK
  <2>2. CASE row[e].id = x[1] /\ cache' = [cache EXCEPT ![row[e].user] = e]
    <3>1. <<row[e].user, e>> \in proved
      BY <1>1, <2>2 DEF CredPart, AddressInv, RowOK
    <3> QED
      BY <1>1, <2>2, <3>1 DEF CredTyped, CredTypeOK
  <2> QED
    BY <2>1, <2>2 DEF SetPrimaryCommit
<1>5. CredTyped'
  BY <1>1, <1>2, <1>3, <1>4 DEF CredTyped, CredTypeOK, EmailRows, otpVars
<1>6. AddressInv' /\ RowsOnlyRenewed
  <2>1. ASSUME NEW f \in Emails PROVE RowOK(f)'
    <3>1. RowOK(f)
      BY DEF CredPart, AddressInv
    <3> QED
      BY <1>1, <1>3, <3>1 DEF RowOK
  <2>2. \A u \in Users, f \in Emails : cache'[u] = f => <<u, f>> \in proved'
    BY <1>1, <1>4 DEF CredPart, AddressInv
  <2>3. RowsOnlyRenewed
    BY <1>1, <1>3, RowsTyped DEF RowsOnlyRenewed
  <2> QED
    BY <2>1, <2>2, <2>3 DEF AddressInv
<1>7. CallOK(b)' /\ ~Changing(b)'
  BY <1>2, IdleOK
<1>8. KeyInv'
  BY <1>1, <1>2, <1>7, KeysSame DEF CredPart
<1> QED
  BY <1>1, <1>2, <1>5, <1>6, <1>7, <1>8, RequestStep

-----------------------------------------------------------------------------
(* Recovery.                                                               *)

LEMMA RecoveryTypes == ASSUME RecTyped PROVE RecTypeOK
BY DEF RecTyped, CodesOK, AttemptsOK, TicketsOK, CodeRows, AttemptRows, RecTypeOK

(* Nothing is spent and nobody goes on towards a session.                  *)
LEMMA NobodyEnters ==
    ASSUME EntryInv, UNCHANGED entered,
           \A s \in Sources : Spent(s)' <=> Spent(s),
           \A q \in Requests : req'[q] = req[q] \/ req'[q].pc \notin {"mint", "signin"}
                               \/ OnItsWay(q, req'[q].of)
    PROVE  EntryInv'
<1>1. \A q \in Requests, s \in Sources : OnItsWay(q, s)' => OnItsWay(q, s)
  BY DEF OnItsWay
<1> QED
  BY <1>1 DEF EntryInv

LEMMA NoReqShape == /\ NoReq.pc = "idle" /\ NoReq \in ReqRows /\ ReqOK(NoReq)
BY DEF NoReq, ReqRows, ReqOK

(* A request ends, or goes on to something that is not a session.          *)
LEMMA ReqUpdate ==
    ASSUME ReqsOK, NEW q \in Requests, NEW x \in ReqRows, ReqOK(x),
           req' = [req EXCEPT ![q] = x]
    PROVE  /\ ReqsOK' /\ req'[q] = x
           /\ \A p \in Requests \ {q} : req'[p] = req[p]
<1>1. req' \in [Requests -> ReqRows] /\ req'[q] = x /\ \A p \in Requests \ {q} : req'[p] = req[p]
  BY DEF ReqsOK
<1> QED
  BY <1>1 DEF ReqsOK

LEMMA CodesStay ==
    ASSUME UNCHANGED <<code, attempt>>
    PROVE  \A s : Spent(s)' <=> Spent(s)
BY DEF Spent

(* New codes, and the deletion of unused ones, spend none.                 *)
LEMMA GenerateStep ==
    ASSUME RecoveryConstants, RecPart, NEW u \in Accounts, NEW old,
           GenerateRecoveryCodes(u, old)
    PROVE  RecPart'
<1> DEFINE Free == {c \in Codes : code[c] = NoCode}
           Y(c) == [code[c] EXCEPT !.state = "deleted"]
           N == [user |-> u, state |-> "unused"]
<1>1. PICK new \in kSubset(CodeCount, Free) :
         code' = [c \in Codes |-> IF c \in new THEN N
                                  ELSE IF c \in old \cap Unused(u) THEN Y(c) ELSE code[c]]
  BY DEF GenerateRecoveryCodes
<1>2. new \subseteq Free
  BY DEF kSubset
<1>3. UNCHANGED <<attempt, mails, holds, req, ticket, entered>>
  BY DEF GenerateRecoveryCodes
<1>4. N \in CodeRows /\ N.user = u /\ N.state = "unused"
  BY DEF CodeRows
<1>5. ASSUME NEW c \in Unused(u)
      PROVE  Y(c) \in CodeRows /\ Y(c).user = u /\ Y(c).state = "deleted" /\ code[c].state = "unused"
  <2>1. code[c] \in CodeRows /\ code[c].user = u /\ code[c].state = "unused"
    BY DEF Unused, RecPart, RecTyped, CodesOK
  <2> QED
    BY <2>1 DEF CodeRows
<1>6. \A c \in Free : code[c].state = "none"
  BY DEF NoCode
<1> HIDE DEF N, Y, Free
<1>7. code' \in [Codes -> CodeRows]
  BY <1>1, <1>4, <1>5 DEF RecPart, RecTyped, CodesOK
<1>8. ASSUME NEW c \in Codes
      PROVE  /\ code'[c].state # "none" => code'[c].user \in Accounts
             /\ code'[c].state = "used" <=> code[c].state = "used"
  <2>1. CASE c \in new
    BY <1>1, <1>2, <1>4, <1>6, <2>1
  <2>2. CASE c \notin new /\ c \in old \cap Unused(u)
    BY <1>1, <1>5, <2>2
  <2>3. CASE c \notin new /\ c \notin old \cap Unused(u)
    BY <1>1, <2>3 DEF RecPart, RecTyped, CodesOK
  <2> QED
    BY <2>1, <2>2, <2>3
<1>9. RecTyped'
  BY <1>3, <1>7, <1>8 DEF RecPart, RecTyped, CodesOK, AttemptsOK, ReqsOK, ReqOK, TicketsOK
<1>10. EntryInv'
  <2>1. \A s \in Sources : Spent(s)' <=> Spent(s)
    BY <1>3, <1>8 DEF Spent
  <2> QED
    BY <1>3, <2>1, NobodyEnters DEF RecPart
<1> QED
  BY <1>9, <1>10 DEF RecPart

LEMMA RedeemReadStep ==
    ASSUME RecPart, NEW q \in Requests, NEW u, NEW c, RedeemRead(q, u, c)
    PROVE  RecPart'
<1> DEFINE x == [NoReq EXCEPT !.pc = "redeem", !.of = c]
<1>1. c \in Codes /\ UNCHANGED <<code, attempt, mails, holds, ticket, entered>>
  BY DEF RedeemRead, Unused
<1>2. x \in ReqRows /\ ReqOK(x) /\ x.pc = "redeem"
  <2>1. x \in ReqRows /\ x.pc = "redeem" /\ x.of = c
    BY <1>1, NoReqShape DEF ReqRows, Sources
  <2> QED
    BY <1>1, <2>1 DEF ReqOK
<1>3. req' = [req EXCEPT ![q] = x]
  BY DEF RedeemRead
<1> HIDE DEF x
<1>4. ReqsOK' /\ req'[q] = x /\ \A p \in Requests \ {q} : req'[p] = req[p]
  BY <1>2, <1>3, ReqUpdate DEF RecPart, RecTyped
<1>5. RecTyped'
  BY <1>1, <1>4 DEF RecPart, RecTyped, CodesOK, AttemptsOK, TicketsOK
<1>6. EntryInv'
  BY <1>1, <1>2, <1>4, CodesStay, NobodyEnters DEF RecPart
<1> QED
  BY <1>5, <1>6 DEF RecPart

(* The one request that spends a code or an attempt is on its way with it. *)
LEMMA ClaimWon ==
    ASSUME EntryInv, NEW q \in Requests, NEW s \in Sources, ~Spent(s), Spent(s)',
           \A r \in Sources \ {s} : Spent(r)' <=> Spent(r),
           UNCHANGED entered, req'[q].of = s,
           \A p \in Requests \ {q} : req'[p] = req[p]
    PROVE  EntryInv'
<1>1. entered[s] = 0 /\ \A p \in Requests : ~OnItsWay(p, s)
  BY DEF EntryInv
<1>2. \A p \in Requests, r \in Sources :
        OnItsWay(p, r)' => OnItsWay(p, r) \/ (p = q /\ r = s)
  BY DEF OnItsWay
<1>3. \A r \in Sources, p \in Requests : OnItsWay(p, r)' => Spent(r)' /\ entered'[r] = 0
  BY <1>1, <1>2 DEF EntryInv
<1>4. \A r \in Sources, p, o \in Requests : OnItsWay(p, r)' /\ OnItsWay(o, r)' => p = o
  BY <1>1, <1>2 DEF EntryInv
<1>5. \A r \in Sources : entered'[r] \in {0, 1} /\ (~Spent(r)' => entered'[r] = 0)
  BY <1>1 DEF EntryInv
<1> QED
  BY <1>3, <1>4, <1>5 DEF EntryInv

LEMMA RedeemClaimStep ==
    ASSUME RecoveryConstants, RecPart, NEW q \in Requests, RedeemClaim(q)
    PROVE  RecPart'
<1> DEFINE c == req[q].of
           x == [req[q] EXCEPT !.pc = "mint"]
<1>1. c \in Codes /\ UNCHANGED <<attempt, mails, holds, ticket, entered>>
  BY DEF RedeemClaim, RecPart, RecTyped, ReqsOK, ReqOK
<1>2. CASE Done(q) /\ UNCHANGED code
  <2>1. ReqsOK' /\ req'[q] = NoReq /\ \A p \in Requests \ {q} : req'[p] = req[p]
    BY <1>2, NoReqShape, ReqUpdate DEF Done, RecPart, RecTyped
  <2>2. RecTyped'
    BY <1>1, <1>2, <2>1 DEF RecPart, RecTyped, CodesOK, AttemptsOK, TicketsOK
  <2>3. EntryInv'
    BY <1>1, <1>2, <2>1, NoReqShape, CodesStay, NobodyEnters DEF RecPart
  <2> QED
    BY <2>2, <2>3 DEF RecPart
<1>3. CASE /\ code[c].state = "unused" /\ code' = [code EXCEPT ![c].state = "used"]
           /\ req' = [req EXCEPT ![q].pc = "mint"]
  <2>1. code[c] \in CodeRows /\ req[q] \in ReqRows
    BY <1>1 DEF RecPart, RecTyped, CodesOK, ReqsOK
  <2>2. [code[c] EXCEPT !.state = "used"] \in CodeRows
    BY <2>1 DEF CodeRows
  <2>3. /\ code' \in [Codes -> CodeRows] /\ code'[c].state = "used"
        /\ code'[c].user = code[c].user
        /\ \A d \in Codes \ {c} : code'[d] = code[d]
    BY <1>1, <1>3, <2>1, <2>2 DEF RecPart, RecTyped, CodesOK, CodeRows
  <2>4. x \in ReqRows /\ x.pc = "mint" /\ x.of = c /\ ReqOK(x)
    <3>1. x \in ReqRows /\ x.pc = "mint" /\ x.of = c
      BY <2>1 DEF ReqRows
    <3> QED
      BY <1>1, <3>1 DEF ReqOK, Sources
  <2>5. req' = [req EXCEPT ![q] = x]
    BY <1>3
  <2> HIDE DEF x
  <2>6. ReqsOK' /\ req'[q] = x /\ \A p \in Requests \ {q} : req'[p] = req[p]
    BY <2>4, <2>5, ReqUpdate DEF RecPart, RecTyped
  <2>7. RecTyped'
    BY <1>1, <1>3, <2>3, <2>6 DEF RecPart, RecTyped, CodesOK, AttemptsOK, TicketsOK
  <2>8. EntryInv'
    <3>1. \A s : s = c => ~Spent(s) /\ Spent(s)'
      BY <1>1, <1>3, <2>3 DEF Spent
    <3>2. \A s \in Sources \ {c} : Spent(s)' <=> Spent(s)
      BY <1>1, <2>3 DEF Spent
    <3>3. c \in Sources
      BY <1>1 DEF Sources
    <3> QED
      BY <1>1, <2>4, <2>6, <3>1, <3>2, <3>3, ClaimWon DEF RecPart
  <2> QED
    BY <2>7, <2>8 DEF RecPart
<1> QED
  BY <1>2, <1>3 DEF RedeemClaim, Redeemable

LEMMA ConsumeClaimStep ==
    ASSUME RecoveryConstants, RecPart, NEW q \in Requests, ConsumeClaim(q)
    PROVE  RecPart'
<1> DEFINE a == req[q].of
           x == [req[q] EXCEPT !.pc = "mint"]
<1>1. a \in Attempts /\ UNCHANGED <<code, mails, holds, ticket, entered>>
  BY DEF ConsumeClaim, RecPart, RecTyped, ReqsOK, ReqOK
<1>2. CASE Done(q) /\ UNCHANGED attempt
  <2>1. ReqsOK' /\ req'[q] = NoReq /\ \A p \in Requests \ {q} : req'[p] = req[p]
    BY <1>2, NoReqShape, ReqUpdate DEF Done, RecPart, RecTyped
  <2>2. RecTyped'
    BY <1>1, <1>2, <2>1 DEF RecPart, RecTyped, CodesOK, AttemptsOK, TicketsOK
  <2>3. EntryInv'
    BY <1>1, <1>2, <2>1, NoReqShape, CodesStay, NobodyEnters DEF RecPart
  <2> QED
    BY <2>2, <2>3 DEF RecPart
<1>3. CASE /\ attempt[a].status = "satisfied"
           /\ attempt' = [attempt EXCEPT ![a].status = "consumed"]
           /\ req' = [req EXCEPT ![q].pc = "mint"]
  <2>1. attempt[a] \in AttemptRows /\ req[q] \in ReqRows
    BY <1>1 DEF RecPart, RecTyped, AttemptsOK, ReqsOK
  <2>2. [attempt[a] EXCEPT !.status = "consumed"] \in AttemptRows
    BY <2>1 DEF AttemptRows
  <2>3. /\ attempt' \in [Attempts -> AttemptRows] /\ attempt'[a].status = "consumed"
        /\ attempt'[a].user = attempt[a].user
        /\ \A d \in Attempts \ {a} : attempt'[d] = attempt[d]
    BY <1>1, <1>3, <2>1, <2>2 DEF RecPart, RecTyped, AttemptsOK, AttemptRows
  <2>4. x \in ReqRows /\ x.pc = "mint" /\ x.of = a /\ ReqOK(x)
    <3>1. x \in ReqRows /\ x.pc = "mint" /\ x.of = a
      BY <2>1 DEF ReqRows
    <3> QED
      BY <1>1, <3>1 DEF ReqOK, Sources
  <2>5. req' = [req EXCEPT ![q] = x]
    BY <1>3
  <2> HIDE DEF x
  <2>6. ReqsOK' /\ req'[q] = x /\ \A p \in Requests \ {q} : req'[p] = req[p]
    BY <2>4, <2>5, ReqUpdate DEF RecPart, RecTyped
  <2>7. RecTyped'
    BY <1>1, <1>3, <2>3, <2>6 DEF RecPart, RecTyped, CodesOK, AttemptsOK, TicketsOK
  <2>8. EntryInv'
    <3>1. \A s : s = a => ~Spent(s) /\ Spent(s)'
      BY <1>1, <1>3, <2>3 DEF Spent, RecoveryConstants
    <3>2. \A s \in Sources \ {a} : Spent(s)' <=> Spent(s)
      BY <1>1, <2>3 DEF Spent, Sources
    <3>3. a \in Sources
      BY <1>1 DEF Sources
    <3> QED
      BY <1>1, <2>4, <2>6, <3>1, <3>2, <3>3, ClaimWon DEF RecPart
  <2> QED
    BY <2>7, <2>8 DEF RecPart
<1> QED
  BY <1>2, <1>3 DEF ConsumeClaim

LEMMA StartAttemptStep ==
    ASSUME RecoveryConstants, RecPart, NEW u \in Accounts, NEW a \in Attempts,
           StartRecoveryAttempt(u, a)
    PROVE  RecPart'
<1>1. PICK need \in Thresholds :
        attempt' = [attempt EXCEPT ![a] = [NoAttempt EXCEPT !.user = u, !.status = "pending",
                                                            !.need = need]]
  BY DEF StartRecoveryAttempt
<1> DEFINE x == [NoAttempt EXCEPT !.user = u, !.status = "pending", !.need = need]
<1>2. UNCHANGED <<code, mails, holds, req, ticket, entered>> /\ attempt[a].status = "none"
  BY DEF StartRecoveryAttempt, NoAttempt
<1>3. x \in AttemptRows /\ x.user = u /\ x.status = "pending"
  <2>1. NoAttempt \in AttemptRows
    BY DEF NoAttempt, AttemptRows
  <2>2. need \in Nat
    BY DEF RecoveryConstants
  <2> QED
    BY <2>1, <2>2 DEF AttemptRows
<1> HIDE DEF x
<1>4. /\ attempt' \in [Attempts -> AttemptRows] /\ attempt'[a] = x
      /\ \A d \in Attempts \ {a} : attempt'[d] = attempt[d]
  BY <1>1, <1>3 DEF RecPart, RecTyped, AttemptsOK, x
<1>5. RecTyped'
  BY <1>2, <1>3, <1>4 DEF RecPart, RecTyped, CodesOK, AttemptsOK, ReqsOK, ReqOK, TicketsOK
<1>6. EntryInv'
  <2>1. \A s \in Sources : Spent(s)' <=> Spent(s)
    BY <1>2, <1>3, <1>4 DEF Spent, Sources
  <2> QED
    BY <1>2, <2>1, NobodyEnters DEF RecPart
<1> QED
  BY <1>5, <1>6 DEF RecPart

LEMMA AttemptExpiresStep ==
    ASSUME RecPart, NEW a \in Attempts, AttemptExpires(a)
    PROVE  RecPart'
<1>1. UNCHANGED <<code, mails, holds, req, ticket, entered>> /\ attempt[a] \in AttemptRows
  BY DEF AttemptExpires, RecPart, RecTyped, AttemptsOK
<1>2. [attempt[a] EXCEPT !.expired = TRUE] \in AttemptRows
  BY <1>1 DEF AttemptRows
<1>3. /\ attempt' \in [Attempts -> AttemptRows]
      /\ attempt'[a].status = attempt[a].status /\ attempt'[a].user = attempt[a].user
      /\ \A d \in Attempts \ {a} : attempt'[d] = attempt[d]
  BY <1>1, <1>2 DEF AttemptExpires, RecPart, RecTyped, AttemptsOK, AttemptRows
<1>4. RecTyped'
  BY <1>1, <1>3 DEF RecPart, RecTyped, CodesOK, AttemptsOK, ReqsOK, ReqOK, TicketsOK
<1>5. EntryInv'
  <2>1. \A s \in Sources : Spent(s)' <=> Spent(s)
    BY <1>1, <1>3 DEF Spent, Sources
  <2> QED
    BY <1>1, <2>1, NobodyEnters DEF RecPart
<1> QED
  BY <1>4, <1>5 DEF RecPart

LEMMA BadgeSteps ==
    ASSUME RecPart,
           \/ \E u \in Accounts, t \in Types : BadgesChange(u, t)
           \/ \E a \in Attempts, n \in Mails, t \in Types : RequestReProof(a, n, t)
    PROVE  RecPart'
<1>1. UNCHANGED <<code, attempt, req, ticket, entered>>
  BY DEF BadgesChange, RequestReProof
<1>2. TicketsOK'
  BY <1>1 DEF BadgesChange, RequestReProof, RecPart, RecTyped, TicketsOK
<1>3. RecTyped'
  BY <1>1, <1>2 DEF RecPart, RecTyped, CodesOK, AttemptsOK, ReqsOK, ReqOK
<1>4. EntryInv'
  BY <1>1, CodesStay, NobodyEnters DEF RecPart
<1> QED
  BY <1>3, <1>4 DEF RecPart

LEMMA ReProofReadStep ==
    ASSUME RecoveryConstants, RecPart, NEW q \in Requests, NEW m \in mails, NEW w \in Weights,
           ReProofRead(q, m, w)
    PROVE  RecPart'
<1> DEFINE x == [pc |-> "record", of |-> m[1], type |-> m[3], weight |-> w]
<1>1. /\ m[1] \in Attempts /\ m[3] \in Types /\ w \in Nat
      /\ mails' \subseteq mails /\ UNCHANGED <<code, attempt, holds, ticket, entered>>
  BY DEF ReProofRead, RecPart, RecTyped, TicketsOK, RecoveryConstants
<1>2. x \in ReqRows /\ ReqOK(x) /\ x.pc = "record"
  BY <1>1 DEF ReqRows, ReqOK, Sources
<1>3. req' = [req EXCEPT ![q] = x] \/ UNCHANGED req
  BY DEF ReProofRead
<1> HIDE DEF x
<1>4. /\ ReqsOK' /\ \A p \in Requests : req'[p] = req[p] \/ req'[p] = x
  <2>1. CASE req' = [req EXCEPT ![q] = x]
    BY <1>2, <2>1, ReqUpdate DEF RecPart, RecTyped
  <2>2. CASE UNCHANGED req
    BY <2>2 DEF RecPart, RecTyped, ReqsOK
  <2> QED
    BY <1>3, <2>1, <2>2
<1>5. RecTyped'
  BY <1>1, <1>4 DEF RecPart, RecTyped, CodesOK, AttemptsOK, TicketsOK
<1>6. EntryInv'
  BY <1>1, <1>2, <1>4, CodesStay, NobodyEnters DEF RecPart
<1> QED
  BY <1>5, <1>6 DEF RecPart

(* A late proof moves a pending attempt on, never a consumed one back.     *)
LEMMA RecordStep ==
    ASSUME RecoveryConstants, RecPart, NEW q \in Requests, RecordReProof(q)
    PROVE  RecPart'
<1> DEFINE a == req[q].of
           t == req[q].type
           w == req[q].weight
           score == attempt[a].score + w
           st == IF Reached(attempt[a], score) THEN "satisfied" ELSE attempt[a].status
           y == [attempt[a] EXCEPT !.proofs = @ \cup {<<t, w>>}, !.score = score, !.status = st]
<1>1. /\ a \in Attempts /\ t \in Types /\ w \in Weights /\ w \in Nat
      /\ attempt[a] \in AttemptRows
      /\ UNCHANGED <<code, mails, holds, ticket, entered>>
  BY DEF RecordReProof, RecPart, RecTyped, ReqsOK, ReqOK, AttemptsOK, RecoveryConstants
<1>2. /\ st \in {"none", "pending", "satisfied", "consumed"}
      /\ st = "consumed" <=> attempt[a].status = "consumed"
      /\ st # "none" => attempt[a].status # "none"
  BY <1>1 DEF Reached, AttemptRows
<1>3. score \in Nat
  BY <1>1 DEF AttemptRows
<1>4. attempt' = attempt \/ attempt' = [attempt EXCEPT ![a] = y]
  BY <1>1 DEF RecordReProof, RecPart, RecTyped, AttemptsOK
<1>5. y \in AttemptRows /\ y.status = st /\ y.user = attempt[a].user
  <2> HIDE DEF score, st
  <2>1. attempt[a].proofs \cup {<<t, w>>} \in SUBSET (Types \X Weights)
    BY <1>1 DEF AttemptRows
  <2> QED
    BY <1>1, <1>2, <1>3, <2>1 DEF AttemptRows
<1> HIDE DEF y, st, score
<1>6. /\ attempt' \in [Attempts -> AttemptRows]
      /\ \A d \in Attempts : \/ attempt'[d] = attempt[d]
                             \/ d = a /\ attempt'[d] = y
  BY <1>1, <1>4, <1>5 DEF RecPart, RecTyped, AttemptsOK
<1>7. AttemptsOK'
  BY <1>2, <1>5, <1>6 DEF RecPart, RecTyped, AttemptsOK
<1>8. ReqsOK' /\ req'[q] = NoReq /\ \A p \in Requests \ {q} : req'[p] = req[p]
  BY NoReqShape, ReqUpdate DEF RecordReProof, Done, RecPart, RecTyped
<1>9. RecTyped'
  BY <1>1, <1>7, <1>8 DEF RecPart, RecTyped, CodesOK, TicketsOK
<1>10. EntryInv'
  <2>1. \A s \in Sources : Spent(s)' <=> Spent(s)
    BY <1>1, <1>2, <1>5, <1>6 DEF Spent, Sources
  <2> QED
    BY <1>1, <1>8, <2>1, NoReqShape, NobodyEnters DEF RecPart
<1> QED
  BY <1>9, <1>10 DEF RecPart

LEMMA ConsumeReadStep ==
    ASSUME RecPart, NEW q \in Requests, NEW a \in Attempts, ConsumeRead(q, a)
    PROVE  RecPart'
<1> DEFINE x == [NoReq EXCEPT !.pc = "consume", !.of = a]
<1>1. UNCHANGED <<code, attempt, mails, holds, ticket, entered>>
  BY DEF ConsumeRead
<1>2. x \in ReqRows /\ ReqOK(x) /\ x.pc = "consume"
  <2>1. x \in ReqRows /\ x.pc = "consume" /\ x.of = a
    BY NoReqShape DEF ReqRows, Sources
  <2> QED
    BY <2>1 DEF ReqOK
<1>3. req' = [req EXCEPT ![q] = x]
  BY DEF ConsumeRead
<1> HIDE DEF x
<1>4. ReqsOK' /\ req'[q] = x /\ \A p \in Requests \ {q} : req'[p] = req[p]
  BY <1>2, <1>3, ReqUpdate DEF RecPart, RecTyped
<1>5. RecTyped'
  BY <1>1, <1>4 DEF RecPart, RecTyped, CodesOK, AttemptsOK, TicketsOK
<1>6. EntryInv'
  BY <1>1, <1>2, <1>4, CodesStay, NobodyEnters DEF RecPart
<1> QED
  BY <1>5, <1>6 DEF RecPart

LEMMA IssueTicketStep ==
    ASSUME RecPart, NEW q \in Requests, IssueTicket(q)
    PROVE  RecPart'
<1> DEFINE s == req[q].of
           x == [req[q] EXCEPT !.pc = "signin"]
<1>1. /\ s \in Sources /\ req[q] \in ReqRows /\ req[q].pc = "mint"
      /\ UNCHANGED <<code, attempt, mails, holds, entered>>
  BY DEF IssueTicket, RecPart, RecTyped, ReqsOK, ReqOK
<1>2. x \in ReqRows /\ ReqOK(x) /\ x.pc = "signin" /\ x.of = s
  <2>1. x \in ReqRows /\ x.pc = "signin" /\ x.of = s
    BY <1>1 DEF ReqRows
  <2> QED
    BY <1>1, <2>1 DEF ReqOK
<1>3. req' = [req EXCEPT ![q] = x]
  BY DEF IssueTicket
<1> HIDE DEF x
<1>4. ReqsOK' /\ req'[q] = x /\ \A p \in Requests \ {q} : req'[p] = req[p]
  BY <1>2, <1>3, ReqUpdate DEF RecPart, RecTyped
<1>5. UserOf(s) \in Accounts \cup {Nobody}
  BY <1>1 DEF UserOf, Sources, RecPart, RecTyped, CodesOK, AttemptsOK, CodeRows, AttemptRows
<1>6. TicketsOK'
  BY <1>1, <1>5 DEF IssueTicket, RecPart, RecTyped, TicketsOK
<1>7. RecTyped'
  BY <1>1, <1>4, <1>6 DEF RecPart, RecTyped, CodesOK, AttemptsOK
<1>8. EntryInv'
  <2>1. OnItsWay(q, s)
    BY <1>1 DEF OnItsWay
  <2> QED
    BY <1>1, <1>2, <1>4, <2>1, CodesStay, NobodyEnters DEF RecPart
<1> QED
  BY <1>7, <1>8 DEF RecPart

(* Nobody else is on the way with what is spent, now or later.             *)
LEMMA SpendTicketStep ==
    ASSUME RecPart, NEW q \in Requests, SpendTicket(q)
    PROVE  RecPart'
<1> DEFINE s == req[q].of
<1>1. s \in Sources /\ req[q].pc = "signin" /\ UNCHANGED <<code, attempt, mails, holds>>
  BY DEF SpendTicket, RecPart, RecTyped, ReqsOK, ReqOK
<1>2. OnItsWay(q, s) /\ Spent(s) /\ entered[s] = 0
  BY <1>1 DEF OnItsWay, RecPart, EntryInv
<1>3. ReqsOK' /\ req'[q] = NoReq /\ \A p \in Requests \ {q} : req'[p] = req[p]
  BY NoReqShape, ReqUpdate DEF SpendTicket, Done, RecPart, RecTyped
<1>4. TicketsOK' /\ entered'[s] = 1 /\ \A r \in Sources \ {s} : entered'[r] = entered[r]
  BY <1>1, <1>2 DEF SpendTicket, RecPart, RecTyped, TicketsOK
<1>5. RecTyped'
  BY <1>1, <1>3, <1>4 DEF RecPart, RecTyped, CodesOK, AttemptsOK
<1>6. EntryInv'
  <2>1. \A r : Spent(r)' <=> Spent(r)
    BY <1>1, CodesStay
  <2>2. \A p \in Requests, r \in Sources : OnItsWay(p, r)' => OnItsWay(p, r) /\ r # s
    <3>1. \A p \in Requests \ {q}, r \in Sources : OnItsWay(p, r)' => OnItsWay(p, r)
      BY <1>3 DEF OnItsWay
    <3>2. \A r \in Sources : ~OnItsWay(q, r)'
      BY <1>3, NoReqShape DEF OnItsWay
    <3>3. \A p \in Requests \ {q} : ~OnItsWay(p, s)
      BY <1>1, <1>2 DEF RecPart, EntryInv
    <3> QED
      BY <3>1, <3>2, <3>3
  <2>3. \A r \in Sources : entered'[r] \in {0, 1} /\ (~Spent(r)' => entered'[r] = 0)
    BY <1>2, <1>4, <2>1 DEF RecPart, EntryInv
  <2>4. \A r \in Sources, p \in Requests : OnItsWay(p, r)' => Spent(r)' /\ entered'[r] = 0
    BY <1>4, <2>1, <2>2 DEF RecPart, EntryInv
  <2>5. \A r \in Sources, p, o \in Requests : OnItsWay(p, r)' /\ OnItsWay(o, r)' => p = o
    BY <2>2 DEF RecPart, EntryInv
  <2> QED
    BY <2>3, <2>4, <2>5 DEF EntryInv
<1> QED
  BY <1>5, <1>6 DEF RecPart

LEMMA RequestDiesStep ==
    ASSUME RecPart, NEW q \in Requests, RequestDies(q)
    PROVE  RecPart'
<1>1. UNCHANGED <<code, attempt, mails, holds, entered>>
  BY DEF RequestDies
<1>2. ReqsOK' /\ req'[q] = NoReq /\ \A p \in Requests \ {q} : req'[p] = req[p]
  BY NoReqShape, ReqUpdate DEF RequestDies, Done, RecPart, RecTyped
<1>3. TicketsOK'
  BY <1>1 DEF RequestDies, RecPart, RecTyped, TicketsOK
<1>4. RecTyped'
  BY <1>1, <1>2, <1>3 DEF RecPart, RecTyped, CodesOK, AttemptsOK
<1>5. EntryInv'
  BY <1>1, <1>2, NoReqShape, CodesStay, NobodyEnters DEF RecPart
<1> QED
  BY <1>4, <1>5 DEF RecPart

-----------------------------------------------------------------------------
(* The whole.                                                              *)

LEMMA CredNextStep ==
    ASSUME CredentialConstants, CredPart, CredNext
    PROVE  CredPart'
<1>1. CASE SignInStep
  BY <1>1, MailSteps, FollowLinkStep, SubmitOtpStep, OtpSteps, ResolveOwnerStep, EnterStep,
     CreateUserStep, SignOutStep DEF SignInStep
<1>2. CASE PasskeyStep
  BY <1>2, QuarantineLapsesStep, EnrollStep, PasskeySignInStep, RemovePasskeyCheckStep
     DEF PasskeyStep
<1>3. CASE AddressStep
  BY <1>3, VerifyEmailStep, AddEmailStep, AddressCheckStep, AddEmailSentStep, DropStep,
     SetPrimaryClearStep, SetPrimaryCommitStep, RemovePasskeyStep DEF AddressStep
<1> QED
  BY <1>1, <1>2, <1>3 DEF CredNext

LEMMA CredSame ==
    ASSUME CredPart, UNCHANGED credVars
    PROVE  CredPart'
<1> UNCHANGED <<cache, row, rows, links, magic, otp, sent, passkey, sess, call, proved, raced>>
  BY DEF credVars, emailVars, otpVars
<1>1. CredTyped' /\ AddressInv'
  BY DEF CredPart, CredTyped, CredTypeOK, AddressInv, RowOK
<1>2. (\A b \in Browsers : CallOK(b)') /\ SessionInv' /\ InboxProves'
  BY DEF CredPart, CallOK, SessionInv, InboxProves
<1>3. KeyInv'
  BY DEF CredPart, KeyInv, RemovalOK, OverlapNoted, KeysStay, OneFirst, Held, Changing
<1> QED
  BY <1>1, <1>2, <1>3 DEF CredPart

LEMMA RecSame ==
    ASSUME RecPart, UNCHANGED recVars
    PROVE  RecPart'
<1> UNCHANGED <<code, attempt, mails, holds, req, ticket, entered>>
  BY DEF recVars
<1>1. RecTyped'
  BY DEF RecPart, RecTyped, CodesOK, AttemptsOK, ReqsOK, ReqOK, TicketsOK
<1>2. EntryInv'
  BY DEF RecPart, EntryInv, Spent, OnItsWay
<1> QED
  BY <1>1, <1>2 DEF RecPart

(* generateMyRecoveryCodes: the credentials only lend it the session.      *)
LEMMA GenerateCodesCred ==
    ASSUME CredentialConstants, CredPart, NEW b \in Browsers,
           GenerateCodesCheck(b) \/ GenerateCodesDelete(b) \/ GenerateCodesCreate(b)
    PROVE  CredPart'
<1>1. CredTyped /\ UNCHANGED <<emailVars, otpVars, passkey, sess>>
  BY DEF CredPart, GenerateCodesCheck, GenerateCodesDelete, GenerateCodesCreate
<1>2. /\ call' = [c \in Browsers |-> call'[c]] /\ call'[b].email = None
      /\ \/ call'[b].pc \in {"codes", "batch"} /\ sess[b].user \in Users
         \/ call'[b].pc = "idle"
      /\ \A c \in Browsers \ {b} : call'[c] = call[c]
  <2>1. CASE GenerateCodesCheck(b)
    BY <1>1, <2>1, Awaits DEF GenerateCodesCheck, CredPart, SessionInv
  <2>2. CASE GenerateCodesDelete(b)
    BY <1>1, <2>2, Awaits DEF GenerateCodesDelete, CredPart, CallOK
  <2>3. CASE GenerateCodesCreate(b)
    BY <1>1, <2>3, Answers DEF GenerateCodesCreate
  <2> QED
    BY <2>1, <2>2, <2>3
<1>3. CredTyped'
  BY <1>1, <1>2 DEF CredTyped, CredTypeOK, emailVars, otpVars
<1>4. CallOK(b)' /\ ~Changing(b)'
  BY <1>1, <1>2 DEF CallOK, Changing
<1> QED
  BY <1>1, <1>2, <1>3, <1>4, QuietStep

LEMMA CodesStepOK ==
    ASSUME CredentialConstants, RecoveryConstants, OneWorld, AccInv, CodesStep
    PROVE  AccInv'
<1>1. PICK b \in Browsers :
        \/ GenerateCodesCheck(b) \/ GenerateCodesDelete(b) \/ GenerateCodesCreate(b)
        \/ \E e \in Emails, c \in Codes : RedeemCode(b, e, c)
        \/ RecoverySignIn(b)
  BY DEF CodesStep
<1>2. b \in Requests
  BY DEF OneWorld
<1>3. CASE GenerateCodesCheck(b) \/ GenerateCodesDelete(b)
  BY <1>3, GenerateCodesCred, RecSame DEF AccInv, GenerateCodesCheck, GenerateCodesDelete
<1>4. CASE GenerateCodesCreate(b)
  <2>1. sess[b].user \in Accounts
    BY <1>4 DEF AccInv, CredPart, CallOK, GenerateCodesCreate, OneWorld
  <2> QED
    BY <1>4, <2>1, GenerateCodesCred, GenerateStep DEF AccInv, GenerateCodesCreate
<1>5. CASE \E e \in Emails, c \in Codes : RedeemCode(b, e, c)
  BY <1>2, <1>5, CredSame, RedeemReadStep DEF AccInv, RedeemCode
<1>6. CASE RecoverySignIn(b)
  <2>1. RecPart'
    BY <1>2, <1>6, SpendTicketStep DEF AccInv, RecoverySignIn
  <2>2. CredPart'
    BY <1>6, RecoverySignInCred DEF AccInv, RecPart
  <2> QED
    BY <2>1, <2>2 DEF AccInv
<1> QED
  BY <1>1, <1>3, <1>4, <1>5, <1>6

LEMMA RecoveryStepOK ==
    ASSUME CredentialConstants, RecoveryConstants, OneWorld, AccInv, RecoveryStep
    PROVE  AccInv'
<1>1. UNCHANGED credVars
  BY DEF RecoveryStep, StartBadgeRecovery
<1>2. CredPart'
  BY <1>1, CredSame DEF AccInv
<1>3. ASSUME NEW e \in Emails, NEW a \in Attempts, StartBadgeRecovery(e, a) PROVE RecPart'
  <2>1. row[e].user \in Accounts
    BY <1>3 DEF StartBadgeRecovery, AccInv, CredPart, AddressInv, RowOK, OneWorld
  <2> QED
    BY <1>3, <2>1, StartAttemptStep DEF StartBadgeRecovery, AccInv
<1>4. CASE AttemptStep
  BY <1>2, <1>4, AttemptExpiresStep, BadgeSteps, ReProofReadStep, ConsumeReadStep, RecordStep,
     ConsumeClaimStep DEF AttemptStep, AccInv
<1>5. CASE \E q \in Requests : TicketStep(q)
  BY <1>2, <1>5, RedeemClaimStep, IssueTicketStep, RequestDiesStep DEF TicketStep, AccInv
<1>6. CASE \E u \in Users, t \in Types : BadgesChange(u, t)
  BY <1>2, <1>6, BadgeSteps DEF AccInv, OneWorld
<1> QED
  BY <1>2, <1>3, <1>4, <1>5, <1>6 DEF RecoveryStep, AccInv

LEMMA AccInit ==
    ASSUME CredentialConstants, RecoveryConstants, OneWorld, Init
    PROVE  AccInv
<1> USE DEF Init, CredInit, RecInit
<1>1. NoRow \in EmailRows /\ NoKey \in KeyRows
  BY DEF NoRow, NoKey, EmailRows, KeyRows, CredentialConstants
<1>2. NoOtp \in [code : 0..MaxCodes, attempts : 0..OtpMaxAttempts]
  BY DEF NoOtp, CredentialConstants
<1>3. CredTyped
  <2>1. NoSess \in Tokens
    BY TokenShapes
  <2>2. 0 \in 0..MaxRows /\ 0 \in 0..MaxCodes
    BY DEF CredentialConstants
  <2>3. \A b \in Browsers : call[b].email = None
    BY DEF NoCall
  <2> QED
    BY <1>1, <1>2, <2>1, <2>2, <2>3
       DEF CredTyped, CredTypeOK, EmailRows, KeyRows, Tokens
<1>4. AddressInv
  <2>1. \A e \in Emails : row[e] = NoRow /\ rows[e] = 0
    OBVIOUS
  <2>2. NoRow.id = 0 /\ ~NoRow.verified
    BY DEF NoRow
  <2>3. \A e \in Emails : RowOK(e)
    BY <2>1, <2>2 DEF RowOK
  <2> QED
    BY <2>3 DEF AddressInv, CredentialConstants
<1>5. (\A b \in Browsers : CallOK(b)) /\ SessionInv /\ InboxProves
  <2>1. \A b \in Browsers : call[b].pc = "idle" /\ sess[b] = NoSess
    BY DEF NoCall
  <2>2. NoSess.aal # 2 /\ NoSess.via = None
    BY TokenShapes
  <2>3. \A k \in Passkeys : passkey[k].state = "none"
    BY DEF NoKey
  <2>4. \A b \in Browsers : CallOK(b)
    BY <2>1 DEF CallOK
  <2> QED
    BY <2>1, <2>2, <2>3, <2>4 DEF SessionInv, InboxProves
<1>6. KeyInv
  <2>1. \A b \in Browsers : call[b].pc = "idle"
    BY DEF NoCall
  <2>2. \A k \in Passkeys : passkey[k].user = None /\ None \notin Users
    BY DEF NoKey, CredentialConstants
  <2> QED
    BY <2>1, <2>2 DEF KeyInv, RemovalOK, OverlapNoted, KeysStay, OneFirst, Changing
<1>7. RecTyped
  <2>1. NoCode \in CodeRows /\ NoAttempt \in AttemptRows
    BY DEF NoCode, CodeRows, NoAttempt, AttemptRows
  <2> QED
    BY <2>1, NoReqShape DEF RecTyped, CodesOK, AttemptsOK, ReqsOK, TicketsOK, NoCode, NoAttempt
<1>8. EntryInv
  BY NoReqShape DEF EntryInv, OnItsWay
<1> QED
  BY <1>3, <1>4, <1>5, <1>6, <1>7, <1>8 DEF AccInv, CredPart, RecPart

LEMMA AccStep ==
    ASSUME CredentialConstants, RecoveryConstants, OneWorld, AccInv, [Next]_accVars
    PROVE  AccInv'
<1>1. CASE CredNext /\ UNCHANGED recVars
  BY <1>1, CredNextStep, RecSame DEF AccInv
<1>2. CASE UNCHANGED accVars
  BY <1>2, CredSame, RecSame DEF AccInv, accVars
<1> QED
  BY <1>1, <1>2, CodesStepOK, RecoveryStepOK DEF Next

(* The inductive invariant: what a request read of addresses, passkeys,    *)
(* codes and attempts before an await still holds where it relies on it    *)
(* (server/credential-actions.ts, lib/signin-otp.ts, lib/recovery-*.ts).   *)
THEOREM AccInvariant == Spec => []AccInv
<1> USE CredentialConstants, RecoveryConstants, OneWorld
<1>1. Init => AccInv
  BY AccInit
<1>2. AccInv /\ [Next]_accVars => AccInv'
  BY AccStep
<1> QED
  BY <1>1, <1>2, PTL DEF Spec

(* The tables of credentials and recovery keep their shapes: no sign-in    *)
(* code is ever counted more attempts than verifySignInOtp's ceiling.      *)
THEOREM AccTypeCorrect == Spec => []TypeOK
<1>1. AccInv => TypeOK
  BY RecoveryTypes DEF AccInv, CredPart, CredTyped, RecPart, TypeOK
<1> QED
  BY <1>1, AccInvariant, PTL

(* Whoever signs in with an inbox (link or code, new account or old) gets  *)
(* an account that has shown control of that inbox.                        *)
THEOREM InboxIsProved == Spec => []InboxProves
<1>1. AccInv => InboxProves
  BY DEF AccInv, CredPart
<1> QED
  BY <1>1, AccInvariant, PTL

(* lifecycleForNewPasskey lets one passkey of an account skip the          *)
(* cooldown, unless two credential changes of the account overlapped.      *)
THEOREM BootstrapOnce == Spec => []OneBootstrap
<1>1. AccInv => OneBootstrap
  <2> SUFFICES ASSUME AccInv, NEW u \in Users \ raced
               PROVE  Cardinality({k \in Passkeys : passkey[k].user = u /\ passkey[k].first}) <= 1
    BY DEF OneBootstrap
  <2> DEFINE F == {k \in Passkeys : passkey[k].user = u /\ passkey[k].first}
  <2>1. CASE F = {}
    BY <2>1, FS_EmptySet
  <2>2. CASE F # {}
    <3>1. PICK k \in Passkeys : k \in F
      BY <2>2
    <3>2. F = {k}
      BY <3>1 DEF AccInv, CredPart, KeyInv, OneFirst
    <3>3. Cardinality({k}) = 1
      BY FS_Singleton
    <3> QED
      BY <3>2, <3>3
  <2> QED
    BY <2>1, <2>2
<1> QED
  BY <1>1, AccInvariant, PTL

(* A recovery code, and a badge-recovery attempt, lets somebody in at most *)
(* once: not again by a second redemption, a late proof or a second ticket.*)
THEOREM RecoveryEntersOnce == Spec => []EntersOnce
<1>1. AccInv => EntersOnce
  BY DEF AccInv, RecPart, EntryInv, EntersOnce
<1> QED
  BY <1>1, AccInvariant, PTL

-----------------------------------------------------------------------------
(* The score of an attempt.  Induction over finite sets, by the least      *)
(* counterexample; a property is given as the set of what has it.          *)

LEMMA Least ==
    ASSUME NEW T \in SUBSET Nat, T # {}
    PROVE  \E n \in T : \A m \in T : n <= m
<1>1. PICK x \in T : \A y \in T : ~(<<y, x>> \in OpToRel(<, Nat))
  BY NatLessThanWellFounded, WFMin
<1>2. ASSUME NEW y \in T, y < x
      PROVE  <<y, x>> \in OpToRel(<, Nat)
  <2>1. <<y, x>> \in {ss \in Nat \X Nat : ss[1] < ss[2]}
    BY <1>2
  <2> QED
    BY <2>1, Zenon DEF OpToRel
<1>3. \A y \in T : ~(y < x)
  BY <1>1, <1>2, Zenon
<1> QED
  BY <1>3

LEMMA UpTo ==
    ASSUME NEW top \in Nat, NEW P \in SUBSET (0..top), 0 \in P,
           \A n \in P : n < top => n + 1 \in P
    PROVE  P = 0..top
<1> SUFFICES ASSUME P # 0..top
             PROVE  FALSE
  OBVIOUS
<1>1. (0..top) \ P \in SUBSET Nat /\ (0..top) \ P # {}
  <2>1. PICK e \in 0..top : e \notin P
    OBVIOUS
  <2>2. \A n \in 0..top : n \in Nat
    OBVIOUS
  <2> QED
    BY <2>1, <2>2, Zenon
<1>2. PICK n \in (0..top) \ P : \A m \in (0..top) \ P : n <= m
  BY <1>1, Least
<1>3. n # 0 /\ n - 1 \in 0..top
  BY <1>2
<1>4. n - 1 \in P
  BY <1>2, <1>3
<1> QED
  BY <1>3, <1>4

LEMMA SetInduction ==
    ASSUME NEW U, IsFiniteSet(U), NEW P \in SUBSET (SUBSET U), {} \in P,
           \A S \in SUBSET U : S # {} /\ (\A x \in S : S \ {x} \in P) => S \in P
    PROVE  P = SUBSET U
<1> SUFFICES ASSUME NEW A \in SUBSET U, A \notin P
             PROVE  FALSE
  OBVIOUS
<1> DEFINE Bad == (SUBSET U) \ P
           T == {Cardinality(S) : S \in Bad}
<1>1. ASSUME NEW S \in SUBSET U
      PROVE  IsFiniteSet(S) /\ Cardinality(S) \in Nat
  BY FS_Subset, FS_CardinalityType
<1>2. T \in SUBSET Nat /\ T # {}
  <2>1. A \in Bad
    OBVIOUS
  <2>2. \A S \in Bad : Cardinality(S) \in Nat
    BY <1>1
  <2> QED
    BY <2>1, <2>2
<1>3. PICK n \in T : \A m \in T : n <= m
  <2> HIDE DEF T
  <2> QED
    BY <1>2, Least
<1>4. PICK S \in Bad : n = Cardinality(S)
  OBVIOUS
<1>5. S # {}
  OBVIOUS
<1>6. ASSUME NEW x \in S
      PROVE  S \ {x} \in P
  <2> SUFFICES ASSUME S \ {x} \notin P
               PROVE  FALSE
    OBVIOUS
  <2>1. S \ {x} \in Bad
    OBVIOUS
  <2>2. n <= Cardinality(S \ {x})
    BY <2>1, <1>3
  <2>3. Cardinality(S \ {x}) = Cardinality(S) - 1 /\ Cardinality(S) \in Nat
    BY <1>1, FS_RemoveElement
  <2> QED
    BY <2>2, <2>3, <1>4
<1> QED
  BY <1>5, <1>6

(* The weights of a set of proofs, as MapThenSumSet adds them up.          *)
Worth(S) == MapThenSumSet(LAMBDA p : p[2], S)

Picked(s) == CHOOSE x \in s : TRUE

AddsUp(g, S) ==
    \A s \in SUBSET S :
        g[s] = IF s = {} THEN 0 ELSE Picked(s)[2] + g[s \ {Picked(s)}]

LEMMA WorthExists ==
    ASSUME NEW S, IsFiniteSet(S), \A x \in S : x[2] \in Nat
    PROVE  \E g \in [SUBSET S -> Nat] : AddsUp(g, S)
<1> DEFINE N == Cardinality(S)
           next(g) == [s \in SUBSET S |-> IF s = {} THEN 0 ELSE Picked(s)[2] + g[s \ {Picked(s)}]]
           Right(n, g) == \A s \in SUBSET S : Cardinality(s) <= n => g[s] = next(g)[s]
           P == {n \in 0..N : \E g \in [SUBSET S -> Nat] : Right(n, g)}
<1>1. N \in Nat
  BY FS_CardinalityType
<1>2. ASSUME NEW s \in SUBSET S
      PROVE  IsFiniteSet(s) /\ Cardinality(s) \in Nat /\ Cardinality(s) <= N
  BY FS_Subset, FS_CardinalityType
<1>3. ASSUME NEW s \in SUBSET S, s # {}
      PROVE  /\ Picked(s) \in s /\ Picked(s) \in S /\ s \ {Picked(s)} \in SUBSET S
             /\ Cardinality(s \ {Picked(s)}) = Cardinality(s) - 1
  <2>1. Picked(s) \in s
    BY <1>3 DEF Picked
  <2> QED
    BY <2>1, <1>2, FS_RemoveElement
<1> HIDE DEF N
<1>4. ASSUME NEW g \in [SUBSET S -> Nat]
      PROVE  next(g) \in [SUBSET S -> Nat]
  <2>1. ASSUME NEW s \in SUBSET S, s # {}
        PROVE  Picked(s)[2] + g[s \ {Picked(s)}] \in Nat
    <3>1. Picked(s)[2] \in Nat /\ s \ {Picked(s)} \in SUBSET S
      BY <1>3, <2>1
    <3>2. g[s \ {Picked(s)}] \in Nat
      BY <3>1
    <3> QED
      BY <3>1, <3>2
  <2> QED
    BY <2>1
<1>5. 0 \in P
  <2> DEFINE g == [s \in SUBSET S |-> 0]
  <2>1. g \in [SUBSET S -> Nat]
    OBVIOUS
  <2>2. ASSUME NEW s \in SUBSET S, Cardinality(s) <= 0
        PROVE  g[s] = next(g)[s]
    <3>1. Cardinality(s) = 0
      BY <1>2, <2>2
    <3>2. s = {}
      BY <1>2, <3>1, FS_EmptySet
    <3> QED
      BY <3>2
  <2>3. Right(0, g)
    BY <2>2
  <2> HIDE DEF g, Right
  <2> QED
    BY <2>1, <2>3, <1>1
<1>6. ASSUME NEW n \in P, n < N
      PROVE  n + 1 \in P
  <2>1. PICK g \in [SUBSET S -> Nat] : Right(n, g)
    OBVIOUS
  <2> DEFINE h == next(g)
  <2>2. h \in [SUBSET S -> Nat] /\ n \in Nat /\ n + 1 \in 0..N
    <3>1. h \in [SUBSET S -> Nat]
      <4> HIDE DEF next
      <4> QED
        BY <1>4
    <3>2. n \in 0..N
      OBVIOUS
    <3> HIDE DEF h, P
    <3> QED
      BY <3>1, <3>2, <1>1, <1>6
  <2>3. ASSUME NEW s \in SUBSET S, Cardinality(s) <= n + 1
        PROVE  h[s] = next(h)[s]
    <3>1. CASE s = {}
      BY <3>1
    <3>2. CASE s # {}
      <4>1. s \ {Picked(s)} \in SUBSET S /\ Cardinality(s \ {Picked(s)}) <= n
        <5>1. Cardinality(s \ {Picked(s)}) = Cardinality(s) - 1 /\ s \ {Picked(s)} \in SUBSET S
          BY <1>3, <3>2
        <5> QED
          BY <5>1, <1>2, <2>2, <2>3
      <4>2. g[s \ {Picked(s)}] = h[s \ {Picked(s)}]
        <5> HIDE DEF next
        <5> QED
          BY <2>1, <4>1
      <4>3. h[s] = Picked(s)[2] + g[s \ {Picked(s)}]
        BY <3>2
      <4> HIDE DEF h
      <4>4. next(h)[s] = Picked(s)[2] + h[s \ {Picked(s)}]
        BY <3>2
      <4> QED
        BY <4>2, <4>3, <4>4
    <3> QED
      BY <3>1, <3>2
  <2>4. Right(n + 1, h)
    <3> HIDE DEF h, next
    <3> QED
      BY <2>3
  <2> HIDE DEF h, Right
  <2> QED
    BY <2>2, <2>4
<1>7. P = 0..N
  <2>1. P \in SUBSET (0..N)
    OBVIOUS
  <2> HIDE DEF P
  <2> QED
    BY <1>1, <1>5, <1>6, <2>1, UpTo
<1>8. N \in P
  <2> HIDE DEF P
  <2> QED
    BY <1>1, <1>7
<1>9. PICK g \in [SUBSET S -> Nat] : Right(N, g)
  BY <1>8
<1>10. ASSUME NEW s \in SUBSET S
       PROVE  g[s] = IF s = {} THEN 0 ELSE Picked(s)[2] + g[s \ {Picked(s)}]
  <2>1. g[s] = next(g)[s]
    <3> HIDE DEF next
    <3> QED
      BY <1>2, <1>9
  <2> QED
    BY <2>1
<1> QED
  BY <1>10 DEF AddsUp

LEMMA WorthIs ==
    ASSUME NEW S, IsFiniteSet(S), \A x \in S : x[2] \in Nat
    PROVE  \E g : AddsUp(g, S) /\ Worth(S) = g[S] /\ g = [s \in SUBSET S |-> g[s]]
<1> DEFINE body(g) == [s \in SUBSET S |->
                         IF s = {} THEN 0
                         ELSE (CHOOSE x \in s : TRUE)[2] + g[s \ {CHOOSE x \in s : TRUE}]]
           iter == CHOOSE g : g = body(g)
<1>1. PICK g \in [SUBSET S -> Nat] : AddsUp(g, S)
  BY WorthExists
<1>2. g = body(g)
  <2>1. g = [s \in SUBSET S |-> g[s]]
    OBVIOUS
  <2> QED
    BY <2>1, <1>1, Zenon DEF AddsUp, Picked
<1>3. iter = body(iter)
  <2> HIDE DEF body
  <2> QED
    BY <1>2
<1>4. Worth(S) = iter[S]
  BY DEF Worth, MapThenSumSet, MapThenFoldSet
<1> HIDE DEF iter
<1>5. AddsUp(iter, S)
  BY <1>3, Zenon DEF AddsUp, Picked
<1>6. iter = [s \in SUBSET S |-> iter[s]]
  BY <1>3
<1> QED
  BY <1>4, <1>5, <1>6

LEMMA WorthNat ==
    ASSUME NEW S, IsFiniteSet(S), \A x \in S : x[2] \in Nat, NEW g, AddsUp(g, S)
    PROVE  \A s \in SUBSET S : g[s] \in Nat
<1> DEFINE P == {s \in SUBSET S : g[s] \in Nat}
<1>1. {} \in P
  <2>1. g[{}] = 0 /\ {} \in SUBSET S
    BY Zenon DEF AddsUp
  <2> QED
    BY <2>1
<1>2. ASSUME NEW s \in SUBSET S, s # {}, \A x \in s : s \ {x} \in P
      PROVE  s \in P
  <2> DEFINE p == Picked(s)
             r == s \ {p}
  <2>1. p \in s /\ p \in S
    BY <1>2 DEF Picked
  <2>2. g[s] = p[2] + g[r]
    BY <1>2 DEF AddsUp
  <2> HIDE DEF p
  <2>3. g[r] \in Nat /\ p[2] \in Nat
    BY <1>2, <2>1
  <2> QED
    BY <2>2, <2>3
<1>3. P = SUBSET S
  <2>1. P \in SUBSET (SUBSET S)
    OBVIOUS
  <2> HIDE DEF P
  <2> QED
    BY <1>1, <1>2, <2>1, SetInduction
<1> QED
  BY <1>3

(* The order in which proofs are added up does not matter.                 *)
LEMMA AnyLast ==
    ASSUME NEW S, IsFiniteSet(S), \A x \in S : x[2] \in Nat, NEW g, AddsUp(g, S)
    PROVE  \A s \in SUBSET S : \A y \in s : g[s] = y[2] + g[s \ {y}]
<1> DEFINE P == {s \in SUBSET S : \A y \in s : g[s] = y[2] + g[s \ {y}]}
<1>1. {} \in P
  OBVIOUS
<1>2. ASSUME NEW s \in SUBSET S, s # {}, \A x \in s : s \ {x} \in P
      PROVE  s \in P
  <2> DEFINE p == Picked(s)
             r == s \ {p}
  <2>1. p \in s /\ p \in S
    BY <1>2 DEF Picked
  <2>2. g[s] = p[2] + g[r]
    BY <1>2 DEF AddsUp
  <2> HIDE DEF p
  <2>3. r \in P /\ p[2] \in Nat
    BY <1>2, <2>1
  <2>4. ASSUME NEW y \in s, y # p
        PROVE  g[s] = y[2] + g[s \ {y}]
    <3>1. g[r] = y[2] + g[r \ {y}] /\ r \ {y} \in SUBSET S /\ y[2] \in Nat
      BY <2>3, <2>4
    <3>2. s \ {y} \in P
      BY <1>2
    <3>3. g[s \ {y}] = p[2] + g[(s \ {y}) \ {p}]
      BY <2>1, <2>4, <3>2
    <3>4. (s \ {y}) \ {p} = r \ {y}
      OBVIOUS
    <3>5. g[r \ {y}] \in Nat
      BY <3>1, WorthNat
    <3> DEFINE all == g[s]
               lessP == g[r]
               lessY == g[s \ {y}]
               rest == g[r \ {y}]
               wp == p[2]
               wy == y[2]
    <3>6. /\ all = wp + lessP /\ lessP = wy + rest /\ lessY = wp + rest
          /\ wp \in Nat /\ wy \in Nat /\ rest \in Nat
      BY <2>2, <2>3, <3>1, <3>3, <3>4, <3>5, Zenon
    <3> HIDE DEF all, lessP, lessY, rest, wp, wy
    <3>7. all = wy + lessY
      BY <3>6
    <3> QED
      BY <3>7, Zenon DEF all, wy, lessY
  <2> QED
    BY <2>2, <2>4
<1>3. P = SUBSET S
  <2>1. P \in SUBSET (SUBSET S)
    OBVIOUS
  <2> HIDE DEF P
  <2> QED
    BY <1>1, <1>2, <2>1, SetInduction
<1> QED
  BY <1>3

LEMMA WorthOfNone == Worth({}) = 0
<1>1. IsFiniteSet({})
  BY FS_EmptySet
<1>2. PICK g : AddsUp(g, {}) /\ Worth({}) = g[{}]
  BY <1>1, WorthIs
<1> QED
  BY <1>2, Zenon DEF AddsUp

(* One proof more is worth its weight more.                                *)
LEMMA WorthGrows ==
    ASSUME NEW S, IsFiniteSet(S), NEW x, x \notin S, \A p \in S \cup {x} : p[2] \in Nat
    PROVE  Worth(S \cup {x}) = Worth(S) + x[2]
<1> DEFINE T == S \cup {x}
<1>1. IsFiniteSet(T)
  BY FS_AddElement
<1>2. PICK g : AddsUp(g, T) /\ Worth(T) = g[T]
  BY <1>1, WorthIs
<1>3. PICK e : AddsUp(e, S) /\ Worth(S) = e[S]
  BY WorthIs
<1> DEFINE P == {s \in SUBSET S : g[s] = e[s]}
<1>4. {} \in P
  <2>1. g[{}] = 0 /\ e[{}] = 0
    BY <1>2, <1>3, Zenon DEF AddsUp
  <2> QED
    BY <2>1
<1>5. ASSUME NEW s \in SUBSET S, s # {}, \A z \in s : s \ {z} \in P
      PROVE  s \in P
  <2>1. Picked(s) \in s /\ s \in SUBSET T
    BY <1>5 DEF Picked
  <2>2. g[s] = Picked(s)[2] + g[s \ {Picked(s)}] /\ e[s] = Picked(s)[2] + e[s \ {Picked(s)}]
    BY <1>2, <1>3, <1>5, <2>1, Zenon DEF AddsUp
  <2>3. g[s \ {Picked(s)}] = e[s \ {Picked(s)}]
    BY <1>5, <2>1
  <2> QED
    BY <2>2, <2>3
<1>6. P = SUBSET S
  <2>1. P \in SUBSET (SUBSET S)
    OBVIOUS
  <2> HIDE DEF P
  <2> QED
    BY <1>4, <1>5, <2>1, SetInduction
<1>7. g[S] = e[S]
  <2>1. S \in P
    <3> HIDE DEF P
    <3> QED
      BY <1>6
  <2> QED
    BY <2>1
<1>8. T \in SUBSET T /\ x \in T /\ T \ {x} = S /\ S \in SUBSET T
  OBVIOUS
<1>9. g[T] = x[2] + g[S]
  <2>1. \A p \in T : p[2] \in Nat
    OBVIOUS
  <2> HIDE DEF T
  <2>2. g[T] = x[2] + g[T \ {x}]
    BY <1>1, <1>2, <1>8, <2>1, AnyLast
  <2> QED
    BY <2>2, <1>8
<1>10. g[S] \in Nat /\ x[2] \in Nat
  <2>1. \A p \in T : p[2] \in Nat
    OBVIOUS
  <2> HIDE DEF T
  <2> QED
    BY <1>1, <1>2, <1>8, <2>1, WorthNat
<1>11. Worth(T) = x[2] + Worth(S) /\ Worth(S) \in Nat /\ x[2] \in Nat
  <2> HIDE DEF T
  <2> QED
    BY <1>2, <1>3, <1>7, <1>9, <1>10, Zenon
<1> QED
  BY <1>11

(* Every attempt is worth its proofs, one of each type.                    *)
HonestRow(x) ==
    /\ IsFiniteSet(x.proofs)
    /\ \A p, q \in x.proofs : p[1] = q[1] => p = q
    /\ x.score = Worth(x.proofs)
    /\ x.status \in {"satisfied", "consumed"} => x.score >= x.need

Honest == \A a \in Attempts : HonestRow(attempt[a])

LEMMA HonestRecord ==
    ASSUME RecoveryConstants, RecTyped, Honest, NEW q \in Requests, RecordReProof(q)
    PROVE  Honest'
<1> DEFINE a == req[q].of
           t == req[q].type
           w == req[q].weight
           x == attempt[a]
           score == x.score + w
           st == IF Reached(x, score) THEN "satisfied" ELSE x.status
           y == [x EXCEPT !.proofs = @ \cup {<<t, w>>}, !.score = score, !.status = st]
<1>1. /\ a \in Attempts /\ w \in Nat /\ x \in AttemptRows
      /\ attempt \in [Attempts -> AttemptRows]
  BY DEF RecordReProof, RecTyped, ReqsOK, ReqOK, AttemptsOK, RecoveryConstants
<1>2. CASE Proven(x, t)
  BY <1>2 DEF RecordReProof, Honest
<1>3. CASE ~Proven(x, t)
  <2>1. attempt' = [attempt EXCEPT ![a] = y]
    BY <1>1, <1>3 DEF RecordReProof
  <2>2. /\ y.proofs = x.proofs \cup {<<t, w>>} /\ y.score = score /\ y.status = st
        /\ y.need = x.need
    BY <1>1 DEF AttemptRows
  <2>3. HonestRow(x) /\ x.score \in Nat /\ x.need \in Nat
    BY <1>1 DEF Honest, AttemptRows
  <2>4. \A p \in x.proofs : p[1] # t /\ p[2] \in Nat
    <3>1. \A p \in x.proofs : p[2] \in Weights
      BY <1>1 DEF AttemptRows
    <3> QED
      BY <1>3, <3>1 DEF Proven, RecoveryConstants
  <2>5. IsFiniteSet(y.proofs)
    <3>1. IsFiniteSet(x.proofs)
      BY <2>3 DEF HonestRow
    <3>2. IsFiniteSet(x.proofs \cup {<<t, w>>})
      <4> HIDE DEF x, t, w
      <4> QED
        BY <3>1, FS_AddElement, Zenon
    <3> QED
      BY <2>2, <3>2, Zenon
  <2>6. \A p, r \in y.proofs : p[1] = r[1] => p = r
    BY <2>2, <2>3, <2>4 DEF HonestRow
  <2>7. y.score = Worth(y.proofs)
    <3> DEFINE S == x.proofs
               new == <<t, w>>
    <3>1. new \notin S /\ new[2] = w /\ \A p \in S \cup {new} : p[2] \in Nat
      BY <1>1, <2>4
    <3>2. IsFiniteSet(S) /\ x.score = Worth(S)
      BY <2>3 DEF HonestRow
    <3>3. Worth(S \cup {new}) = Worth(S) + new[2]
      <4> HIDE DEF S, new
      <4> QED
        BY <3>1, <3>2, WorthGrows
    <3> QED
      BY <2>2, <3>1, <3>2, <3>3
  <2>8. y.status \in {"satisfied", "consumed"} => y.score >= y.need
    <3>1. score \in Nat /\ score >= x.score
      BY <1>1, <2>3
    <3>2. x.status \in {"satisfied", "consumed"} => x.score >= x.need
      BY <2>3 DEF HonestRow
    <3> HIDE DEF score, x
    <3> QED
      BY <2>2, <2>3, <3>1, <3>2 DEF Reached
  <2>9. HonestRow(y)
    BY <2>5, <2>6, <2>7, <2>8 DEF HonestRow
  <2> HIDE DEF y
  <2> QED
    BY <1>1, <2>1, <2>9 DEF Honest
<1> QED
  BY <1>2, <1>3

(* Any other step leaves proofs, scores and thresholds alone.              *)
LEMMA HonestKept ==
    ASSUME Honest, attempt \in [Attempts -> AttemptRows], NEW a \in Attempts, NEW y,
           attempt' = [attempt EXCEPT ![a] = y], y.proofs = attempt[a].proofs,
           y.score = attempt[a].score, y.need = attempt[a].need,
           y.status \in {"satisfied", "consumed"} => attempt[a].status \in {"satisfied", "consumed"}
    PROVE  Honest'
<1>1. HonestRow(y)
  BY DEF Honest, HonestRow
<1> QED
  BY <1>1 DEF Honest

LEMMA HonestStep ==
    ASSUME RecoveryConstants, RecTyped, Honest, [Next]_accVars
    PROVE  Honest'
<1> attempt \in [Attempts -> AttemptRows]
  BY DEF RecTyped, AttemptsOK
<1>1. CASE UNCHANGED attempt
  BY <1>1 DEF Honest
<1>2. ASSUME NEW q \in Requests, RecordReProof(q)
      PROVE  Honest'
  BY <1>2, HonestRecord
<1>3. ASSUME NEW u, NEW a \in Attempts, StartRecoveryAttempt(u, a)
      PROVE  Honest'
  <2>1. PICK need \in Thresholds :
          attempt' = [attempt EXCEPT ![a] = [NoAttempt EXCEPT !.user = u, !.status = "pending",
                                                               !.need = need]]
    BY <1>3 DEF StartRecoveryAttempt
  <2> DEFINE y == [NoAttempt EXCEPT !.user = u, !.status = "pending", !.need = need]
  <2>2. y.proofs = {} /\ y.score = 0 /\ y.status = "pending"
    BY DEF NoAttempt
  <2>3. HonestRow(y)
    BY <2>2, WorthOfNone, FS_EmptySet DEF HonestRow
  <2> HIDE DEF y
  <2> QED
    BY <2>1, <2>3 DEF Honest, y
<1>4. ASSUME NEW a \in Attempts, AttemptExpires(a)
      PROVE  Honest'
  <2> DEFINE y == [attempt[a] EXCEPT !.expired = TRUE]
  <2>1. attempt' = [attempt EXCEPT ![a] = y]
    BY <1>4 DEF AttemptExpires
  <2>2. /\ y.proofs = attempt[a].proofs /\ y.score = attempt[a].score
        /\ y.need = attempt[a].need /\ y.status = attempt[a].status
    BY DEF AttemptRows
  <2> HIDE DEF y
  <2> QED
    BY <2>1, <2>2, HonestKept
<1>5. ASSUME NEW q \in Requests, ConsumeClaim(q)
      PROVE  Honest'
  <2> DEFINE a == req[q].of
             y == [attempt[a] EXCEPT !.status = "consumed"]
  <2>1. a \in Attempts
    BY <1>5 DEF ConsumeClaim, RecTyped, ReqsOK, ReqOK
  <2>2. UNCHANGED attempt \/ (attempt[a].status = "satisfied" /\ attempt' = [attempt EXCEPT ![a] = y])
    BY <1>5 DEF ConsumeClaim
  <2>3. /\ y.proofs = attempt[a].proofs /\ y.score = attempt[a].score
        /\ y.need = attempt[a].need
    BY <2>1 DEF AttemptRows
  <2> HIDE DEF y, a
  <2> QED
    BY <1>1, <2>1, <2>2, <2>3, HonestKept
<1>6. CASE (CredNext /\ UNCHANGED recVars) \/ UNCHANGED accVars
  BY <1>1, <1>6 DEF recVars, accVars
<1>7. CASE CodesStep
  BY <1>1, <1>7 DEF CodesStep, GenerateCodesCheck, GenerateCodesDelete, GenerateCodesCreate,
     GenerateRecoveryCodes, RedeemCode, RedeemRead, RecoverySignIn, SpendTicket, recVars
<1>8. CASE RecoveryStep
  <2>1. ASSUME NEW e \in Emails, NEW a \in Attempts, StartBadgeRecovery(e, a)
        PROVE  Honest'
    BY <1>3, <2>1 DEF StartBadgeRecovery
  <2>2. CASE AttemptStep
    BY <1>1, <1>2, <1>4, <1>5, <2>2 DEF AttemptStep, RequestReProof, ReProofRead, ConsumeRead
  <2>3. ASSUME NEW q \in Requests, TicketStep(q)
        PROVE  Honest'
    BY <1>1, <2>3 DEF TicketStep, RedeemClaim, IssueTicket, RequestDies
  <2>4. ASSUME NEW u \in Users, NEW t \in Types, BadgesChange(u, t)
        PROVE  Honest'
    BY <1>1, <2>4 DEF BadgesChange
  <2> QED
    BY <1>8, <2>1, <2>2, <2>3, <2>4 DEF RecoveryStep
<1> QED
  BY <1>6, <1>7, <1>8 DEF Next

(* An attempt is worth what was proved for it, each type once, however the *)
(* requests that record proofs overlap, and one that is satisfied or spent *)
(* has met the threshold it started with (lib/recovery-threshold.ts).      *)
THEOREM AttemptsHonest == Spec => []ScoreHonest
<1> USE RecoveryConstants
<1>1. Init => Honest
  <2>1. NoAttempt.proofs = {} /\ NoAttempt.score = 0 /\ NoAttempt.status = "none"
    BY DEF NoAttempt
  <2>2. HonestRow(NoAttempt)
    BY <2>1, WorthOfNone, FS_EmptySet DEF HonestRow
  <2> QED
    BY <2>2 DEF Init, RecInit, Honest
<1>2. AccInv /\ Honest /\ [Next]_accVars => Honest'
  BY HonestStep DEF AccInv, RecPart
<1>3. Honest => ScoreHonest
  BY Zenon DEF Honest, HonestRow, ScoreHonest, Worth
<1> QED
  BY <1>1, <1>2, <1>3, AccInvariant, PTL DEF Spec

-----------------------------------------------------------------------------
(* The second part: the settings of recovery.                              *)

RowColumns == [live : WeightRange, pending : WeightRange \cup {Null}, at : Nat, solo : BOOLEAN]
ConfigColumns == [live : ThresholdRange, pending : ThresholdRange \cup {Null}, at : Nat]

RunColumns == [status : {"pending"}, need : Nat, expires : Nat,
               alone : SUBSET Rows, soloThen : SUBSET Rows]

(* An edit decides on the columns as they still are.                       *)
UpToDate(e) ==
    /\ e.pc \in {"idle", "weight", "solo", "threshold"}
    /\ e.pc # "idle" => e.config = config
    /\ e.pc \in {"weight", "solo"} => e.of \in Rows /\ e.row = weightRow[e.of]
    /\ e.pc = "weight" => e.to \in WeightRange
    /\ e.pc = "solo" => e.to \in BOOLEAN
    /\ e.pc = "threshold" => e.to \in ThresholdRange /\ e.rows = weightRow

(* So it stays because an edit that has read holds the lock.               *)
EditOK(a) == UpToDate(edit[a]) /\ (edit[a].pc # "idle" => lock = a)

(* As long as an attempt runs, a type that could not recover alone when it *)
(* began stays below what the attempt needs: its weight is lighter, and a  *)
(* heavier one lands after the attempt has expired.                        *)
RunOK(t) ==
    run[t] # NoRun =>
        /\ run[t] \in RunColumns
        /\ run[t].expires <= now + AttemptTTL
        /\ run[t].alone \subseteq run[t].soloThen
        /\ \A r \in Rows \ run[t].soloThen :
             /\ weightRow[r].live < run[t].need
             /\ \/ weightRow[r].pending = Null
                \/ weightRow[r].pending < run[t].need
                \/ weightRow[r].at >= run[t].expires

RcInv ==
    /\ RcTypeOK
    /\ weightRow \in [Rows -> RowColumns]
    /\ edit = [a \in Admins |-> edit[a]]
    /\ run = [t \in Runs |-> run[t]]
    /\ SoloBlocked
    /\ \A a \in Admins : EditOK(a)
    /\ \A t \in Runs : RunOK(t)

-----------------------------------------------------------------------------
(* The operators.                                                          *)

(* Planning a weight puts exactly that weight into the worst case, never   *)
(* raises the weight in force, and schedules past every attempt under way. *)
LEMMA PlannedWeight ==
    ASSUME NEW x \in RowColumns, NEW v \in WeightRange, now \in Nat,
           x.pending # Null => x.pending > x.live
    PROVE  LET y == planRecoveryWeightWrite(x, x, v)
           IN  /\ y \in RowColumns
               /\ y.pending # Null => y.pending > y.live
               /\ y.solo = x.solo
               /\ worstWeight(y) = v
               /\ y.live <= x.live
               /\ y.pending # Null => y.at = now + WeakenDelay
               /\ Effective(y) <= Effective(x)
<1> DEFINE y == planRecoveryWeightWrite(x, x, v)
<1> USE RecoveryConfigConstants DEF WeightRange, RowColumns
<1>1. CASE v <= x.live
  <2>1. y = [live |-> v, pending |-> Null, at |-> 0, solo |-> x.solo]
    BY <1>1 DEF planRecoveryWeightWrite, Immediate
  <2> QED BY <1>1, <2>1 DEF worstWeight, Effective
<1>2. CASE ~(v <= x.live)
  <2>1. y = [live |-> x.live, pending |-> v, at |-> now + WeakenDelay, solo |-> x.solo]
    BY <1>2 DEF planRecoveryWeightWrite, Scheduled
  <2> QED BY <1>2, <2>1 DEF worstWeight, Effective
<1> QED BY <1>1, <1>2

(* Planning a threshold, likewise.                                         *)
LEMMA PlannedThreshold ==
    ASSUME NEW c \in ConfigColumns, NEW v \in ThresholdRange, now \in Nat,
           c.pending # Null => c.pending < c.live
    PROVE  LET y == planThresholdWrite(c, c, v)
           IN  /\ y \in ConfigColumns
               /\ y.pending # Null => y.pending < y.live
               /\ worstThreshold(y) = v
               /\ Effective(y) >= Effective(c)
<1> DEFINE y == planThresholdWrite(c, c, v)
<1> USE RecoveryConfigConstants DEF ThresholdRange, ConfigColumns
<1>1. CASE v >= c.live
  <2>1. y = [live |-> v, pending |-> Null, at |-> 0]
    BY <1>1 DEF planThresholdWrite, Immediate
  <2> QED BY <1>1, <2>1 DEF worstThreshold, Effective
<1>2. CASE ~(v >= c.live)
  <2>1. y = [live |-> c.live, pending |-> v, at |-> now + WeakenDelay]
    BY <1>2 DEF planThresholdWrite, Scheduled
  <2> QED BY <1>2, <2>1 DEF worstThreshold, Effective
<1> QED BY <1>1, <1>2

(* The worst case bounds what is in force, now and later.                  *)
LEMMA WorstBounds ==
    ASSUME RcInv
    PROVE  /\ \A r \in Rows : weightRow[r].live <= worstWeight(weightRow[r])
           /\ \A r \in Rows : weightRow[r].pending # Null => weightRow[r].pending <= worstWeight(weightRow[r])
           /\ worstThreshold(config) <= Effective(config)
           /\ Effective(config) \in Nat
BY RecoveryConfigConstants
DEF RcInv, RcTypeOK, RowColumns, Columns, WeightRange, ThresholdRange, worstWeight, worstThreshold, Effective

-----------------------------------------------------------------------------
LEMMA RcInitInv == RcInit => RcInv
<1> SUFFICES ASSUME RcInit PROVE RcInv
  OBVIOUS
<1> USE RecoveryConfigConstants DEF RcInit, WeightRange, ThresholdRange
<1>1. weightRow \in [Rows -> RowColumns]
  BY DEF RowColumns
<1>2. RcTypeOK
  BY <1>1 DEF RcTypeOK, RowColumns, Columns
<1>3. SoloBlocked
  BY DEF SoloBlocked, worstWeight, worstThreshold
<1>4. \A a \in Admins : EditOK(a)
  BY DEF EditOK, UpToDate, NoEdit
<1>5. \A t \in Runs : RunOK(t)
  BY DEF RunOK
<1> QED BY <1>1, <1>2, <1>3, <1>4, <1>5 DEF RcInv

(* Taking the lock: whoever else edits is idle.                            *)
LEMMA LocksStep ==
    ASSUME RcInv, NEW a \in Admins, NEW q, q.pc # "idle", UpToDate(q), Locks(a, q)
    PROVE  RcInv'
<1> USE DEF Locks
<1>1. \A b \in Admins : edit'[b] = IF b = a THEN q ELSE edit[b]
  BY DEF RcInv
<1>2. \A b \in Admins : edit[b].pc = "idle"
  BY RecoveryConfigConstants DEF RcInv, EditOK, LockFree
<1>3. UpToDate(q)' /\ \A b \in Admins : UpToDate(edit[b])'
  BY <1>1, <1>2 DEF RcInv, UpToDate
<1>4. \A b \in Admins : EditOK(b)'
  BY <1>1, <1>2, <1>3 DEF EditOK, UpToDate
<1>5. RcTypeOK' /\ SoloBlocked'
  BY DEF RcInv, RcTypeOK, SoloBlocked
<1>6. \A t \in Runs : RunOK(t)'
  BY DEF RcInv, RunOK
<1>7. weightRow' \in [Rows -> RowColumns] /\ run' = [t \in Runs |-> run'[t]]
  BY DEF RcInv
<1>8. edit' = [b \in Admins |-> edit'[b]]
  BY DEF RcInv
<1> QED BY <1>4, <1>5, <1>6, <1>7, <1>8 DEF RcInv

LEMMA ReadSteps ==
    ASSUME RcInv, NEW a \in Admins,
           \/ \E r \in Rows, v \in WeightRange : WeightRead(a, r, v)
           \/ \E r \in Rows, v \in BOOLEAN : SoloRead(a, r, v)
           \/ \E v \in ThresholdRange : ThresholdRead(a, v)
    PROVE  RcInv'
<1>1. ASSUME NEW r \in Rows, NEW v \in WeightRange, WeightRead(a, r, v) PROVE RcInv'
  <2> DEFINE q == [pc |-> "weight", of |-> r, to |-> v, row |-> weightRow[r], config |-> config]
  <2>1. q.pc # "idle" /\ UpToDate(q)
    BY DEF UpToDate
  <2> QED BY <1>1, <2>1, LocksStep DEF WeightRead
<1>2. ASSUME NEW r \in Rows, NEW v \in BOOLEAN, SoloRead(a, r, v) PROVE RcInv'
  <2> DEFINE q == [pc |-> "solo", of |-> r, to |-> v, row |-> weightRow[r], config |-> config]
  <2>1. q.pc # "idle" /\ UpToDate(q)
    BY DEF UpToDate
  <2> QED BY <1>2, <2>1, LocksStep DEF SoloRead
<1>3. ASSUME NEW v \in ThresholdRange, ThresholdRead(a, v) PROVE RcInv'
  <2> DEFINE q == [pc |-> "threshold", to |-> v, rows |-> weightRow, config |-> config]
  <2>1. q.pc # "idle" /\ UpToDate(q)
    BY DEF UpToDate
  <2> QED BY <1>3, <2>1, LocksStep DEF ThresholdRead
<1> QED BY <1>1, <1>2, <1>3

(* Once the one edit that has read is over, every edit is idle.            *)
LEMMA UnlocksIdle ==
    ASSUME RcInv, NEW a \in Admins, edit[a].pc # "idle", Unlocks(a)
    PROVE  /\ \A b \in Admins : EditOK(b)'
           /\ edit' = [b \in Admins |-> edit'[b]]
           /\ lock' \in Admins \cup {Null}
<1>1. \A b \in Admins : edit'[b].pc = "idle"
  BY DEF RcInv, EditOK, Unlocks, NoEdit
<1>2. \A b \in Admins : EditOK(b)'
  BY <1>1 DEF EditOK, UpToDate
<1> QED BY <1>2 DEF RcInv, RcTypeOK, Unlocks

LEMMA UpdateRecoveryWeightStep ==
    ASSUME RcInv, NEW a \in Admins, UpdateRecoveryWeight(a)
    PROVE  RcInv' /\ \A r \in Rows : Effective(weightRow[r])' <= Effective(weightRow[r])
<1> DEFINE e == edit[a]
           x == weightRow[e.of]
           y == planRecoveryWeightWrite(x, x, e.to)
<1>1. e.pc = "weight" /\ Unlocks(a) /\ UNCHANGED <<config, now, run>>
  BY DEF UpdateRecoveryWeight
<1>2. e.of \in Rows /\ e.to \in WeightRange /\ e.row = x /\ e.config = config
  BY <1>1 DEF RcInv, EditOK, UpToDate
<1>3. weightRow' = [weightRow EXCEPT ![e.of] = y]
  BY <1>2 DEF UpdateRecoveryWeight
<1>4. x \in RowColumns /\ now \in Nat /\ (x.pending # Null => x.pending > x.live)
  BY <1>2, RecoveryConfigConstants DEF RcInv, RcTypeOK
<1>5. /\ y \in RowColumns
      /\ y.pending # Null => y.pending > y.live
      /\ y.solo = x.solo
      /\ worstWeight(y) = e.to
      /\ y.live <= x.live
      /\ y.pending # Null => y.at = now + WeakenDelay
      /\ Effective(y) <= Effective(x)
  BY <1>2, <1>4, PlannedWeight
<1> HIDE DEF y
<1>6. \A r \in Rows : weightRow'[r] = IF r = e.of THEN y ELSE weightRow[r]
  BY <1>3 DEF RcInv
<1>7. weightRow' \in [Rows -> RowColumns]
  BY <1>3, <1>5 DEF RcInv
<1>8. RcTypeOK'
  <2>1. \A r \in Rows : /\ weightRow'[r] \in RowColumns
                        /\ weightRow'[r].pending # Null => weightRow'[r].pending > weightRow'[r].live
    BY <1>5, <1>6 DEF RcInv, RcTypeOK
  <2> QED BY <1>1, <2>1, UnlocksIdle DEF RcInv, RcTypeOK, RowColumns
<1>9. SoloBlocked'
  <2>1. ~y.solo => e.to < worstThreshold(config)
    <3>1. worstThreshold(config) \in Nat /\ e.to \in Nat
      BY <1>2, RecoveryConfigConstants
      DEF RcInv, RcTypeOK, Columns, ThresholdRange, WeightRange, worstThreshold
    <3> QED BY <1>2, <1>5, <3>1 DEF UpdateRecoveryWeight, WeightRefused, soloBlockError
  <2> QED BY <1>1, <1>5, <1>6, <2>1 DEF RcInv, SoloBlocked, worstWeight, worstThreshold
<1>10. ASSUME NEW t \in Runs PROVE RunOK(t)'
  <2> SUFFICES ASSUME run[t] # NoRun, NEW r \in Rows \ run[t].soloThen, r = e.of
               PROVE  /\ y.live < run[t].need
                      /\ y.pending = Null \/ y.at >= run[t].expires
    BY <1>1, <1>6 DEF RcInv, RunOK
  <2>1. /\ run[t].need \in Nat /\ run[t].expires \in Nat
        /\ run[t].expires <= now + AttemptTTL /\ x.live < run[t].need
    BY DEF RcInv, RunOK, RunColumns
  <2> QED BY <1>4, <1>5, <2>1, RecoveryConfigConstants DEF RowColumns, WeightRange
<1>11. ASSUME NEW r \in Rows PROVE Effective(weightRow[r])' <= Effective(weightRow[r])
  <2>1. Effective(weightRow[r]) \in Nat
    BY RecoveryConfigConstants DEF RcInv, RowColumns, WeightRange, Effective
  <2> QED BY <1>1, <1>5, <1>6, <2>1 DEF Effective
<1> QED BY <1>1, <1>7, <1>8, <1>9, <1>10, <1>11, UnlocksIdle DEF RcInv

LEMMA SetAllowSoloRecoveryStep ==
    ASSUME RcInv, NEW a \in Admins, SetAllowSoloRecovery(a)
    PROVE  RcInv' /\ \A r \in Rows : Effective(weightRow[r])' = Effective(weightRow[r])
<1> DEFINE e == edit[a]
<1>1. e.pc = "solo" /\ Unlocks(a) /\ UNCHANGED <<config, now, run>>
  BY DEF SetAllowSoloRecovery
<1>2. e.of \in Rows /\ e.to \in BOOLEAN /\ e.row = weightRow[e.of] /\ e.config = config
  BY <1>1 DEF RcInv, EditOK, UpToDate
<1>3. weightRow' = [weightRow EXCEPT ![e.of].solo = e.to]
  BY DEF SetAllowSoloRecovery
<1>4. \A r \in Rows : weightRow[r] \in RowColumns
  BY DEF RcInv
<1>5. [weightRow[e.of] EXCEPT !.solo = e.to] \in RowColumns
  BY <1>2, <1>4 DEF RowColumns
<1>6. weightRow' \in [Rows -> RowColumns]
  BY <1>3, <1>5 DEF RcInv
<1>7. \A r \in Rows : /\ weightRow'[r].live = weightRow[r].live
                      /\ weightRow'[r].pending = weightRow[r].pending
                      /\ weightRow'[r].at = weightRow[r].at
                      /\ weightRow'[r].solo = IF r = e.of THEN e.to ELSE weightRow[r].solo
  BY <1>2, <1>3, <1>4 DEF RcInv, RowColumns
<1>8. RcTypeOK'
  BY <1>1, <1>6, <1>7, UnlocksIdle DEF RcInv, RcTypeOK, RowColumns
<1>9. SoloBlocked'
  <2>1. \A r \in Rows : worstWeight(weightRow[r])' = worstWeight(weightRow[r])
    BY <1>7 DEF worstWeight
  <2>2. worstThreshold(config)' = worstThreshold(config)
    BY <1>1 DEF worstThreshold
  <2>3. /\ worstThreshold(config) \in Nat
        /\ \A r \in Rows : worstWeight(weightRow[r]) \in Nat
    BY <1>4, RecoveryConfigConstants
    DEF RcInv, RcTypeOK, Columns, ThresholdRange, RowColumns, WeightRange, worstThreshold, worstWeight
  <2>4. ~e.to => worstWeight(weightRow[e.of]) < worstThreshold(config)
    BY <1>2, <2>3 DEF SetAllowSoloRecovery, SoloRefused, soloBlockError
  <2> QED BY <1>2, <1>7, <2>1, <2>2, <2>4 DEF RcInv, SoloBlocked
<1>10. \A t \in Runs : RunOK(t)'
  BY <1>1, <1>7 DEF RcInv, RunOK
<1>11. \A r \in Rows : Effective(weightRow[r])' = Effective(weightRow[r])
  BY <1>1, <1>7 DEF Effective
<1> QED BY <1>1, <1>6, <1>8, <1>9, <1>10, <1>11, UnlocksIdle DEF RcInv

LEMMA UpdateRecoveryThresholdStep ==
    ASSUME RcInv, NEW a \in Admins, UpdateRecoveryThreshold(a)
    PROVE  RcInv' /\ Effective(config)' >= Effective(config)
<1> DEFINE e == edit[a]
           y == planThresholdWrite(config, config, e.to)
<1>1. e.pc = "threshold" /\ Unlocks(a) /\ UNCHANGED <<weightRow, now, run>>
  BY DEF UpdateRecoveryThreshold
<1>2. e.to \in ThresholdRange /\ e.rows = weightRow /\ e.config = config
  BY <1>1 DEF RcInv, EditOK, UpToDate
<1>3. config' = y
  BY <1>2 DEF UpdateRecoveryThreshold
<1>4. config \in ConfigColumns /\ now \in Nat /\ (config.pending # Null => config.pending < config.live)
  BY RecoveryConfigConstants DEF RcInv, RcTypeOK, Columns, ConfigColumns
<1>5. /\ y \in ConfigColumns
      /\ y.pending # Null => y.pending < y.live
      /\ worstThreshold(y) = e.to
      /\ Effective(y) >= Effective(config)
  BY <1>2, <1>4, PlannedThreshold
<1> HIDE DEF y
<1>6. RcTypeOK'
  BY <1>1, <1>3, <1>5, UnlocksIdle DEF RcInv, RcTypeOK, Columns, ConfigColumns
<1>7. SoloBlocked'
  <2>1. e.to \in Nat /\ \A r \in Rows : worstWeight(weightRow[r]) \in Nat
    BY <1>2, RecoveryConfigConstants DEF RcInv, ThresholdRange, RowColumns, WeightRange, worstWeight
  <2>2. \A r \in Rows : ~weightRow[r].solo => worstWeight(weightRow[r]) < e.to
    BY <1>2, <2>1 DEF UpdateRecoveryThreshold, ThresholdRefused, soloBlockError
  <2> QED BY <1>1, <1>3, <1>5, <2>2 DEF SoloBlocked, worstWeight, worstThreshold
<1>8. \A t \in Runs : RunOK(t)'
  BY <1>1 DEF RcInv, RunOK
<1>9. Effective(config)' >= Effective(config)
  BY <1>1, <1>3, <1>5 DEF Effective
<1> QED BY <1>1, <1>6, <1>7, <1>8, <1>9, UnlocksIdle DEF RcInv

LEMMA EditThrowsStep ==
    ASSUME RcInv, NEW a \in Admins, EditThrows(a)
    PROVE  RcInv'
<1>1. edit[a].pc # "idle" /\ Unlocks(a) /\ UNCHANGED <<weightRow, config, now, run>>
  BY DEF EditThrows
<1>2. RcTypeOK' /\ SoloBlocked'
  BY <1>1, UnlocksIdle DEF RcInv, RcTypeOK, SoloBlocked
<1>3. \A t \in Runs : RunOK(t)'
  BY <1>1 DEF RcInv, RunOK
<1> QED BY <1>1, <1>2, <1>3, UnlocksIdle DEF RcInv

-----------------------------------------------------------------------------
(* What an attempt starts with: whoever cannot recover alone is below the  *)
(* threshold in force, scheduled weights included.                         *)
LEMMA StartRecoveryAttemptStep ==
    ASSUME RcInv, NEW t \in Runs, RunStart(t)
    PROVE  RcInv'
<1> DEFINE need == Effective(config)
           solo == {r \in Rows : weightRow[r].solo}
           new == [status |-> "pending", need |-> need, expires |-> now + AttemptTTL,
                   alone |-> {}, soloThen |-> solo]
<1>1. run' = [run EXCEPT ![t] = new] /\ UNCHANGED <<weightRow, config, now, lock, edit>>
  BY DEF RunStart
<1>2. \A q \in Runs : run'[q] = IF q = t THEN new ELSE run[q]
  BY <1>1 DEF RcInv
<1>3. RcTypeOK' /\ SoloBlocked' /\ \A a \in Admins : EditOK(a)'
  BY <1>1 DEF RcInv, RcTypeOK, SoloBlocked, EditOK, UpToDate
<1>4. ASSUME NEW r \in Rows \ solo
      PROVE  weightRow[r].live < need /\ (weightRow[r].pending = Null \/ weightRow[r].pending < need)
  <2>1. worstWeight(weightRow[r]) < worstThreshold(config)
    BY DEF RcInv, SoloBlocked
  <2>2. /\ weightRow[r].live \in Nat /\ worstWeight(weightRow[r]) \in Nat
        /\ weightRow[r].pending = Null \/ weightRow[r].pending \in Nat
        /\ worstThreshold(config) \in Nat
    BY RecoveryConfigConstants
    DEF RcInv, RcTypeOK, Columns, ThresholdRange, RowColumns, WeightRange, worstThreshold, worstWeight
  <2> QED BY <2>1, <2>2, WorstBounds
<1>5. ASSUME NEW q \in Runs PROVE RunOK(q)'
  <2>1. CASE q = t
    <3>1. run'[q] = new
      BY <1>2, <2>1
    <3>2. need \in Nat /\ now \in Nat
      BY WorstBounds, RecoveryConfigConstants DEF RcInv, RcTypeOK
    <3>3. new \in RunColumns
      BY <3>2, RecoveryConfigConstants DEF RunColumns
    <3> HIDE DEF need, solo
    <3> QED BY <1>1, <1>4, <3>1, <3>2, <3>3, RecoveryConfigConstants DEF RunOK
  <2>2. CASE q # t
    BY <1>1, <1>2, <2>2 DEF RcInv, RunOK
  <2> QED BY <2>1, <2>2
<1> QED BY <1>1, <1>3, <1>5 DEF RcInv

(* A proof meets the need alone only for a type that could from the start. *)
LEMMA RecordReProofStep ==
    ASSUME RcInv, NEW t \in Runs, NEW r \in Rows, RunReProof(t, r)
    PROVE  RcInv'
<1> DEFINE met == Effective(weightRow[r]) >= run[t].need
<1>1. /\ run[t].status = "pending" /\ now < run[t].expires
      /\ run' = [run EXCEPT ![t].alone = IF met THEN @ \cup {r} ELSE @]
      /\ UNCHANGED <<weightRow, config, now, lock, edit>>
  BY DEF RunReProof, Running
<1>2. RcTypeOK' /\ SoloBlocked' /\ \A a \in Admins : EditOK(a)'
  BY <1>1 DEF RcInv, RcTypeOK, SoloBlocked, EditOK, UpToDate
<1>3. run[t] # NoRun
  BY <1>1 DEF NoRun
<1>4. r \notin run[t].soloThen => ~met
  <2> SUFFICES ASSUME r \notin run[t].soloThen PROVE ~met
    OBVIOUS
  <2>1. /\ run[t].need \in Nat /\ run[t].expires \in Nat
        /\ weightRow[r].live < run[t].need
        /\ \/ weightRow[r].pending = Null
           \/ weightRow[r].pending < run[t].need
           \/ weightRow[r].at >= run[t].expires
    BY <1>3 DEF RcInv, RunOK, RunColumns
  <2>2. now \in Nat /\ weightRow[r] \in RowColumns
    BY RecoveryConfigConstants DEF RcInv, RcTypeOK
  <2> QED BY <1>1, <2>1, <2>2, RecoveryConfigConstants DEF Effective, RowColumns, WeightRange
<1>5. ASSUME NEW q \in Runs PROVE RunOK(q)'
  <2>1. CASE q = t
    <3>0. run[q] \in RunColumns
      BY <1>3, <2>1 DEF RcInv, RunOK
    <3>1. /\ run'[q] \in RunColumns /\ run'[q].need = run[q].need
          /\ run'[q].expires = run[q].expires /\ run'[q].soloThen = run[q].soloThen
          /\ run'[q].alone = IF met THEN run[q].alone \cup {r} ELSE run[q].alone
      BY <1>1, <2>1, <3>0 DEF RcInv, RunColumns
    <3>2. RunOK(q) /\ run[q] # NoRun
      BY <1>3, <2>1 DEF RcInv
    <3>3. run'[q].alone \subseteq run'[q].soloThen
      BY <1>4, <2>1, <3>1, <3>2 DEF RunOK
    <3> HIDE DEF met
    <3> QED BY <1>1, <3>1, <3>2, <3>3 DEF RunOK
  <2>2. CASE q # t
    BY <1>1, <2>2 DEF RcInv, RunOK
  <2> QED BY <2>1, <2>2
<1> QED BY <1>1, <1>2, <1>5 DEF RcInv

LEMMA TickStep == ASSUME RcInv, Tick PROVE RcInv'
<1>1. now \in Nat /\ now' = now + 1 /\ now' \in 0..MaxTime /\ UNCHANGED <<weightRow, config, lock, edit, run>>
  BY RecoveryConfigConstants DEF RcInv, RcTypeOK, Tick
<1>2. RcTypeOK' /\ SoloBlocked' /\ \A a \in Admins : EditOK(a)'
  BY <1>1 DEF RcInv, RcTypeOK, SoloBlocked, EditOK, UpToDate
<1>3. \A t \in Runs : RunOK(t)'
  BY <1>1, RecoveryConfigConstants DEF RcInv, RunOK, RunColumns
<1> QED BY <1>1, <1>2, <1>3 DEF RcInv

(* Every step keeps the invariant.                                         *)
LEMMA RcStep == RcInv /\ [RcNext]_rcVars => RcInv'
<1> SUFFICES ASSUME RcInv, [RcNext]_rcVars PROVE RcInv'
  OBVIOUS
<1>1. CASE UNCHANGED rcVars
  <2>1. RcTypeOK' /\ SoloBlocked' /\ \A a \in Admins : EditOK(a)'
    BY <1>1 DEF rcVars, RcInv, RcTypeOK, SoloBlocked, EditOK, UpToDate
  <2>2. \A t \in Runs : RunOK(t)'
    BY <1>1 DEF rcVars, RcInv, RunOK
  <2> QED BY <1>1, <2>1, <2>2 DEF rcVars, RcInv
<1>2. CASE RcNext
  BY <1>2, ReadSteps, UpdateRecoveryWeightStep, SetAllowSoloRecoveryStep,
     UpdateRecoveryThresholdStep, EditThrowsStep, StartRecoveryAttemptStep,
     RecordReProofStep, TickStep
  DEF RcNext
<1> QED BY <1>1, <1>2

LEMMA RcSpecInv == RcSpec => []RcInv
BY RcInitInv, RcStep, PTL DEF RcSpec

-----------------------------------------------------------------------------
(* The columns stay within their bounds, and what is scheduled is weaker.  *)
THEOREM RcTypeCorrect == RcSpec => []RcTypeOK
<1>1. RcInv => RcTypeOK
  BY DEF RcInv
<1> QED BY <1>1, RcSpecInv, PTL

(* However edits of weights, flags and threshold overlap, no type without  *)
(* the solo flag reaches the threshold alone, now or once schedules land.  *)
THEOREM NobodyAlone == RcSpec => []SoloBlocked
<1>1. RcInv => SoloBlocked
  BY DEF RcInv
<1> QED BY <1>1, RcSpecInv, PTL

(* An attempt is met by one proof only of a type that was a solo type when *)
(* it began, whatever is edited meanwhile.                                 *)
THEOREM EntryNeedsSolo == RcSpec => []NoSoloEntry
<1>1. RcInv => NoSoloEntry
  BY DEF RcInv, RunOK, NoSoloEntry
<1> QED BY <1>1, RcSpecInv, PTL

(* No step but the passing of time makes recovery easier.                  *)
THEOREM EasierOnlyInTime == RcSpec => NeverEasierAtOnce
<1>1. ASSUME RcInv, [RcNext]_rcVars
      PROVE  [now' = now =>
                /\ \A r \in Rows : Effective(weightRow[r])' <= Effective(weightRow[r])
                /\ Effective(config)' >= Effective(config)]_rcVars
  <2> SUFFICES ASSUME RcNext, now' = now
               PROVE  /\ \A r \in Rows : Effective(weightRow[r])' <= Effective(weightRow[r])
                      /\ Effective(config)' >= Effective(config)
    BY <1>1
  <2>1. /\ Effective(config) \in Nat
        /\ \A r \in Rows : Effective(weightRow[r]) \in Nat
    BY <1>1, WorstBounds, RecoveryConfigConstants DEF RcInv, RowColumns, WeightRange, Effective
  <2>2. UNCHANGED weightRow => \A r \in Rows : Effective(weightRow[r])' <= Effective(weightRow[r])
    BY <2>1 DEF Effective
  <2>3. UNCHANGED config => Effective(config)' >= Effective(config)
    BY <2>1 DEF Effective
  <2>4. ASSUME NEW a \in Admins, UpdateRecoveryWeight(a)
        PROVE  \A r \in Rows : Effective(weightRow[r])' <= Effective(weightRow[r])
    BY <1>1, <2>4, UpdateRecoveryWeightStep
  <2>5. ASSUME NEW a \in Admins, SetAllowSoloRecovery(a)
        PROVE  \A r \in Rows : Effective(weightRow[r])' <= Effective(weightRow[r])
    BY <1>1, <2>1, <2>5, SetAllowSoloRecoveryStep
  <2>6. ASSUME NEW a \in Admins, UpdateRecoveryThreshold(a)
        PROVE  Effective(config)' >= Effective(config)
    BY <1>1, <2>6, UpdateRecoveryThresholdStep
  <2>7. \/ UNCHANGED <<weightRow, config>>
        \/ \E a \in Admins : UpdateRecoveryWeight(a) /\ UNCHANGED config
        \/ \E a \in Admins : SetAllowSoloRecovery(a) /\ UNCHANGED config
        \/ \E a \in Admins : UpdateRecoveryThreshold(a) /\ UNCHANGED weightRow
    BY DEF RcNext, WeightRead, SoloRead, ThresholdRead, Locks, UpdateRecoveryWeight,
           SetAllowSoloRecovery, UpdateRecoveryThreshold, EditThrows,
           RunStart, RunReProof, Tick
  <2> QED BY <2>2, <2>3, <2>4, <2>5, <2>6, <2>7
<1> QED BY <1>1, RcSpecInv, PTL DEF RcSpec, NeverEasierAtOnce
=============================================================================
