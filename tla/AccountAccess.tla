---------------------------- MODULE AccountAccess ---------------------------
(***************************************************************************)
(* An account's credentials together with the ways back in without them:   *)
(* what recovery reads of the credentials (who holds an address, who may   *)
(* draw recovery codes), and the reduced session it ends in.               *)
(*                                                                         *)
(* Bans and merges, which recovery refuses too, are in OidcProvider and    *)
(* AccountMerge.                                                           *)
(***************************************************************************)
EXTENDS Credentials, Recovery

ASSUME OneWorld == Accounts = Users /\ Requests = Browsers

accVars == <<credVars, recVars>>

Init == CredInit /\ RecInit

-----------------------------------------------------------------------------
(* generateMyRecoveryCodes.  A recovered session is not turned away as     *)
(* such: it is below AAL2.                                                 *)

GenerateCodesCheck(b) ==
    /\ Idle(b)
    /\ sess[b].aal = 2
    /\ Gate(b)
    /\ Await(b, "codes", None, None)
    /\ UNCHANGED <<emailVars, otpVars, passkey, sess, recVars>>

GenerateCodesDelete(b) ==
    /\ call[b].pc = "codes"
    /\ Await(b, "batch", None, Unused(sess[b].user))
    /\ UNCHANGED <<emailVars, otpVars, passkey, sess, recVars>>

GenerateCodesCreate(b) ==
    /\ call[b].pc = "batch"
    /\ GenerateRecoveryCodes(sess[b].user, call[b].arg)
    /\ Answer(b)
    /\ UNCHANGED <<emailVars, otpVars, passkey, sess>>

(* resolveUserId: a row, verified or not, or else the cached address.      *)
Identified(e) ==
    IF row[e].user # None THEN {row[e].user} ELSE {u \in Users : cache[u] = e}

(* redeemRecoveryCodeAndSignIn up to the match of the code.                *)
RedeemCode(q, e, c) ==
    /\ Idle(q)
    /\ \E u \in Identified(e) : RedeemRead(q, u, c)
    /\ UNCHANGED credVars

(* startBadgeRecovery: verified addresses only.                            *)
StartBadgeRecovery(e, a) ==
    /\ row[e].verified
    /\ StartRecoveryAttempt(row[e].user, a)
    /\ UNCHANGED credVars

(* RecoveryProvider and the jwt callback: AAL1, recovered, no acting       *)
(* passkey; whatever session the browser had is replaced.                  *)
RecoverySignIn(q) ==
    /\ Idle(q)
    /\ SpendTicket(q)
    /\ sess' = [sess EXCEPT ![q] = [NoSess EXCEPT !.user = UserOf(req[q].of), !.aal = 1,
                                                  !.recovered = TRUE]]
    /\ UNCHANGED <<emailVars, otpVars, passkey, call>>

-----------------------------------------------------------------------------

CodesStep ==
    \E b \in Browsers :
        \/ GenerateCodesCheck(b) \/ GenerateCodesDelete(b) \/ GenerateCodesCreate(b)
        \/ \E e \in Emails, c \in Codes : RedeemCode(b, e, c)
        \/ RecoverySignIn(b)

RecoveryStep ==
    \/ \E e \in Emails, a \in Attempts : StartBadgeRecovery(e, a)
    \/ /\ UNCHANGED credVars
       /\ \/ AttemptStep
          \/ \E q \in Requests : TicketStep(q)
          \/ \E u \in Users, t \in Types : cache[u] # None /\ BadgesChange(u, t)

Next ==
    \/ CredNext /\ UNCHANGED recVars
    \/ CodesStep
    \/ RecoveryStep

Spec == Init /\ [][Next]_accVars

-----------------------------------------------------------------------------
(* Properties.                                                             *)

(* Every table of either part holds values of its shape, and no code more  *)
(* attempts than the ceiling, however guesses overlap.                     *)
TypeOK == CredTypeOK /\ RecTypeOK
=============================================================================
