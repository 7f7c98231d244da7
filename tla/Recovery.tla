------------------------------ MODULE Recovery ------------------------------
(***************************************************************************)
(* Getting back into an account without its credentials: one-time recovery *)
(* codes, and attempts that add up the weights of badges proved again live *)
(* until a threshold is met.  Either yields a single-use ticket.           *)
(*                                                                         *)
(* recordReProof is modelled for every badge type; of the plugins that     *)
(* call it, this version wires email-domain, whose mailed link is the      *)
(* live proof.                                                             *)
(***************************************************************************)
EXTENDS Naturals, FiniteSets, FiniteSetsExt

CONSTANTS
    Accounts,
    Codes,          \* RecoveryCode rows that can be created
    CodeCount,      \* RECOVERY_CODE_COUNT
    Attempts,       \* RecoveryAttempt rows
    Types,          \* RECOVERY_ELIGIBLE_TYPES
    Weights,        \* the weights the configuration may give a type
    Thresholds,     \* the thresholds it may set
    Requests,       \* concurrent recovery requests
    Mails,          \* bound: serial numbers of the links of an attempt
    Nobody

ASSUME RecoveryConstants ==
    /\ CodeCount \in Nat \ {0}
    /\ Weights \subseteq Nat /\ Thresholds \subseteq Nat \ {0}
    /\ Nobody \notin Accounts \cup Codes \cup Attempts \cup Types
    /\ Codes \cap Attempts = {}

Sources == Codes \cup Attempts

VARIABLES
    code,       \* RecoveryCode rows
    attempt,    \* RecoveryAttempt rows with their RecoveryProof rows
    mails,      \* outstanding re-proof links, by attempt and serial number
    holds,      \* the non-public badges of each account
    req,        \* requests under way
    ticket,     \* the ticket minted from each code or attempt
    entered     \* ghost: how often each code or attempt led to a session

recVars == <<code, attempt, mails, holds, req, ticket, entered>>

NoCode == [user |-> Nobody, state |-> "none"]
NoAttempt == [user |-> Nobody, status |-> "none", need |-> 0, score |-> 0,
              proofs |-> {}, expired |-> FALSE]
NoReq == [pc |-> "idle", of |-> Nobody, type |-> Nobody, weight |-> 0]

RecInit ==
    /\ code = [c \in Codes |-> NoCode]
    /\ attempt = [a \in Attempts |-> NoAttempt]
    /\ mails = {}
    /\ holds = [u \in Accounts |-> {}]
    /\ req = [q \in Requests |-> NoReq]
    /\ ticket = [s \in Sources |-> Nobody]
    /\ entered = [s \in Sources |-> 0]

Done(q) == req' = [req EXCEPT ![q] = NoReq]

-----------------------------------------------------------------------------
(* Recovery codes.                                                         *)

Unused(u) == {c \in Codes : code[c] = [user |-> u, state |-> "unused"]}

(* generateRecoveryCodes: the unused codes its first statement finds go, a *)
(* new batch comes.                                                        *)
GenerateRecoveryCodes(u, old) ==
    /\ \E new \in kSubset(CodeCount, {c \in Codes : code[c] = NoCode}) :
         code' = [c \in Codes |->
                    IF c \in new THEN [user |-> u, state |-> "unused"]
                    ELSE IF c \in old \cap Unused(u) THEN [code[c] EXCEPT !.state = "deleted"]
                    ELSE code[c]]
    /\ UNCHANGED <<attempt, mails, holds, req, ticket, entered>>

(* redeemRecoveryCode finds the row; u is the account the address names.   *)
RedeemRead(q, u, c) ==
    /\ req[q] = NoReq
    /\ c \in Unused(u)
    /\ req' = [req EXCEPT ![q] = [NoReq EXCEPT !.pc = "redeem", !.of = c]]
    /\ UNCHANGED <<code, attempt, mails, holds, ticket, entered>>

(* Mutant: the update asks only that the row is still there.               *)
MutRedeemable(c) == code[c].state \in {"unused", "used"}

(* The conditional update: usedAt is still null.                           *)
Redeemable(c) == code[c].state = "unused"

(* Whoever wins goes on to mint a ticket.                                  *)
RedeemClaim(q) ==
    LET c == req[q].of IN
    /\ req[q].pc = "redeem"
    /\ IF Redeemable(c)
         THEN /\ code' = [code EXCEPT ![c].state = "used"]
              /\ req' = [req EXCEPT ![q].pc = "mint"]
         ELSE Done(q) /\ UNCHANGED code
    /\ UNCHANGED <<attempt, mails, holds, ticket, entered>>

-----------------------------------------------------------------------------
(* Badge recovery.                                                         *)

StartRecoveryAttempt(u, a) ==
    /\ attempt[a] = NoAttempt
    /\ \E need \in Thresholds :
         attempt' = [attempt EXCEPT ![a] = [NoAttempt EXCEPT
                       !.user = u, !.status = "pending", !.need = need]]
    /\ UNCHANGED <<code, mails, holds, req, ticket, entered>>

AttemptExpires(a) ==
    /\ attempt[a] # NoAttempt /\ ~attempt[a].expired
    /\ attempt' = [attempt EXCEPT ![a].expired = TRUE]
    /\ UNCHANGED <<code, mails, holds, req, ticket, entered>>

(* A badge is issued, made private, made public or deleted (deleteBadge,   *)
(* toggleBadgePublic; recovery counts private badges only).                *)
BadgesChange(u, t) ==
    /\ holds' = [holds EXCEPT ![u] = IF t \in @ THEN @ \ {t} ELSE @ \cup {t}]
    /\ UNCHANGED <<code, attempt, mails, req, ticket, entered>>

Open(a) == attempt[a].status = "pending" /\ ~attempt[a].expired

(* requestEmailDomainReProof, a link at a time; n tells links apart.       *)
RequestReProof(a, n, t) ==
    /\ Open(a)
    /\ t \in holds[attempt[a].user]
    /\ ~ \E x \in mails : x[1] = a /\ x[2] = n
    /\ mails' = mails \cup {<<a, n, t>>}
    /\ UNCHANGED <<code, attempt, holds, req, ticket, entered>>

(* completeEmailDomainReProof spends the link; recordReProof then reads    *)
(* the attempt, the badge and the live weight.  A configuration that       *)
(* cannot be read stops it, as does an attempt that is not open.           *)
ReProofRead(q, x, w) ==
    LET a == x[1]
        t == x[3]
    IN
    /\ req[q] = NoReq
    /\ x \in mails
    /\ mails' = mails \ {x}
    /\ \/ /\ Open(a) /\ t \in holds[attempt[a].user]
          /\ req' = [req EXCEPT ![q] = [pc |-> "record", of |-> a, type |-> t,
                                        weight |-> w]]
       \/ UNCHANGED req
    /\ UNCHANGED <<code, attempt, holds, ticket, entered>>

(* Mutant: a type may count twice.                                         *)
MutProven(x, t) == FALSE

(* The unique key on (attemptId, badgeType).                               *)
Proven(x, t) == \E p \in x.proofs : p[1] = t

(* satisfied is reached from pending only.                                 *)
Reached(x, score) == score >= x.need /\ x.status = "pending"

(* The transaction looks at neither status nor expiry again.               *)
RecordReProof(q) ==
    LET a == req[q].of
        x == attempt[a]
        score == x.score + req[q].weight
    IN
    /\ req[q].pc = "record"
    /\ attempt' = IF Proven(x, req[q].type) THEN attempt
                  ELSE [attempt EXCEPT ![a].proofs = @ \cup {<<req[q].type, req[q].weight>>},
                                       ![a].score = score,
                                       ![a].status = IF Reached(x, score) THEN "satisfied"
                                                                          ELSE @]
    /\ Done(q)
    /\ UNCHANGED <<code, mails, holds, ticket, entered>>

(* consumeSatisfiedAttempt: the reads, the claim.                          *)
ConsumeRead(q, a) ==
    /\ req[q] = NoReq
    /\ attempt[a].status = "satisfied" /\ ~attempt[a].expired
    /\ req' = [req EXCEPT ![q] = [NoReq EXCEPT !.pc = "consume", !.of = a]]
    /\ UNCHANGED <<code, attempt, mails, holds, ticket, entered>>

ConsumeClaim(q) ==
    LET a == req[q].of IN
    /\ req[q].pc = "consume"
    /\ IF attempt[a].status = "satisfied"
         THEN /\ attempt' = [attempt EXCEPT ![a].status = "consumed"]
              /\ req' = [req EXCEPT ![q].pc = "mint"]
         ELSE Done(q) /\ UNCHANGED attempt
    /\ UNCHANGED <<code, mails, holds, ticket, entered>>

-----------------------------------------------------------------------------
(* Tickets.                                                                *)

UserOf(s) == IF s \in Codes THEN code[s].user ELSE attempt[s].user

(* issueRecoveryTicket, with its marker.                                   *)
IssueTicket(q) ==
    /\ req[q].pc = "mint"
    /\ ticket' = [ticket EXCEPT ![req[q].of] = UserOf(req[q].of)]
    /\ req' = [req EXCEPT ![q].pc = "signin"]
    /\ UNCHANGED <<code, attempt, mails, holds, entered>>

(* verifyRecoveryTicket deletes the marker, once.                          *)
SpendTicket(q) ==
    LET s == req[q].of IN
    /\ req[q].pc = "signin"
    /\ ticket[s] # Nobody
    /\ ticket' = [ticket EXCEPT ![s] = Nobody]
    /\ entered' = [entered EXCEPT ![s] = @ + 1]
    /\ Done(q)
    /\ UNCHANGED <<code, attempt, mails, holds>>

(* The process dies, a ticket outlives its ten minutes, or mail fails: the *)
(* code or attempt is gone and the user has to start again.                *)
RequestDies(q) ==
    /\ req[q] # NoReq
    /\ Done(q)
    /\ ticket' = IF req[q].pc = "signin" THEN [ticket EXCEPT ![req[q].of] = Nobody]
                                         ELSE ticket
    /\ UNCHANGED <<code, attempt, mails, holds, entered>>

-----------------------------------------------------------------------------

(* What needs nothing of the account's credentials.                        *)
AttemptStep ==
    \/ \E a \in Attempts :
         \/ AttemptExpires(a)
         \/ \E n \in Mails, t \in Types : RequestReProof(a, n, t)
    \/ \E q \in Requests :
         \/ \E x \in mails, w \in Weights : ReProofRead(q, x, w)
         \/ \E a \in Attempts : ConsumeRead(q, a)
         \/ RecordReProof(q) \/ ConsumeClaim(q)

TicketStep(q) == RedeemClaim(q) \/ IssueTicket(q) \/ RequestDies(q)

-----------------------------------------------------------------------------
(* Properties.                                                             *)

(* Every table holds values of its shape.                                  *)
RecTypeOK ==
    /\ code \in [Codes -> [user : Accounts \cup {Nobody},
                           state : {"none", "unused", "used", "deleted"}]]
    /\ \A a \in Attempts :
         /\ attempt[a].user \in Accounts \cup {Nobody}
         /\ attempt[a].status \in {"none", "pending", "satisfied", "consumed"}
         /\ attempt[a].score \in Nat /\ attempt[a].need \in Nat
         /\ attempt[a].proofs \subseteq Types \X Weights
    /\ holds \in [Accounts -> SUBSET Types]
    /\ ticket \in [Sources -> Accounts \cup {Nobody}]
    /\ entered \in [Sources -> Nat]

(* An attempt is worth what was proved for it, each type once, however the *)
(* requests that record proofs overlap; and one that is satisfied has met  *)
(* the threshold it started with.                                          *)
ScoreHonest ==
    \A a \in Attempts :
        LET x == attempt[a] IN
        /\ \A p, q \in x.proofs : p[1] = q[1] => p = q
        /\ x.score = MapThenSumSet(LAMBDA p : p[2], x.proofs)
        /\ x.status \in {"satisfied", "consumed"} => x.score >= x.need

(* A code, and an attempt, lets somebody in once: not again by a second    *)
(* redemption, a late proof or a second ticket.                            *)
EntersOnce == \A s \in Sources : entered[s] <= 1
=============================================================================
