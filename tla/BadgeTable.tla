----------------------------- MODULE BadgeTable -----------------------------
(***************************************************************************)
(* The Badge table as its readers see it: the scorer, the policy engine,   *)
(* share links and statistics all read rows that the wizard inserts and    *)
(* the holder deletes at any moment, while a clock makes them age.         *)
(*                                                                         *)
(* Every row is one this server issued; how a row comes to be is the       *)
(* wizard's business (Wizard, DedupLedger).                                *)
(***************************************************************************)
EXTENDS Naturals, FiniteSets, FiniteSetsExt

CONSTANTS
    Users,
    BadgeIds,       \* Badge rows that can be issued
    OwnerOf,        \* the user a row belongs to
    TypeOf,         \* its badge type
    AttrOf,         \* the attribute value policies and statistics look at
    Lifetime,       \* ticks from issuance to expiry, or Null
    MaxClock,       \* bound: the clock stops here
    Null

ASSUME BadgeConstants ==
    /\ IsFiniteSet(Users) /\ IsFiniteSet(BadgeIds)
    /\ OwnerOf \in [BadgeIds -> Users]
    /\ MaxClock \in Nat
    /\ \A b \in BadgeIds : Lifetime[b] \in Nat \/ Lifetime[b] = Null

Types == {TypeOf[b] : b \in BadgeIds}

VARIABLES
    status,         \* of each row: unissued, held or deleted
    issuedAt,
    clock

badgeVars == <<status, issuedAt, clock>>

BadgeInit ==
    /\ status = [b \in BadgeIds |-> "unissued"]
    /\ issuedAt = [b \in BadgeIds |-> 0]
    /\ clock = 0

Held(u) == {b \in BadgeIds : status[b] = "held" /\ OwnerOf[b] = u}

(* Badge.expiresAt, of a row that has one.                                 *)
Expires(b) == Lifetime[b] # Null
expiresAt(b) == issuedAt[b] + Lifetime[b]

IssueBadge(b) ==
    /\ status[b] = "unissued"
    /\ status' = [status EXCEPT ![b] = "held"]
    /\ issuedAt' = [issuedAt EXCEPT ![b] = clock]
    /\ UNCHANGED clock

(* deleteBadge: the row goes; its ledger entry is DedupLedger's.           *)
DeleteBadge(b) ==
    /\ status[b] = "held"
    /\ status' = [status EXCEPT ![b] = "deleted"]
    /\ issuedAt' = [issuedAt EXCEPT ![b] = 0]
    /\ UNCHANGED clock

ClockTick ==
    /\ clock < MaxClock
    /\ clock' = clock + 1
    /\ UNCHANGED <<status, issuedAt>>

BadgeNext ==
    \/ \E b \in BadgeIds : IssueBadge(b) \/ DeleteBadge(b)
    \/ ClockTick
=============================================================================
