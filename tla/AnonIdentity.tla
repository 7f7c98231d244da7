---------------------------- MODULE AnonIdentity ----------------------------
(***************************************************************************)
(* The anonymous identity: a root the browser generates and the server     *)
(* never sees.  The server keeps an enrollment row (its epoch rises with   *)
(* every reset and re-key), copies of the root wrapped under a passkey,    *)
(* and a blind relay over which one device hands the root to another.  A   *)
(* device holds the root in memory with the epoch it believes the root to  *)
(* belong to, and in its own store.                                        *)
(*                                                                         *)
(* A device's server actions run one after the other; those of two devices *)
(* overlap between their statements.  The account of the cookie may change *)
(* under an open page (another tab signs in), so the account the page      *)
(* works for and the account the server sees can differ.  A root is an     *)
(* opaque value that remembers whose it is and the epoch it was enrolled   *)
(* in; encryption is what it binds: who can open it, and to which values.  *)
(***************************************************************************)
EXTENDS Naturals, FiniteSets, Sequences

CONSTANTS
    Users, Devices,
    Passkeys, PasskeyOf,  \* passkeys and the account each belongs to
    RelayIds,             \* relay session ids, never reused
    Persistent,           \* devices whose browser has IndexedDB
    MaxBlobs,             \* MAX_BLOBS_PER_USER
    MaxCycles,            \* MAX_CYCLES of the displaying page
    MaxEpoch, MaxRoots,   \* bounds: epochs and roots of a behaviour
    None

Epochs == 1..MaxEpoch
Roots == [user : Users, epoch : Epochs, n : 1..MaxRoots]

(* A root never travels alone: the account and the epoch it is taken to    *)
(* belong to.  A relay session carries that.                               *)
Payloads == [root : Roots, user : Users, epoch : Epochs]
RelayRows == [state : {"waiting", "sealed", "claimed", "swept"}, user : Users,
              age : {"fresh", "lapsed", "old"}, payload : Payloads \cup {None}]

ASSUME AnonConstants ==
    /\ PasskeyOf \in [Passkeys -> Users]
    /\ Persistent \subseteq Devices
    /\ MaxBlobs \in Nat /\ MaxCycles \in Nat /\ MaxEpoch \in Nat \ {0} /\ MaxRoots \in Nat
    /\ None \notin Users \cup Devices \cup Passkeys \cup RelayIds
    /\ None \notin RelayRows

VARIABLES
    row,      \* AnonSeedEnrollment, by user
    blobs,    \* AnonSeedBlob, by user
    rekeyed,  \* users with an anon_seed.rekey audit row within the cooldown
    relay,    \* AnonPairSession, by id
    cookie,   \* the account each browser is signed in to
    page,     \* the page each browser shows: account, server epoch, status, and
              \* the root on its backup screen
    wrap,     \* the copy each browser waits for a passkey to wrap
    vault,    \* the root in memory, by device
    store,    \* IndexedDB, by device and user
    op,       \* the server action under way, by device
    disp,     \* the get-key page of a device
    poll,     \* its claim request under way
    made,     \* the roots generated so far
    backed,   \* those typed back in on the backup screen
    relabelled \* what was typed in, autofilled or copied as something it is not

serverVars == <<row, blobs, rekeyed>>
tabVars == <<cookie, page, wrap>>
vaultVars == <<vault, store>>
pairVars == <<relay, disp, poll>>
history == <<made, backed, relabelled>>
vars == <<serverVars, tabVars, vaultVars, pairVars, op, history>>

NoRow == [epoch |-> 1, gen |-> FALSE, conf |-> FALSE]

NoDisp == [phase |-> "none", id |-> None, cycle |-> 0]
IdleOp == [pc |-> "idle", user |-> None, epoch |-> 1, blob |-> None]

(* stateOf *)
Active(r) == r.gen /\ r.conf

Snapshot(u) == [user |-> u, epoch |-> row[u].epoch, active |-> Active(row[u]), shown |-> None]

Init ==
    /\ row = [u \in Users |-> NoRow]
    /\ blobs = [u \in Users |-> {}]
    /\ rekeyed = {}
    /\ relay = [s \in RelayIds |-> None]
    /\ cookie \in [Devices -> Users]
    /\ page = [d \in Devices |-> Snapshot(cookie[d])]
    /\ wrap = [d \in Devices |-> None]
    /\ vault = [d \in Devices |-> None]
    /\ store = [d \in Devices |-> [u \in Users |-> None]]
    /\ op = [d \in Devices |-> IdleOp]
    /\ disp = [d \in Devices |-> NoDisp]
    /\ poll = [d \in Devices |-> None]
    /\ made = <<>>
    /\ backed = {}
    /\ relabelled = {}

Idle(d) == op[d] = IdleOp
Goes(d, pc) == op' = [op EXCEPT ![d] = [IdleOp EXCEPT !.pc = pc, !.user = cookie[d]]]
Ends(d) == op' = [op EXCEPT ![d] = IdleOp]

-----------------------------------------------------------------------------
(* The vault of a device.                                                  *)

Holds(d, u) == vault[d] # None /\ vault[d].user = u
IsVaultReady(d, u) == Holds(d, u) /\ vault[d].active

(* Mutant: the root is kept before its backup is confirmed.                *)
MutPersistRoot(d, v) ==
    store' = IF d \in Persistent
             THEN [store EXCEPT ![d][v.user] = [root |-> v.root, epoch |-> v.epoch]]
             ELSE store

PersistRoot(d, v) ==
    store' = IF v.active /\ d \in Persistent
             THEN [store EXCEPT ![d][v.user] = [root |-> v.root, epoch |-> v.epoch]]
             ELSE store

UnlockVault(d, u, root, active, epoch) ==
    LET v == [user |-> u, root |-> root, active |-> active, epoch |-> epoch]
    IN  vault' = [vault EXCEPT ![d] = v] /\ PersistRoot(d, v)

MarkVaultActive(d) ==
    IF Holds(d, page[d].user)
    THEN UnlockVault(d, page[d].user, vault[d].root, TRUE, vault[d].epoch)
    ELSE UNCHANGED vaultVars

LockVault(d) == vault' = [vault EXCEPT ![d] = None]

(* The root an app secret is derived from; None if the vault refuses.      *)
DeriveAppSecret(d, u, epoch) ==
    IF IsVaultReady(d, u) /\ vault[d].epoch = epoch THEN vault[d].root ELSE None

(* What the redirect after an approval carries: the server hands out its   *)
(* current epoch with the approval.                                        *)
AnonRedirect(d) == DeriveAppSecret(d, page[d].user, row[page[d].user].epoch)

(* A page is loaded for the account of the cookie; a full load drops the   *)
(* vault and what was waiting, a navigation within the application keeps   *)
(* both.                                                                   *)
OpenPage(d) ==
    /\ Idle(d)
    /\ page' = [page EXCEPT ![d] = Snapshot(cookie[d])]
    /\ disp' = [disp EXCEPT ![d] = NoDisp]
    /\ \/ LockVault(d) /\ wrap' = [wrap EXCEPT ![d] = None]
       \/ UNCHANGED <<vault, wrap>>
    /\ UNCHANGED <<serverVars, cookie, store, relay, poll, op, history>>

SignIn(d, u) ==
    /\ cookie[d] # u
    /\ cookie' = [cookie EXCEPT ![d] = u]
    /\ UNCHANGED <<serverVars, page, wrap, vaultVars, pairVars, op, history>>

UnlockFromStore(d) ==
    LET kept == store[d][page[d].user]
    IN  /\ Idle(d) /\ kept # None
        /\ UnlockVault(d, page[d].user, kept.root, TRUE, kept.epoch)
        /\ UNCHANGED <<serverVars, tabVars, pairVars, op, history>>

(* A root is relabelled when it is taken for another account's or another  *)
(* epoch's, or for backed up, and is not.                                  *)
Relabels(root, u, epoch, sound) ==
    relabelled' = IF root.user = u /\ root.epoch = epoch /\ sound
                  THEN relabelled
                  ELSE relabelled \cup {[root |-> root, user |-> u, epoch |-> epoch]}

(* The pages with a field to type a key in: the unlock panel of an active  *)
(* account, which the password manager also fills, and the get-key page,   *)
(* whatever the state of the enrollment.                                   *)
TakesSeedInput(d) ==
    \/ page[d].active /\ disp[d].phase = "none"
    \/ disp[d].phase \in {"displaying", "exhausted", "error"}

(* A key typed in or autofilled is a bare root: any root ever generated,   *)
(* of any account (the password manager keeps one entry for all), epoch    *)
(* and state.  It is taken for the page's account and the epoch the page   *)
(* was rendered with, and for backed up.                                   *)
UnlockWithSeedInput(d) ==
    /\ Idle(d) /\ TakesSeedInput(d)
    /\ \E i \in DOMAIN made :
         /\ UnlockVault(d, page[d].user, made[i], TRUE, page[d].epoch)
         /\ Relabels(made[i], page[d].user, page[d].epoch, made[i] \in backed)
    /\ disp' = [disp EXCEPT ![d].phase = IF @ = "none" THEN @ ELSE "received"]
    /\ UNCHANGED <<serverVars, tabVars, relay, poll, op, made, backed>>

-----------------------------------------------------------------------------
(* Enrollment: the row is stamped, then the browser makes a root; the      *)
(* owner types its backup back in and the row is confirmed.                *)

BeginRead(d) ==
    /\ Idle(d) /\ ~page[d].active /\ disp[d].phase = "none"
    /\ ~row[cookie[d]].gen
    /\ Goes(d, "begin")
    /\ UNCHANGED <<serverVars, tabVars, vaultVars, pairVars, history>>

(* generate: a root nobody has seen, not active before its backup; the     *)
(* page goes on to show it.                                                *)
Generate(d, epoch) ==
    LET root == [user |-> page[d].user, epoch |-> epoch, n |-> Len(made) + 1]
    IN  /\ made' = Append(made, root)
        /\ UnlockVault(d, page[d].user, root, FALSE, epoch)
        /\ page' = [page EXCEPT ![d].shown = root]

BeginWrite(d) ==
    LET u == op[d].user
    IN  /\ op[d].pc = "begin" /\ Len(made) < MaxRoots
        /\ row' = [row EXCEPT ![u].gen = TRUE]
        /\ Generate(d, row[u].epoch)
        /\ Ends(d)
        /\ UNCHANGED <<blobs, rekeyed, cookie, wrap, pairVars, backed, relabelled>>

Confirming(d) == page[d].shown # None

(* The backup is of the root shown; what becomes active is what the vault  *)
(* holds by now.                                                           *)
Confirmed(d) ==
    /\ MarkVaultActive(d)
    /\ page' = [page EXCEPT ![d].active = TRUE, ![d].shown = None]
    /\ backed' = backed \cup {page[d].shown}

ConfirmRead(d) ==
    /\ Idle(d) /\ Confirming(d)
    /\ row[cookie[d]].gen
    /\ \/ ~row[cookie[d]].conf /\ Goes(d, "confirm") /\ UNCHANGED <<vaultVars, page, backed>>
       \/ row[cookie[d]].conf /\ Confirmed(d) /\ UNCHANGED op
    /\ UNCHANGED <<serverVars, cookie, wrap, pairVars, made, relabelled>>

ConfirmWrite(d) ==
    /\ op[d].pc = "confirm"
    /\ row' = [row EXCEPT ![op[d].user].conf = TRUE]
    /\ Confirmed(d)
    /\ Ends(d)
    /\ UNCHANGED <<blobs, rekeyed, cookie, wrap, pairVars, made, relabelled>>

-----------------------------------------------------------------------------
(* Reset and re-key: both raise the epoch and delete every copy.           *)

BumpEpochAndPurge(u) ==
    /\ row[u].epoch < MaxEpoch
    /\ row' = [row EXCEPT ![u] = [epoch |-> @.epoch + 1, gen |-> FALSE, conf |-> FALSE]]
    /\ blobs' = [blobs EXCEPT ![u] = {}]

(* The page goes on to the enrollment of a new root.                       *)
ToEnrollment(d) == page' = [page EXCEPT ![d].active = FALSE, ![d].shown = None]

ResetRead(d) ==
    /\ Idle(d)
    /\ row[cookie[d]].gen
    /\ row[cookie[d]].conf => page[d].active  \* only the key manager sends the phrase
    /\ Goes(d, "reset")
    /\ UNCHANGED <<serverVars, tabVars, vaultVars, pairVars, history>>

(* The key manager locks the vault; starting over before the backup leaves *)
(* a root that can no longer be confirmed.  Neither clears the store.      *)
ResetWrite(d) ==
    /\ op[d].pc = "reset"
    /\ BumpEpochAndPurge(op[d].user)
    /\ LockVault(d)
    /\ ToEnrollment(d)
    /\ Ends(d)
    /\ UNCHANGED <<rekeyed, cookie, wrap, store, pairVars, history>>

(* The gates on the session (AAL2, five minutes, quarantine, phrase) are   *)
(* taken as passed.                                                        *)
RekeyCooldown(d) ==
    /\ Idle(d)
    /\ cookie[d] \notin rekeyed
    /\ Goes(d, "cooled")
    /\ UNCHANGED <<serverVars, tabVars, vaultVars, pairVars, history>>

RekeyRead(d) ==
    /\ op[d].pc = "cooled"
    /\ op' = [op EXCEPT ![d] = IF row[op[d].user].conf THEN [@ EXCEPT !.pc = "rekey"]
                                                       ELSE IdleOp]
    /\ UNCHANGED <<serverVars, tabVars, vaultVars, pairVars, history>>

RekeyWrite(d) ==
    /\ op[d].pc = "rekey"
    /\ BumpEpochAndPurge(op[d].user)
    /\ op' = [op EXCEPT ![d].pc = "audit"]
    /\ UNCHANGED <<rekeyed, tabVars, vaultVars, pairVars, history>>

RekeyAudit(d) ==
    /\ op[d].pc = "audit"
    /\ rekeyed' = rekeyed \cup {op[d].user}
    /\ ToEnrollment(d)
    /\ Ends(d)
    /\ UNCHANGED <<row, blobs, cookie, wrap, vaultVars, pairVars, history>>

-----------------------------------------------------------------------------
(* Copies under a passkey.  The wrap binds the page's account, the passkey *)
(* and the epoch the server gave; an unwrap must name the same.            *)

WrapSeed(root, k, u, epoch) == [cred |-> k, user |-> u, epoch |-> epoch, root |-> root]

(* enrollPasskeyBlob up to its passkey prompt: the vault holds something   *)
(* for the page's account, the server says active and gives the epoch.     *)
EnrollPasskeyBlob(d) ==
    /\ Idle(d) /\ wrap[d] = None
    /\ Holds(d, page[d].user)
    /\ Active(row[cookie[d]])
    /\ \E k \in Passkeys :
         /\ PasskeyOf[k] = cookie[d]
         /\ wrap' = [wrap EXCEPT ![d] = [cred |-> k, user |-> page[d].user,
                                        epoch |-> row[cookie[d]].epoch]]
    /\ UNCHANGED <<serverVars, cookie, page, vaultVars, pairVars, op, history>>

(* The prompt is answered: what the vault holds by then is wrapped, for    *)
(* the account and the epoch of before; a vault locked meanwhile ends it.  *)
WrapPasskeyBlob(d) ==
    LET w == wrap[d]
    IN  /\ Idle(d) /\ w # None
        /\ wrap' = [wrap EXCEPT ![d] = None]
        /\ \/ vault[d] = None /\ UNCHANGED <<op, relabelled>>
           \/ /\ vault[d] # None
              /\ op' = [op EXCEPT ![d] = [pc |-> "put", user |-> None, epoch |-> 1,
                            blob |-> WrapSeed(vault[d].root, w.cred, w.user, w.epoch)]]
              /\ Relabels(vault[d].root, w.user, w.epoch, vault[d].root \in backed)
        /\ UNCHANGED <<serverVars, cookie, page, vaultVars, pairVars, made, backed>>

OfCred(u, k) == {b \in blobs[u] : b.cred = k}

PutSeedBlobCheck(d) ==
    LET u == cookie[d]
        b == op[d].blob
        ok == /\ row[u].conf
              /\ OfCred(u, b.cred) # {} \/ Cardinality(blobs[u]) < MaxBlobs
    IN  /\ op[d].pc = "put"
        /\ op' = [op EXCEPT ![d] = IF ok THEN [@ EXCEPT !.pc = "upsert", !.user = u]
                                         ELSE IdleOp]
        /\ UNCHANGED <<serverVars, tabVars, vaultVars, pairVars, history>>

PutSeedBlobWrite(d) ==
    LET u == op[d].user
        b == op[d].blob
    IN  /\ op[d].pc = "upsert"
        /\ blobs' = [blobs EXCEPT ![u] = (@ \ OfCred(u, b.cred)) \cup {b}]
        /\ Ends(d)
        /\ UNCHANGED <<row, rekeyed, tabVars, vaultVars, pairVars, history>>

DeleteSeedBlob(d, k) ==
    /\ Idle(d) /\ OfCred(cookie[d], k) # {}
    /\ blobs' = [blobs EXCEPT ![cookie[d]] = @ \ OfCred(cookie[d], k)]
    /\ UNCHANGED <<row, rekeyed, tabVars, vaultVars, pairVars, op, history>>

GetSeedBlobsEpoch(d) ==
    /\ Idle(d) /\ page[d].active
    /\ op' = [op EXCEPT ![d] = [pc |-> "blobs", user |-> cookie[d],
                                epoch |-> row[cookie[d]].epoch, blob |-> None]]
    /\ UNCHANGED <<serverVars, tabVars, vaultVars, pairVars, history>>

(* Mutant: the epoch is left out of the wrap's additional data.            *)
MutUnwraps(b, u, epoch) == b.user = u

Unwraps(b, u, epoch) == b.user = u /\ b.epoch = epoch

UnlockWithPasskey(d) ==
    LET u == page[d].user
        e == op[d].epoch
    IN  /\ op[d].pc = "blobs"
        /\ Ends(d)
        /\ \/ \E b \in blobs[op[d].user] :
                Unwraps(b, u, e) /\ UnlockVault(d, u, b.root, TRUE, e)
           \/ (\A b \in blobs[op[d].user] : ~Unwraps(b, u, e)) /\ UNCHANGED vaultVars
        /\ UNCHANGED <<serverVars, tabVars, pairVars, history>>

-----------------------------------------------------------------------------
(* Pairing.  The get-key page opens a relay session and shows its id and a *)
(* fresh public key; a device that holds the root seals it to that key and *)
(* deposits it; the page polls and claims it.  The key pair and the claim  *)
(* secret stay on the page, so the session stands for both.                *)

NewSession(u) == [state |-> "waiting", user |-> u, age |-> "fresh", payload |-> None]

OldSessions == {s \in RelayIds : relay[s] # None /\ relay[s].age = "old"}

(* createPairSession; sessions that expired long ago are swept first.      *)
CreatePairSession(s, u) ==
    /\ relay[s] = None
    /\ relay' = [t \in RelayIds |->
                   IF t = s THEN NewSession(u)
                   ELSE IF t \in OldSessions THEN [relay[t] EXCEPT !.state = "swept",
                                                                  !.payload = None]
                   ELSE relay[t]]

Displays(d, cycle) ==
    \E s \in RelayIds :
        /\ CreatePairSession(s, cookie[d])
        /\ disp' = [disp EXCEPT ![d] = [phase |-> "displaying", id |-> s, cycle |-> cycle]]

StartDisplaySession(d) ==
    /\ Idle(d) /\ ~Confirming(d) /\ disp[d].phase \in {"none", "exhausted"}
    /\ Displays(d, 0)
    /\ UNCHANGED <<serverVars, tabVars, vaultVars, poll, op, history>>

(* The page's clock passes the end of its session.                         *)
SessionLapsed(d) ==
    /\ disp[d].phase = "displaying" /\ relay[disp[d].id].age # "fresh"
    /\ \/ disp[d].cycle + 1 < MaxCycles /\ Displays(d, disp[d].cycle + 1)
       \/ /\ disp[d].cycle + 1 >= MaxCycles
          /\ disp' = [disp EXCEPT ![d].phase = "exhausted"]
          /\ UNCHANGED relay
    /\ UNCHANGED <<serverVars, tabVars, vaultVars, poll, op, history>>

(* Time: the three minutes run out, then the hour of grace.                *)
SessionAges(s) ==
    /\ relay[s] # None /\ relay[s].age # "old"
    /\ relay' = [relay EXCEPT ![s].age = IF @ = "fresh" THEN "lapsed" ELSE "old"]
    /\ UNCHANGED <<serverVars, tabVars, vaultVars, disp, poll, op, history>>

(* The payload binds the sender's own account and the epoch of its root.   *)
SealRoot(root, u, epoch) == [root |-> root, user |-> u, epoch |-> epoch]

SealRootToPeer(d) == SealRoot(vault[d].root, page[d].user, vault[d].epoch)

SealPairSession(s, u, payload) ==
    /\ relay[s] # None
    /\ relay[s].user = u
    /\ relay[s].state = "waiting" /\ relay[s].age = "fresh"
    /\ relay' = [relay EXCEPT ![s].state = "sealed", ![s].payload = payload]

(* The scanning device got s from the code on the other's screen, and its  *)
(* user confirms.                                                          *)
SealToPeer(d, s) ==
    /\ Idle(d) /\ IsVaultReady(d, page[d].user)
    /\ SealPairSession(s, cookie[d], SealRootToPeer(d))
    /\ UNCHANGED <<serverVars, tabVars, vaultVars, disp, poll, op, history>>

Fails(d) == disp' = [disp EXCEPT ![d].phase = "error"]

(* claimPairSession reads the row: a session of another account or one     *)
(* swept meanwhile ends the page, a sealed one is claimed next.            *)
ClaimRead(d) ==
    LET r == relay[disp[d].id]
    IN  /\ disp[d].phase = "displaying" /\ poll[d] = None
        /\ r.age = "fresh"
        /\ \/ r.user # cookie[d] /\ Fails(d) /\ UNCHANGED poll
           \/ /\ r.user = cookie[d] /\ r.state = "sealed"
              /\ poll' = [poll EXCEPT ![d] = [id |-> disp[d].id, payload |-> r.payload]]
              /\ UNCHANGED disp
        /\ UNCHANGED <<serverVars, tabVars, vaultVars, relay, op, history>>

(* Mutant: the account is left out of the payload's additional data.       *)
MutOpensRoot(d, p) == p.epoch = page[d].epoch

OpensRoot(d, p) == p.user = page[d].user /\ p.epoch = page[d].epoch

ReceiveRootFromPeer(d, p) == UnlockVault(d, page[d].user, p.root, TRUE, page[d].epoch)

(* pollForRoot; a page since closed still loads the root, but shows        *)
(* nothing.                                                                *)
PollForRoot(d, p) ==
    IF OpensRoot(d, p)
    THEN /\ ReceiveRootFromPeer(d, p)
         /\ disp' = [disp EXCEPT ![d].phase = IF @ = "none" THEN @ ELSE "received"]
    ELSE /\ disp' = [disp EXCEPT ![d].phase = IF @ = "none" THEN @ ELSE "error"]
         /\ UNCHANGED vaultVars

(* The row is flipped if it is still sealed, and what was read goes to the *)
(* device; or the answer is lost on the way.                               *)
ClaimWrite(d) ==
    LET c == poll[d]
    IN  /\ c # None
        /\ poll' = [poll EXCEPT ![d] = None]
        /\ \/ /\ relay[c.id].state = "sealed"
              /\ relay' = [relay EXCEPT ![c.id].state = "claimed", ![c.id].payload = None]
              /\ PollForRoot(d, c.payload) \/ UNCHANGED <<disp, vaultVars>>
           \/ /\ relay[c.id].state # "sealed"
              /\ UNCHANGED <<relay, disp, vaultVars>>
        /\ UNCHANGED <<serverVars, tabVars, op, history>>

-----------------------------------------------------------------------------
Enrollment(d) == BeginRead(d) \/ BeginWrite(d) \/ ConfirmRead(d) \/ ConfirmWrite(d)
Ending(d) == \/ ResetRead(d) \/ ResetWrite(d)
             \/ RekeyCooldown(d) \/ RekeyRead(d) \/ RekeyWrite(d) \/ RekeyAudit(d)
Copies(d) == \/ EnrollPasskeyBlob(d) \/ WrapPasskeyBlob(d) \/ PutSeedBlobCheck(d) \/ PutSeedBlobWrite(d)
             \/ GetSeedBlobsEpoch(d) \/ UnlockWithPasskey(d)
             \/ \E k \in Passkeys : DeleteSeedBlob(d, k)
Tab(d) == \/ OpenPage(d) \/ UnlockFromStore(d) \/ UnlockWithSeedInput(d)
          \/ \E u \in Users : SignIn(d, u)
Pairing(d) == \/ StartDisplaySession(d) \/ SessionLapsed(d) \/ ClaimRead(d) \/ ClaimWrite(d)
              \/ \E s \in RelayIds : SealToPeer(d, s)

Next == \/ \E d \in Devices : Enrollment(d) \/ Ending(d) \/ Copies(d) \/ Tab(d) \/ Pairing(d)
        \/ \E s \in RelayIds : SessionAges(s)

Spec == Init /\ [][Next]_vars

-----------------------------------------------------------------------------
Held == {vault[d] : d \in Devices} \ {None}
Kept == (UNION {{store[d][u] : u \in Users} : d \in Devices}) \ {None}
Copied == UNION {blobs[u] : u \in Users}
InTransit == {relay[s].payload : s \in {t \in RelayIds : relay[t] # None}} \ {None}

(* The types of the rows, the vaults and what is under way.                *)
TypeOK ==
    /\ row \in [Users -> [epoch : Epochs, gen : BOOLEAN, conf : BOOLEAN]]
    /\ \A b \in Copied : b.cred \in Passkeys /\ b.user \in Users
                         /\ b.epoch \in Epochs /\ b.root \in Roots
    /\ \A v \in Held : v.user \in Users /\ v.root \in Roots /\ v.epoch \in Epochs
    /\ \A k \in Kept : k.root \in Roots /\ k.epoch \in Epochs
    /\ \A p \in InTransit : p.root \in Roots
    /\ \A d \in Devices : op[d].pc \in {"idle", "begin", "confirm", "reset", "cooled",
                                        "rekey", "audit", "put", "upsert", "blobs"}
    /\ made \in Seq(Roots) /\ Len(made) <= MaxRoots
    /\ backed \subseteq Roots /\ relabelled \subseteq Payloads

Relabelled(root, u, epoch) == [root |-> root, user |-> u, epoch |-> epoch] \in relabelled

(* deriveAppSecret's promise ("a stale root MUST NOT derive a newer        *)
(* branch"): whatever resets, re-keys, late copies, pairings and stale     *)
(* pages came before, an app secret for the server's epoch is derived only *)
(* from a root enrolled in that epoch, unless that root was typed in,      *)
(* autofilled or copied as one of this account and epoch: the places where *)
(* the epoch of a root is not compared.                                    *)
NoStaleBranch ==
    \A d \in Devices :
        LET root  == AnonRedirect(d)
            epoch == row[page[d].user].epoch
        IN  root # None =>
              root.epoch = epoch \/ Relabelled(root, page[d].user, epoch)

(* Two accounts in one browser, or on two devices that pair, never cross   *)
(* roots: what a vault or a store holds for an account is that account's,  *)
(* unless the root was typed in, autofilled or copied as that account's.   *)
RootStaysHome ==
    /\ \A v \in Held : v.root.user = v.user \/ Relabelled(v.root, v.user, v.epoch)
    /\ \A d \in Devices, u \in Users :
         LET k == store[d][u]
         IN  k # None => k.root.user = u \/ Relabelled(k.root, u, k.epoch)

(* I3, "a mid-backup write must never happen, so nothing orphans": a root  *)
(* that any device, copy or payload keeps was typed back in on its backup  *)
(* screen, unless it was typed in elsewhere or copied as one that was.      *)
KeptIsBackedUp ==
    \A k \in Kept \cup Copied \cup InTransit :
        k.root \in backed \/ \E l \in relabelled : l.root = k.root
=============================================================================
