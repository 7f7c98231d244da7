------------------------- MODULE AnonIdentityProofs -------------------------
(***************************************************************************)
(* Proofs about AnonIdentity, for any number of accounts, devices, passkeys*)
(* and relay sessions.                                                     *)
(*                                                                         *)
(* Wherever a root rests or travels (a vault, a browser's store, a wrapped *)
(* copy, a copy on its way to the server, a sealed payload, a claimed one) *)
(* it is accompanied by an account and an epoch.  The invariant says of    *)
(* every such place but an inactive vault that account and epoch are the   *)
(* root's own and the root was backed up, or that it was relabelled as     *)
(* just that; an inactive vault holds the root of the backup screen, if    *)
(* one is shown, under its own account and epoch.                          *)
(***************************************************************************)
EXTENDS AnonIdentity, TLAPS

VaultRows == [user : Users, root : Roots, active : BOOLEAN, epoch : Epochs]
KeptRows == [root : Roots, epoch : Epochs]
BlobRows == [cred : Passkeys, user : Users, epoch : Epochs, root : Roots]
OpRows == [pc : {"idle", "begin", "confirm", "reset", "cooled", "rekey",
                 "audit", "put", "upsert", "blobs"},
           user : Users \cup {None}, epoch : Epochs, blob : BlobRows \cup {None}]
DispRows == [phase : {"none", "displaying", "exhausted", "received", "error"},
             id : RelayIds \cup {None}, cycle : Nat]

(* The root is u's own, of the epoch it is said to be of, and in b; or it  *)
(* is in l under just this account and epoch.                              *)
Good(root, u, epoch, b, l) ==
    \/ root.user = u /\ root.epoch = epoch /\ root \in b
    \/ [root |-> root, user |-> u, epoch |-> epoch] \in l
Safe(root, u, epoch) == Good(root, u, epoch, backed, relabelled)

RowPart == row \in [Users -> [epoch : Epochs, gen : BOOLEAN, conf : BOOLEAN]]

PagePart ==
    /\ cookie \in [Devices -> Users]
    /\ page \in [Devices -> [user : Users, epoch : Epochs, active : BOOLEAN,
                              shown : Roots \cup {None}]]
    /\ wrap \in [Devices -> [cred : Passkeys, user : Users, epoch : Epochs] \cup {None}]

VaultPart ==
    /\ vault \in [Devices -> VaultRows \cup {None}]
    /\ store \in [Devices -> [Users -> KeptRows \cup {None}]]
    /\ \A d \in Devices : vault[d] # None =>
         /\ vault[d].active => Safe(vault[d].root, vault[d].user, vault[d].epoch)
         /\ ~vault[d].active => /\ vault[d].root.user = vault[d].user
                                /\ vault[d].root.epoch = vault[d].epoch
    /\ \A d \in Devices, u \in Users : store[d][u] # None =>
         Safe(store[d][u].root, u, store[d][u].epoch)

BlobPart ==
    /\ blobs \in [Users -> SUBSET BlobRows]
    /\ \A u \in Users : \A b \in blobs[u] : Safe(b.root, b.user, b.epoch)

OpPart ==
    /\ op \in [Devices -> OpRows]
    /\ \A d \in Devices :
         /\ op[d].pc \notin {"idle", "put"} => op[d].user \in Users
         /\ op[d].pc \in {"put", "upsert"} =>
              /\ op[d].blob \in BlobRows
              /\ Safe(op[d].blob.root, op[d].blob.user, op[d].blob.epoch)

(* The backup screen has a root in front of it, and that is the root of    *)
(* its account that the vault holds inactive.                              *)
ShownIs(d) ==
    page[d].shown # None /\ Holds(d, page[d].user) /\ ~vault[d].active =>
        vault[d].root = page[d].shown
ConfirmPart ==
    \A d \in Devices : ShownIs(d) /\ (op[d].pc = "confirm" => page[d].shown # None)

RelayPart ==
    /\ relay \in [RelayIds -> RelayRows \cup {None}]
    /\ \A s \in RelayIds : relay[s] \in RelayRows =>
         /\ relay[s].state = "sealed" =>
              /\ relay[s].payload \in Payloads
              /\ Safe(relay[s].payload.root, relay[s].payload.user,
                      relay[s].payload.epoch)
         /\ relay[s].payload # None =>
              Safe(relay[s].payload.root, relay[s].payload.user,
                   relay[s].payload.epoch)

DispPart ==
    /\ disp \in [Devices -> DispRows]
    /\ \A d \in Devices : disp[d].phase = "displaying" =>
         disp[d].id \in RelayIds /\ relay[disp[d].id] \in RelayRows

PollPart ==
    /\ poll \in [Devices -> [id : RelayIds, payload : Payloads] \cup {None}]
    /\ \A d \in Devices : poll[d] # None =>
         /\ relay[poll[d].id] \in RelayRows
         /\ Safe(poll[d].payload.root, poll[d].payload.user,
                 poll[d].payload.epoch)

HistPart ==
    /\ made \in Seq(Roots) /\ Len(made) <= MaxRoots
    /\ backed \subseteq Roots /\ relabelled \subseteq Payloads

AnonInv == /\ RowPart /\ PagePart /\ VaultPart /\ BlobPart /\ OpPart
           /\ ConfirmPart /\ RelayPart /\ DispPart /\ PollPart /\ HistPart

LEMMA InitAnon == Init => AnonInv
<1> SUFFICES ASSUME Init PROVE AnonInv
  OBVIOUS
<1>1. 1 \in Epochs /\ 0 <= MaxRoots
  BY AnonConstants DEF Epochs
<1>2. RowPart
  BY <1>1 DEF Init, RowPart, NoRow
<1>3. PagePart
  BY <1>1 DEF Init, PagePart, Snapshot, NoRow, Active
<1>4. VaultPart /\ BlobPart
  BY DEF Init, VaultPart, BlobPart
<1>5. OpPart
  BY <1>1 DEF Init, OpPart, OpRows, IdleOp
<1>6. ConfirmPart
  BY DEF Init, ConfirmPart, ShownIs, Holds, IdleOp
<1>7. RelayPart /\ PollPart
  BY AnonConstants DEF Init, RelayPart, PollPart
<1>8. DispPart
  BY DEF Init, DispPart, DispRows, NoDisp
<1>9. HistPart
  <2>1. <<>> \in Seq(Roots) /\ Len(<<>>) = 0
    OBVIOUS
  <2> QED BY <1>1, <2>1 DEF Init, HistPart
<1> QED BY <1>2, <1>3, <1>4, <1>5, <1>6, <1>7, <1>8, <1>9 DEF AnonInv

-----------------------------------------------------------------------------
(* What is backed up or relabelled stays so; a place a step leaves alone   *)
(* therefore stays good.                                                   *)

Grows == backed \subseteq backed' /\ relabelled \subseteq relabelled'

LEMMA SafeGrows ==
    ASSUME Grows, NEW root, NEW u, NEW epoch, Safe(root, u, epoch)
    PROVE  Good(root, u, epoch, backed', relabelled')
BY DEF Grows, Safe, Good

LEMMA RowFrame == ASSUME RowPart, UNCHANGED row PROVE RowPart'
BY DEF RowPart

LEMMA PageFrame == ASSUME PagePart, UNCHANGED tabVars PROVE PagePart'
BY DEF PagePart, tabVars

LEMMA VaultFrame == ASSUME VaultPart, Grows, UNCHANGED vaultVars PROVE VaultPart'
BY DEF VaultPart, vaultVars, Grows, Safe, Good

LEMMA BlobFrame == ASSUME BlobPart, Grows, UNCHANGED blobs PROVE BlobPart'
BY DEF BlobPart, Grows, Safe, Good

LEMMA OpFrame == ASSUME OpPart, Grows, UNCHANGED op PROVE OpPart'
BY DEF OpPart, Grows, Safe, Good

LEMMA ConfirmFrame ==
    ASSUME ConfirmPart, UNCHANGED <<op, page, vault>> PROVE ConfirmPart'
BY DEF ConfirmPart, ShownIs, Holds

LEMMA RelayFrame == ASSUME RelayPart, Grows, UNCHANGED relay PROVE RelayPart'
BY DEF RelayPart, Grows, Safe, Good

LEMMA PairFrame ==
    ASSUME RelayPart, DispPart, PollPart, Grows, UNCHANGED pairVars
    PROVE  RelayPart' /\ DispPart' /\ PollPart'
BY DEF RelayPart, DispPart, PollPart, pairVars, Grows, Safe, Good

LEMMA HistFrame == ASSUME HistPart, UNCHANGED history PROVE HistPart' /\ Grows
BY DEF HistPart, history, Grows

(* A session once opened is there for good.                                *)
Opened == \A s \in RelayIds : relay[s] \in RelayRows => relay'[s] \in RelayRows

LEMMA DispFrame == ASSUME DispPart, Opened, UNCHANGED disp PROVE DispPart'
BY DEF DispPart, Opened

LEMMA PollFrame ==
    ASSUME PollPart, Opened, Grows, UNCHANGED poll PROVE PollPart'
BY DEF PollPart, Opened, Grows, Safe, Good

-----------------------------------------------------------------------------
(* The vault opens, and the store keeps, only what fits.                   *)
LEMMA UnlockKeeps ==
    ASSUME VaultPart, Grows, NEW d \in Devices, NEW u \in Users,
           NEW root \in Roots, NEW active \in BOOLEAN, NEW epoch \in Epochs,
           UnlockVault(d, u, root, active, epoch),
           active => Good(root, u, epoch, backed', relabelled'),
           ~active => root.user = u /\ root.epoch = epoch
    PROVE  VaultPart'
<1> DEFINE v == [user |-> u, root |-> root, active |-> active, epoch |-> epoch]
           kept == [root |-> root, epoch |-> epoch]
<1>1. v \in VaultRows /\ kept \in KeptRows
  BY DEF VaultRows, KeptRows
<1>2. /\ v.user = u /\ v.root = root /\ v.active = active /\ v.epoch = epoch
      /\ kept.root = root /\ kept.epoch = epoch
  OBVIOUS
<1>3. vault' = [vault EXCEPT ![d] = v]
  BY DEF UnlockVault
<1>4. store' = IF active /\ d \in Persistent
               THEN [store EXCEPT ![d][u] = kept] ELSE store
  BY DEF UnlockVault, PersistRoot
<1> HIDE DEF v, kept
<1>5. vault' \in [Devices -> VaultRows \cup {None}]
  BY <1>1, <1>3 DEF VaultPart
<1>6. store' \in [Devices -> [Users -> KeptRows \cup {None}]]
  BY <1>1, <1>4 DEF VaultPart
<1>7. \A e \in Devices : vault'[e] = v \/ vault'[e] = vault[e]
  BY <1>3 DEF VaultPart
<1>8. \A e \in Devices, w \in Users :
        \/ store'[e][w] = store[e][w]
        \/ active /\ w = u /\ store'[e][w] = kept
  BY <1>4 DEF VaultPart
<1>9. \A e \in Devices : vault'[e] # None =>
        /\ vault'[e].active => Safe(vault[e].root, vault[e].user, vault[e].epoch)'
        /\ ~vault'[e].active => /\ vault'[e].root.user = vault'[e].user
                                /\ vault'[e].root.epoch = vault'[e].epoch
  BY <1>2, <1>7 DEF VaultPart, Safe, Good, Grows
<1>10. \A e \in Devices, w \in Users : store'[e][w] # None =>
        Safe(store[e][w].root, w, store[e][w].epoch)'
  BY <1>2, <1>8 DEF VaultPart, Safe, Good, Grows
<1> QED BY <1>5, <1>6, <1>9, <1>10 DEF VaultPart

(* A locked vault holds nothing.                                           *)
LEMMA LockKeeps ==
    ASSUME VaultPart, Grows, NEW d \in Devices, LockVault(d), UNCHANGED store
    PROVE  VaultPart'
<1>1. \A e \in Devices : vault'[e] = None \/ vault'[e] = vault[e]
  BY DEF LockVault, VaultPart
<1>2. vault' \in [Devices -> VaultRows \cup {None}]
  BY DEF LockVault, VaultPart
<1> QED BY <1>1, <1>2 DEF VaultPart, Safe, Good, Grows

(* A server action goes on or ends; what it carries was checked.           *)
LEMMA OpKeeps ==
    ASSUME OpPart, Grows, NEW d \in Devices, NEW o \in OpRows,
           op' = [op EXCEPT ![d] = o],
           o.pc \notin {"idle", "put"} => o.user \in Users,
           o.pc \in {"put", "upsert"} =>
              /\ o.blob \in BlobRows
              /\ Good(o.blob.root, o.blob.user, o.blob.epoch, backed', relabelled')
    PROVE  OpPart'
<1>1. op' \in [Devices -> OpRows]
  BY DEF OpPart
<1>2. \A e \in Devices : (e = d /\ op'[e] = o) \/ op'[e] = op[e]
  BY DEF OpPart
<1> QED BY <1>1, <1>2 DEF OpPart, Safe, Good, Grows

LEMMA IdleTyped ==
    IdleOp \in OpRows /\ IdleOp.pc = "idle"
<1>1. 1 \in Epochs
  BY AnonConstants DEF Epochs
<1> QED BY <1>1 DEF IdleOp, OpRows

LEMMA EndsKeeps ==
    ASSUME OpPart, Grows, NEW d \in Devices, Ends(d)
    PROVE  OpPart' /\ op'[d].pc = "idle"
           /\ \A e \in Devices : e # d => op'[e] = op[e]
<1>1. OpPart'
  BY IdleTyped, OpKeeps DEF Ends
<1> QED BY <1>1, IdleTyped DEF OpPart, Ends

(* An action that works for the account of the cookie and carries nothing. *)
LEMMA GoesKeeps ==
    ASSUME OpPart, PagePart, Grows, NEW d \in Devices,
           NEW pc \in {"begin", "confirm", "reset", "cooled"}, Goes(d, pc)
    PROVE  OpPart' /\ op'[d].pc = pc
           /\ \A e \in Devices : e # d => op'[e] = op[e]
<1> DEFINE o == [IdleOp EXCEPT !.pc = pc, !.user = cookie[d]]
<1>1. cookie[d] \in Users
  BY DEF PagePart
<1>2. o \in OpRows /\ o.pc = pc /\ o.user = cookie[d]
  BY <1>1, IdleTyped DEF OpRows
<1>3. op' = [op EXCEPT ![d] = o]
  BY DEF Goes
<1> HIDE DEF o
<1>4. OpPart'
  BY <1>1, <1>2, <1>3, OpKeeps
<1> QED BY <1>2, <1>3, <1>4 DEF OpPart

(* One device's page or vault changes, its backup screen staying in order. *)
LEMMA ConfirmKeeps ==
    ASSUME ConfirmPart, OpPart, OpPart', NEW d \in Devices, op'[d].pc # "confirm",
           ShownIs(d)',
           \A e \in Devices : e # d =>
              op'[e] = op[e] /\ page'[e] = page[e] /\ vault'[e] = vault[e]
    PROVE  ConfirmPart'
BY DEF ConfirmPart, ShownIs, Holds

LEMMA ShownFrame ==
    ASSUME ConfirmPart, UNCHANGED <<page, vault>>, NEW d \in Devices
    PROVE  ShownIs(d)'
BY DEF ConfirmPart, ShownIs, Holds

-----------------------------------------------------------------------------
(* The pages and the vault.                                                *)

LEMMA OpenPageStep ==
    ASSUME AnonInv, NEW d \in Devices, OpenPage(d) PROVE AnonInv'
<1> USE DEF AnonInv
<1>1. Grows /\ HistPart' /\ RowPart'
  BY HistFrame, RowFrame DEF OpenPage, serverVars
<1>2. PagePart'
  <2>1. Snapshot(cookie[d]) \in [user : Users, epoch : Epochs, active : BOOLEAN,
                                 shown : Roots \cup {None}]
    BY DEF PagePart, RowPart, Snapshot, Active
  <2>2. page' = [page EXCEPT ![d] = Snapshot(cookie[d])] /\ UNCHANGED cookie
        /\ (wrap' = [wrap EXCEPT ![d] = None] \/ UNCHANGED wrap)
    BY DEF OpenPage
  <2> QED BY <2>1, <2>2 DEF PagePart
<1>3. VaultPart'
  BY <1>1, LockKeeps, VaultFrame DEF OpenPage, vaultVars
<1>4. BlobPart' /\ OpPart' /\ RelayPart'
  BY <1>1, BlobFrame, OpFrame, RelayFrame DEF OpenPage, serverVars
<1>5. \A e \in Devices : e # d => /\ page'[e] = page[e] /\ vault'[e] = vault[e]
  BY DEF OpenPage, LockVault, PagePart, VaultPart
<1>6. op'[d].pc = "idle" /\ UNCHANGED op
  BY IdleTyped DEF OpenPage, Idle
<1>7. ConfirmPart'
  <2>1. page'[d].shown = None
    BY DEF OpenPage, Snapshot, PagePart
  <2>2. ShownIs(d)'
    BY <2>1 DEF ShownIs
  <2> QED BY <1>4, <1>5, <1>6, <2>2, ConfirmKeeps
<1>8. DispPart'
  <2>1. NoDisp \in DispRows /\ NoDisp.phase = "none"
    BY DEF NoDisp, DispRows
  <2> QED BY <2>1 DEF OpenPage, DispPart
<1>9. PollPart'
  BY <1>1, PollFrame DEF OpenPage, Opened
<1> QED BY <1>1, <1>2, <1>3, <1>4, <1>7, <1>8, <1>9

LEMMA SignInStep ==
    ASSUME AnonInv, NEW d \in Devices, NEW u \in Users, SignIn(d, u) PROVE AnonInv'
<1> USE DEF AnonInv
<1>1. Grows /\ HistPart' /\ RowPart'
  BY HistFrame, RowFrame DEF SignIn, serverVars
<1>2. PagePart'
  BY DEF SignIn, PagePart
<1>3. VaultPart' /\ BlobPart' /\ OpPart' /\ ConfirmPart'
  BY <1>1, VaultFrame, BlobFrame, OpFrame, ConfirmFrame
  DEF SignIn, vaultVars, serverVars
<1>4. RelayPart' /\ DispPart' /\ PollPart'
  BY <1>1, PairFrame DEF SignIn
<1> QED BY <1>1, <1>2, <1>3, <1>4

(* An idle device changes nothing but its vault, which is active then, and *)
(* perhaps leaves the get-key page's phase.                                *)
LEMMA UnlockOnly ==
    ASSUME AnonInv, NEW d \in Devices, Idle(d), VaultPart', HistPart', Grows,
           \A e \in Devices : e # d => vault'[e] = vault[e],
           vault'[d].active, DispPart',
           UNCHANGED <<serverVars, tabVars, relay, poll, op>>
    PROVE  AnonInv'
<1> USE DEF AnonInv
<1>1. RowPart' /\ PagePart' /\ BlobPart' /\ OpPart'
  BY RowFrame, PageFrame, BlobFrame, OpFrame DEF serverVars
<1>2. RelayPart' /\ PollPart'
  BY RelayFrame, PollFrame DEF Opened
<1>3. op'[d].pc = "idle"
  BY IdleTyped DEF Idle
<1>4. ConfirmPart'
  <2>1. ShownIs(d)'
    BY DEF ShownIs
  <2> QED BY <1>1, <1>3, <2>1, ConfirmKeeps DEF tabVars
<1> QED BY <1>1, <1>2, <1>4

(* A device's display turns to a phase in which it shows no session.       *)
LEMMA PhaseKeeps ==
    ASSUME DispPart, Opened, NEW d \in Devices,
           NEW ph \in {"exhausted", "received", "error", "none"},
           disp' = [disp EXCEPT ![d].phase = ph]
    PROVE  DispPart'
<1>1. disp[d] \in DispRows
  BY DEF DispPart
<1>2. [disp[d] EXCEPT !.phase = ph] \in DispRows
      /\ [disp[d] EXCEPT !.phase = ph].phase = ph
  BY <1>1 DEF DispRows
<1>3. disp' \in [Devices -> DispRows]
      /\ \A e \in Devices : disp'[e] = disp[e] \/ disp'[e].phase = ph
  BY <1>2 DEF DispPart
<1> QED BY <1>3 DEF DispPart, Opened

LEMMA UnlockElsewhere ==
    ASSUME VaultPart, NEW d \in Devices, NEW u, NEW root, NEW active, NEW epoch,
           UnlockVault(d, u, root, active, epoch)
    PROVE  \A e \in Devices : e # d => vault'[e] = vault[e]
BY DEF UnlockVault, VaultPart

LEMMA UnlockActive ==
    ASSUME VaultPart, NEW d \in Devices, NEW u, NEW root, NEW epoch,
           UnlockVault(d, u, root, TRUE, epoch)
    PROVE  vault'[d].active
BY DEF UnlockVault, VaultPart

LEMMA UnlockFromStoreStep ==
    ASSUME AnonInv, NEW d \in Devices, UnlockFromStore(d) PROVE AnonInv'
<1> USE DEF AnonInv
<1> DEFINE u == page[d].user
           kept == store[d][u]
<1>1. Grows /\ HistPart'
  BY HistFrame DEF UnlockFromStore
<1>2. u \in Users /\ kept \in KeptRows /\ Safe(kept.root, u, kept.epoch)
  BY DEF UnlockFromStore, PagePart, VaultPart
<1>3. kept.root \in Roots /\ kept.epoch \in Epochs
  BY <1>2 DEF KeptRows
<1>4. UnlockVault(d, u, kept.root, TRUE, kept.epoch)
  BY DEF UnlockFromStore
<1>5. VaultPart'
  <2> HIDE DEF u, kept
  <2> QED BY <1>1, <1>2, <1>3, <1>4, SafeGrows, UnlockKeeps
<1>6. \A e \in Devices : e # d => vault'[e] = vault[e]
  BY <1>4, UnlockElsewhere
<1>7. vault'[d].active
  BY <1>4, UnlockActive
<1>8. DispPart' /\ UNCHANGED <<serverVars, tabVars, relay, poll, op>>
  BY DispFrame DEF UnlockFromStore, pairVars, Opened
<1> QED BY <1>1, <1>5, <1>6, <1>7, <1>8, UnlockOnly DEF UnlockFromStore

(* A root taken for something it is not is relabelled as just that.        *)
LEMMA RelabelsGood ==
    ASSUME NEW root \in Roots, NEW u \in Users, NEW epoch \in Epochs, HistPart,
           UNCHANGED <<made, backed>>, Relabels(root, u, epoch, root \in backed)
    PROVE  Good(root, u, epoch, backed', relabelled') /\ Grows /\ HistPart'
<1>1. [root |-> root, user |-> u, epoch |-> epoch] \in Payloads
  BY DEF Payloads
<1>2. Good(root, u, epoch, backed', relabelled') /\ Grows
  BY DEF Relabels, Good, Grows
<1>3. HistPart'
  BY <1>1 DEF Relabels, HistPart
<1> QED BY <1>2, <1>3

(* A typed key may be any root.                                            *)
LEMMA UnlockWithSeedInputStep ==
    ASSUME AnonInv, NEW d \in Devices, UnlockWithSeedInput(d) PROVE AnonInv'
<1> USE DEF AnonInv
<1> DEFINE u == page[d].user
<1>1. PICK i \in DOMAIN made :
        /\ UnlockVault(d, u, made[i], TRUE, page[d].epoch)
        /\ Relabels(made[i], u, page[d].epoch, made[i] \in backed)
  BY DEF UnlockWithSeedInput
<1>2. u \in Users /\ page[d].epoch \in Epochs /\ made[i] \in Roots
  BY <1>1 DEF PagePart, HistPart
<1>3. Grows /\ HistPart' /\ Good(made[i], u, page[d].epoch, backed', relabelled')
  <2> HIDE DEF u
  <2> QED BY <1>1, <1>2, RelabelsGood DEF UnlockWithSeedInput
<1>4. VaultPart'
  <2> HIDE DEF u
  <2> QED BY <1>1, <1>2, <1>3, UnlockKeeps
<1>5. \A e \in Devices : e # d => vault'[e] = vault[e]
  BY <1>1, UnlockElsewhere
<1>6. vault'[d].active
  BY <1>1, UnlockActive
<1>7. DispPart'
  <2>1. PICK ph \in {"received", "none"} : disp' = [disp EXCEPT ![d].phase = ph]
    BY DEF UnlockWithSeedInput, DispPart
  <2>2. Opened
    BY DEF UnlockWithSeedInput, Opened
  <2> QED BY <2>1, <2>2, PhaseKeeps
<1> QED BY <1>3, <1>4, <1>5, <1>6, <1>7, UnlockOnly DEF UnlockWithSeedInput

LEMMA TabStep == ASSUME AnonInv, NEW d \in Devices, Tab(d) PROVE AnonInv'
BY OpenPageStep, UnlockFromStoreStep, UnlockWithSeedInputStep, SignInStep DEF Tab

-----------------------------------------------------------------------------
(* Enrollment.                                                             *)

(* A step that begins a server action and writes nothing.                  *)
LEMMA OpOnly ==
    ASSUME AnonInv, NEW d \in Devices, OpPart', HistPart', Grows,
           op'[d].pc = "confirm" => page[d].shown # None,
           \A e \in Devices : e # d => op'[e] = op[e],
           UNCHANGED <<serverVars, tabVars, vaultVars, pairVars>>
    PROVE  AnonInv'
<1> USE DEF AnonInv
<1>1. RowPart' /\ PagePart' /\ BlobPart' /\ VaultPart'
  BY RowFrame, PageFrame, BlobFrame, VaultFrame DEF serverVars
<1>2. RelayPart' /\ DispPart' /\ PollPart'
  BY PairFrame
<1>3. ConfirmPart'
  BY DEF ConfirmPart, ShownIs, Holds, tabVars, vaultVars
<1> QED BY <1>1, <1>2, <1>3

LEMMA BeginReadStep ==
    ASSUME AnonInv, NEW d \in Devices, BeginRead(d) PROVE AnonInv'
<1>1. Grows /\ HistPart'
  BY HistFrame DEF BeginRead, AnonInv
<1>2. OpPart' /\ op'[d].pc = "begin" /\ \A e \in Devices : e # d => op'[e] = op[e]
  BY <1>1, GoesKeeps DEF BeginRead, AnonInv
<1> QED BY <1>1, <1>2, OpOnly DEF BeginRead

LEMMA BeginWriteStep ==
    ASSUME AnonInv, NEW d \in Devices, BeginWrite(d) PROVE AnonInv'
<1> USE DEF AnonInv
<1> DEFINE u == op[d].user
           w == page[d].user
           epoch == row[u].epoch
<1>1. u \in Users /\ w \in Users /\ epoch \in Epochs
  BY DEF BeginWrite, OpPart, PagePart, RowPart
<1>2. PICK root : root = [user |-> w, epoch |-> epoch, n |-> Len(made) + 1]
  OBVIOUS
<1>3. Len(made) \in Nat /\ Len(made) + 1 \in 1..MaxRoots
  BY AnonConstants DEF BeginWrite, HistPart
<1>4. root \in Roots /\ root.user = w /\ root.epoch = epoch
  BY <1>1, <1>2, <1>3 DEF Roots
<1>5. /\ UnlockVault(d, w, root, FALSE, epoch) /\ made' = Append(made, root)
      /\ page' = [page EXCEPT ![d].shown = root]
      /\ UNCHANGED <<cookie, wrap, backed, relabelled, pairVars, blobs>> /\ Ends(d)
  BY <1>2 DEF BeginWrite, Generate
<1>6. Grows /\ HistPart'
  <2>1. made' \in Seq(Roots) /\ Len(made') = Len(made) + 1
    BY <1>4, <1>5 DEF HistPart
  <2> QED BY <1>3, <1>5, <2>1, AnonConstants DEF Grows, HistPart
<1>7. VaultPart'
  <2> HIDE DEF u, w, epoch
  <2> QED BY <1>1, <1>4, <1>5, <1>6, UnlockKeeps
<1>8. RowPart'
  BY <1>1 DEF BeginWrite, RowPart
<1>9. OpPart' /\ op'[d].pc = "idle" /\ \A e \in Devices : e # d => op'[e] = op[e]
  BY <1>5, <1>6, EndsKeeps
<1>10. PagePart' /\ BlobPart'
  BY <1>4, <1>5, <1>6, BlobFrame DEF PagePart
<1>11. ConfirmPart'
  <2>1. (\A e \in Devices : e # d => vault'[e] = vault[e]) /\ vault'[d].root = root
    BY <1>5 DEF UnlockVault, VaultPart
  <2>2. page'[d].shown = root /\ \A e \in Devices : e # d => page'[e] = page[e]
    BY <1>5 DEF PagePart
  <2>3. ShownIs(d)'
    BY <2>1, <2>2 DEF ShownIs
  <2> QED BY <1>9, <2>1, <2>2, <2>3, ConfirmKeeps
<1>12. RelayPart' /\ DispPart' /\ PollPart'
  BY <1>5, <1>6, PairFrame
<1> QED BY <1>6, <1>7, <1>8, <1>9, <1>10, <1>11, <1>12

(* What becomes active is the root shown, or was active before.            *)
LEMMA ConfirmedKeeps ==
    ASSUME AnonInv, NEW d \in Devices, Confirmed(d), page[d].shown # None,
           UNCHANGED <<cookie, wrap, made, relabelled>>
    PROVE  /\ VaultPart' /\ PagePart' /\ HistPart' /\ Grows /\ ShownIs(d)'
           /\ \A e \in Devices : e # d => /\ vault'[e] = vault[e]
                                          /\ page'[e] = page[e]
<1> USE DEF AnonInv
<1> DEFINE u == page[d].user
           root == vault[d].root
           epoch == vault[d].epoch
<1>1. u \in Users /\ page[d].shown \in Roots
  BY DEF PagePart
<1>2. Grows /\ HistPart' /\ page[d].shown \in backed'
  BY <1>1 DEF Confirmed, Grows, HistPart
<1>3. VaultPart' /\ \A e \in Devices : e # d => vault'[e] = vault[e]
  <2>1. CASE Holds(d, u)
    <3>1. UnlockVault(d, u, root, TRUE, epoch)
      BY <2>1 DEF Confirmed, MarkVaultActive
    <3>2. vault[d] \in VaultRows /\ vault[d].user = u
      BY <2>1 DEF Holds, VaultPart
    <3>3. root \in Roots /\ epoch \in Epochs
      BY <3>2 DEF VaultRows
    <3>4. Good(root, u, epoch, backed', relabelled')
      <4>1. CASE vault[d].active
        <5>1. Safe(root, u, epoch)
          BY <2>1, <3>2, <4>1 DEF Holds, VaultPart
        <5> HIDE DEF root, u, epoch
        <5> QED BY <1>2, <5>1, SafeGrows
      <4>2. CASE ~vault[d].active
        <5>1. root = page[d].shown /\ root.user = u /\ root.epoch = epoch
          BY <2>1, <3>2, <4>2 DEF Holds, VaultPart, ConfirmPart, ShownIs
        <5> QED BY <1>2, <5>1 DEF Good
      <4> QED BY <4>1, <4>2
    <3> HIDE DEF u, root, epoch
    <3> QED BY <1>1, <1>2, <3>1, <3>3, <3>4, UnlockKeeps, UnlockElsewhere
  <2>2. CASE ~Holds(d, u)
    <3>1. UNCHANGED vaultVars
      BY <2>2 DEF Confirmed, MarkVaultActive
    <3> QED BY <1>2, <3>1, VaultFrame DEF vaultVars
  <2> QED BY <2>1, <2>2
<1>4. /\ PagePart' /\ (\A e \in Devices : e # d => page'[e] = page[e])
      /\ page'[d].shown = None
  BY DEF Confirmed, PagePart
<1>5. ShownIs(d)'
  BY <1>4 DEF ShownIs
<1> QED BY <1>2, <1>3, <1>4, <1>5

LEMMA ConfirmReadStep ==
    ASSUME AnonInv, NEW d \in Devices, ConfirmRead(d) PROVE AnonInv'
<1> USE DEF AnonInv
<1>1. page[d].shown # None
  BY DEF ConfirmRead, Confirming
<1>2. CASE Goes(d, "confirm") /\ UNCHANGED <<vaultVars, page, backed>>
  <2>1. Grows /\ HistPart'
    BY <1>2, HistFrame DEF ConfirmRead, history
  <2>2. OpPart' /\ \A e \in Devices : e # d => op'[e] = op[e]
    BY <1>2, <2>1, GoesKeeps
  <2> QED BY <1>1, <1>2, <2>1, <2>2, OpOnly DEF ConfirmRead, tabVars
<1>3. CASE Confirmed(d) /\ UNCHANGED op
  <2>1. VaultPart' /\ PagePart' /\ HistPart' /\ Grows /\ ShownIs(d)'
        /\ \A e \in Devices : e # d => vault'[e] = vault[e] /\ page'[e] = page[e]
    BY <1>1, <1>3, ConfirmedKeeps DEF ConfirmRead
  <2>2. RowPart' /\ BlobPart' /\ OpPart'
    BY <1>3, <2>1, RowFrame, BlobFrame, OpFrame DEF ConfirmRead, serverVars
  <2>3. op'[d].pc = "idle"
    BY <1>3, IdleTyped DEF ConfirmRead, Idle
  <2>4. ConfirmPart'
    BY <1>3, <2>1, <2>2, <2>3, ConfirmKeeps
  <2>5. RelayPart' /\ DispPart' /\ PollPart'
    BY <2>1, PairFrame DEF ConfirmRead
  <2> QED BY <2>1, <2>2, <2>4, <2>5
<1> QED BY <1>2, <1>3 DEF ConfirmRead

LEMMA ConfirmWriteStep ==
    ASSUME AnonInv, NEW d \in Devices, ConfirmWrite(d) PROVE AnonInv'
<1> USE DEF AnonInv
<1>1. page[d].shown # None /\ op[d].user \in Users
  BY DEF ConfirmWrite, ConfirmPart, OpPart
<1>2. VaultPart' /\ PagePart' /\ HistPart' /\ Grows /\ ShownIs(d)'
      /\ \A e \in Devices : e # d => vault'[e] = vault[e] /\ page'[e] = page[e]
  BY <1>1, ConfirmedKeeps DEF ConfirmWrite
<1>3. RowPart' /\ BlobPart'
  BY <1>1, <1>2, BlobFrame DEF ConfirmWrite, RowPart
<1>4. OpPart' /\ op'[d].pc = "idle" /\ \A e \in Devices : e # d => op'[e] = op[e]
  BY <1>2, EndsKeeps DEF ConfirmWrite
<1>5. ConfirmPart'
  BY <1>2, <1>4, ConfirmKeeps
<1>6. RelayPart' /\ DispPart' /\ PollPart'
  BY <1>2, PairFrame DEF ConfirmWrite
<1> QED BY <1>2, <1>3, <1>4, <1>5, <1>6

LEMMA EnrollmentStep ==
    ASSUME AnonInv, NEW d \in Devices, Enrollment(d) PROVE AnonInv'
BY BeginReadStep, BeginWriteStep, ConfirmReadStep, ConfirmWriteStep DEF Enrollment

-----------------------------------------------------------------------------
(* Reset and re-key.                                                       *)

LEMMA ResetReadStep ==
    ASSUME AnonInv, NEW d \in Devices, ResetRead(d) PROVE AnonInv'
<1>1. Grows /\ HistPart'
  BY HistFrame DEF ResetRead, AnonInv
<1>2. OpPart' /\ op'[d].pc = "reset" /\ \A e \in Devices : e # d => op'[e] = op[e]
  BY <1>1, GoesKeeps DEF ResetRead, AnonInv
<1> QED BY <1>1, <1>2, OpOnly DEF ResetRead

LEMMA RekeyCooldownStep ==
    ASSUME AnonInv, NEW d \in Devices, RekeyCooldown(d) PROVE AnonInv'
<1>1. Grows /\ HistPart'
  BY HistFrame DEF RekeyCooldown, AnonInv
<1>2. OpPart' /\ op'[d].pc = "cooled" /\ \A e \in Devices : e # d => op'[e] = op[e]
  BY <1>1, GoesKeeps DEF RekeyCooldown, AnonInv
<1> QED BY <1>1, <1>2, OpOnly DEF RekeyCooldown

LEMMA BumpKeeps ==
    ASSUME RowPart, BlobPart, Grows, NEW u \in Users, BumpEpochAndPurge(u)
    PROVE  RowPart' /\ BlobPart'
<1>1. row[u].epoch + 1 \in Epochs
  BY AnonConstants DEF BumpEpochAndPurge, RowPart, Epochs
<1>2. RowPart'
  BY <1>1 DEF BumpEpochAndPurge, RowPart
<1>3. BlobPart'
  BY DEF BumpEpochAndPurge, BlobPart, Safe, Good, Grows
<1> QED BY <1>2, <1>3

LEMMA ResetWriteStep ==
    ASSUME AnonInv, NEW d \in Devices, ResetWrite(d) PROVE AnonInv'
<1> USE DEF AnonInv
<1>1. Grows /\ HistPart'
  BY HistFrame DEF ResetWrite
<1>2. RowPart' /\ BlobPart'
  BY <1>1, BumpKeeps DEF ResetWrite, OpPart
<1>3. /\ PagePart' /\ (\A e \in Devices : e # d => page'[e] = page[e])
      /\ ShownIs(d)'
  BY DEF ResetWrite, ToEnrollment, PagePart, ShownIs
<1>4. VaultPart' /\ \A e \in Devices : e # d => vault'[e] = vault[e]
  BY <1>1, LockKeeps DEF ResetWrite, LockVault, VaultPart
<1>5. OpPart' /\ op'[d].pc = "idle" /\ \A e \in Devices : e # d => op'[e] = op[e]
  BY <1>1, EndsKeeps DEF ResetWrite
<1>6. ConfirmPart'
  BY <1>3, <1>4, <1>5, ConfirmKeeps
<1>7. RelayPart' /\ DispPart' /\ PollPart'
  BY <1>1, PairFrame DEF ResetWrite
<1> QED BY <1>1, <1>2, <1>3, <1>4, <1>5, <1>6, <1>7

(* An action goes on under the same account, with what it carried.         *)
LEMMA OpGoesOn ==
    ASSUME OpPart, Grows, NEW d \in Devices, NEW pc \in {"rekey", "audit"},
           op[d].pc \notin {"idle", "put"},
           op' = [op EXCEPT ![d] = [op[d] EXCEPT !.pc = pc]]
    PROVE  OpPart' /\ op'[d].pc = pc
           /\ \A e \in Devices : e # d => op'[e] = op[e]
<1> DEFINE o == [op[d] EXCEPT !.pc = pc]
<1>1. op[d] \in OpRows /\ op[d].user \in Users
  BY DEF OpPart
<1>2. o \in OpRows /\ o.pc = pc /\ o.user = op[d].user
  BY <1>1 DEF OpRows
<1>3. op' = [op EXCEPT ![d] = o]
  OBVIOUS
<1> HIDE DEF o
<1>4. OpPart'
  BY <1>1, <1>2, <1>3, OpKeeps DEF Safe, Good, Grows
<1> QED BY <1>2, <1>3, <1>4 DEF OpPart

LEMMA RekeyReadStep ==
    ASSUME AnonInv, NEW d \in Devices, RekeyRead(d) PROVE AnonInv'
<1>1. Grows /\ HistPart'
  BY HistFrame DEF RekeyRead, AnonInv
<1>2. CASE row[op[d].user].conf
  <2>1. op' = [op EXCEPT ![d] = [op[d] EXCEPT !.pc = "rekey"]]
        /\ op[d].pc = "cooled"
    BY <1>2 DEF RekeyRead
  <2>2. OpPart' /\ op'[d].pc = "rekey" /\ \A e \in Devices : e # d => op'[e] = op[e]
    BY <1>1, <2>1, OpGoesOn DEF AnonInv
  <2> QED BY <1>1, <2>2, OpOnly DEF RekeyRead
<1>3. CASE ~row[op[d].user].conf
  <2>1. Ends(d)
    BY <1>3 DEF RekeyRead, Ends
  <2>2. OpPart' /\ op'[d].pc = "idle" /\ \A e \in Devices : e # d => op'[e] = op[e]
    BY <1>1, <2>1, EndsKeeps DEF AnonInv
  <2> QED BY <1>1, <2>2, OpOnly DEF RekeyRead
<1> QED BY <1>2, <1>3

LEMMA RekeyWriteStep ==
    ASSUME AnonInv, NEW d \in Devices, RekeyWrite(d) PROVE AnonInv'
<1> USE DEF AnonInv
<1>1. Grows /\ HistPart'
  BY HistFrame DEF RekeyWrite
<1>2. RowPart' /\ BlobPart'
  BY <1>1, BumpKeeps DEF RekeyWrite, OpPart
<1>3. PagePart' /\ VaultPart'
  BY <1>1, PageFrame, VaultFrame DEF RekeyWrite
<1>4. op' = [op EXCEPT ![d] = [op[d] EXCEPT !.pc = "audit"]] /\ op[d].pc = "rekey"
  BY DEF RekeyWrite
<1>5. OpPart' /\ op'[d].pc = "audit" /\ \A e \in Devices : e # d => op'[e] = op[e]
  BY <1>1, <1>4, OpGoesOn
<1>6. ConfirmPart'
  BY <1>5, ConfirmKeeps, ShownFrame DEF RekeyWrite, tabVars, vaultVars
<1>7. RelayPart' /\ DispPart' /\ PollPart'
  BY <1>1, PairFrame DEF RekeyWrite
<1> QED BY <1>1, <1>2, <1>3, <1>5, <1>6, <1>7

LEMMA RekeyAuditStep ==
    ASSUME AnonInv, NEW d \in Devices, RekeyAudit(d) PROVE AnonInv'
<1> USE DEF AnonInv
<1>1. Grows /\ HistPart'
  BY HistFrame DEF RekeyAudit
<1>2. RowPart' /\ BlobPart' /\ VaultPart'
  BY <1>1, RowFrame, BlobFrame, VaultFrame DEF RekeyAudit
<1>3. /\ PagePart' /\ (\A e \in Devices : e # d => page'[e] = page[e])
      /\ ShownIs(d)'
  BY DEF RekeyAudit, ToEnrollment, PagePart, ShownIs
<1>4. OpPart' /\ op'[d].pc = "idle" /\ \A e \in Devices : e # d => op'[e] = op[e]
  BY <1>1, EndsKeeps DEF RekeyAudit
<1>5. ConfirmPart'
  BY <1>3, <1>4, ConfirmKeeps DEF RekeyAudit, vaultVars
<1>6. RelayPart' /\ DispPart' /\ PollPart'
  BY <1>1, PairFrame DEF RekeyAudit
<1> QED BY <1>1, <1>2, <1>3, <1>4, <1>5, <1>6

LEMMA EndingStep == ASSUME AnonInv, NEW d \in Devices, Ending(d) PROVE AnonInv'
BY ResetReadStep, ResetWriteStep, RekeyCooldownStep, RekeyReadStep,
   RekeyWriteStep, RekeyAuditStep DEF Ending

-----------------------------------------------------------------------------
(* Copies under a passkey.                                                 *)

LEMMA EnrollPasskeyBlobStep ==
    ASSUME AnonInv, NEW d \in Devices, EnrollPasskeyBlob(d) PROVE AnonInv'
<1> USE DEF AnonInv
<1>1. Grows /\ HistPart'
  BY HistFrame DEF EnrollPasskeyBlob
<1>2. PagePart'
  <2>1. PICK k \in Passkeys :
          wrap' = [wrap EXCEPT ![d] = [cred |-> k, user |-> page[d].user,
                                       epoch |-> row[cookie[d]].epoch]]
    BY DEF EnrollPasskeyBlob
  <2>2. [cred |-> k, user |-> page[d].user, epoch |-> row[cookie[d]].epoch]
          \in [cred : Passkeys, user : Users, epoch : Epochs]
    BY DEF PagePart, RowPart
  <2>3. UNCHANGED <<cookie, page>>
    BY DEF EnrollPasskeyBlob
  <2> QED BY <2>1, <2>2, <2>3 DEF PagePart
<1>3. RowPart' /\ BlobPart' /\ VaultPart' /\ OpPart' /\ ConfirmPart'
  BY <1>1, RowFrame, BlobFrame, VaultFrame, OpFrame, ConfirmFrame
  DEF EnrollPasskeyBlob, serverVars, vaultVars
<1>4. RelayPart' /\ DispPart' /\ PollPart'
  BY <1>1, PairFrame DEF EnrollPasskeyBlob
<1> QED BY <1>1, <1>2, <1>3, <1>4

(* Whatever the vault holds is wrapped; if it is not what the copy says,   *)
(* it is relabelled.                                                       *)
LEMMA WrapPasskeyBlobStep ==
    ASSUME AnonInv, NEW d \in Devices, WrapPasskeyBlob(d) PROVE AnonInv'
<1> USE DEF AnonInv
<1> DEFINE w == wrap[d]
           root == vault[d].root
<1>1. w.cred \in Passkeys /\ w.user \in Users /\ w.epoch \in Epochs
  BY DEF WrapPasskeyBlob, PagePart
<1>2. /\ Grows /\ HistPart' /\ OpPart' /\ op'[d].pc # "confirm"
      /\ \A e \in Devices : e # d => op'[e] = op[e]
  <2>1. CASE UNCHANGED <<op, relabelled>>
    <3>1. Grows /\ HistPart' /\ UNCHANGED op
      BY <2>1, HistFrame DEF WrapPasskeyBlob, history
    <3> QED BY <3>1, IdleTyped, OpFrame DEF WrapPasskeyBlob, Idle
  <2>2. CASE /\ vault[d] # None
             /\ op' = [op EXCEPT ![d] = [pc |-> "put", user |-> None, epoch |-> 1,
                           blob |-> WrapSeed(root, w.cred, w.user, w.epoch)]]
             /\ Relabels(root, w.user, w.epoch, root \in backed)
    <3>1. root \in Roots
      BY <2>2 DEF VaultPart, VaultRows
    <3>2. Good(root, w.user, w.epoch, backed', relabelled') /\ Grows /\ HistPart'
      <4> HIDE DEF w, root
      <4> QED BY <1>1, <2>2, <3>1, RelabelsGood DEF WrapPasskeyBlob
    <3> DEFINE b == WrapSeed(root, w.cred, w.user, w.epoch)
               o == [pc |-> "put", user |-> None, epoch |-> 1, blob |-> b]
    <3>3. b \in BlobRows /\ b.root = root /\ b.user = w.user /\ b.epoch = w.epoch
      BY <1>1, <3>1 DEF WrapSeed, BlobRows
    <3>4. o \in OpRows /\ o.pc = "put" /\ o.blob = b
      <4>1. 1 \in Epochs
        BY AnonConstants DEF Epochs
      <4> HIDE DEF b
      <4> QED BY <3>3, <4>1 DEF OpRows
    <3>5. op' = [op EXCEPT ![d] = o]
      BY <2>2
    <3> HIDE DEF b, o, w, root
    <3>6. OpPart'
      BY <3>2, <3>3, <3>4, <3>5, OpKeeps
    <3> QED BY <3>2, <3>4, <3>5, <3>6 DEF OpPart
  <2> QED BY <2>1, <2>2 DEF WrapPasskeyBlob
<1>3. PagePart'
  BY DEF WrapPasskeyBlob, PagePart
<1>4. RowPart' /\ BlobPart' /\ VaultPart'
  BY <1>2, RowFrame, BlobFrame, VaultFrame DEF WrapPasskeyBlob, serverVars
<1>5. ConfirmPart'
  BY <1>2, ConfirmKeeps, ShownFrame DEF WrapPasskeyBlob, vaultVars
<1>6. RelayPart' /\ DispPart' /\ PollPart'
  BY <1>2, PairFrame DEF WrapPasskeyBlob
<1> QED BY <1>2, <1>3, <1>4, <1>5, <1>6

LEMMA PutSeedBlobCheckStep ==
    ASSUME AnonInv, NEW d \in Devices, PutSeedBlobCheck(d) PROVE AnonInv'
<1> USE DEF AnonInv
<1>1. Grows /\ HistPart'
  BY HistFrame DEF PutSeedBlobCheck
<1>2. CASE op' = [op EXCEPT ![d] = [op[d] EXCEPT !.pc = "upsert", !.user = cookie[d]]]
  <2> DEFINE o == [op[d] EXCEPT !.pc = "upsert", !.user = cookie[d]]
  <2>1. op[d] \in OpRows /\ cookie[d] \in Users /\ op[d].blob \in BlobRows
        /\ Safe(op[d].blob.root, op[d].blob.user, op[d].blob.epoch)
    BY DEF PutSeedBlobCheck, OpPart, PagePart
  <2>2. o \in OpRows /\ o.pc = "upsert" /\ o.user = cookie[d] /\ o.blob = op[d].blob
    BY <2>1 DEF OpRows
  <2>3. op' = [op EXCEPT ![d] = o]
    BY <1>2
  <2> HIDE DEF o
  <2>4. OpPart'
    BY <1>1, <2>1, <2>2, <2>3, OpKeeps, SafeGrows
  <2>5. op'[d].pc = "upsert" /\ \A e \in Devices : e # d => op'[e] = op[e]
    BY <2>2, <2>3 DEF OpPart
  <2> QED BY <1>1, <2>4, <2>5, OpOnly DEF PutSeedBlobCheck
<1>3. CASE Ends(d)
  <2>1. OpPart' /\ op'[d].pc = "idle" /\ \A e \in Devices : e # d => op'[e] = op[e]
    BY <1>1, <1>3, EndsKeeps
  <2> QED BY <1>1, <2>1, OpOnly DEF PutSeedBlobCheck
<1> QED BY <1>2, <1>3 DEF PutSeedBlobCheck, Ends

LEMMA PutSeedBlobWriteStep ==
    ASSUME AnonInv, NEW d \in Devices, PutSeedBlobWrite(d) PROVE AnonInv'
<1> USE DEF AnonInv
<1>1. Grows /\ HistPart'
  BY HistFrame DEF PutSeedBlobWrite
<1>2. op[d].user \in Users /\ op[d].blob \in BlobRows
      /\ Safe(op[d].blob.root, op[d].blob.user, op[d].blob.epoch)
  BY DEF PutSeedBlobWrite, OpPart
<1>3. BlobPart'
  BY <1>1, <1>2 DEF PutSeedBlobWrite, BlobPart, Safe, Good, Grows
<1>4. RowPart' /\ PagePart' /\ VaultPart'
  BY <1>1, RowFrame, PageFrame, VaultFrame DEF PutSeedBlobWrite
<1>5. OpPart' /\ op'[d].pc = "idle" /\ \A e \in Devices : e # d => op'[e] = op[e]
  BY <1>1, EndsKeeps DEF PutSeedBlobWrite
<1>6. ConfirmPart'
  BY <1>5, ConfirmKeeps, ShownFrame DEF PutSeedBlobWrite, tabVars, vaultVars
<1>7. RelayPart' /\ DispPart' /\ PollPart'
  BY <1>1, PairFrame DEF PutSeedBlobWrite
<1> QED BY <1>1, <1>3, <1>4, <1>5, <1>6, <1>7

LEMMA DeleteSeedBlobStep ==
    ASSUME AnonInv, NEW d \in Devices, NEW k \in Passkeys, DeleteSeedBlob(d, k)
    PROVE  AnonInv'
<1> USE DEF AnonInv
<1>1. Grows /\ HistPart'
  BY HistFrame DEF DeleteSeedBlob
<1>2. cookie[d] \in Users
  BY DEF PagePart
<1>3. BlobPart'
  BY <1>1, <1>2 DEF DeleteSeedBlob, BlobPart, Safe, Good, Grows
<1>4. RowPart' /\ PagePart' /\ VaultPart' /\ OpPart' /\ ConfirmPart'
  BY <1>1, RowFrame, PageFrame, VaultFrame, OpFrame, ConfirmFrame
  DEF DeleteSeedBlob, tabVars, vaultVars
<1>5. RelayPart' /\ DispPart' /\ PollPart'
  BY <1>1, PairFrame DEF DeleteSeedBlob
<1> QED BY <1>1, <1>3, <1>4, <1>5

LEMMA GetSeedBlobsEpochStep ==
    ASSUME AnonInv, NEW d \in Devices, GetSeedBlobsEpoch(d) PROVE AnonInv'
<1> USE DEF AnonInv
<1>1. Grows /\ HistPart'
  BY HistFrame DEF GetSeedBlobsEpoch
<1> DEFINE o == [pc |-> "blobs", user |-> cookie[d],
                 epoch |-> row[cookie[d]].epoch, blob |-> None]
<1>2. o \in OpRows /\ o.pc = "blobs" /\ o.user \in Users
  BY DEF OpRows, PagePart, RowPart
<1>3. op' = [op EXCEPT ![d] = o]
  BY DEF GetSeedBlobsEpoch
<1> HIDE DEF o
<1>4. OpPart'
  BY <1>1, <1>2, <1>3, OpKeeps
<1>5. op'[d].pc = "blobs" /\ \A e \in Devices : e # d => op'[e] = op[e]
  BY <1>2, <1>3 DEF OpPart
<1> QED BY <1>1, <1>4, <1>5, OpOnly DEF GetSeedBlobsEpoch

(* A copy opens only under the account and the epoch it was wrapped for.   *)
LEMMA UnlockWithPasskeyStep ==
    ASSUME AnonInv, NEW d \in Devices, UnlockWithPasskey(d) PROVE AnonInv'
<1> USE DEF AnonInv
<1>1. Grows /\ HistPart'
  BY HistFrame DEF UnlockWithPasskey
<1>2. /\ VaultPart' /\ (\A e \in Devices : e # d => vault'[e] = vault[e])
      /\ ShownIs(d)'
  <2>1. CASE UNCHANGED vaultVars
    BY <1>1, <2>1, VaultFrame, ShownFrame DEF vaultVars, UnlockWithPasskey, tabVars
  <2>2. ASSUME NEW b \in blobs[op[d].user],
               Unwraps(b, page[d].user, op[d].epoch),
               UnlockVault(d, page[d].user, b.root, TRUE, op[d].epoch)
        PROVE  /\ VaultPart' /\ (\A e \in Devices : e # d => vault'[e] = vault[e])
               /\ ShownIs(d)'
    <3>1. op[d].user \in Users /\ page[d].user \in Users /\ op[d] \in OpRows
      BY DEF UnlockWithPasskey, OpPart, PagePart
    <3>2. b \in BlobRows /\ Safe(b.root, b.user, b.epoch) /\ op[d].epoch \in Epochs
      BY <3>1 DEF BlobPart, OpRows
    <3>3. b.root \in Roots
      BY <3>2 DEF BlobRows
    <3>4. Good(b.root, page[d].user, op[d].epoch, backed', relabelled')
      BY <1>1, <2>2, <3>2, SafeGrows DEF Unwraps
    <3>5. vault'[d].active
      BY <2>2, UnlockActive
    <3>6. ShownIs(d)'
      BY <3>5 DEF ShownIs
    <3> QED BY <1>1, <2>2, <3>1, <3>2, <3>3, <3>4, <3>6, UnlockKeeps, UnlockElsewhere
  <2> QED BY <2>1, <2>2 DEF UnlockWithPasskey
<1>3. OpPart' /\ op'[d].pc = "idle" /\ \A e \in Devices : e # d => op'[e] = op[e]
  BY <1>1, EndsKeeps DEF UnlockWithPasskey
<1>4. RowPart' /\ PagePart' /\ BlobPart'
  BY <1>1, RowFrame, PageFrame, BlobFrame DEF UnlockWithPasskey, serverVars
<1>5. ConfirmPart'
  BY <1>2, <1>3, ConfirmKeeps DEF UnlockWithPasskey, tabVars
<1>6. RelayPart' /\ DispPart' /\ PollPart'
  BY <1>1, PairFrame DEF UnlockWithPasskey
<1> QED BY <1>1, <1>2, <1>3, <1>4, <1>5, <1>6

LEMMA CopiesStep == ASSUME AnonInv, NEW d \in Devices, Copies(d) PROVE AnonInv'
BY EnrollPasskeyBlobStep, WrapPasskeyBlobStep, PutSeedBlobCheckStep, PutSeedBlobWriteStep,
   GetSeedBlobsEpochStep, UnlockWithPasskeyStep, DeleteSeedBlobStep DEF Copies

-----------------------------------------------------------------------------
(* Pairing.                                                                *)

(* A step of the pairing that opens no vault.                              *)
LEMMA PairOnly ==
    ASSUME AnonInv, RelayPart', DispPart', PollPart',
           UNCHANGED <<serverVars, tabVars, vaultVars, op, history>>
    PROVE  AnonInv'
<1>1. Grows /\ HistPart'
  BY HistFrame DEF AnonInv
<1>2. RowPart' /\ PagePart' /\ VaultPart' /\ BlobPart' /\ OpPart' /\ ConfirmPart'
  BY <1>1, RowFrame, PageFrame, VaultFrame, BlobFrame, OpFrame, ConfirmFrame
  DEF AnonInv, serverVars, tabVars, vaultVars
<1> QED BY <1>1, <1>2 DEF AnonInv

LEMMA CreateKeeps ==
    ASSUME RelayPart, UNCHANGED history, NEW s \in RelayIds, NEW u \in Users,
           CreatePairSession(s, u)
    PROVE  RelayPart' /\ Opened /\ relay'[s] \in RelayRows
<1> DEFINE fresh == NewSession(u)
           swept(t) == [relay[t] EXCEPT !.state = "swept", !.payload = None]
<1>1. fresh \in RelayRows /\ fresh.state = "waiting" /\ fresh.payload = None
  BY DEF NewSession, RelayRows
<1>2. ASSUME NEW t \in OldSessions
      PROVE  /\ swept(t) \in RelayRows /\ swept(t).state = "swept"
             /\ swept(t).payload = None
  <2>1. relay[t] \in RelayRows
    BY DEF OldSessions, RelayPart
  <2> QED BY <2>1 DEF RelayRows
<1>3. relay' = [t \in RelayIds |-> IF t = s THEN fresh
                  ELSE IF t \in OldSessions THEN swept(t) ELSE relay[t]]
  BY DEF CreatePairSession
<1> HIDE DEF fresh, swept
<1>4. \A t \in RelayIds :
        \/ /\ relay'[t] \in RelayRows /\ relay'[t].state # "sealed"
           /\ relay'[t].payload = None
        \/ t # s /\ relay'[t] = relay[t]
  BY <1>1, <1>2, <1>3
<1>5. relay' \in [RelayIds -> RelayRows \cup {None}]
  BY <1>3, <1>4 DEF RelayPart
<1>6. UNCHANGED <<backed, relabelled>>
  BY DEF history
<1>7. RelayPart'
  BY <1>4, <1>5, <1>6 DEF RelayPart, Safe, Good
<1> QED BY <1>4, <1>7 DEF Opened

LEMMA DisplaysKeeps ==
    ASSUME AnonInv, UNCHANGED history, UNCHANGED poll, NEW d \in Devices,
           NEW cycle \in Nat, Displays(d, cycle)
    PROVE  RelayPart' /\ DispPart' /\ PollPart'
<1> USE DEF AnonInv
<1>1. PICK s \in RelayIds :
        /\ CreatePairSession(s, cookie[d])
        /\ disp' = [disp EXCEPT ![d] =
                      [phase |-> "displaying", id |-> s, cycle |-> cycle]]
  BY DEF Displays
<1>2. cookie[d] \in Users
  BY DEF PagePart
<1>3. RelayPart' /\ Opened /\ relay'[s] \in RelayRows
  BY <1>1, <1>2, CreateKeeps
<1>4. [phase |-> "displaying", id |-> s, cycle |-> cycle] \in DispRows
  BY DEF DispRows
<1>5. disp' \in [Devices -> DispRows]
  BY <1>1, <1>4 DEF DispPart
<1>6. \A e \in Devices : disp'[e] = disp[e] \/ disp'[e].id = s
  BY <1>1 DEF DispPart
<1>7. DispPart'
  BY <1>3, <1>5, <1>6 DEF DispPart, Opened
<1>8. PollPart'
  BY <1>3, HistFrame, PollFrame
<1> QED BY <1>3, <1>7, <1>8

LEMMA StartDisplaySessionStep ==
    ASSUME AnonInv, NEW d \in Devices, StartDisplaySession(d) PROVE AnonInv'
<1>1. RelayPart' /\ DispPart' /\ PollPart'
  BY DisplaysKeeps, 0 \in Nat DEF StartDisplaySession
<1> QED BY <1>1, PairOnly DEF StartDisplaySession

LEMMA SessionLapsedStep ==
    ASSUME AnonInv, NEW d \in Devices, SessionLapsed(d) PROVE AnonInv'
<1> USE DEF AnonInv
<1>1. CASE Displays(d, disp[d].cycle + 1)
  <2>1. disp[d].cycle + 1 \in Nat
    BY DEF DispPart, DispRows
  <2>2. RelayPart' /\ DispPart' /\ PollPart'
    BY <1>1, <2>1, DisplaysKeeps DEF SessionLapsed
  <2> QED BY <2>2, PairOnly DEF SessionLapsed
<1>2. CASE disp' = [disp EXCEPT ![d].phase = "exhausted"] /\ UNCHANGED relay
  <2>1. Opened /\ Grows
    BY <1>2, HistFrame DEF Opened, SessionLapsed
  <2>2. RelayPart' /\ DispPart' /\ PollPart'
    BY <1>2, <2>1, RelayFrame, PhaseKeeps, PollFrame DEF SessionLapsed
  <2> QED BY <2>2, PairOnly DEF SessionLapsed
<1> QED BY <1>1, <1>2 DEF SessionLapsed

(* One session changes to a row that carries nothing bad.                  *)
LEMMA RelayKeeps ==
    ASSUME RelayPart, Grows, NEW s \in RelayIds, NEW r \in RelayRows,
           relay' = [relay EXCEPT ![s] = r],
           r.state = "sealed" => r.payload \in Payloads,
           r.state = "sealed" \/ r.payload # None =>
              Good(r.payload.root, r.payload.user, r.payload.epoch,
                   backed', relabelled')
    PROVE  RelayPart' /\ Opened
<1>1. relay' \in [RelayIds -> RelayRows \cup {None}]
  BY DEF RelayPart
<1>2. \A t \in RelayIds : relay'[t] = r \/ relay'[t] = relay[t]
  BY DEF RelayPart
<1>3. Opened
  BY <1>2 DEF Opened
<1>4. RelayPart'
  BY <1>1, <1>2 DEF RelayPart, Safe, Good, Grows
<1> QED BY <1>3, <1>4

LEMMA SessionAgesStep ==
    ASSUME AnonInv, NEW s \in RelayIds, SessionAges(s) PROVE AnonInv'
<1> USE DEF AnonInv
<1>1. relay[s] \in RelayRows
  BY DEF SessionAges, RelayPart
<1>2. PICK a \in {"lapsed", "old"} :
        relay' = [relay EXCEPT ![s] = [relay[s] EXCEPT !.age = a]]
  BY DEF SessionAges
<1> DEFINE r == [relay[s] EXCEPT !.age = a]
<1>3. r \in RelayRows /\ r.state = relay[s].state /\ r.payload = relay[s].payload
  BY <1>1 DEF RelayRows
<1>4. Grows
  BY HistFrame DEF SessionAges
<1>5. relay[s] # None
  BY DEF SessionAges
<1>6. RelayPart' /\ Opened
  <2>1. relay' = [relay EXCEPT ![s] = r]
    BY <1>2
  <2> HIDE DEF r
  <2>2. r.state = "sealed" => r.payload \in Payloads
    BY <1>3, <1>5 DEF RelayPart
  <2>3. r.state = "sealed" \/ r.payload # None =>
          Safe(r.payload.root, r.payload.user, r.payload.epoch)
    BY <1>3, <1>5 DEF RelayPart
  <2>4. r.state = "sealed" \/ r.payload # None =>
              Good(r.payload.root, r.payload.user, r.payload.epoch,
                   backed', relabelled')
    BY <1>4, <2>3, SafeGrows
  <2> QED BY <1>3, <1>4, <2>1, <2>2, <2>4, RelayKeeps
<1>7. DispPart' /\ PollPart'
  BY <1>4, <1>6, DispFrame, PollFrame DEF SessionAges
<1> QED BY <1>6, <1>7, PairOnly DEF SessionAges

(* What is sealed is an active root, with its account and its epoch.       *)
LEMMA SealToPeerStep ==
    ASSUME AnonInv, NEW d \in Devices, NEW s \in RelayIds, SealToPeer(d, s)
    PROVE  AnonInv'
<1> USE DEF AnonInv
<1> DEFINE p == SealRootToPeer(d)
           r == [relay[s] EXCEPT !.state = "sealed", !.payload = p]
<1>1. relay[s] \in RelayRows
  BY DEF SealToPeer, SealPairSession, RelayPart
<1>2. /\ vault[d] \in VaultRows /\ vault[d].user = page[d].user
      /\ Safe(vault[d].root, vault[d].user, vault[d].epoch)
  BY DEF SealToPeer, IsVaultReady, Holds, VaultPart
<1>3. /\ p \in Payloads /\ p.root = vault[d].root /\ p.user = vault[d].user
      /\ p.epoch = vault[d].epoch
  BY <1>2 DEF SealRootToPeer, SealRoot, Payloads, VaultRows
<1>4. relay' = [relay EXCEPT ![s] = r]
  BY DEF SealToPeer, SealPairSession
<1>5. Grows
  BY HistFrame DEF SealToPeer
<1>6. r \in RelayRows /\ r.state = "sealed" /\ r.payload = p
  <2> HIDE DEF p
  <2> QED BY <1>1, <1>3 DEF RelayRows
<1>7. RelayPart' /\ Opened
  <2> HIDE DEF p, r
  <2>1. Good(p.root, p.user, p.epoch, backed', relabelled')
    BY <1>2, <1>3, <1>5, SafeGrows
  <2> QED BY <1>3, <1>4, <1>5, <1>6, <2>1, RelayKeeps
<1>8. DispPart' /\ PollPart'
  BY <1>5, <1>7, DispFrame, PollFrame DEF SealToPeer
<1> QED BY <1>7, <1>8, PairOnly DEF SealToPeer

LEMMA ClaimReadStep ==
    ASSUME AnonInv, NEW d \in Devices, ClaimRead(d) PROVE AnonInv'
<1> USE DEF AnonInv
<1> DEFINE s == disp[d].id
<1>1. s \in RelayIds /\ relay[s] \in RelayRows
  BY DEF ClaimRead, DispPart
<1>2. Grows /\ Opened /\ RelayPart'
  BY HistFrame, RelayFrame DEF ClaimRead, Opened
<1>3. CASE Fails(d) /\ UNCHANGED poll
  <2>1. DispPart' /\ PollPart'
    BY <1>2, <1>3, PhaseKeeps, PollFrame DEF Fails
  <2> QED BY <1>2, <2>1, PairOnly DEF ClaimRead
<1>4. CASE /\ relay[s].state = "sealed" /\ UNCHANGED disp
           /\ poll' = [poll EXCEPT ![d] = [id |-> s, payload |-> relay[s].payload]]
  <2>1. /\ relay[s].payload \in Payloads
        /\ Safe(relay[s].payload.root, relay[s].payload.user,
                relay[s].payload.epoch)
    BY <1>1, <1>4 DEF RelayPart
  <2> DEFINE c == [id |-> s, payload |-> relay[s].payload]
  <2>2. /\ c \in [id : RelayIds, payload : Payloads]
        /\ c.id = s /\ c.payload = relay[s].payload
    BY <1>1, <2>1
  <2>3. poll' = [poll EXCEPT ![d] = c]
    BY <1>4
  <2> HIDE DEF c
  <2>4. poll' \in [Devices -> [id : RelayIds, payload : Payloads] \cup {None}]
    BY <2>2, <2>3 DEF PollPart
  <2>5. \A e \in Devices : poll'[e] = poll[e] \/ poll'[e] = c
    BY <2>3 DEF PollPart
  <2>6. UNCHANGED relay
    BY DEF ClaimRead
  <2>7. PollPart'
    BY <1>1, <1>2, <2>1, <2>2, <2>4, <2>5, <2>6 DEF PollPart, Safe, Good, Grows
  <2>8. DispPart'
    BY <1>2, <1>4, DispFrame
  <2> QED BY <1>2, <2>7, <2>8, PairOnly DEF ClaimRead
<1> QED BY <1>3, <1>4 DEF ClaimRead

(* The claimed payload opens only on a page of its account and epoch.      *)
LEMMA ClaimWriteStep ==
    ASSUME AnonInv, NEW d \in Devices, ClaimWrite(d) PROVE AnonInv'
<1> USE DEF AnonInv
<1> DEFINE c == poll[d]
           p == c.payload
<1>1. /\ c.id \in RelayIds /\ p \in Payloads /\ relay[c.id] \in RelayRows
      /\ Safe(p.root, p.user, p.epoch)
  BY DEF ClaimWrite, PollPart
<1>2. Grows /\ HistPart'
  BY HistFrame DEF ClaimWrite
<1>3. RelayPart' /\ Opened
  <2>1. CASE UNCHANGED relay
    BY <1>2, <2>1, RelayFrame DEF Opened
  <2>2. CASE relay' = [relay EXCEPT ![c.id].state = "claimed", ![c.id].payload = None]
    <3> DEFINE r == [relay[c.id] EXCEPT !.state = "claimed", !.payload = None]
    <3>1. r \in RelayRows /\ r.state = "claimed" /\ r.payload = None
      BY <1>1 DEF RelayRows
    <3>2. relay' = [relay EXCEPT ![c.id] = r]
      BY <2>2
    <3> HIDE DEF r
    <3> QED BY <1>1, <1>2, <3>1, <3>2, RelayKeeps
  <2> QED BY <2>1, <2>2 DEF ClaimWrite
<1>4. poll' = [poll EXCEPT ![d] = None]
  BY DEF ClaimWrite
<1>5. PollPart'
  <2>1. poll' \in [Devices -> [id : RelayIds, payload : Payloads] \cup {None}]
        /\ \A e \in Devices : poll'[e] = poll[e] \/ poll'[e] = None
    BY <1>4 DEF PollPart
  <2> QED BY <1>2, <1>3, <2>1 DEF PollPart, Opened, Safe, Good, Grows
<1>6. DispPart'
  <2>1. CASE UNCHANGED disp
    BY <1>3, <2>1, DispFrame
  <2>2. CASE PollForRoot(d, p)
    <3>1. PICK ph \in {"exhausted", "received", "error", "none"} :
            disp' = [disp EXCEPT ![d].phase = ph]
      BY <2>2 DEF PollForRoot, DispPart
    <3> QED BY <1>3, <3>1, PhaseKeeps
  <2> QED BY <2>1, <2>2 DEF ClaimWrite
<1>7. /\ VaultPart' /\ \A e \in Devices : e # d => vault'[e] = vault[e]
      /\ vault'[d] = vault[d] \/ vault'[d].active
  <2>1. CASE UNCHANGED vaultVars
    BY <1>2, <2>1, VaultFrame DEF vaultVars
  <2>2. CASE OpensRoot(d, p) /\ ReceiveRootFromPeer(d, p)
    <3>1. UnlockVault(d, page[d].user, p.root, TRUE, page[d].epoch)
      BY <2>2 DEF ReceiveRootFromPeer
    <3>2. page[d].user \in Users /\ page[d].epoch \in Epochs /\ p.root \in Roots
      BY <1>1 DEF PagePart, Payloads
    <3>3. Good(p.root, page[d].user, page[d].epoch, backed', relabelled')
      BY <1>1, <1>2, <2>2, SafeGrows DEF OpensRoot
    <3>4. VaultPart' /\ \A e \in Devices : e # d => vault'[e] = vault[e]
      <4> HIDE DEF p
      <4> QED BY <1>2, <3>1, <3>2, <3>3, UnlockKeeps, UnlockElsewhere
    <3>5. vault'[d] = [user |-> page[d].user, root |-> p.root, active |-> TRUE,
                       epoch |-> page[d].epoch]
      BY <3>1 DEF UnlockVault, VaultPart
    <3> QED BY <3>4, <3>5
  <2> QED BY <2>1, <2>2 DEF ClaimWrite, PollForRoot
<1>8. RowPart' /\ PagePart' /\ BlobPart' /\ OpPart'
  BY <1>2, RowFrame, PageFrame, BlobFrame, OpFrame DEF ClaimWrite, serverVars
<1>9. ConfirmPart'
  BY <1>7 DEF ClaimWrite, ConfirmPart, ShownIs, Holds, tabVars
<1> QED BY <1>2, <1>3, <1>5, <1>6, <1>7, <1>8, <1>9

LEMMA PairingStep == ASSUME AnonInv, NEW d \in Devices, Pairing(d) PROVE AnonInv'
BY StartDisplaySessionStep, SessionLapsedStep, ClaimReadStep, ClaimWriteStep,
   SealToPeerStep DEF Pairing

-----------------------------------------------------------------------------
LEMMA NextAnon == AnonInv /\ [Next]_vars => AnonInv'
<1> SUFFICES ASSUME AnonInv, [Next]_vars PROVE AnonInv'
  OBVIOUS
<1>1. CASE UNCHANGED vars
  <2>1. UNCHANGED <<serverVars, tabVars, vaultVars, pairVars, op, history>>
    BY <1>1 DEF vars
  <2>2. Grows
    BY <2>1, HistFrame DEF AnonInv
  <2>3. RelayPart' /\ DispPart' /\ PollPart'
    BY <2>1, <2>2, PairFrame DEF AnonInv
  <2> QED BY <2>1, <2>3, PairOnly
<1> QED BY <1>1, EnrollmentStep, EndingStep, CopiesStep, TabStep, PairingStep,
           SessionAgesStep DEF Next

LEMMA SpecAnon == Spec => []AnonInv
BY InitAnon, NextAnon, PTL DEF Spec

LEMMA KeptInStore ==
    \A k \in Kept : k # None /\ \E d \in Devices : \E u \in Users : k = store[d][u]
<1> SUFFICES ASSUME NEW k \in Kept
             PROVE  k # None /\ \E d \in Devices : \E u \in Users : k = store[d][u]
  OBVIOUS
<1>1. k \in UNION {{store[d][u] : u \in Users} : d \in Devices} /\ k # None
  BY Zenon DEF Kept
<1>2. \E S \in {{store[d][u] : u \in Users} : d \in Devices} : k \in S
  BY <1>1
<1>3. PICK d \in Devices : k \in {store[d][u] : u \in Users}
  BY <1>2
<1> QED BY <1>1, <1>3

(* Rows, vaults, copies and payloads have the shape of their tables.       *)
THEOREM AnonTypeCorrect == Spec => []TypeOK
<1>1. AnonInv => TypeOK
  <2> SUFFICES ASSUME AnonInv PROVE TypeOK
    OBVIOUS
  <2> USE DEF AnonInv
  <2>1. \A b \in Copied : b.cred \in Passkeys /\ b.user \in Users
                          /\ b.epoch \in Epochs /\ b.root \in Roots
    BY DEF Copied, BlobPart, BlobRows
  <2>2. \A v \in Held : v.user \in Users /\ v.root \in Roots /\ v.epoch \in Epochs
    BY DEF Held, VaultPart, VaultRows
  <2>3. \A k \in Kept : k.root \in Roots /\ k.epoch \in Epochs
    BY KeptInStore DEF VaultPart, KeptRows
  <2>4. \A p \in InTransit : p.root \in Roots
    <3>1. \A s \in RelayIds : relay[s] # None => relay[s].payload \in Payloads \cup {None}
      BY DEF RelayPart, RelayRows
    <3>2. \A p \in InTransit : p \in Payloads
      BY <3>1 DEF InTransit
    <3> QED BY <3>2 DEF Payloads
  <2> QED BY <2>1, <2>2, <2>3, <2>4 DEF TypeOK, RowPart, OpPart, OpRows, HistPart
<1> QED BY <1>1, SpecAnon, PTL

(* A secret for the server's epoch comes from a root of that epoch, for    *)
(* any resets, re-keys, copies, pairings and stale pages, unless the root  *)
(* was typed in, autofilled or copied as one of that account and epoch.    *)
THEOREM StaleRootRefused == Spec => []NoStaleBranch
<1>1. AnonInv => NoStaleBranch
  <2> SUFFICES ASSUME AnonInv, NEW d \in Devices, AnonRedirect(d) # None
               PROVE  \/ AnonRedirect(d).epoch = row[page[d].user].epoch
                      \/ Relabelled(AnonRedirect(d), page[d].user,
                                    row[page[d].user].epoch)
    BY DEF NoStaleBranch
  <2>1. /\ AnonRedirect(d) = vault[d].root /\ vault[d] # None /\ vault[d].active
        /\ vault[d].user = page[d].user /\ vault[d].epoch = row[page[d].user].epoch
    BY DEF AnonRedirect, DeriveAppSecret, IsVaultReady, Holds
  <2>2. Safe(vault[d].root, vault[d].user, vault[d].epoch)
    BY <2>1 DEF AnonInv, VaultPart
  <2> QED BY <2>1, <2>2 DEF Safe, Good, Relabelled
<1> QED BY <1>1, SpecAnon, PTL

(* A vault or a store that holds another account's root was given it by    *)
(* hand, by the password manager, or by a copy made of it as its own.      *)
THEOREM RootsDoNotCross == Spec => []RootStaysHome
<1>1. AnonInv => RootStaysHome
  <2> SUFFICES ASSUME AnonInv PROVE RootStaysHome
    OBVIOUS
  <2>1. \A v \in Held : v.root.user = v.user \/ Relabelled(v.root, v.user, v.epoch)
    BY DEF AnonInv, VaultPart, Held, Safe, Good, Relabelled
  <2>2. \A d \in Devices, u \in Users : store[d][u] # None =>
          store[d][u].root.user = u \/ Relabelled(store[d][u].root, u, store[d][u].epoch)
    BY DEF AnonInv, VaultPart, Safe, Good, Relabelled
  <2> QED BY <2>1, <2>2 DEF RootStaysHome
<1> QED BY <1>1, SpecAnon, PTL

(* What a store, a copy or a payload keeps was typed back in on its backup *)
(* screen, or typed in or copied elsewhere.                                *)
THEOREM NothingOrphans == Spec => []KeptIsBackedUp
<1>1. AnonInv => KeptIsBackedUp
  <2> SUFFICES ASSUME AnonInv PROVE KeptIsBackedUp
    OBVIOUS
  <2> USE DEF AnonInv
  <2> DEFINE Known(root) == root \in backed \/ \E l \in relabelled : l.root = root
  <2>1. ASSUME NEW root, NEW u, NEW epoch, Safe(root, u, epoch) PROVE Known(root)
    <3>1. [root |-> root, user |-> u, epoch |-> epoch].root = root
      OBVIOUS
    <3> QED BY <2>1, <3>1 DEF Safe, Good
  <2> HIDE DEF Known
  <2>2. \A k \in Kept : Known(k.root)
    BY <2>1, KeptInStore DEF VaultPart
  <2>3. \A b \in Copied : Known(b.root)
    BY <2>1 DEF Copied, BlobPart
  <2>4. \A p \in InTransit : Known(p.root)
    <3>1. \A s \in RelayIds : relay[s] # None /\ relay[s].payload # None =>
            Known(relay[s].payload.root)
      BY <2>1 DEF RelayPart
    <3> QED BY <3>1 DEF InTransit
  <2> QED BY <2>2, <2>3, <2>4 DEF KeptIsBackedUp, Known
<1> QED BY <1>1, SpecAnon, PTL
=============================================================================
