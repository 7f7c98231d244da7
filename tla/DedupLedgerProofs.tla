------------------------- MODULE DedupLedgerProofs --------------------------
(***************************************************************************)
(* Proofs about DedupLedger, for any number of accounts, credentials,      *)
(* batches, concurrent issuances, deletions and releases, on either        *)
(* backend, with or without faults, late deliveries, merges and reversals. *)
(***************************************************************************)
EXTENDS DedupLedger, TLAPS

EntryRows == [state : {"free", "live", "gone", "late", "overtaken"},
              cred : Creds \cup {None}, owner : Users \cup {None}]
BadgeRows == [state : {"free", "live", "deleted"}, user : Users \cup {None},
              cred : Creds \cup {None}, ref : Refs \cup {None}]
MintRows == [pc : {"idle", "register", "lookup", "window", "write", "probe", "abort", "undo"},
             user : Users \cup {None}, todo : Seq(Creds), ref : Refs \cup {None},
             badge : Badges \cup {None}, heal : 0..HealAttempts,
             created : SUBSET Badges, fresh : SUBSET Refs]
DelRows == [pc : {"idle", "delete", "count", "release"}, user : Users \cup {None},
            badge : Badges \cup {None}, ref : Refs \cup {None}]
RelRows == [pc : {"none", "want", "snapped", "counted", "sent"}, ref : Refs \cup {None},
            owner : Users \cup {None}, left : 0..Attempts]
Records == [state : {"none", "merged", "reversed"}, badges : SUBSET Badges,
            refs : SUBSET Refs, open : SUBSET Badges]
Retags == [ref : Refs, from : Users, to : Users]

(* The tables; what a row that is there, or was, has for sure.             *)
EntriesTyped ==
    /\ entry \in [Refs -> EntryRows]
    /\ \A r \in Refs : entry[r].state = "live" => entry[r].owner \in Users

BadgesTyped ==
    /\ badge \in [Badges -> BadgeRows]
    /\ \A b \in Badges : badge[b].state # "free" =>
         /\ badge[b].user \in Users /\ badge[b].ref \in Refs
         /\ entry[badge[b].ref].state # "free"

CallsTyped ==
    /\ backend \in Backends
    /\ lock \in [Refs -> Callers \cup {None}]
    /\ mint \in [Minters -> MintRows]
    /\ del \in [Deleters -> DelRows]
    /\ \A d \in Deleters : del[d].pc # "idle" => del[d].user \in Users /\ del[d].ref \in Refs
                                                 /\ del[d].badge \in Badges
    /\ inflight \subseteq Refs \X Users

MergeTyped ==
    /\ mergedInto \in [Users -> Users \cup {None}]
    /\ record \in [MergePairs -> Records]
    /\ \A p \in MergePairs : record[p].state = "none" => record[p].open = {}
    /\ retag \subseteq Retags
    /\ adrift \subseteq Badges

(* A badge whose probe has not passed yet: the one its batch is writing or *)
(* healing, or was when it was aborted.                                    *)
Pending(b) == \E m \in Minters : b \in mint[m].created /\ mint[m].badge = b

(* Gone by a release that the code knows it cannot stop.                   *)
Lost == {"late", "overtaken"}

(* Badges that have to be anchored.                                        *)
Due(b) == badge[b].state = "live" /\ ~Escaped(b) /\ ~Pending(b)

Writing == {"register", "lookup", "window", "write", "probe"}

(* What an issuance under way relies on.                                   *)
MintOK(m) ==
    LET q == mint[m] IN
    /\ q.pc # "idle" => q.user \in Users
    /\ q.pc \in Writing => q.todo # <<>>
    /\ q.pc \in {"window", "write", "probe"} =>
         /\ q.ref \in Refs /\ entry[q.ref].state # "free"
         /\ entry[q.ref].cred = Head(q.todo)
    /\ q.pc \in Writing /\ q.heal > 0 => q.badge \in Badges
    /\ q.pc \in Writing \ {"probe"} /\ q.heal = 0 => q.badge = None
    /\ q.pc \in Writing /\ q.badge # None =>
         q.badge \in q.created /\ badge[q.badge].cred = Head(q.todo)
    /\ q.pc = "probe" => q.badge \in Badges /\ badge[q.badge].ref = q.ref
    /\ q.pc \in {"idle", "undo"} => q.created = {}

(* A batch's badges are its own and, unless a merge took them, its user's. *)
CreatedOK ==
    /\ \A m \in Minters, b \in Badges : b \in mint[m].created =>
         /\ badge[b].state # "free"
         /\ badge[b].state = "live" /\ ~Escaped(b) => badge[b].user = mint[m].user
    /\ \A m, n \in Minters, b \in Badges :
         b \in mint[m].created /\ b \in mint[n].created => m = n
    /\ \A p \in MergePairs, b \in Badges : b \in record[p].badges =>
         /\ badge[b].state # "free"
         /\ \A m \in Minters : b \in mint[m].created => b \in record[p].open

(* A release: who it is for, and the lock it holds once it is sent.        *)
RelOK ==
    /\ rel \in [Callers -> RelRows]
    /\ \A p \in Callers :
         /\ rel[p].pc # "none" =>
              rel[p].ref \in Refs /\ rel[p].owner \in Users /\ rel[p].left \in 1..Attempts
         /\ rel[p].pc \in {"counted", "sent"} => backend = "signet"
         /\ rel[p].pc = "sent" => lock[rel[p].ref] = p
    /\ \A m \in Minters : rel[m].pc # "none" => mint[m].pc = "undo"

(* While a release that found no badge keeps the lock, none becomes due.   *)
ReleaseSafe ==
    \A p \in Callers, b \in Badges :
        /\ rel[p].pc \in {"counted", "sent"} /\ lock[rel[p].ref] = p
        /\ Due(b)
        => badge[b].ref # rel[p].ref

Anchors ==
    \A b \in Badges : Due(b) /\ entry[badge[b].ref].state \notin Lost =>
        /\ entry[badge[b].ref].state = "live"
        /\ entry[badge[b].ref].cred = badge[b].cred

DedupInv ==
    /\ EntriesTyped /\ BadgesTyped /\ CallsTyped /\ MergeTyped
    /\ \A m \in Minters : MintOK(m)
    /\ CreatedOK
    /\ RelOK
    /\ ReleaseSafe
    /\ Anchors

(* UNIQUE(value).                                                          *)
OneEntry ==
    \A r, s \in Refs : entry[r].state = "live" /\ entry[s].state = "live"
                       /\ entry[r].cred = entry[s].cred => r = s

(* Where merges do not chain and none is reversed, badges, entries and the *)
(* work that re-tags entries agree on who an account has become.           *)
NoReversal == NoChains /\ \A p \in MergePairs : record[p].state # "reversed"

MergeFlat ==
    NoChains => \A d \in Users : mergedInto[d] # None =>
        <<d, mergedInto[d]>> \in MergePairs /\ mergedInto[mergedInto[d]] = None

OwnersAgree ==
    NoReversal =>
        /\ \A w \in retag : Root(w.from) = Root(w.to)
        /\ \A b \in Badges : Due(b) /\ entry[badge[b].ref].state = "live" =>
             Root(badge[b].user) = Root(entry[badge[b].ref].owner)

OwnerInv == DedupInv /\ OneEntry /\ MergeFlat /\ OwnersAgree

-----------------------------------------------------------------------------
(* What a step leaves alone.                                               *)

LEMMA MintFields ==
    ASSUME CallsTyped, NEW m \in Minters
    PROVE  mint[m] \in MintRows
BY DEF CallsTyped

(* Registrations only add: an entry that is there is left alone.           *)
EntriesKept == \A r \in Refs : entry[r].state # "free" => entry'[r] = entry[r]

(* Entries and badges keep their credential, and never become free again.  *)
EntriesGo ==
    \A r \in Refs : entry[r].state # "free" =>
        entry'[r].state # "free" /\ entry'[r].cred = entry[r].cred

BadgesGo ==
    \A b \in Badges : badge[b].state # "free" =>
        badge'[b].state # "free" /\ badge'[b].cred = badge[b].cred

(* An issuance that is not the one stepping.                               *)
LEMMA MintKept ==
    ASSUME CallsTyped, CreatedOK, EntriesGo, BadgesGo, NEW n \in Minters,
           MintOK(n), mint'[n] = mint[n],
           mint[n].pc = "probe" /\ badge[mint[n].badge].ref = mint[n].ref =>
               badge'[mint[n].badge].ref = mint[n].ref
    PROVE  MintOK(n)'
<1>1. mint[n] \in MintRows
  BY MintFields
<1>2. mint[n].pc \in Writing /\ mint[n].badge # None =>
        badge'[mint[n].badge].cred = badge[mint[n].badge].cred
  BY <1>1 DEF MintOK, CreatedOK, BadgesGo, MintRows
<1>3. mint[n].pc \in {"window", "write", "probe"} =>
        entry'[mint[n].ref].state # "free" /\ entry'[mint[n].ref].cred = entry[mint[n].ref].cred
  BY DEF MintOK, EntriesGo
<1> QED
  BY <1>2, <1>3 DEF MintOK

(* A step of issuance m that leaves the badges alone: the one that has yet *)
(* to pass its probe still has, or is set adrift.                          *)
KeepsPending(m, q) ==
    /\ q.created \subseteq mint[m].created
    /\ q.created # {} => q.user = mint[m].user
    /\ \A b \in mint[m].created : mint[m].badge = b =>
         (b \in q.created /\ q.badge = b) \/ b \in adrift'

LockKept ==
    \A p \in Callers, r \in Refs : (lock'[r] = p <=> lock[r] = p) \/ rel[p].pc = "none"

LEMMA MintUpdate ==
    ASSUME CallsTyped, NEW m \in Minters, NEW q \in MintRows, mint' = [mint EXCEPT ![m] = q]
    PROVE  /\ mint' \in [Minters -> MintRows] /\ mint'[m] = q
           /\ \A n \in Minters \ {m} : mint'[n] = mint[n]
BY DEF CallsTyped

LEMMA DueOld ==
    ASSUME CallsTyped, NEW m \in Minters, NEW q \in MintRows, mint' = [mint EXCEPT ![m] = q],
           KeepsPending(m, q), UNCHANGED record, adrift \subseteq adrift'
    PROVE  \A b \in Badges : /\ Escaped(b) => Escaped(b)'
                             /\ Pending(b) => Pending(b)' \/ Escaped(b)'
                             /\ Due(b)' /\ badge'[b].state = badge[b].state => Due(b)
<1>1. mint'[m] = q /\ \A n \in Minters \ {m} : mint'[n] = mint[n]
  BY MintUpdate
<1>2. ASSUME NEW b \in Badges, Pending(b) PROVE Pending(b)' \/ Escaped(b)'
  BY <1>1, <1>2 DEF Pending, KeepsPending, Escaped
<1>3. \A b \in Badges : Escaped(b) => Escaped(b)'
  BY DEF Escaped
<1> QED
  BY <1>2, <1>3 DEF Due

LEMMA MintFrameWide ==
    ASSUME OwnerInv, NEW m \in Minters, NEW q \in MintRows, mint' = [mint EXCEPT ![m] = q],
           KeepsPending(m, q), MintOK(m)', EntriesTyped', EntriesKept, OneEntry', LockKept,
           lock' \in [Refs -> Callers \cup {None}],
           rel[m].pc # "none" => q.pc = "undo",
           UNCHANGED <<badge, del, rel, inflight, mergedInto, record, retag, backend>>,
           adrift \subseteq adrift', adrift' \subseteq Badges
    PROVE  OwnerInv'
<1>1. CallsTyped /\ DedupInv
  BY DEF OwnerInv, DedupInv
<1>2. /\ mint' \in [Minters -> MintRows] /\ mint'[m] = q
      /\ \A n \in Minters \ {m} : mint'[n] = mint[n]
  BY <1>1, MintUpdate
<1>3. UNCHANGED <<mergedInto, record, retag, backend>>
  OBVIOUS
<1>4. BadgesTyped'
  BY DEF OwnerInv, DedupInv, BadgesTyped, EntriesKept
<1>5. CallsTyped' /\ MergeTyped'
  BY <1>2, <1>3 DEF OwnerInv, DedupInv, CallsTyped, MergeTyped
<1>6. EntriesGo /\ BadgesGo
  BY DEF EntriesKept, EntriesGo, BadgesGo
<1>7. \A n \in Minters : MintOK(n)'
  BY <1>1, <1>2, <1>6, MintKept DEF DedupInv
<1>8. CreatedOK'
  <2>1. \A b \in Badges : Escaped(b) => Escaped(b)'
    BY <1>3 DEF Escaped
  <2>2. \A n \in Minters : mint'[n].created \subseteq mint[n].created
    BY <1>2 DEF KeepsPending
  <2>3. \A n \in Minters : mint'[n].created # {} => mint'[n].user = mint[n].user
    BY <1>2 DEF KeepsPending
  <2>4. \A n \in Minters, b \in Badges : b \in mint'[n].created =>
           /\ badge'[b].state # "free"
           /\ badge'[b].state = "live" /\ ~Escaped(b)' => badge'[b].user = mint'[n].user
    BY <1>1, <2>1, <2>2, <2>3 DEF DedupInv, CreatedOK
  <2>5. \A l, n \in Minters, b \in Badges :
           b \in mint'[l].created /\ b \in mint'[n].created => l = n
    BY <1>1, <2>2 DEF DedupInv, CreatedOK
  <2>6. \A p \in MergePairs, b \in Badges : b \in record'[p].badges =>
           /\ badge'[b].state # "free"
           /\ \A n \in Minters : b \in mint'[n].created => b \in record'[p].open
    BY <1>1, <1>3, <2>2 DEF DedupInv, CreatedOK
  <2> QED
    BY <2>4, <2>5, <2>6 DEF CreatedOK
<1>9. RelOK'
  <2>1. \A p \in Callers : rel[p].pc = "sent" => lock'[rel[p].ref] = p
    BY <1>1 DEF DedupInv, RelOK, LockKept
  <2>2. \A n \in Minters : rel[n].pc # "none" => mint'[n].pc = "undo"
    BY <1>1, <1>2 DEF DedupInv, RelOK
  <2> QED
    BY <1>1, <1>3, <2>1, <2>2 DEF DedupInv, RelOK
<1>10. \A b \in Badges : Due(b)' => Due(b)
  BY <1>1, <1>3, DueOld
<1>11. ReleaseSafe'
  <2>1. \A p \in Callers : rel[p].pc \in {"counted", "sent"} /\ lock'[rel[p].ref] = p
                             => lock[rel[p].ref] = p
    BY <1>1 DEF DedupInv, RelOK, LockKept
  <2> QED
    BY <1>1, <1>10, <2>1 DEF DedupInv, ReleaseSafe
<1>12. \A b \in Badges : Due(b) => entry'[badge[b].ref] = entry[badge[b].ref]
  BY <1>1 DEF DedupInv, BadgesTyped, Due, EntriesKept
<1>13. Anchors'
  BY <1>1, <1>10, <1>12 DEF DedupInv, Anchors
<1>14. MergeFlat' /\ OwnersAgree'
  <2>1. NoReversal' <=> NoReversal
    BY <1>3 DEF NoReversal
  <2>2. \A u : Root(u)' = Root(u)
    BY <1>3 DEF Root
  <2> QED
    BY <1>3, <1>10, <1>12, <2>1, <2>2 DEF OwnerInv, MergeFlat, OwnersAgree
<1> QED
  BY <1>4, <1>5, <1>7, <1>8, <1>9, <1>11, <1>13, <1>14 DEF OwnerInv, DedupInv

LEMMA MintFrame ==
    ASSUME OwnerInv, NEW m \in Minters, NEW q \in MintRows, mint' = [mint EXCEPT ![m] = q],
           KeepsPending(m, q), MintOK(m)', EntriesTyped', EntriesKept, OneEntry', LockKept,
           lock' \in [Refs -> Callers \cup {None}],
           rel[m].pc # "none" => q.pc = "undo",
           UNCHANGED <<badge, del, rel, inflight, mergeVars>>
    PROVE  OwnerInv'
<1>1. UNCHANGED <<mergedInto, record, retag, backend, adrift>>
  BY DEF mergeVars
<1>2. adrift' \subseteq Badges
  BY <1>1 DEF OwnerInv, DedupInv, MergeTyped
<1> QED
  BY <1>1, <1>2, MintFrameWide

-----------------------------------------------------------------------------
(* issueBadgesAndComplete.                                                 *)

LEMMA IdleMintShape ==
    ASSUME LedgerConstants
    PROVE  /\ IdleMint \in MintRows /\ IdleMint.pc = "idle" /\ IdleMint.created = {}
           /\ IdleMint.badge = None /\ IdleMint.heal = 0
BY DEF LedgerConstants, IdleMint, MintRows

LEMMA EntriesSame ==
    ASSUME OwnerInv, UNCHANGED entry
    PROVE  EntriesTyped' /\ EntriesKept /\ OneEntry'
BY DEF OwnerInv, DedupInv, EntriesTyped, EntriesKept, OneEntry

(* The step changes no lock, or only those of a caller without a release.  *)
LEMMA LocksSame ==
    ASSUME OwnerInv, UNCHANGED lock
    PROVE  LockKept /\ lock' \in [Refs -> Callers \cup {None}]
BY DEF OwnerInv, DedupInv, CallsTyped, LockKept

LEMMA UnlockKept ==
    ASSUME LedgerConstants, OwnerInv, NEW p \in Callers, Unlock(p), rel[p].pc = "none"
    PROVE  LockKept /\ lock' \in [Refs -> Callers \cup {None}]
<1>1. \A r \in Refs : lock'[r] = IF lock[r] = p THEN None ELSE lock[r]
  BY DEF Unlock
<1>2. None \notin Callers
  BY DEF LedgerConstants, Callers
<1>3. lock' \in [Refs -> Callers \cup {None}]
  BY DEF Unlock, OwnerInv, DedupInv, CallsTyped
<1>4. ASSUME NEW c \in Callers, NEW r \in Refs, c # p PROVE lock'[r] = c <=> lock[r] = c
  BY <1>1, <1>2, <1>4
<1> QED
  BY <1>3, <1>4 DEF LockKept

(* An issuance whose batch is aborted, and nothing else of it changes.     *)
LEMMA AbortShape ==
    ASSUME OwnerInv, NEW m \in Minters, mint[m].pc \in Writing
    PROVE  LET q == [mint[m] EXCEPT !.pc = "abort"] IN
           /\ q \in MintRows /\ KeepsPending(m, q)
           /\ q.pc = "abort" /\ q.user \in Users
<1> DEFINE q == [mint[m] EXCEPT !.pc = "abort"]
<1>1. mint[m] \in MintRows
  BY MintFields DEF OwnerInv, DedupInv
<1>2. /\ q \in MintRows /\ q.pc = "abort" /\ q.user = mint[m].user
      /\ q.created = mint[m].created /\ q.badge = mint[m].badge
  BY <1>1 DEF MintRows
<1> HIDE DEF q
<1>3. KeepsPending(m, q)
  BY <1>2 DEF KeepsPending
<1>4. mint[m].user \in Users
  BY DEF OwnerInv, DedupInv, MintOK, Writing
<1> QED
  BY <1>2, <1>3, <1>4 DEF q

LEMMA AbortOK ==
    ASSUME NEW m \in Minters, mint'[m].pc = "abort", mint'[m].user \in Users
    PROVE  MintOK(m)'
BY DEF MintOK, Writing

LEMMA IdleOK ==
    ASSUME LedgerConstants, NEW m \in Minters, mint'[m] = IdleMint
    PROVE  MintOK(m)'
BY IdleMintShape DEF MintOK, Writing

LEMMA MintStartStep ==
    ASSUME LedgerConstants, OwnerInv, NEW m \in Minters, NEW u \in Users, NEW batch \in Batches,
           MintStart(m, u, batch)
    PROVE  OwnerInv'
<1> DEFINE q == [IdleMint EXCEPT !.pc = "register", !.user = u, !.todo = batch]
<1>1. batch \in Seq(Creds) /\ batch # <<>>
  BY DEF LedgerConstants
<1>2. /\ q \in MintRows /\ q.pc = "register" /\ q.user = u /\ q.todo = batch
      /\ q.created = {} /\ q.badge = None /\ q.heal = 0
  BY <1>1, IdleMintShape DEF MintRows
<1>3. mint' = [mint EXCEPT ![m] = q] /\ mint[m].pc = "idle"
      /\ UNCHANGED <<entry, badge, lock, del, rel, inflight, mergeVars>>
  BY DEF MintStart
<1> HIDE DEF q
<1>4. mint[m].created = {} /\ rel[m].pc = "none"
  BY <1>3 DEF OwnerInv, DedupInv, MintOK, RelOK
<1>5. KeepsPending(m, q)
  BY <1>2, <1>4 DEF KeepsPending
<1>6. mint'[m] = q
  BY <1>2, <1>3, MintUpdate DEF OwnerInv, DedupInv
<1>7. MintOK(m)'
  BY <1>1, <1>2, <1>6 DEF MintOK, Writing
<1> QED
  BY <1>2, <1>3, <1>4, <1>5, <1>7, EntriesSame, LocksSame, MintFrame

(* An issuance that is writing, and is not holding a release.              *)
LEMMA WritingFacts ==
    ASSUME OwnerInv, NEW m \in Minters, mint[m].pc \in Writing
    PROVE  /\ mint[m] \in MintRows /\ rel[m].pc = "none" /\ mint[m].user \in Users
           /\ mint[m].todo \in Seq(Creds) /\ mint[m].todo # <<>> /\ Cred(m) \in Creds
<1>1. mint[m] \in MintRows
  BY MintFields DEF OwnerInv, DedupInv
<1>2. rel[m].pc = "none" /\ mint[m].user \in Users /\ mint[m].todo # <<>>
  BY DEF OwnerInv, DedupInv, RelOK, MintOK, Writing
<1>3. mint[m].todo \in Seq(Creds)
  BY <1>1 DEF MintRows
<1>4. Cred(m) \in Creds
  BY <1>2, <1>3 DEF Cred
<1> QED
  BY <1>1, <1>2, <1>3, <1>4

(* The window is about to open on an entry for the credential.             *)
LEMMA WindowReady ==
    ASSUME OwnerInv, NEW m \in Minters, mint[m].pc \in {"register", "lookup"}, NEW r \in Refs,
           mint'[m].pc = "window", mint'[m].ref = r, mint'[m].todo = mint[m].todo,
           mint'[m].user = mint[m].user, mint'[m].badge = mint[m].badge,
           mint'[m].heal = mint[m].heal, mint'[m].created = mint[m].created,
           entry'[r].state # "free", entry'[r].cred = Cred(m), UNCHANGED badge
    PROVE  MintOK(m)'
BY DEF OwnerInv, DedupInv, MintOK, Writing, Cred

LEMMA RegisteredStep ==
    ASSUME LedgerConstants, OwnerInv, NEW m \in Minters, mint[m].pc \in {"register", "lookup"},
           NEW r \in Holding(Cred(m)), Registered(m, r),
           UNCHANGED <<entry, badge, lock, del, rel, inflight, mergeVars>>
    PROVE  OwnerInv'
<1>1. r \in Refs /\ entry[r].state = "live" /\ entry[r].cred = Cred(m)
  BY DEF Holding
<1>2. mint[m].pc \in Writing /\ rel[m].pc = "none" /\ mint[m] \in MintRows
  BY WritingFacts DEF Writing
<1>3. CASE entry[r].owner = mint[m].user
  <2> DEFINE q == [mint[m] EXCEPT !.pc = "window", !.ref = r]
  <2>1. /\ q \in MintRows /\ q.pc = "window" /\ q.ref = r /\ q.todo = mint[m].todo
        /\ q.user = mint[m].user /\ q.badge = mint[m].badge /\ q.heal = mint[m].heal
        /\ q.created = mint[m].created
    BY <1>1, <1>2 DEF MintRows
  <2>2. KeepsPending(m, q)
    BY <1>2, <2>1 DEF KeepsPending, Writing
  <2>3. mint' = [mint EXCEPT ![m] = q]
    BY <1>3 DEF Registered
  <2> HIDE DEF q
  <2>4. mint'[m] = q
    BY <2>1, <2>3, MintUpdate DEF OwnerInv, DedupInv
  <2>5. MintOK(m)'
    BY <1>1, <2>1, <2>4, WindowReady
  <2> QED
    BY <1>2, <2>1, <2>2, <2>3, <2>5, EntriesSame, LocksSame, MintFrame
<1>4. CASE entry[r].owner # mint[m].user
  <2> DEFINE q == [mint[m] EXCEPT !.pc = "abort"]
  <2>1. q \in MintRows /\ KeepsPending(m, q) /\ q.pc = "abort" /\ q.user \in Users
    BY <1>2, AbortShape
  <2>2. mint' = [mint EXCEPT ![m] = q]
    BY <1>4 DEF Registered
  <2> HIDE DEF q
  <2>3. mint'[m] = q
    BY <2>1, <2>2, MintUpdate DEF OwnerInv, DedupInv
  <2> QED
    BY <1>2, <2>1, <2>2, <2>3, AbortOK, EntriesSame, LocksSame, MintFrame
<1> QED
  BY <1>3, <1>4

(* UNIQUE(value): a new entry is for a credential nobody holds.            *)
LEMMA NewEntry ==
    ASSUME LedgerConstants, OwnerInv, NEW r \in Refs, entry[r] = NoEntry,
           NEW c \in Creds, NEW u \in Users, Holding(c) = {},
           entry' = [entry EXCEPT ![r] = [state |-> "live", cred |-> c, owner |-> u]]
    PROVE  /\ EntriesTyped' /\ EntriesKept /\ OneEntry'
           /\ entry'[r].state = "live" /\ entry'[r].cred = c
<1> DEFINE x == [state |-> "live", cred |-> c, owner |-> u]
<1>1. x \in EntryRows /\ x.state = "live" /\ x.cred = c /\ x.owner = u
  BY DEF EntryRows
<1>2. entry' = [entry EXCEPT ![r] = x]
  OBVIOUS
<1> HIDE DEF x
<1>3. /\ entry' \in [Refs -> EntryRows] /\ entry'[r] = x
      /\ \A s \in Refs \ {r} : entry'[s] = entry[s]
  BY <1>1, <1>2 DEF OwnerInv, DedupInv, EntriesTyped
<1>4. EntriesKept
  BY <1>3 DEF EntriesKept, NoEntry
<1>5. OneEntry'
  BY <1>1, <1>3 DEF OwnerInv, OneEntry, Holding
<1>6. EntriesTyped'
  BY <1>1, <1>3 DEF OwnerInv, DedupInv, EntriesTyped
<1> QED
  BY <1>1, <1>3, <1>4, <1>5, <1>6

LEMMA RegisterStep ==
    ASSUME LedgerConstants, OwnerInv, NEW m \in Minters, Register(m)
    PROVE  OwnerInv'
<1>1. /\ mint[m].pc = "register" /\ mint[m].pc \in Writing /\ mint[m] \in MintRows
      /\ rel[m].pc = "none" /\ mint[m].user \in Users /\ Cred(m) \in Creds
      /\ UNCHANGED <<badge, lock, del, rel, inflight, mergeVars>>
  BY WritingFacts DEF Register, Writing
<1>2. ASSUME Holding(Cred(m)) = {}, NEW r \in Refs, entry[r] = NoEntry,
             entry' = [entry EXCEPT ![r] = [state |-> "live", cred |-> Cred(m),
                                            owner |-> mint[m].user]],
             mint' = [mint EXCEPT ![m] = [mint[m] EXCEPT !.pc = "window", !.ref = r,
                                                         !.fresh = mint[m].fresh \cup {r}]]
      PROVE  OwnerInv'
  <2> DEFINE q == [mint[m] EXCEPT !.pc = "window", !.ref = r,
                                    !.fresh = mint[m].fresh \cup {r}]
  <2>1. /\ q \in MintRows /\ q.pc = "window" /\ q.ref = r /\ q.todo = mint[m].todo
        /\ q.user = mint[m].user /\ q.badge = mint[m].badge /\ q.heal = mint[m].heal
        /\ q.created = mint[m].created
    BY <1>1 DEF MintRows
  <2>2. KeepsPending(m, q)
    BY <1>1, <2>1 DEF KeepsPending
  <2>3. mint' = [mint EXCEPT ![m] = q]
    BY <1>2
  <2> HIDE DEF q
  <2>4. mint'[m] = q
    BY <2>1, <2>3, MintUpdate DEF OwnerInv, DedupInv
  <2>5. /\ EntriesTyped' /\ EntriesKept /\ OneEntry'
        /\ entry'[r].state = "live" /\ entry'[r].cred = Cred(m)
    BY <1>1, <1>2, NewEntry
  <2>6. MintOK(m)'
    BY <1>1, <2>1, <2>4, <2>5, WindowReady
  <2> QED
    BY <1>1, <2>1, <2>2, <2>3, <2>5, <2>6, LocksSame, MintFrame
<1>3. ASSUME NEW r \in Holding(Cred(m)), Registered(m, r), UNCHANGED entry PROVE OwnerInv'
  BY <1>1, <1>3, RegisteredStep
<1>4. ASSUME mint' = [mint EXCEPT ![m].pc = "lookup"], UNCHANGED entry PROVE OwnerInv'
  <2> DEFINE q == [mint[m] EXCEPT !.pc = "lookup"]
  <2>1. /\ q \in MintRows /\ q.pc = "lookup" /\ q.todo = mint[m].todo
        /\ q.user = mint[m].user /\ q.badge = mint[m].badge /\ q.heal = mint[m].heal
        /\ q.created = mint[m].created
    BY <1>1 DEF MintRows
  <2>2. KeepsPending(m, q)
    BY <1>1, <2>1 DEF KeepsPending
  <2>3. mint' = [mint EXCEPT ![m] = q]
    BY <1>4
  <2> HIDE DEF q
  <2>4. mint'[m] = q
    BY <2>1, <2>3, MintUpdate DEF OwnerInv, DedupInv
  <2>5. MintOK(m)'
    BY <1>1, <2>1, <2>4 DEF OwnerInv, DedupInv, MintOK, Writing
  <2> QED
    BY <1>1, <1>4, <2>1, <2>2, <2>3, <2>5, EntriesSame, LocksSame, MintFrame
<1> QED
  BY <1>2, <1>3, <1>4 DEF Register

(* Outside the self-heal a batch that fails to register leaves nothing of  *)
(* its own behind that is not anchored.                                    *)
LEMMA ThrowsStep ==
    ASSUME LedgerConstants, OwnerInv, NEW m \in Minters, mint[m].pc \in {"register", "lookup"},
           RegisterThrows(m), EntriesTyped', EntriesKept, OneEntry',
           UNCHANGED <<badge, lock, del, rel, inflight, mergeVars>>
    PROVE  OwnerInv'
<1>1. mint[m].pc \in Writing /\ mint[m] \in MintRows /\ rel[m].pc = "none"
  BY WritingFacts DEF Writing
<1>2. CASE mint[m].heal = 0
  <2>1. mint' = [mint EXCEPT ![m] = IdleMint]
    BY <1>2 DEF RegisterThrows
  <2>2. mint[m].badge = None
    BY <1>2 DEF OwnerInv, DedupInv, MintOK, Writing
  <2>3. KeepsPending(m, IdleMint)
    BY <1>1, <2>2, IdleMintShape DEF KeepsPending, MintRows, LedgerConstants
  <2>4. mint'[m] = IdleMint
    BY <2>1, IdleMintShape, MintUpdate DEF OwnerInv, DedupInv
  <2> QED
    BY <1>1, <2>1, <2>3, <2>4, IdleMintShape, IdleOK, LocksSame, MintFrame
<1>3. CASE mint[m].heal # 0
  <2> DEFINE q == [mint[m] EXCEPT !.pc = "abort"]
  <2>1. q \in MintRows /\ KeepsPending(m, q) /\ q.pc = "abort" /\ q.user \in Users
    BY <1>1, AbortShape
  <2>2. mint' = [mint EXCEPT ![m] = q]
    BY <1>3 DEF RegisterThrows
  <2> HIDE DEF q
  <2>3. mint'[m] = q
    BY <2>1, <2>2, MintUpdate DEF OwnerInv, DedupInv
  <2> QED
    BY <1>1, <2>1, <2>2, <2>3, AbortOK, LocksSame, MintFrame
<1> QED
  BY <1>2, <1>3

LEMMA RegisterLookupStep ==
    ASSUME LedgerConstants, OwnerInv, NEW m \in Minters, RegisterLookup(m)
    PROVE  OwnerInv'
<1>1. CASE \E r \in Holding(Cred(m)) : Registered(m, r)
  BY <1>1, RegisteredStep DEF RegisterLookup
<1>2. CASE RegisterThrows(m)
  BY <1>2, ThrowsStep, EntriesSame DEF RegisterLookup
<1> QED
  BY <1>1, <1>2 DEF RegisterLookup

LEMMA RegisterFailsStep ==
    ASSUME LedgerConstants, OwnerInv, NEW m \in Minters, RegisterFails(m)
    PROVE  OwnerInv'
<1>1. /\ mint[m].pc = "register" /\ RegisterThrows(m)
      /\ UNCHANGED <<badge, lock, del, rel, inflight, mergeVars>>
  BY DEF RegisterFails
<1>2. Cred(m) \in Creds /\ mint[m].user \in Users
  BY <1>1, WritingFacts DEF Writing
<1>3. CASE UNCHANGED entry
  BY <1>1, <1>3, ThrowsStep, EntriesSame
<1>4. CASE /\ Holding(Cred(m)) = {}
           /\ \E r \in Refs : /\ entry[r] = NoEntry
                              /\ entry' = [entry EXCEPT ![r] =
                                   [state |-> "live", cred |-> Cred(m),
                                    owner |-> mint[m].user]]
  <2>1. EntriesTyped' /\ EntriesKept /\ OneEntry'
    BY <1>2, <1>4, NewEntry
  <2> QED
    BY <1>1, <2>1, ThrowsStep
<1> QED
  BY <1>3, <1>4 DEF RegisterFails

LEMMA WindowOpenStep ==
    ASSUME LedgerConstants, OwnerInv, NEW m \in Minters, WindowOpen(m)
    PROVE  OwnerInv'
<1> DEFINE q == [mint[m] EXCEPT !.pc = "write"]
<1>1. /\ mint[m].pc = "window" /\ mint[m].pc \in Writing /\ mint[m] \in MintRows
      /\ rel[m].pc = "none" /\ mint[m].ref \in Refs
      /\ UNCHANGED <<entry, badge, del, rel, inflight, mergeVars>>
  BY WritingFacts DEF WindowOpen, Writing, OwnerInv, DedupInv, MintOK
<1>2. /\ q \in MintRows /\ q.pc = "write" /\ q.todo = mint[m].todo /\ q.ref = mint[m].ref
      /\ q.user = mint[m].user /\ q.badge = mint[m].badge /\ q.heal = mint[m].heal
      /\ q.created = mint[m].created
  BY <1>1 DEF MintRows
<1>3. KeepsPending(m, q)
  BY <1>1, <1>2 DEF KeepsPending
<1>4. mint' = [mint EXCEPT ![m] = q]
  BY DEF WindowOpen
<1> HIDE DEF q
<1>5. mint'[m] = q
  BY <1>2, <1>4, MintUpdate DEF OwnerInv, DedupInv
<1>6. MintOK(m)'
  BY <1>1, <1>2, <1>5 DEF OwnerInv, DedupInv, MintOK, Writing
<1>7. LockKept /\ lock' \in [Refs -> Callers \cup {None}]
  <2>1. CASE UNCHANGED lock
    BY <2>1, LocksSame
  <2>2. CASE lock[mint[m].ref] = None /\ lock' = [lock EXCEPT ![mint[m].ref] = m]
    <3>1. m \in Callers /\ None \notin Callers
      BY DEF Callers, LedgerConstants
    <3>2. lock \in [Refs -> Callers \cup {None}]
      BY DEF OwnerInv, DedupInv, CallsTyped
    <3>3. \A p \in Callers \ {m}, r \in Refs : lock'[r] = p <=> lock[r] = p
      BY <1>1, <2>2, <3>1, <3>2
    <3> QED
      BY <1>1, <2>2, <3>1, <3>2, <3>3 DEF LockKept
  <2> QED
    BY <2>1, <2>2 DEF WindowOpen
<1> QED
  BY <1>1, <1>2, <1>3, <1>4, <1>6, <1>7, EntriesSame, MintFrame

LEMMA AbortStep ==
    ASSUME LedgerConstants, OwnerInv, NEW m \in Minters, mint[m].pc \in Writing,
           mint' = [mint EXCEPT ![m] = [mint[m] EXCEPT !.pc = "abort"]], Unlock(m),
           UNCHANGED <<entry, badge, del, rel, inflight, mergeVars>>
    PROVE  OwnerInv'
<1> DEFINE q == [mint[m] EXCEPT !.pc = "abort"]
<1>1. q \in MintRows /\ KeepsPending(m, q) /\ q.pc = "abort" /\ q.user \in Users
  BY AbortShape
<1>2. mint' = [mint EXCEPT ![m] = q]
  OBVIOUS
<1> HIDE DEF q
<1>3. mint'[m] = q
  BY <1>1, <1>2, MintUpdate DEF OwnerInv, DedupInv
<1>4. rel[m].pc = "none" /\ m \in Callers
  BY WritingFacts DEF Callers
<1> QED
  BY <1>1, <1>2, <1>3, <1>4, AbortOK, EntriesSame, UnlockKept, MintFrame

LEMMA WindowFailsStep ==
    ASSUME LedgerConstants, OwnerInv, NEW m \in Minters, WindowFails(m)
    PROVE  OwnerInv'
<1>1. mint[m].pc \in Writing
  BY DEF WindowFails, Writing
<1>2. mint' = [mint EXCEPT ![m] = [mint[m] EXCEPT !.pc = "abort"]]
  BY DEF WindowFails
<1> QED
  BY <1>1, <1>2, AbortStep DEF WindowFails

(* A batch dies: the badges it had probed are anchored, the other one is   *)
(* adrift.                                                                 *)
LEMMA MintDiesStep ==
    ASSUME LedgerConstants, OwnerInv, NEW m \in Minters, MintDies(m)
    PROVE  OwnerInv'
<1>1. /\ mint[m].pc \notin {"idle", "undo"} /\ mint' = [mint EXCEPT ![m] = IdleMint]
      /\ adrift' = adrift \cup ({mint[m].badge} \ {None}) /\ Unlock(m)
      /\ UNCHANGED <<entry, badge, del, rel, inflight, mergedInto, record, retag, backend>>
  BY DEF MintDies
<1>2. mint[m] \in MintRows
  BY MintFields DEF OwnerInv, DedupInv
<1>3. mint[m].badge \in Badges \cup {None} /\ mint[m].created \subseteq Badges
  BY <1>2 DEF MintRows
<1>4. None \notin Badges /\ m \in Callers
  BY DEF LedgerConstants, Callers
<1>5. KeepsPending(m, IdleMint)
  BY <1>1, <1>3, <1>4, IdleMintShape DEF KeepsPending
<1>6. adrift \subseteq adrift' /\ adrift' \subseteq Badges
  BY <1>1, <1>3 DEF OwnerInv, DedupInv, MergeTyped
<1>7. rel[m].pc = "none"
  BY <1>1 DEF OwnerInv, DedupInv, RelOK
<1>8. mint'[m] = IdleMint
  BY <1>1, IdleMintShape, MintUpdate DEF OwnerInv, DedupInv
<1>9. LockKept /\ lock' \in [Refs -> Callers \cup {None}]
  BY <1>1, <1>4, <1>7, UnlockKept
<1> QED
  BY <1>1, <1>5, <1>6, <1>7, <1>8, <1>9, IdleMintShape, IdleOK, EntriesSame, MintFrameWide

(* The window's write: the badge it inserts or re-points is the batch's    *)
(* own, and is pending until the probe.                                    *)
LEMMA WriteFrame ==
    ASSUME LedgerConstants, OwnerInv, NEW m \in Minters, NEW q \in MintRows,
           mint' = [mint EXCEPT ![m] = q], NEW b \in Badges, NEW x \in BadgeRows,
           badge' = [badge EXCEPT ![b] = x],
           x.state = "live", x.user \in Users, x.ref \in Refs, entry[x.ref].state # "free",
           badge[b].state # "free" => x.cred = badge[b].cred,
           ~Escaped(b) => x.user = mint[m].user,
           \A n \in Minters : b \in mint[n].created => n = m,
           \A p \in MergePairs : b \in record[p].badges => b \in record[p].open,
           q.created = mint[m].created \cup {b}, q.badge = b, q.user = mint[m].user,
           \A c \in mint[m].created : mint[m].badge = c => c = b,
           MintOK(m)', rel[m].pc = "none",
           UNCHANGED <<entry, lock, del, rel, inflight, mergeVars>>
    PROVE  OwnerInv'
<1>1. CallsTyped /\ DedupInv
  BY DEF OwnerInv, DedupInv
<1>2. /\ mint' \in [Minters -> MintRows] /\ mint'[m] = q
      /\ \A n \in Minters \ {m} : mint'[n] = mint[n]
  BY <1>1, MintUpdate
<1>3. UNCHANGED <<mergedInto, record, retag, backend, adrift>>
  BY DEF mergeVars
<1>4. /\ badge' \in [Badges -> BadgeRows] /\ badge'[b] = x
      /\ \A c \in Badges \ {b} : badge'[c] = badge[c]
  BY <1>1 DEF DedupInv, BadgesTyped
<1>5. BadgesTyped'
  BY <1>1, <1>4 DEF DedupInv, BadgesTyped
<1>6. EntriesTyped' /\ OneEntry' /\ EntriesGo
  BY EntriesSame DEF EntriesKept, EntriesGo
<1>7. BadgesGo
  BY <1>4 DEF BadgesGo
<1>8. CallsTyped' /\ MergeTyped'
  BY <1>1, <1>2, <1>3 DEF DedupInv, CallsTyped, MergeTyped
<1>9. \A n \in Minters : MintOK(n)'
  <2>1. ASSUME NEW n \in Minters \ {m} PROVE MintOK(n)'
    <3>1. mint[n].pc = "probe" => mint[n].badge \in Badges \ {b}
      BY <1>1 DEF DedupInv, MintOK, LedgerConstants, Writing
    <3>2. mint'[n] = mint[n] /\ MintOK(n) /\ CreatedOK
      BY <1>1, <1>2 DEF DedupInv
    <3>3. mint[n].pc = "probe" => badge'[mint[n].badge] = badge[mint[n].badge]
      BY <1>4, <3>1
    <3> QED
      BY <1>1, <1>6, <1>7, <3>2, <3>3, MintKept
  <2> QED
    BY <2>1
<1>10. CreatedOK'
  <2>1. \A c \in Badges : Escaped(c)' <=> Escaped(c)
    BY <1>3 DEF Escaped
  <2>2. \A n \in Minters, c \in Badges \ {b} :
          c \in mint'[n].created <=> c \in mint[n].created
    BY <1>2
  <2>3. \A n \in Minters : b \in mint'[n].created => n = m
    BY <1>2
  <2>4. \A n \in Minters : mint'[n].user = mint[n].user
    BY <1>2
  <2>5. ASSUME NEW n \in Minters, NEW c \in Badges, c \in mint'[n].created
        PROVE  /\ badge'[c].state # "free"
               /\ badge'[c].state = "live" /\ ~Escaped(c)' => badge'[c].user = mint'[n].user
    <3>1. CASE c = b
      BY <1>4, <2>1, <2>3, <2>4, <2>5, <3>1
    <3>2. CASE c # b
      BY <1>1, <1>4, <2>1, <2>2, <2>4, <2>5, <3>2 DEF DedupInv, CreatedOK
    <3> QED
      BY <3>1, <3>2
  <2>6. \A l, n \in Minters, c \in Badges :
           c \in mint'[l].created /\ c \in mint'[n].created => l = n
    BY <1>1, <2>2, <2>3 DEF DedupInv, CreatedOK
  <2>7. ASSUME NEW p \in MergePairs, NEW c \in Badges, c \in record'[p].badges
        PROVE  /\ badge'[c].state # "free"
               /\ \A n \in Minters : c \in mint'[n].created => c \in record'[p].open
    <3>1. CASE c = b
      BY <1>3, <1>4, <2>7, <3>1
    <3>2. CASE c # b
      BY <1>1, <1>3, <1>4, <2>2, <2>7, <3>2 DEF DedupInv, CreatedOK
    <3> QED
      BY <3>1, <3>2
  <2> QED
    BY <2>5, <2>6, <2>7 DEF CreatedOK
<1>11. RelOK'
  <2>1. \A n \in Minters : rel[n].pc # "none" => mint'[n].pc = "undo"
    BY <1>1, <1>2 DEF DedupInv, RelOK
  <2> QED
    BY <1>1, <1>3, <2>1 DEF DedupInv, RelOK
<1>12. \A c \in Badges : Due(c)' => Due(c) /\ c # b /\ badge'[c] = badge[c]
  <2>1. Pending(b)'
    BY <1>2 DEF Pending
  <2>2. ASSUME NEW c \in Badges \ {b}, Pending(c) PROVE Pending(c)'
    <3>1. PICK n \in Minters : c \in mint[n].created /\ mint[n].badge = c
      BY <2>2 DEF Pending
    <3>2. n # m
      BY <3>1
    <3> QED
      BY <1>2, <3>1, <3>2 DEF Pending
  <2>3. \A c \in Badges : Escaped(c)' <=> Escaped(c)
    BY <1>3 DEF Escaped
  <2> QED
    BY <1>4, <2>1, <2>2, <2>3 DEF Due
<1>13. ReleaseSafe' /\ Anchors'
  BY <1>1, <1>12 DEF DedupInv, ReleaseSafe, Anchors
<1>14. MergeFlat' /\ OwnersAgree'
  <2>1. NoReversal' <=> NoReversal
    BY <1>3 DEF NoReversal
  <2>2. \A u : Root(u)' = Root(u)
    BY <1>3 DEF Root
  <2> QED
    BY <1>3, <1>12, <2>1, <2>2 DEF OwnerInv, MergeFlat, OwnersAgree
<1> QED
  BY <1>5, <1>6, <1>8, <1>9, <1>10, <1>11, <1>13, <1>14 DEF OwnerInv, DedupInv

LEMMA WindowWriteStep ==
    ASSUME LedgerConstants, OwnerInv, NEW m \in Minters, WindowWrite(m)
    PROVE  OwnerInv'
<1>1. /\ mint[m].pc = "write" /\ mint[m].pc \in Writing /\ mint[m] \in MintRows
      /\ rel[m].pc = "none" /\ mint[m].user \in Users /\ Cred(m) \in Creds
      /\ UNCHANGED <<entry, del, rel, inflight, mergeVars>>
  BY WritingFacts DEF WindowWrite, Writing
<1>2. /\ mint[m].ref \in Refs /\ entry[mint[m].ref].state # "free" /\ mint[m].todo # <<>>
      /\ entry[mint[m].ref].cred = Cred(m)
  BY <1>1 DEF OwnerInv, DedupInv, MintOK, Cred, Writing
<1>3. ASSUME mint[m].heal = 0, UNCHANGED lock, NEW b \in Badges, badge[b] = NoBadge,
             badge' = [badge EXCEPT ![b] = [state |-> "live", user |-> mint[m].user,
                                            cred |-> Cred(m), ref |-> mint[m].ref]],
             mint' = [mint EXCEPT ![m] = [mint[m] EXCEPT !.pc = "probe", !.badge = b,
                                             !.created = mint[m].created \cup {b}]]
      PROVE  OwnerInv'
  <2> DEFINE q == [mint[m] EXCEPT !.pc = "probe", !.badge = b,
                                  !.created = mint[m].created \cup {b}]
             x == [state |-> "live", user |-> mint[m].user, cred |-> Cred(m),
                   ref |-> mint[m].ref]
  <2>1. /\ q \in MintRows /\ q.pc = "probe" /\ q.ref = mint[m].ref /\ q.todo = mint[m].todo
        /\ q.user = mint[m].user /\ q.badge = b /\ q.heal = mint[m].heal
        /\ q.created = mint[m].created \cup {b}
    BY <1>1 DEF MintRows
  <2>2. /\ x \in BadgeRows /\ x.state = "live" /\ x.user = mint[m].user
        /\ x.cred = Cred(m) /\ x.ref = mint[m].ref
    BY <1>1, <1>2 DEF BadgeRows
  <2>3. mint' = [mint EXCEPT ![m] = q] /\ badge' = [badge EXCEPT ![b] = x]
    BY <1>3
  <2> HIDE DEF q, x
  <2>4. mint'[m] = q /\ badge'[b] = x
    BY <2>1, <2>2, <2>3, MintUpdate DEF OwnerInv, DedupInv, BadgesTyped
  <2>5. MintOK(m)'
    BY <1>1, <1>2, <1>3, <2>1, <2>2, <2>4 DEF MintOK, Writing, Cred
  <2>6. badge[b].state = "free"
    BY <1>3 DEF NoBadge
  <2>7. /\ \A n \in Minters : b \notin mint[n].created
        /\ \A p \in MergePairs : b \notin record[p].badges
    BY <2>6 DEF OwnerInv, DedupInv, CreatedOK
  <2>8. mint[m].badge = None
    BY <1>1, <1>3 DEF OwnerInv, DedupInv, MintOK, Writing
  <2>9. \A c \in mint[m].created : c # None
    BY <1>1 DEF MintRows, LedgerConstants
  <2>10. /\ x.state = "live" /\ x.user \in Users /\ x.ref \in Refs
         /\ entry[x.ref].state # "free" /\ (badge[b].state # "free" => x.cred = badge[b].cred)
         /\ (~Escaped(b) => x.user = mint[m].user)
         /\ q.created = mint[m].created \cup {b}
    BY <1>1, <1>2, <2>1, <2>2, <2>6
  <2>11. /\ \A n \in Minters : b \in mint[n].created => n = m
         /\ \A p \in MergePairs : b \in record[p].badges => b \in record[p].open
         /\ \A c \in mint[m].created : mint[m].badge = c => c = b
    BY <1>1, <2>7, <2>8, <2>9
  <2>12. UNCHANGED <<entry, lock, del, rel, inflight, mergeVars>> /\ rel[m].pc = "none"
    BY <1>1, <1>3
  <2> QED
    BY <2>1, <2>2, <2>3, <2>5, <2>10, <2>11, <2>12, WriteFrame
<1>4. ASSUME mint[m].heal > 0, badge[mint[m].badge].state = "live", UNCHANGED lock,
             badge' = [badge EXCEPT ![mint[m].badge].ref = mint[m].ref],
             mint' = [mint EXCEPT ![m].pc = "probe"]
      PROVE  OwnerInv'
  <2> DEFINE b == mint[m].badge
             q == [mint[m] EXCEPT !.pc = "probe"]
             x == [badge[b] EXCEPT !.ref = mint[m].ref]
  <2>1. b \in Badges /\ b \in mint[m].created /\ badge[b].cred = Cred(m)
    BY <1>1, <1>4 DEF OwnerInv, DedupInv, MintOK, Writing, LedgerConstants, Cred
  <2>2. /\ q \in MintRows /\ q.pc = "probe" /\ q.ref = mint[m].ref /\ q.todo = mint[m].todo
        /\ q.user = mint[m].user /\ q.badge = b /\ q.heal = mint[m].heal
        /\ q.created = mint[m].created
    BY <1>1 DEF MintRows
  <2>3. badge[b] \in BadgeRows /\ badge[b].state = "live"
    BY <1>4, <2>1 DEF OwnerInv, DedupInv, BadgesTyped
  <2>4. /\ x \in BadgeRows /\ x.state = "live" /\ x.user = badge[b].user
        /\ x.cred = badge[b].cred /\ x.ref = mint[m].ref
    BY <1>2, <2>3 DEF BadgeRows
  <2>5. mint' = [mint EXCEPT ![m] = q] /\ badge' = [badge EXCEPT ![b] = x]
    BY <1>4
  <2> HIDE DEF b, q, x
  <2>6. mint'[m] = q /\ badge'[b] = x
    BY <2>1, <2>2, <2>4, <2>5, MintUpdate DEF OwnerInv, DedupInv, BadgesTyped
  <2>7. MintOK(m)'
    BY <1>1, <1>2, <1>4, <2>1, <2>2, <2>4, <2>6 DEF MintOK, Writing, Cred
  <2>8. badge[b].user \in Users /\ (~Escaped(b) => badge[b].user = mint[m].user)
    BY <2>1, <2>3 DEF OwnerInv, DedupInv, CreatedOK, BadgesTyped
  <2>9. /\ \A n \in Minters : b \in mint[n].created => n = m
        /\ \A p \in MergePairs : b \in record[p].badges => b \in record[p].open
    BY <2>1 DEF OwnerInv, DedupInv, CreatedOK
  <2>10. mint[m].created = mint[m].created \cup {b} /\ mint[m].badge = b
    BY <2>1, <2>2 DEF b
  <2>11. /\ x.state = "live" /\ x.user \in Users /\ x.ref \in Refs
         /\ entry[x.ref].state # "free" /\ (badge[b].state # "free" => x.cred = badge[b].cred)
         /\ (~Escaped(b) => x.user = mint[m].user)
         /\ q.created = mint[m].created \cup {b}
    BY <1>1, <1>2, <2>2, <2>4, <2>8, <2>10
  <2>12. /\ \A n \in Minters : b \in mint[n].created => n = m
         /\ \A p \in MergePairs : b \in record[p].badges => b \in record[p].open
         /\ \A c \in mint[m].created : mint[m].badge = c => c = b
    BY <1>1, <2>9, <2>10
  <2>13. UNCHANGED <<entry, lock, del, rel, inflight, mergeVars>> /\ rel[m].pc = "none"
    BY <1>1, <1>4
  <2> QED
    BY <2>1, <2>2, <2>4, <2>5, <2>7, <2>11, <2>12, <2>13, WriteFrame
<1>5. ASSUME mint' = [mint EXCEPT ![m].pc = "abort"], Unlock(m), UNCHANGED badge
      PROVE  OwnerInv'
  <2>1. mint' = [mint EXCEPT ![m] = [mint[m] EXCEPT !.pc = "abort"]]
    BY <1>5
  <2> QED
    BY <1>1, <1>5, <2>1, AbortStep
<1> QED
  BY <1>3, <1>4, <1>5 DEF WindowWrite

(* What a step of one issuance that touches neither badges nor entries     *)
(* leaves standing; which badges become due is for the step to say.        *)
LEMMA QuietFrame ==
    ASSUME OwnerInv, NEW m \in Minters, NEW q \in MintRows, mint' = [mint EXCEPT ![m] = q],
           q.created \subseteq mint[m].created, q.created # {} => q.user = mint[m].user,
           MintOK(m)', LockKept, lock' \in [Refs -> Callers \cup {None}],
           rel[m].pc # "none" => q.pc = "undo",
           ReleaseSafe', Anchors', OwnersAgree',
           UNCHANGED <<entry, badge, del, rel, inflight, mergeVars>>
    PROVE  OwnerInv'
<1>1. CallsTyped /\ DedupInv
  BY DEF OwnerInv, DedupInv
<1>2. /\ mint' \in [Minters -> MintRows] /\ mint'[m] = q
      /\ \A n \in Minters \ {m} : mint'[n] = mint[n]
  BY <1>1, MintUpdate
<1>3. UNCHANGED <<mergedInto, record, retag, backend, adrift>>
  BY DEF mergeVars
<1>4. BadgesTyped' /\ EntriesTyped' /\ OneEntry' /\ MergeFlat'
  BY <1>3 DEF OwnerInv, DedupInv, BadgesTyped, EntriesTyped, OneEntry, MergeFlat
<1>5. CallsTyped' /\ MergeTyped'
  BY <1>2, <1>3 DEF OwnerInv, DedupInv, CallsTyped, MergeTyped
<1>6. EntriesGo /\ BadgesGo
  BY DEF EntriesGo, BadgesGo
<1>7. \A n \in Minters : MintOK(n)'
  BY <1>1, <1>2, <1>6, MintKept DEF DedupInv
<1>8. CreatedOK'
  <2>1. \A b \in Badges : Escaped(b)' <=> Escaped(b)
    BY <1>3 DEF Escaped
  <2>2. \A n \in Minters : mint'[n].created \subseteq mint[n].created
    BY <1>2
  <2>3. \A n \in Minters : mint'[n].created # {} => mint'[n].user = mint[n].user
    BY <1>2
  <2>4. \A n \in Minters, b \in Badges : b \in mint'[n].created =>
           /\ badge'[b].state # "free"
           /\ badge'[b].state = "live" /\ ~Escaped(b)' => badge'[b].user = mint'[n].user
    BY <1>1, <2>1, <2>2, <2>3 DEF DedupInv, CreatedOK
  <2>5. \A l, n \in Minters, b \in Badges :
           b \in mint'[l].created /\ b \in mint'[n].created => l = n
    BY <1>1, <2>2 DEF DedupInv, CreatedOK
  <2>6. \A p \in MergePairs, b \in Badges : b \in record'[p].badges =>
           /\ badge'[b].state # "free"
           /\ \A n \in Minters : b \in mint'[n].created => b \in record'[p].open
    BY <1>1, <1>3, <2>2 DEF DedupInv, CreatedOK
  <2> QED
    BY <2>4, <2>5, <2>6 DEF CreatedOK
<1>9. RelOK'
  <2>1. \A p \in Callers : rel[p].pc = "sent" => lock'[rel[p].ref] = p
    BY <1>1 DEF DedupInv, RelOK, LockKept
  <2>2. \A n \in Minters : rel[n].pc # "none" => mint'[n].pc = "undo"
    BY <1>1, <1>2 DEF DedupInv, RelOK
  <2> QED
    BY <1>1, <1>3, <2>1, <2>2 DEF DedupInv, RelOK
<1> QED
  BY <1>4, <1>5, <1>7, <1>8, <1>9 DEF OwnerInv, DedupInv

LEMMA TailLeft ==
    ASSUME NEW S, NEW s \in Seq(S), s # <<>>, Len(s) # 1
    PROVE  Tail(s) \in Seq(S) /\ Tail(s) # <<>>
<1>1. Len(s) \in Nat /\ Len(s) # 0
  OBVIOUS
<1>2. Tail(s) \in Seq(S) /\ Len(Tail(s)) = Len(s) - 1
  BY <1>1
<1>3. Len(Tail(s)) # 0
  BY <1>1, <1>2
<1> QED
  BY <1>2, <1>3

(* The probe answers under the lock: the entry is there, it is the         *)
(* holder's, and no release that found no badge keeps its lock.            *)
LEMMA AnchoredStep ==
    ASSUME LedgerConstants, OwnerInv, NEW m \in Minters, mint[m].pc = "probe",
           LockLive(m), ProbePresent(m), mint' = [mint EXCEPT ![m] = Anchored(mint[m])],
           Unlock(m), UNCHANGED <<entry, badge, del, rel, inflight, mergeVars>>
    PROVE  OwnerInv'
<1>1. /\ mint[m].pc \in Writing /\ mint[m] \in MintRows /\ rel[m].pc = "none"
      /\ mint[m].user \in Users /\ mint[m].todo \in Seq(Creds) /\ mint[m].todo # <<>>
      /\ DedupInv /\ CallsTyped
  BY WritingFacts DEF Writing, OwnerInv, DedupInv
<1>2. PICK b \in Badges :
      /\ b = mint[m].badge /\ b \in mint[m].created /\ badge[b].cred = Cred(m)
      /\ badge[b].ref = mint[m].ref /\ mint[m].ref \in Refs
      /\ entry[mint[m].ref].cred = Cred(m)
  BY <1>1 DEF DedupInv, MintOK, Writing, LedgerConstants, Cred
<1>3. PICK q \in MintRows :
      /\ q = Anchored(mint[m]) /\ q.badge = None /\ q.heal = 0
      /\ q.created \subseteq mint[m].created
      /\ \/ q = IdleMint
         \/ /\ q.pc = "register" /\ q.todo # <<>> /\ q.user = mint[m].user
            /\ q.created = mint[m].created
  <2> DEFINE q == Anchored(mint[m])
  <2>1. ASSUME Len(mint[m].todo) = 1
        PROVE  /\ q \in MintRows /\ q.badge = None /\ q.heal = 0
               /\ q.created \subseteq mint[m].created /\ q = IdleMint
    <3>1. q = IdleMint
      BY <2>1 DEF Anchored
    <3> HIDE DEF q
    <3> QED
      BY <3>1, IdleMintShape
  <2>2. ASSUME Len(mint[m].todo) # 1
        PROVE  /\ q \in MintRows /\ q.badge = None /\ q.heal = 0
               /\ q.pc = "register" /\ q.todo # <<>> /\ q.user = mint[m].user
               /\ q.created = mint[m].created
    <3>1. Tail(mint[m].todo) \in Seq(Creds) /\ Tail(mint[m].todo) # <<>>
      BY <1>1, <2>2, TailLeft
    <3>2. q = [mint[m] EXCEPT !.pc = "register", !.todo = Tail(mint[m].todo), !.ref = None,
                              !.badge = None, !.heal = 0]
      BY <2>2 DEF Anchored
    <3> DEFINE t == Tail(mint[m].todo)
               z == 0
    <3>3. z \in 0..HealAttempts
      BY DEF LedgerConstants
    <3>4. q = [mint[m] EXCEPT !.pc = "register", !.todo = t, !.ref = None,
                              !.badge = None, !.heal = z]
      BY <3>2
    <3>5. t \in Seq(Creds)
      BY <3>1
    <3> HIDE DEF t, z, q
    <3>6. /\ q \in MintRows /\ q.pc = "register" /\ q.user = mint[m].user
          /\ q.created = mint[m].created /\ q.badge = None /\ q.todo = t /\ q.heal = z
      BY <1>1, <3>3, <3>4, <3>5 DEF MintRows
    <3> QED
      BY <3>1, <3>6 DEF t, z
  <2> HIDE DEF q
  <2>3. q \in MintRows /\ q.badge = None /\ q.heal = 0 /\ q.created \subseteq mint[m].created
    BY <2>1, <2>2
  <2>4. \/ q = IdleMint
        \/ /\ q.pc = "register" /\ q.todo # <<>> /\ q.user = mint[m].user
           /\ q.created = mint[m].created
    BY <2>1, <2>2
  <2>5. q = Anchored(mint[m])
    BY DEF q
  <2> QED
    BY <2>3, <2>4, <2>5
<1>4. mint' = [mint EXCEPT ![m] = q] /\ UNCHANGED <<mergedInto, record, retag, backend, adrift>>
  BY <1>3 DEF mergeVars
<1>5. mint'[m] = q /\ \A n \in Minters \ {m} : mint'[n] = mint[n]
  <2>1. CallsTyped /\ q \in MintRows
    BY <1>1, <1>3
  <2> QED
    BY <1>4, <2>1, MintUpdate
<1>6. MintOK(m)'
  BY <1>1, <1>3, <1>5, IdleOK DEF MintOK, Writing, LedgerConstants
<1>7. LockKept /\ lock' \in [Refs -> Callers \cup {None}]
  BY <1>1, UnlockKept DEF Callers
<1>8. \A c \in Badges : Due(c)' => Due(c) \/ c = b
  <2>1. ASSUME NEW c \in Badges \ {b}, Pending(c) PROVE Pending(c)'
    <3>1. PICK n \in Minters : c \in mint[n].created /\ mint[n].badge = c
      BY <2>1 DEF Pending
    <3>2. n # m
      BY <1>2, <2>1, <3>1
    <3> QED
      BY <1>5, <3>1, <3>2 DEF Pending
  <2>2. \A c \in Badges : Escaped(c)' <=> Escaped(c)
    BY <1>4 DEF Escaped
  <2> QED
    BY <2>1, <2>2 DEF Due
<1>9. Due(b)' => /\ entry[badge[b].ref].state = "live"
                 /\ badge[b].user = entry[badge[b].ref].owner
  <2>1. Escaped(b)' <=> Escaped(b)
    BY <1>4 DEF Escaped
  <2>2. Due(b)' => badge[b].user = mint[m].user
    BY <1>1, <1>2, <2>1 DEF DedupInv, CreatedOK, Due
  <2> QED
    BY <1>2, <2>2 DEF ProbePresent
<1>10. ReleaseSafe'
  <2> SUFFICES ASSUME NEW p \in Callers, NEW c \in Badges, rel[p].pc \in {"counted", "sent"},
                      lock'[rel[p].ref] = p, Due(c)'
               PROVE  badge[c].ref # rel[p].ref
    BY DEF ReleaseSafe
  <2>1. p # m /\ rel[p].ref \in Refs /\ backend = "signet"
    BY <1>1 DEF DedupInv, RelOK
  <2>2. lock[rel[p].ref] = p
    BY <1>7, <2>1 DEF LockKept
  <2>3. CASE Due(c)
    BY <1>1, <2>2, <2>3 DEF DedupInv, ReleaseSafe
  <2>4. CASE c = b
    BY <1>2, <2>1, <2>2, <2>4 DEF LockLive
  <2> QED
    BY <1>8, <2>3, <2>4
<1>11. Anchors'
  <2>1. ASSUME NEW c \in Badges, Due(c)', entry[badge[c].ref].state \notin Lost
        PROVE  entry[badge[c].ref].state = "live" /\ entry[badge[c].ref].cred = badge[c].cred
    <3>1. CASE c = b
      BY <1>2, <1>9, <2>1, <3>1
    <3>2. CASE Due(c)
      BY <1>1, <2>1, <3>2 DEF DedupInv, Anchors
    <3> QED
      BY <1>8, <2>1, <3>1, <3>2
  <2> QED
    BY <2>1 DEF Anchors
<1>12. OwnersAgree'
  <2>1. NoReversal' <=> NoReversal
    BY <1>4 DEF NoReversal
  <2>2. \A u : Root(u)' = Root(u)
    BY <1>4 DEF Root
  <2>3. ASSUME NoReversal, NEW c \in Badges, Due(c)', entry[badge[c].ref].state = "live"
        PROVE  Root(badge[c].user) = Root(entry[badge[c].ref].owner)
    <3>1. CASE c = b
      BY <1>9, <2>3, <3>1
    <3>2. CASE Due(c)
      BY <2>3, <3>2 DEF OwnerInv, OwnersAgree
    <3> QED
      BY <1>8, <2>3, <3>1, <3>2
  <2> QED
    BY <1>4, <2>1, <2>2, <2>3 DEF OwnerInv, OwnersAgree
<1>13. q.created # {} => q.user = mint[m].user
  BY <1>3, IdleMintShape
<1> QED
  BY <1>1, <1>3, <1>4, <1>6, <1>7, <1>10, <1>11, <1>12, <1>13, QuietFrame

LEMMA WindowProbeStep ==
    ASSUME LedgerConstants, OwnerInv, NEW m \in Minters, WindowProbe(m)
    PROVE  OwnerInv'
<1>1. /\ mint[m].pc = "probe" /\ mint[m].pc \in Writing /\ mint[m] \in MintRows
      /\ rel[m].pc = "none" /\ Unlock(m)
      /\ UNCHANGED <<entry, badge, del, rel, inflight, mergeVars>>
  BY WritingFacts DEF WindowProbe, Writing
<1>2. CASE LockLive(m) /\ ProbePresent(m)
  <2>1. mint' = [mint EXCEPT ![m] = Anchored(mint[m])]
    BY <1>2 DEF WindowProbe
  <2> QED
    BY <1>1, <1>2, <2>1, AnchoredStep
<1>3. CASE ~LockLive(m) \/ (~ProbePresent(m) /\ mint[m].heal = HealAttempts)
  <2>1. mint' = [mint EXCEPT ![m] = [mint[m] EXCEPT !.pc = "abort"]]
    BY <1>3 DEF WindowProbe
  <2> QED
    BY <1>1, <2>1, AbortStep
<1>4. CASE LockLive(m) /\ ~ProbePresent(m) /\ mint[m].heal # HealAttempts
  <2> DEFINE h == mint[m].heal + 1
             q == [mint[m] EXCEPT !.pc = "register", !.heal = h]
  <2>1. mint' = [mint EXCEPT ![m] = q]
    BY <1>4 DEF WindowProbe
  <2>2. h \in 0..HealAttempts /\ h > 0
    BY <1>1, <1>4 DEF MintRows, LedgerConstants
  <2> HIDE DEF h
  <2>3. /\ q \in MintRows /\ q.pc = "register" /\ q.todo = mint[m].todo /\ q.heal = h
        /\ q.user = mint[m].user /\ q.badge = mint[m].badge /\ q.created = mint[m].created
    BY <1>1, <2>2 DEF MintRows
  <2> HIDE DEF q
  <2>4. mint'[m] = q
    BY <2>1, <2>3, MintUpdate DEF OwnerInv, DedupInv
  <2>5. KeepsPending(m, q)
    BY <1>1, <2>3 DEF KeepsPending
  <2>6. MintOK(m)'
    BY <1>1, <2>2, <2>3, <2>4 DEF OwnerInv, DedupInv, MintOK, Writing
  <2>7. LockKept /\ lock' \in [Refs -> Callers \cup {None}]
    BY <1>1, UnlockKept DEF Callers
  <2> QED
    BY <1>1, <2>1, <2>3, <2>5, <2>6, <2>7, EntriesSame, MintFrame
<1> QED
  BY <1>2, <1>3, <1>4

-----------------------------------------------------------------------------
(* Steps after which no badge is newly due.                                *)

BadgesDie ==
    /\ badge' \in [Badges -> BadgeRows]
    /\ \A b \in Badges :
         \/ badge'[b] = badge[b]
         \/ /\ badge[b].state # "free" /\ badge'[b].state = "deleted"
            /\ badge'[b].user = badge[b].user /\ badge'[b].cred = badge[b].cred
            /\ badge'[b].ref = badge[b].ref

CreatedShrinks ==
    \A m \in Minters : /\ mint'[m].created \subseteq mint[m].created
                       /\ mint'[m].created # {} => mint'[m].user = mint[m].user

(* Nobody got hold of a lock for a release that had not counted before.    *)
HoldersKept ==
    \A p \in Callers : rel'[p].pc \in {"counted", "sent"} /\ lock'[rel'[p].ref] = p =>
        /\ rel[p].pc \in {"counted", "sent"} /\ rel'[p].ref = rel[p].ref
        /\ lock[rel[p].ref] = p

DueKept == \A b \in Badges : Due(b)' => Due(b) /\ badge'[b] = badge[b]

LEMMA CallFrame ==
    ASSUME OwnerInv, EntriesTyped', EntriesGo, OneEntry', BadgesDie, CallsTyped',
           \A m \in Minters : MintOK(m)', CreatedShrinks, RelOK', ReleaseSafe', Anchors',
           OwnersAgree', UNCHANGED mergeVars
    PROVE  OwnerInv'
<1>1. UNCHANGED <<mergedInto, record, retag, backend, adrift>>
  BY DEF mergeVars
<1>2. DedupInv
  BY DEF OwnerInv
<1>3. BadgesTyped'
  <2>1. \A b \in Badges : badge'[b].state # "free" =>
          badge[b].state # "free" /\ badge'[b].user = badge[b].user /\ badge'[b].ref = badge[b].ref
    BY DEF BadgesDie
  <2> QED
    BY <1>2, <2>1 DEF DedupInv, BadgesTyped, BadgesDie, EntriesGo
<1>4. CreatedOK'
  <2>1. \A b \in Badges : Escaped(b)' <=> Escaped(b)
    BY <1>1 DEF Escaped
  <2>2. \A b \in Badges : /\ badge[b].state # "free" => badge'[b].state # "free"
                          /\ badge'[b].state = "live" => badge'[b] = badge[b]
    BY DEF BadgesDie
  <2>3. \A n \in Minters, b \in Badges : b \in mint'[n].created =>
           /\ badge'[b].state # "free"
           /\ badge'[b].state = "live" /\ ~Escaped(b)' => badge'[b].user = mint'[n].user
    BY <1>2, <2>1, <2>2 DEF DedupInv, CreatedOK, CreatedShrinks
  <2>4. \A l, n \in Minters, b \in Badges :
           b \in mint'[l].created /\ b \in mint'[n].created => l = n
    BY <1>2 DEF DedupInv, CreatedOK, CreatedShrinks
  <2>5. \A p \in MergePairs, b \in Badges : b \in record'[p].badges =>
           /\ badge'[b].state # "free"
           /\ \A n \in Minters : b \in mint'[n].created => b \in record'[p].open
    BY <1>1, <1>2, <2>2 DEF DedupInv, CreatedOK, CreatedShrinks
  <2> QED
    BY <2>3, <2>4, <2>5 DEF CreatedOK
<1>5. MergeTyped' /\ MergeFlat'
  BY <1>1 DEF OwnerInv, DedupInv, MergeTyped, MergeFlat
<1> QED
  BY <1>3, <1>4, <1>5 DEF OwnerInv, DedupInv

LEMMA DueDie ==
    ASSUME BadgesDie, UNCHANGED mergeVars,
           \A c \in Badges : Pending(c) => Pending(c)' \/ badge'[c].state # "live" \/ Escaped(c)
    PROVE  DueKept
<1>1. \A b \in Badges : Escaped(b)' <=> Escaped(b)
  BY DEF Escaped, mergeVars
<1>2. \A b \in Badges : badge'[b].state = "live" => badge'[b] = badge[b]
  BY DEF BadgesDie
<1> QED
  BY <1>1, <1>2 DEF DueKept, Due

LEMMA DueSafe ==
    ASSUME OwnerInv, DueKept, UNCHANGED <<entry, mergeVars>>
    PROVE  Anchors' /\ OwnersAgree' /\ (HoldersKept => ReleaseSafe')
<1>1. UNCHANGED <<mergedInto, record, retag, backend, adrift>>
  BY DEF mergeVars
<1>2. NoReversal' <=> NoReversal
  BY <1>1 DEF NoReversal
<1>3. \A u : Root(u)' = Root(u)
  BY <1>1 DEF Root
<1>4. Anchors'
  BY DEF OwnerInv, DedupInv, Anchors, DueKept
<1>5. OwnersAgree'
  BY <1>1, <1>2, <1>3 DEF OwnerInv, OwnersAgree, DueKept
<1>6. HoldersKept => ReleaseSafe'
  BY DEF OwnerInv, DedupInv, ReleaseSafe, DueKept, HoldersKept
<1> QED
  BY <1>4, <1>5, <1>6

(* A step of the releases and the locks alone.                             *)
LEMMA RelFrame ==
    ASSUME OwnerInv, UNCHANGED <<mint, badge, entry, mergeVars>>, CallsTyped', RelOK',
           HoldersKept \/ ReleaseSafe'
    PROVE  OwnerInv'
<1>1. BadgesDie /\ EntriesGo /\ BadgesGo /\ CreatedShrinks
  BY DEF OwnerInv, DedupInv, BadgesTyped, BadgesDie, EntriesGo, BadgesGo, CreatedShrinks
<1>2. DueKept
  <2>1. \A c \in Badges : Pending(c)' <=> Pending(c)
    BY DEF Pending
  <2> QED
    BY <1>1, <2>1, DueDie
<1>3. \A m \in Minters : MintOK(m)'
  BY <1>1, MintKept DEF OwnerInv, DedupInv
<1>4. EntriesTyped' /\ OneEntry'
  BY EntriesSame
<1> QED
  BY <1>1, <1>2, <1>3, <1>4, DueSafe, CallFrame

LEMMA RelUpdate ==
    ASSUME RelOK, NEW p \in Callers, NEW z \in RelRows, rel' = [rel EXCEPT ![p] = z],
           z.pc # "none" => z.ref \in Refs /\ z.owner \in Users /\ z.left \in 1..Attempts,
           z.pc \in {"counted", "sent"} => backend = "signet",
           z.pc = "sent" => lock'[z.ref] = p,
           p \in Minters /\ z.pc # "none" => mint'[p].pc = "undo",
           \A n \in Minters \ {p} : mint'[n] = mint[n],
           \A o \in Callers \ {p} : rel[o].pc = "sent" => lock'[rel[o].ref] = o,
           UNCHANGED backend
    PROVE  RelOK' /\ rel'[p] = z /\ \A o \in Callers \ {p} : rel'[o] = rel[o]
<1>1. /\ rel' \in [Callers -> RelRows] /\ rel'[p] = z
      /\ \A o \in Callers \ {p} : rel'[o] = rel[o]
  BY DEF RelOK
<1>2. ASSUME NEW o \in Callers
      PROVE  /\ rel'[o].pc # "none" => /\ rel'[o].ref \in Refs /\ rel'[o].owner \in Users
                                       /\ rel'[o].left \in 1..Attempts
             /\ rel'[o].pc \in {"counted", "sent"} => backend' = "signet"
             /\ rel'[o].pc = "sent" => lock'[rel'[o].ref] = o
  <2>1. CASE o = p
    BY <1>1, <2>1
  <2>2. CASE o # p
    BY <1>1, <2>2 DEF RelOK
  <2> QED
    BY <2>1, <2>2
<1>3. \A n \in Minters : rel'[n].pc # "none" => mint'[n].pc = "undo"
  BY <1>1 DEF RelOK, Callers
<1> QED
  BY <1>1, <1>2, <1>3 DEF RelOK

LEMMA NoRelShape == NoRel \in RelRows /\ NoRel.pc = "none"
<1> DEFINE z == 0
<1>1. z \in 0..Attempts
  BY LedgerConstants DEF LedgerConstants
<1>2. NoRel = [pc |-> "none", ref |-> None, owner |-> None, left |-> z]
  BY DEF NoRel
<1> HIDE DEF z
<1> QED
  BY <1>1, <1>2 DEF RelRows

LEMMA RetriedShape ==
    ASSUME NEW z \in RelRows, z.ref \in Refs, z.owner \in Users, z.left \in 1..Attempts
    PROVE  /\ Retried(z) \in RelRows /\ Retried(z).pc \in {"none", "want"}
           /\ Retried(z).pc # "none" =>
                /\ Retried(z).ref \in Refs /\ Retried(z).owner \in Users
                /\ Retried(z).left \in 1..Attempts
<1>0. Attempts \in Nat
  BY LedgerConstants DEF LedgerConstants
<1>1. CASE z.left = 1
  BY <1>1, NoRelShape DEF Retried
<1>2. CASE z.left # 1
  <2> DEFINE l == z.left - 1
             y == [z EXCEPT !.pc = "want", !.left = l]
  <2>1. l \in 1..Attempts /\ l \in 0..Attempts
    BY <1>0, <1>2
  <2>2. Retried(z) = y
    BY <1>2 DEF Retried
  <2> HIDE DEF l
  <2>3. y \in RelRows /\ y.pc = "want" /\ y.ref = z.ref /\ y.owner = z.owner /\ y.left = l
    BY <2>1 DEF RelRows
  <2> HIDE DEF y
  <2> QED
    BY <2>1, <2>2, <2>3
<1> QED
  BY <1>1, <1>2

-----------------------------------------------------------------------------
(* compensateBatch.                                                        *)

(* Every badge of the batch that no merge took is still its user's, and    *)
(* goes; so none is left that is due and not anchored.                     *)
LEMMA CompensateDeleteStep ==
    ASSUME LedgerConstants, OwnerInv, NEW m \in Minters, CompensateDelete(m)
    PROVE  OwnerInv'
<1> DEFINE q == [mint[m] EXCEPT !.pc = "undo", !.created = {}]
<1>1. /\ mint[m].pc = "abort" /\ UNCHANGED <<entry, lock, del, rel, inflight, mergeVars>>
      /\ DedupInv /\ CallsTyped /\ UNCHANGED backend
  BY DEF CompensateDelete, OwnerInv, DedupInv, mergeVars
<1>2. mint[m] \in MintRows /\ mint[m].user \in Users /\ rel[m].pc = "none"
  BY <1>1, MintFields DEF DedupInv, MintOK, RelOK
<1>3. q \in MintRows /\ q.pc = "undo" /\ q.created = {} /\ q.user = mint[m].user
  BY <1>2 DEF MintRows
<1>4. mint' = [mint EXCEPT ![m] = q]
  BY DEF CompensateDelete
<1> HIDE DEF q
<1>5. /\ mint' \in [Minters -> MintRows] /\ mint'[m] = q
      /\ \A n \in Minters \ {m} : mint'[n] = mint[n]
  BY <1>1, <1>3, <1>4, MintUpdate
<1>6. \A b \in Badges : badge'[b] =
        IF b \in mint[m].created /\ badge[b].user = mint[m].user
          THEN [badge[b] EXCEPT !.state = "deleted"] ELSE badge[b]
  BY DEF CompensateDelete
<1>7. BadgesDie
  <2>1. ASSUME NEW b \in Badges
        PROVE  LET y == [badge[b] EXCEPT !.state = "deleted"] IN
               /\ y \in BadgeRows /\ y.state = "deleted" /\ y.user = badge[b].user
               /\ y.cred = badge[b].cred /\ y.ref = badge[b].ref
    BY <1>1 DEF DedupInv, BadgesTyped, BadgeRows
  <2>2. badge' \in [Badges -> BadgeRows]
    BY <1>1, <2>1 DEF CompensateDelete, DedupInv, BadgesTyped
  <2>3. \A b \in Badges : b \in mint[m].created => badge[b].state # "free"
    BY <1>1 DEF DedupInv, CreatedOK
  <2>4. ASSUME NEW b \in Badges, badge'[b] # badge[b]
        PROVE  /\ badge[b].state # "free" /\ badge'[b].state = "deleted"
               /\ badge'[b].user = badge[b].user /\ badge'[b].cred = badge[b].cred
               /\ badge'[b].ref = badge[b].ref
    <3>1. b \in mint[m].created /\ badge'[b] = [badge[b] EXCEPT !.state = "deleted"]
      BY <1>6, <2>4
    <3> QED
      BY <2>1, <2>3, <3>1
  <2> QED
    BY <2>2, <2>4 DEF BadgesDie
<1>8. EntriesTyped' /\ OneEntry' /\ EntriesGo
  BY <1>1, EntriesSame DEF EntriesGo
<1>9. CallsTyped' /\ CreatedShrinks
  BY <1>1, <1>3, <1>5 DEF CallsTyped, CreatedShrinks
<1>10. \A n \in Minters : MintOK(n)'
  <2>1. MintOK(m)'
    BY <1>2, <1>3, <1>5 DEF MintOK, Writing
  <2>2. BadgesGo /\ \A b \in Badges : badge'[b].ref = badge[b].ref
    BY <1>7 DEF BadgesDie, BadgesGo
  <2>3. ASSUME NEW n \in Minters \ {m} PROVE MintOK(n)'
    <3>1. mint'[n] = mint[n] /\ MintOK(n) /\ CreatedOK /\ EntriesGo
      BY <1>1, <1>5, <1>8 DEF DedupInv
    <3>2. mint[n].pc = "probe" => badge'[mint[n].badge].ref = badge[mint[n].badge].ref
      BY <2>2, <3>1 DEF MintOK
    <3> QED
      BY <1>1, <2>2, <3>1, <3>2, MintKept
  <2> QED
    BY <2>1, <2>3
<1>11. RelOK' /\ HoldersKept
  <2>1. \A n \in Minters : rel[n].pc # "none" => mint'[n].pc = "undo"
    BY <1>1, <1>2, <1>5 DEF DedupInv, RelOK
  <2> QED
    BY <1>1, <2>1 DEF DedupInv, RelOK, HoldersKept
<1>12. DueKept
  <2>1. ASSUME NEW c \in Badges, Pending(c), badge'[c].state = "live", ~Escaped(c)
        PROVE  Pending(c)'
    <3>1. PICK n \in Minters : c \in mint[n].created /\ mint[n].badge = c
      BY <2>1 DEF Pending
    <3>2. CASE n = m
      <4>1. badge[c].state = "live"
        BY <1>7, <2>1 DEF BadgesDie
      <4>2. badge[c].user = mint[m].user
        BY <1>1, <2>1, <3>1, <3>2, <4>1 DEF DedupInv, CreatedOK
      <4>3. badge'[c] = [badge[c] EXCEPT !.state = "deleted"] /\ badge[c] \in BadgeRows
        BY <1>1, <1>6, <3>1, <3>2, <4>2 DEF DedupInv, BadgesTyped
      <4>4. badge'[c].state = "deleted"
        BY <4>3 DEF BadgeRows
      <4> QED
        BY <2>1, <4>4
    <3>3. CASE n # m
      BY <1>5, <3>1, <3>3 DEF Pending
    <3> QED
      BY <3>2, <3>3
  <2> QED
    BY <1>1, <1>7, <2>1, DueDie
<1>13. Anchors' /\ OwnersAgree' /\ ReleaseSafe'
  BY <1>1, <1>11, <1>12, DueSafe
<1> QED
  BY <1>1, <1>7, <1>8, <1>9, <1>10, <1>11, <1>13, CallFrame

LEMMA PostCommitShape ==
    ASSUME NEW r \in Refs, NEW u \in Users
    PROVE  /\ PostCommit(r, u) \in RelRows /\ PostCommit(r, u).pc = "want"
           /\ PostCommit(r, u).ref = r /\ PostCommit(r, u).owner = u
           /\ PostCommit(r, u).left \in 1..Attempts
<1>1. Attempts \in 1..Attempts /\ Attempts \in 0..Attempts
  BY LedgerConstants DEF LedgerConstants
<1> QED
  BY <1>1 DEF PostCommit, RelRows

LEMMA CompensateReleaseStep ==
    ASSUME LedgerConstants, OwnerInv, NEW m \in Minters, CompensateRelease(m)
    PROVE  OwnerInv'
<1>1. /\ mint[m].pc = "undo" /\ rel[m] = NoRel
      /\ UNCHANGED <<entry, badge, lock, del, inflight, mergeVars>>
      /\ DedupInv /\ CallsTyped /\ RelOK /\ UNCHANGED backend
  BY DEF CompensateRelease, OwnerInv, DedupInv, mergeVars
<1>2. /\ mint[m] \in MintRows /\ mint[m].user \in Users /\ rel[m].pc = "none"
      /\ mint[m].created = {} /\ m \in Callers
  BY <1>1, MintFields, NoRelShape DEF DedupInv, MintOK, Callers
<1>3. CASE mint[m].fresh = {}
  <2>1. mint' = [mint EXCEPT ![m] = IdleMint] /\ UNCHANGED rel
    BY <1>3 DEF CompensateRelease
  <2>2. KeepsPending(m, IdleMint)
    BY <1>2, IdleMintShape DEF KeepsPending
  <2>3. mint'[m] = IdleMint
    BY <1>1, <2>1, IdleMintShape, MintUpdate
  <2> QED
    BY <1>1, <1>2, <2>1, <2>2, <2>3, IdleMintShape, IdleOK, EntriesSame, LocksSame, MintFrame
<1>4. ASSUME NEW r \in mint[m].fresh, mint' = [mint EXCEPT ![m].fresh = @ \ {r}],
             rel' = [rel EXCEPT ![m] = PostCommit(r, mint[m].user)]
      PROVE  OwnerInv'
  <2> DEFINE f == mint[m].fresh \ {r}
             q == [mint[m] EXCEPT !.fresh = f]
             z == PostCommit(r, mint[m].user)
  <2>1. r \in Refs /\ f \in SUBSET Refs
    BY <1>2 DEF MintRows
  <2>2. mint' = [mint EXCEPT ![m] = q]
    BY <1>4
  <2> HIDE DEF f
  <2>3. q \in MintRows /\ q.pc = "undo" /\ q.user = mint[m].user /\ q.created = {}
    BY <1>1, <1>2, <2>1 DEF MintRows
  <2>4. /\ z \in RelRows /\ z.pc = "want" /\ z.ref = r /\ z.owner = mint[m].user
        /\ z.left \in 1..Attempts /\ rel' = [rel EXCEPT ![m] = z]
    BY <1>2, <1>4, <2>1, PostCommitShape
  <2> HIDE DEF q, z
  <2>5. /\ mint' \in [Minters -> MintRows] /\ mint'[m] = q
        /\ \A n \in Minters \ {m} : mint'[n] = mint[n]
    BY <1>1, <2>2, <2>3, MintUpdate
  <2>6. CallsTyped' /\ CreatedShrinks
    BY <1>1, <1>2, <2>3, <2>5 DEF CallsTyped, CreatedShrinks
  <2>7. \A o \in Callers \ {m} : rel[o].pc = "sent" => lock'[rel[o].ref] = o
    BY <1>1 DEF RelOK
  <2>8. RelOK' /\ rel'[m] = z /\ \A o \in Callers \ {m} : rel'[o] = rel[o]
    BY <1>1, <1>2, <2>1, <2>3, <2>4, <2>5, <2>7, RelUpdate
  <2>9. HoldersKept
    BY <1>1, <2>4, <2>8 DEF HoldersKept
  <2>10. BadgesDie /\ EntriesGo /\ BadgesGo
    BY <1>1 DEF DedupInv, BadgesTyped, BadgesDie, EntriesGo, BadgesGo
  <2>11. \A n \in Minters : MintOK(n)'
    <3>1. MintOK(m)'
      BY <1>2, <2>3, <2>5 DEF MintOK, Writing
    <3>2. \A n \in Minters \ {m} : MintOK(n)'
      BY <1>1, <2>5, <2>10, MintKept DEF DedupInv
    <3> QED
      BY <3>1, <3>2
  <2>12. DueKept
    <3>1. \A c \in Badges : Pending(c) => Pending(c)'
      BY <1>2, <2>5 DEF Pending
    <3> QED
      BY <1>1, <2>10, <3>1, DueDie
  <2>13. Anchors' /\ OwnersAgree' /\ ReleaseSafe'
    BY <1>1, <2>9, <2>12, DueSafe
  <2>14. EntriesTyped' /\ OneEntry'
    BY <1>1, EntriesSame
  <2> QED
    BY <1>1, <2>6, <2>8, <2>10, <2>11, <2>13, <2>14, CallFrame
<1> QED
  BY <1>3, <1>4 DEF CompensateRelease

-----------------------------------------------------------------------------
(* deleteBadge.                                                            *)

DelBusyOK(q) == q.pc # "idle" => q.user \in Users /\ q.ref \in Refs /\ q.badge \in Badges

LEMMA DelUpdate ==
    ASSUME CallsTyped, NEW d \in Deleters, NEW q \in DelRows, DelBusyOK(q),
           del' = [del EXCEPT ![d] = q], UNCHANGED <<backend, lock, mint, inflight>>
    PROVE  CallsTyped'
<1>1. /\ del' \in [Deleters -> DelRows] /\ del'[d] = q
      /\ \A e \in Deleters \ {d} : del'[e] = del[e]
  BY DEF CallsTyped
<1> QED
  BY <1>1 DEF CallsTyped, DelBusyOK

LEMMA IdleDelShape == IdleDel \in DelRows /\ DelBusyOK(IdleDel)
BY DEF IdleDel, DelRows, DelBusyOK

LEMMA DeleteStartStep ==
    ASSUME LedgerConstants, OwnerInv, NEW d \in Deleters, NEW b \in Badges, DeleteStart(d, b)
    PROVE  OwnerInv'
<1> DEFINE q == [pc |-> "delete", user |-> badge[b].user, badge |-> b, ref |-> badge[b].ref]
<1>1. /\ badge[b].state = "live" /\ del' = [del EXCEPT ![d] = q]
      /\ UNCHANGED <<entry, badge, lock, mint, rel, inflight, mergeVars>>
      /\ UNCHANGED backend /\ CallsTyped /\ RelOK
  BY DEF DeleteStart, mergeVars, OwnerInv, DedupInv
<1>2. badge[b].user \in Users /\ badge[b].ref \in Refs
  BY <1>1 DEF OwnerInv, DedupInv, BadgesTyped
<1>3. q \in DelRows /\ DelBusyOK(q)
  BY <1>2 DEF DelRows, DelBusyOK
<1> HIDE DEF q
<1>4. CallsTyped'
  BY <1>1, <1>3, DelUpdate
<1>5. RelOK' /\ HoldersKept
  BY <1>1 DEF RelOK, HoldersKept
<1> QED
  BY <1>1, <1>4, <1>5, RelFrame

LEMMA DeleteRowStep ==
    ASSUME LedgerConstants, OwnerInv, NEW d \in Deleters, DeleteRow(d)
    PROVE  OwnerInv'
<1>1. /\ del[d].pc = "delete" /\ UNCHANGED <<entry, lock, mint, rel, inflight, mergeVars>>
      /\ UNCHANGED backend /\ CallsTyped /\ RelOK /\ DedupInv
  BY DEF DeleteRow, mergeVars, OwnerInv, DedupInv
<1>2. del[d] \in DelRows /\ DelBusyOK(del[d]) /\ del[d].badge \in Badges
  BY <1>1 DEF CallsTyped, DelBusyOK
<1>3. RelOK' /\ HoldersKept
  BY <1>1 DEF RelOK, HoldersKept
<1>4. CASE badge[del[d].badge].state = "live" /\ badge[del[d].badge].user = del[d].user
  <2>1. PICK b \in Badges : b = del[d].badge
    BY <1>2
  <2> DEFINE q == [del[d] EXCEPT !.pc = "count"]
             x == [badge[b] EXCEPT !.state = "deleted"]
  <2>2. del' = [del EXCEPT ![d] = q] /\ badge' = [badge EXCEPT ![b] = x]
    BY <1>4, <2>1 DEF DeleteRow
  <2>3. q \in DelRows /\ DelBusyOK(q)
    BY <1>1, <1>2 DEF DelRows, DelBusyOK
  <2>4. badge \in [Badges -> BadgeRows] /\ badge[b].state = "live"
    BY <1>1, <1>4, <2>1 DEF DedupInv, BadgesTyped
  <2>5. /\ x \in BadgeRows /\ x.state = "deleted" /\ x.user = badge[b].user
        /\ x.cred = badge[b].cred /\ x.ref = badge[b].ref
    BY <2>4 DEF BadgeRows
  <2> HIDE DEF q, x
  <2>6. CallsTyped'
    BY <1>1, <2>2, <2>3, DelUpdate
  <2>7. BadgesDie
    BY <2>2, <2>4, <2>5 DEF BadgesDie
  <2>8. EntriesTyped' /\ OneEntry' /\ EntriesGo /\ CreatedShrinks
    BY <1>1, EntriesSame DEF EntriesGo, CreatedShrinks
  <2>9. \A n \in Minters : MintOK(n)'
    <3>1. BadgesGo /\ \A c \in Badges : badge'[c].ref = badge[c].ref
      BY <2>7 DEF BadgesDie, BadgesGo
    <3>2. ASSUME NEW n \in Minters PROVE MintOK(n)'
      <4>1. mint'[n] = mint[n] /\ MintOK(n) /\ CreatedOK
        BY <1>1 DEF DedupInv
      <4>2. mint[n].pc = "probe" => badge'[mint[n].badge].ref = badge[mint[n].badge].ref
        BY <3>1, <4>1 DEF MintOK
      <4> QED
        BY <1>1, <2>8, <3>1, <4>1, <4>2, MintKept
    <3> QED
      BY <3>2
  <2>10. DueKept
    <3>1. \A c \in Badges : Pending(c) => Pending(c)'
      BY <1>1 DEF Pending
    <3> QED
      BY <1>1, <2>7, <3>1, DueDie
  <2>11. Anchors' /\ OwnersAgree' /\ ReleaseSafe'
    BY <1>1, <1>3, <2>10, DueSafe
  <2> QED
    BY <1>1, <1>3, <2>6, <2>7, <2>8, <2>9, <2>11, CallFrame
<1>5. CASE ~(badge[del[d].badge].state = "live" /\ badge[del[d].badge].user = del[d].user)
  <2>1. del' = [del EXCEPT ![d] = IdleDel] /\ UNCHANGED badge
    BY <1>5 DEF DeleteRow
  <2>2. CallsTyped'
    BY <1>1, <2>1, IdleDelShape, DelUpdate
  <2> QED
    BY <1>1, <1>3, <2>1, <2>2, RelFrame
<1> QED
  BY <1>4, <1>5

LEMMA DeleteCountStep ==
    ASSUME LedgerConstants, OwnerInv, NEW d \in Deleters, DeleteCount(d)
    PROVE  OwnerInv'
<1>1. /\ del[d].pc = "count" /\ UNCHANGED <<entry, badge, lock, mint, inflight, mergeVars>>
      /\ UNCHANGED backend /\ CallsTyped /\ RelOK
  BY DEF DeleteCount, mergeVars, OwnerInv, DedupInv
<1>2. /\ del[d] \in DelRows /\ DelBusyOK(del[d]) /\ del[d].user \in Users /\ del[d].ref \in Refs
      /\ d \in Callers /\ d \notin Minters
  BY <1>1 DEF CallsTyped, DelBusyOK, Callers, LedgerConstants
<1>3. CASE Siblings(del[d].ref) # {}
  <2>1. del' = [del EXCEPT ![d] = IdleDel] /\ UNCHANGED rel
    BY <1>3 DEF DeleteCount
  <2>2. CallsTyped'
    BY <1>1, <2>1, IdleDelShape, DelUpdate
  <2>3. RelOK' /\ HoldersKept
    BY <1>1, <2>1 DEF RelOK, HoldersKept
  <2> QED
    BY <1>1, <2>2, <2>3, RelFrame
<1>4. CASE Siblings(del[d].ref) = {}
  <2> DEFINE q == [del[d] EXCEPT !.pc = "release"]
             z == PostCommit(del[d].ref, del[d].user)
  <2>1. del' = [del EXCEPT ![d] = q] /\ rel' = [rel EXCEPT ![d] = z]
    BY <1>4 DEF DeleteCount
  <2>2. q \in DelRows /\ DelBusyOK(q)
    BY <1>1, <1>2 DEF DelRows, DelBusyOK
  <2>3. /\ z \in RelRows /\ z.pc = "want" /\ z.ref \in Refs /\ z.owner \in Users
        /\ z.left \in 1..Attempts
    BY <1>2, PostCommitShape
  <2> HIDE DEF q, z
  <2>4. CallsTyped'
    BY <1>1, <2>1, <2>2, DelUpdate
  <2>5. /\ \A o \in Callers \ {d} : rel[o].pc = "sent" => lock'[rel[o].ref] = o
        /\ \A n \in Minters \ {d} : mint'[n] = mint[n]
    BY <1>1 DEF RelOK
  <2>6. RelOK' /\ rel'[d] = z /\ \A o \in Callers \ {d} : rel'[o] = rel[o]
    BY <1>1, <1>2, <2>1, <2>3, <2>5, RelUpdate
  <2>7. HoldersKept
    BY <1>1, <2>3, <2>6 DEF HoldersKept
  <2> QED
    BY <1>1, <2>4, <2>6, <2>7, RelFrame
<1> QED
  BY <1>3, <1>4

LEMMA DeleteDoneStep ==
    ASSUME LedgerConstants, OwnerInv, NEW d \in Deleters, DeleteDone(d)
    PROVE  OwnerInv'
<1>1. /\ del' = [del EXCEPT ![d] = IdleDel]
      /\ UNCHANGED <<entry, badge, lock, mint, rel, inflight, mergeVars>>
      /\ UNCHANGED backend /\ CallsTyped /\ RelOK
  BY DEF DeleteDone, mergeVars, OwnerInv, DedupInv
<1>2. CallsTyped'
  BY <1>1, IdleDelShape, DelUpdate
<1>3. RelOK' /\ HoldersKept
  BY <1>1 DEF RelOK, HoldersKept
<1> QED
  BY <1>1, <1>2, <1>3, RelFrame

-----------------------------------------------------------------------------
(* NullifierService.release.                                               *)

(* A step of the entries, the releases and the locks.                      *)
LEMMA EntryFrame ==
    ASSUME OwnerInv, UNCHANGED <<mint, badge, mergeVars>>, EntriesTyped', EntriesGo, OneEntry',
           CallsTyped', RelOK', ReleaseSafe', Anchors', OwnersAgree'
    PROVE  OwnerInv'
<1>1. BadgesDie /\ BadgesGo /\ CreatedShrinks
  BY DEF OwnerInv, DedupInv, BadgesTyped, BadgesDie, BadgesGo, CreatedShrinks
<1>2. \A m \in Minters : MintOK(m)'
  BY <1>1, MintKept DEF OwnerInv, DedupInv
<1> QED
  BY <1>1, <1>2, CallFrame

LEMMA FreedEntries ==
    ASSUME OwnerInv, NEW r \in Refs, NEW owner, NEW how \in {"gone", "late", "overtaken"}, Freed(r, owner, how)
    PROVE  /\ EntriesTyped' /\ EntriesGo /\ OneEntry'
           /\ \A s \in Refs : /\ entry'[s].state = "live" => entry'[s] = entry[s]
                              /\ entry'[s] = entry[s] \/ (s = r /\ entry'[s].state = how)
<1> DEFINE st == IF entry[r].state = "live" /\ entry[r].owner = owner THEN how ELSE entry[r].state
           x == [entry[r] EXCEPT !.state = st]
<1>1. entry \in [Refs -> EntryRows] /\ entry[r] \in EntryRows
  BY DEF OwnerInv, DedupInv, EntriesTyped
<1>2. entry' = [entry EXCEPT ![r] = x]
  BY DEF Freed
<1>3. /\ st \in {"free", "live", "gone", "late", "overtaken"} /\ (st = "live" <=> st = "live" /\ st = entry[r].state)
      /\ st \in {how, entry[r].state} /\ (st = "free" => entry[r].state = "free")
  BY <1>1 DEF EntryRows
<1> HIDE DEF st
<1>4. x \in EntryRows /\ x.state = st /\ x.cred = entry[r].cred /\ x.owner = entry[r].owner
      /\ (st = entry[r].state => x = entry[r])
  BY <1>1, <1>3 DEF EntryRows
<1> HIDE DEF x
<1>5. /\ entry' \in [Refs -> EntryRows] /\ entry'[r] = x
      /\ \A s \in Refs \ {r} : entry'[s] = entry[s]
  BY <1>1, <1>2, <1>4
<1>6. \A s \in Refs : /\ entry'[s].state = "live" => entry'[s] = entry[s]
                      /\ entry'[s] = entry[s] \/ (s = r /\ entry'[s].state = how)
  BY <1>3, <1>4, <1>5
<1>7. EntriesGo
  BY <1>3, <1>4, <1>5 DEF EntriesGo
<1>8. OneEntry'
  BY <1>6 DEF OwnerInv, OneEntry
<1>9. EntriesTyped'
  BY <1>5, <1>6 DEF OwnerInv, DedupInv, EntriesTyped
<1> QED
  BY <1>6, <1>7, <1>8, <1>9

LEMMA FreedSafe ==
    ASSUME OwnerInv, NEW r \in Refs, NEW owner, NEW how \in {"gone", "late", "overtaken"}, Freed(r, owner, how),
           how = "gone" => \A b \in Badges : Due(b) => badge[b].ref # r,
           UNCHANGED <<mint, badge, mergeVars>>, CallsTyped', RelOK', HoldersKept
    PROVE  OwnerInv'
<1>1. UNCHANGED <<mergedInto, record, retag, backend, adrift>>
  BY DEF mergeVars
<1>2. \A b \in Badges : Due(b)' <=> Due(b)
  BY <1>1 DEF Due, Pending, Escaped
<1>3. /\ EntriesTyped' /\ EntriesGo /\ OneEntry'
      /\ \A s \in Refs : /\ entry'[s].state = "live" => entry'[s] = entry[s]
                         /\ entry'[s] = entry[s] \/ (s = r /\ entry'[s].state = how)
  BY FreedEntries
<1>4. ReleaseSafe'
  BY <1>2 DEF OwnerInv, DedupInv, ReleaseSafe, HoldersKept
<1>5. \A b \in Badges : Due(b) => badge[b].ref \in Refs
  BY DEF Due, OwnerInv, DedupInv, BadgesTyped
<1>6. Anchors'
  BY <1>2, <1>3, <1>5 DEF OwnerInv, DedupInv, Anchors, Lost
<1>7. OwnersAgree'
  <2>1. NoReversal' <=> NoReversal
    BY <1>1 DEF NoReversal
  <2>2. \A u : Root(u)' = Root(u)
    BY <1>1 DEF Root
  <2> QED
    BY <1>1, <1>2, <1>3, <1>5, <2>1, <2>2 DEF OwnerInv, OwnersAgree
<1> QED
  BY <1>3, <1>4, <1>6, <1>7, EntryFrame

(* No badge references the entry, so none is due there.                    *)
LEMMA UnguardedFree ==
    ASSUME NEW r, ~Guarded(r)
    PROVE  \A b \in Badges : Due(b) => badge[b].ref # r
BY DEF Guarded, Siblings, Due

(* A caller's release gives way to z, which holds no lock it did not hold. *)
LEMMA RelCalls ==
    ASSUME CallsTyped, UNCHANGED <<mint, del, inflight, backend>>,
           lock' \in [Refs -> Callers \cup {None}]
    PROVE  CallsTyped'
BY DEF CallsTyped

LEMMA ReleaseSnapshotStep ==
    ASSUME LedgerConstants, OwnerInv, NEW p \in Callers, ReleaseSnapshot(p)
    PROVE  OwnerInv'
<1> DEFINE z == IF Guarded(rel[p].ref) THEN NoRel ELSE [rel[p] EXCEPT !.pc = "snapped"]
<1>1. /\ rel[p].pc = "want" /\ rel' = [rel EXCEPT ![p] = z]
      /\ UNCHANGED <<entry, badge, lock, mint, del, inflight, mergeVars>>
      /\ UNCHANGED backend /\ CallsTyped /\ RelOK
  BY DEF ReleaseSnapshot, mergeVars, OwnerInv, DedupInv
<1>2. /\ rel[p] \in RelRows /\ rel[p].ref \in Refs /\ rel[p].owner \in Users
      /\ rel[p].left \in 1..Attempts
  BY <1>1 DEF RelOK
<1>3. /\ z \in RelRows /\ z.pc \in {"none", "snapped"}
      /\ z.pc # "none" => z.ref \in Refs /\ z.owner \in Users /\ z.left \in 1..Attempts
  BY <1>2, NoRelShape DEF RelRows
<1> HIDE DEF z
<1>4. CallsTyped'
  BY <1>1, RelCalls DEF CallsTyped
<1>5. \A o \in Callers \ {p} : rel[o].pc = "sent" => lock'[rel[o].ref] = o
  BY <1>1 DEF RelOK
<1>6. RelOK' /\ rel'[p] = z /\ \A o \in Callers \ {p} : rel'[o] = rel[o]
  <2>1. p \in Minters => mint'[p].pc = "undo"
    BY <1>1 DEF RelOK
  <2> QED
    BY <1>1, <1>3, <1>5, <2>1, RelUpdate
<1>7. HoldersKept
  BY <1>1, <1>3, <1>6 DEF HoldersKept
<1> QED
  BY <1>1, <1>4, <1>6, <1>7, RelFrame

LEMMA ReleaseInterimStep ==
    ASSUME LedgerConstants, OwnerInv, NEW p \in Callers, ReleaseInterim(p)
    PROVE  OwnerInv'
<1>1. /\ rel[p].pc = "snapped" /\ rel' = [rel EXCEPT ![p] = NoRel]
      /\ UNCHANGED <<badge, lock, mint, del, inflight, mergeVars>>
      /\ UNCHANGED backend /\ CallsTyped /\ RelOK
  BY DEF ReleaseInterim, mergeVars, OwnerInv, DedupInv
<1>2. rel[p].ref \in Refs
  BY <1>1 DEF RelOK
<1>3. CallsTyped'
  BY <1>1, RelCalls DEF CallsTyped
<1>4. \A o \in Callers \ {p} : rel[o].pc = "sent" => lock'[rel[o].ref] = o
  BY <1>1 DEF RelOK
<1>5. RelOK' /\ rel'[p] = NoRel /\ \A o \in Callers \ {p} : rel'[o] = rel[o]
  BY <1>1, <1>4, NoRelShape, RelUpdate
<1>6. HoldersKept
  BY <1>1, <1>5, NoRelShape DEF HoldersKept
<1>7. CASE Guarded(rel[p].ref)
  <2>1. Freed(rel[p].ref, rel[p].owner, "overtaken")
    BY <1>7 DEF ReleaseInterim
  <2> QED
    BY <1>1, <1>2, <1>3, <1>5, <1>6, <2>1, FreedSafe
<1>8. CASE ~Guarded(rel[p].ref)
  <2>1. Freed(rel[p].ref, rel[p].owner, "gone")
    BY <1>8 DEF ReleaseInterim
  <2>2. \A b \in Badges : Due(b) => badge[b].ref # rel[p].ref
    BY <1>8, UnguardedFree
  <2> QED
    BY <1>1, <1>2, <1>3, <1>5, <1>6, <2>1, <2>2, FreedSafe
<1> QED
  BY <1>7, <1>8

LEMMA ReleaseLockStep ==
    ASSUME LedgerConstants, OwnerInv, NEW p \in Callers, ReleaseLock(p)
    PROVE  OwnerInv'
<1>1. /\ backend = "signet" /\ rel[p].pc = "want" /\ lock[rel[p].ref] = None
      /\ UNCHANGED <<entry, badge, mint, del, inflight, mergeVars>>
      /\ UNCHANGED backend /\ CallsTyped /\ RelOK
  BY DEF ReleaseLock, mergeVars, OwnerInv, DedupInv
<1>2. /\ rel[p] \in RelRows /\ rel[p].ref \in Refs /\ rel[p].owner \in Users
      /\ rel[p].left \in 1..Attempts
  BY <1>1 DEF RelOK
<1>3. CASE Guarded(rel[p].ref)
  <2>1. rel' = [rel EXCEPT ![p] = NoRel] /\ UNCHANGED lock
    BY <1>3 DEF ReleaseLock
  <2>2. CallsTyped'
    BY <1>1, <2>1, RelCalls DEF CallsTyped
  <2>3. \A o \in Callers \ {p} : rel[o].pc = "sent" => lock'[rel[o].ref] = o
    BY <1>1, <2>1 DEF RelOK
  <2>4. RelOK' /\ rel'[p] = NoRel /\ \A o \in Callers \ {p} : rel'[o] = rel[o]
    BY <1>1, <2>1, <2>3, NoRelShape, RelUpdate
  <2>5. HoldersKept
    BY <2>1, <2>4, NoRelShape DEF HoldersKept
  <2> QED
    BY <1>1, <2>2, <2>4, <2>5, RelFrame
<1>4. CASE ~Guarded(rel[p].ref)
  <2> DEFINE z == [rel[p] EXCEPT !.pc = "counted"]
  <2>1. rel' = [rel EXCEPT ![p] = z] /\ lock' = [lock EXCEPT ![rel[p].ref] = p]
    BY <1>4 DEF ReleaseLock
  <2>2. /\ z \in RelRows /\ z.pc = "counted" /\ z.ref = rel[p].ref /\ z.owner = rel[p].owner
        /\ z.left = rel[p].left
    BY <1>2 DEF RelRows
  <2> HIDE DEF z
  <2>3. /\ lock' \in [Refs -> Callers \cup {None}] /\ lock'[rel[p].ref] = p
        /\ \A r \in Refs : r # rel[p].ref => lock'[r] = lock[r]
    BY <1>1, <1>2, <2>1 DEF CallsTyped
  <2>4. CallsTyped'
    BY <1>1, <2>3, RelCalls
  <2>5. None \notin Callers
    BY DEF LedgerConstants, Callers
  <2>6. \A o \in Callers \ {p} : rel[o].pc = "sent" => lock'[rel[o].ref] = o
    BY <1>1, <2>3, <2>5 DEF RelOK
  <2>7. p \in Minters => mint'[p].pc = "undo"
    BY <1>1 DEF RelOK
  <2>8. RelOK' /\ rel'[p] = z /\ \A o \in Callers \ {p} : rel'[o] = rel[o]
    BY <1>1, <1>2, <2>1, <2>2, <2>6, <2>7, RelUpdate
  <2>9. ReleaseSafe'
    <3>1. \A b \in Badges : Due(b)' <=> Due(b)
      BY <1>1 DEF Due, Pending, Escaped, mergeVars
    <3>2. \A b \in Badges : Due(b) => badge[b].ref # rel[p].ref
      BY <1>4, UnguardedFree
    <3>3. ASSUME NEW o \in Callers, NEW b \in Badges, o # p, rel[o].pc \in {"counted", "sent"},
                 lock'[rel[o].ref] = o, Due(b)
          PROVE  badge[b].ref # rel[o].ref
      <4>1. rel[o].ref \in Refs
        BY <1>1, <3>3 DEF RelOK
      <4>2. lock[rel[o].ref] = o
        BY <2>3, <3>3, <4>1
      <4> QED
        BY <3>3, <4>2 DEF OwnerInv, DedupInv, ReleaseSafe
    <3> QED
      BY <1>1, <2>2, <2>8, <3>1, <3>2, <3>3 DEF ReleaseSafe
  <2> QED
    BY <1>1, <2>4, <2>8, <2>9, RelFrame
<1> QED
  BY <1>3, <1>4

LEMMA ReleaseSendStep ==
    ASSUME LedgerConstants, OwnerInv, NEW p \in Callers, ReleaseSend(p)
    PROVE  OwnerInv'
<1>1. /\ rel[p].pc = "counted"
      /\ UNCHANGED <<entry, badge, lock, mint, del, inflight, mergeVars>>
      /\ UNCHANGED backend /\ CallsTyped /\ RelOK
  BY DEF ReleaseSend, mergeVars, OwnerInv, DedupInv
<1>2. /\ rel[p] \in RelRows /\ rel[p].ref \in Refs /\ rel[p].owner \in Users
      /\ rel[p].left \in 1..Attempts /\ backend = "signet"
  BY <1>1 DEF RelOK
<1>3. CallsTyped'
  BY <1>1, RelCalls DEF CallsTyped
<1>4. \A o \in Callers \ {p} : rel[o].pc = "sent" => lock'[rel[o].ref] = o
  BY <1>1 DEF RelOK
<1>5. p \in Minters => mint'[p].pc = "undo"
  BY <1>1 DEF RelOK
<1>6. CASE lock[rel[p].ref] = p
  <2> DEFINE z == [rel[p] EXCEPT !.pc = "sent"]
  <2>1. rel' = [rel EXCEPT ![p] = z]
    BY <1>6 DEF ReleaseSend
  <2>2. /\ z \in RelRows /\ z.pc = "sent" /\ z.ref = rel[p].ref /\ z.owner = rel[p].owner
        /\ z.left = rel[p].left
    BY <1>2 DEF RelRows
  <2> HIDE DEF z
  <2>3. RelOK' /\ rel'[p] = z /\ \A o \in Callers \ {p} : rel'[o] = rel[o]
    BY <1>1, <1>2, <1>4, <1>5, <1>6, <2>1, <2>2, RelUpdate
  <2>4. HoldersKept
    BY <1>1, <2>2, <2>3 DEF HoldersKept
  <2> QED
    BY <1>1, <1>3, <2>3, <2>4, RelFrame
<1>7. CASE lock[rel[p].ref] # p
  <2>1. rel' = [rel EXCEPT ![p] = Retried(rel[p])]
    BY <1>7 DEF ReleaseSend
  <2>2. /\ Retried(rel[p]) \in RelRows /\ Retried(rel[p]).pc \in {"none", "want"}
        /\ Retried(rel[p]).pc # "none" =>
             /\ Retried(rel[p]).ref \in Refs /\ Retried(rel[p]).owner \in Users
             /\ Retried(rel[p]).left \in 1..Attempts
    BY <1>2, RetriedShape
  <2>3. RelOK' /\ rel'[p] = Retried(rel[p]) /\ \A o \in Callers \ {p} : rel'[o] = rel[o]
    BY <1>1, <1>4, <1>5, <2>1, <2>2, RelUpdate
  <2>4. HoldersKept
    BY <1>1, <2>2, <2>3 DEF HoldersKept
  <2> QED
    BY <1>1, <1>3, <2>3, <2>4, RelFrame
<1> QED
  BY <1>6, <1>7

LEMMA UnlockOthers ==
    ASSUME LedgerConstants, CallsTyped, NEW p \in Callers, Unlock(p)
    PROVE  /\ lock' \in [Refs -> Callers \cup {None}]
           /\ \A r \in Refs : lock'[r] # p
           /\ \A o \in Callers \ {p}, r \in Refs : lock'[r] = o <=> lock[r] = o
<1>1. \A r \in Refs : lock'[r] = IF lock[r] = p THEN None ELSE lock[r]
  BY DEF Unlock
<1>2. None \notin Callers
  BY DEF LedgerConstants, Callers
<1>3. lock' \in [Refs -> Callers \cup {None}]
  BY DEF Unlock, CallsTyped
<1> QED
  BY <1>1, <1>2, <1>3

(* The attempt of caller p ends and its lock with it.                      *)
LEMMA AttemptEnds ==
    ASSUME LedgerConstants, RelOK, CallsTyped, NEW p \in Callers, NEW z \in RelRows,
           rel' = [rel EXCEPT ![p] = z], Unlock(p), z.pc \in {"none", "want"},
           rel[p].pc # "none",
           z.pc # "none" => z.ref \in Refs /\ z.owner \in Users /\ z.left \in 1..Attempts,
           UNCHANGED <<mint, backend>>
    PROVE  RelOK' /\ HoldersKept /\ lock' \in [Refs -> Callers \cup {None}]
<1>1. /\ lock' \in [Refs -> Callers \cup {None}]
      /\ \A o \in Callers \ {p}, r \in Refs : lock'[r] = o <=> lock[r] = o
  BY UnlockOthers
<1>2. \A o \in Callers : rel[o].pc # "none" => rel[o].ref \in Refs
  BY DEF RelOK
<1>3. \A o \in Callers \ {p} : rel[o].pc = "sent" => lock'[rel[o].ref] = o
  BY <1>1, <1>2 DEF RelOK
<1>4. p \in Minters => mint'[p].pc = "undo"
  BY DEF RelOK
<1>5. RelOK' /\ rel'[p] = z /\ \A o \in Callers \ {p} : rel'[o] = rel[o]
  BY <1>3, <1>4, RelUpdate
<1>6. HoldersKept
  BY <1>1, <1>2, <1>5 DEF HoldersKept
<1> QED
  BY <1>1, <1>5, <1>6

LEMMA ReleaseAnsweredStep ==
    ASSUME LedgerConstants, OwnerInv, NEW p \in Callers, ReleaseAnswered(p)
    PROVE  OwnerInv'
<1>1. /\ rel[p].pc = "sent" /\ Freed(rel[p].ref, rel[p].owner, "gone") /\ Unlock(p)
      /\ UNCHANGED <<badge, mint, del, inflight, mergeVars>>
      /\ UNCHANGED backend /\ CallsTyped /\ RelOK
  BY DEF ReleaseAnswered, mergeVars, OwnerInv, DedupInv
<1>2. /\ rel[p] \in RelRows /\ rel[p].ref \in Refs /\ rel[p].owner \in Users
      /\ rel[p].left \in 1..Attempts /\ lock[rel[p].ref] = p
  BY <1>1 DEF RelOK
<1>3. PICK z \in RelRows :
        /\ rel' = [rel EXCEPT ![p] = z] /\ z.pc \in {"none", "want"}
        /\ z.pc # "none" => z.ref \in Refs /\ z.owner \in Users /\ z.left \in 1..Attempts
  <2>1. CASE entry[rel[p].ref].state = "live" /\ entry[rel[p].ref].owner # rel[p].owner
    <3>1. rel' = [rel EXCEPT ![p] = Retried(rel[p])]
      BY <2>1 DEF ReleaseAnswered
    <3> QED
      BY <1>2, <3>1, RetriedShape
  <2>2. CASE ~(entry[rel[p].ref].state = "live" /\ entry[rel[p].ref].owner # rel[p].owner)
    <3>1. rel' = [rel EXCEPT ![p] = NoRel]
      BY <2>2 DEF ReleaseAnswered
    <3> QED
      BY <3>1, NoRelShape
  <2> QED
    BY <2>1, <2>2
<1>4. RelOK' /\ HoldersKept /\ lock' \in [Refs -> Callers \cup {None}]
  BY <1>1, <1>3, AttemptEnds
<1>5. CallsTyped'
  BY <1>1, <1>4, RelCalls
<1>6. \A b \in Badges : Due(b) => badge[b].ref # rel[p].ref
  BY <1>1, <1>2 DEF OwnerInv, DedupInv, ReleaseSafe
<1> QED
  BY <1>1, <1>2, <1>4, <1>5, <1>6, FreedSafe

LEMMA ReleaseFailsStep ==
    ASSUME LedgerConstants, OwnerInv, NEW p \in Callers, ReleaseFails(p)
    PROVE  OwnerInv'
<1>1. /\ rel[p].pc \in {"want", "snapped", "sent"} /\ rel' = [rel EXCEPT ![p] = Retried(rel[p])]
      /\ Unlock(p) /\ UNCHANGED <<entry, badge, mint, del, mergeVars>>
      /\ UNCHANGED backend /\ CallsTyped /\ RelOK
  BY DEF ReleaseFails, mergeVars, OwnerInv, DedupInv
<1>2. /\ rel[p] \in RelRows /\ rel[p].ref \in Refs /\ rel[p].owner \in Users
      /\ rel[p].left \in 1..Attempts
  BY <1>1 DEF RelOK
<1>3. /\ Retried(rel[p]) \in RelRows /\ Retried(rel[p]).pc \in {"none", "want"}
      /\ Retried(rel[p]).pc # "none" =>
           /\ Retried(rel[p]).ref \in Refs /\ Retried(rel[p]).owner \in Users
           /\ Retried(rel[p]).left \in 1..Attempts
  BY <1>2, RetriedShape
<1>4. RelOK' /\ HoldersKept /\ lock' \in [Refs -> Callers \cup {None}]
  BY <1>1, <1>3, AttemptEnds
<1>5. inflight' \subseteq Refs \X Users
  BY <1>1, <1>2 DEF ReleaseFails, CallsTyped
<1>6. CallsTyped'
  BY <1>1, <1>4, <1>5 DEF CallsTyped
<1> QED
  BY <1>1, <1>4, <1>6, RelFrame

LEMMA LateReleaseStep ==
    ASSUME LedgerConstants, OwnerInv, NEW x \in inflight, LateRelease(x)
    PROVE  OwnerInv'
<1>1. /\ Freed(x[1], x[2], "late") /\ inflight' = inflight \ {x}
      /\ UNCHANGED <<badge, lock, mint, del, rel, mergeVars>>
      /\ UNCHANGED backend /\ CallsTyped /\ RelOK
  BY DEF LateRelease, mergeVars, OwnerInv, DedupInv
<1>2. x[1] \in Refs
  BY <1>1 DEF CallsTyped
<1>3. CallsTyped'
  BY <1>1 DEF CallsTyped
<1>4. RelOK' /\ HoldersKept
  BY <1>1 DEF RelOK, HoldersKept
<1> QED
  BY <1>1, <1>2, <1>3, <1>4, FreedSafe

LEMMA LockLostStep ==
    ASSUME LedgerConstants, OwnerInv, NEW r \in Refs, LockLost(r)
    PROVE  OwnerInv'
<1>1. /\ rel[lock[r]].pc # "sent" /\ lock[r] # None /\ lock' = [lock EXCEPT ![r] = None]
      /\ UNCHANGED <<entry, badge, mint, del, rel, inflight, mergeVars>>
      /\ UNCHANGED backend /\ CallsTyped /\ RelOK
  BY DEF LockLost, mergeVars, OwnerInv, DedupInv
<1>2. /\ lock' \in [Refs -> Callers \cup {None}] /\ lock'[r] = None
      /\ \A s \in Refs \ {r} : lock'[s] = lock[s]
  BY <1>1 DEF CallsTyped
<1>3. None \notin Callers
  BY DEF LedgerConstants, Callers
<1>4. CallsTyped'
  BY <1>1, <1>2, RelCalls
<1>5. \A p \in Callers : rel[p].pc # "none" => rel[p].ref \in Refs
  BY <1>1 DEF RelOK
<1>6. \A p \in Callers : rel[p].pc = "sent" => lock'[rel[p].ref] = p
  BY <1>1, <1>2, <1>5 DEF RelOK
<1>7. RelOK'
  BY <1>1, <1>6 DEF RelOK
<1>8. HoldersKept
  BY <1>1, <1>2, <1>3, <1>5 DEF HoldersKept
<1> QED
  BY <1>1, <1>4, <1>7, <1>8, RelFrame

-----------------------------------------------------------------------------
(* Account merge and reversal.                                             *)

(* Badges change hands: their credential, their entry and whether they are *)
(* there do not.                                                           *)
BadgesMove ==
    /\ badge' \in [Badges -> BadgeRows]
    /\ \A b \in Badges :
         /\ badge'[b].state = badge[b].state /\ badge'[b].cred = badge[b].cred
         /\ badge'[b].ref = badge[b].ref
         /\ badge[b].state # "free" => badge'[b].user \in Users

LEMMA MoveFrame ==
    ASSUME OwnerInv, BadgesMove, MergeTyped', CreatedOK', MergeFlat', OwnersAgree',
           \A b \in Badges : Escaped(b) => Escaped(b)',
           UNCHANGED <<backend, entry, lock, mint, del, rel, inflight>>
    PROVE  OwnerInv'
<1>1. EntriesTyped' /\ OneEntry' /\ CallsTyped' /\ RelOK' /\ EntriesGo /\ BadgesGo
  BY EntriesSame DEF OwnerInv, DedupInv, CallsTyped, RelOK, EntriesGo, BadgesMove, BadgesGo
<1>2. BadgesTyped'
  BY DEF OwnerInv, DedupInv, BadgesTyped, BadgesMove
<1>3. ASSUME NEW m \in Minters PROVE MintOK(m)'
  <2>1. MintOK(m) /\ CallsTyped /\ CreatedOK
    BY DEF OwnerInv, DedupInv
  <2>2. mint[m].pc = "probe" => badge'[mint[m].badge].ref = badge[mint[m].badge].ref
    BY <2>1 DEF MintOK, BadgesMove
  <2> QED
    BY <1>1, <2>1, <2>2, MintKept
<1>4. \A b \in Badges : Due(b)' => Due(b)
  BY DEF Due, Pending, BadgesMove
<1>5. ReleaseSafe' /\ Anchors'
  BY <1>4 DEF OwnerInv, DedupInv, ReleaseSafe, Anchors, BadgesMove
<1> QED
  BY <1>1, <1>2, <1>3, <1>5 DEF OwnerInv, DedupInv

LEMMA RetaggedTyped ==
    ASSUME NEW refs \in SUBSET Refs, NEW from \in Users, NEW to \in Users
    PROVE  /\ Retagged(refs, from, to) \subseteq Retags
           /\ \A w \in Retagged(refs, from, to) : w.from = from /\ w.to = to
BY DEF Retagged, Retags

LEMMA MergeAccountsStep ==
    ASSUME LedgerConstants, OwnerInv, NEW d \in Users, NEW s \in Users, MergeAccounts(d, s)
    PROVE  OwnerInv'
<1> DEFINE moved == {b \in Badges : badge[b].state = "live" /\ badge[b].user = d}
           refs == {badge[b].ref : b \in moved}
           open == {b \in moved : \E m \in Minters : b \in mint[m].created}
           rec == [state |-> "merged", badges |-> moved, refs |-> refs, open |-> open]
           p == <<d, s>>
<1>1. /\ p \in MergePairs /\ mergedInto[d] = None /\ mergedInto[s] = None
      /\ record[p].state = "none"
      /\ badge' = [b \in Badges |-> IF b \in moved THEN [badge[b] EXCEPT !.user = s] ELSE badge[b]]
      /\ mergedInto' = [mergedInto EXCEPT ![d] = s]
      /\ record' = [record EXCEPT ![p] = rec]
      /\ retag' = retag \cup Retagged(refs, d, s)
      /\ UNCHANGED <<backend, entry, lock, mint, del, rel, inflight, adrift>>
  BY DEF MergeAccounts, SessionOk
<1>2. DedupInv /\ MergeTyped /\ MergeFlat /\ BadgesTyped /\ CreatedOK /\ OwnersAgree
  BY DEF OwnerInv, DedupInv
<1>3. d # s
  BY <1>1 DEF LedgerConstants
<1>4. refs \in SUBSET Refs /\ moved \in SUBSET Badges /\ open \in SUBSET Badges
  BY <1>2 DEF BadgesTyped
<1>5. rec \in Records /\ rec.state = "merged" /\ rec.badges = moved /\ rec.open = open
  BY <1>4 DEF Records
<1>6. \A b \in Badges : (b \in moved <=> badge[b].state = "live" /\ badge[b].user = d)
  OBVIOUS
<1>7. \A b \in moved : (b \in open <=> \E m \in Minters : b \in mint[m].created)
  OBVIOUS
<1> HIDE DEF moved, refs, open, rec
<1>8. /\ record' \in [MergePairs -> Records] /\ record'[p] = rec
      /\ \A o \in MergePairs \ {p} : record'[o] = record[o]
  BY <1>1, <1>2, <1>5 DEF MergeTyped
<1>9. \A b \in Badges : Escaped(b) => Escaped(b)'
  BY <1>1, <1>2, <1>8 DEF Escaped, MergeTyped
<1>10. /\ mergedInto' \in [Users -> Users \cup {None}] /\ mergedInto'[d] = s
       /\ \A u \in Users \ {d} : mergedInto'[u] = mergedInto[u]
  BY <1>1, <1>2 DEF MergeTyped
<1>11. MergeTyped'
  <2>1. retag' \subseteq Retags
    BY <1>1, <1>2, <1>4, RetaggedTyped DEF MergeTyped
  <2> QED
    BY <1>1, <1>2, <1>5, <1>8, <1>10, <2>1 DEF MergeTyped
<1>12. \A b \in Badges : /\ b \in moved => /\ badge'[b] \in BadgeRows /\ badge'[b].user = s
                                           /\ badge'[b].state = badge[b].state
                                           /\ badge'[b].cred = badge[b].cred
                                           /\ badge'[b].ref = badge[b].ref
                         /\ b \notin moved => badge'[b] = badge[b]
  <2>1. ASSUME NEW b \in Badges, b \in moved
        PROVE  /\ badge'[b] \in BadgeRows /\ badge'[b].user = s
               /\ badge'[b].state = badge[b].state /\ badge'[b].cred = badge[b].cred
               /\ badge'[b].ref = badge[b].ref
    <3>1. badge[b] \in BadgeRows /\ badge'[b] = [badge[b] EXCEPT !.user = s]
      BY <1>1, <1>2, <2>1 DEF BadgesTyped
    <3> QED
      BY <3>1 DEF BadgeRows
  <2> QED
    BY <1>1, <2>1
<1>13. BadgesMove
  <2>1. badge' = [b \in Badges |-> badge'[b]]
    BY <1>1
  <2>2. \A b \in Badges : badge'[b] \in BadgeRows
    BY <1>2, <1>12 DEF BadgesTyped
  <2>3. badge' \in [Badges -> BadgeRows]
    BY <2>1, <2>2
  <2>4. ASSUME NEW b \in Badges
        PROVE  /\ badge'[b].state = badge[b].state /\ badge'[b].cred = badge[b].cred
               /\ badge'[b].ref = badge[b].ref
               /\ badge[b].state # "free" => badge'[b].user \in Users
    <3>1. CASE b \in moved
      BY <1>12, <3>1
    <3>2. CASE b \notin moved
      BY <1>2, <1>12, <3>2 DEF BadgesTyped
    <3> QED
      BY <3>1, <3>2
  <2> QED
    BY <2>3, <2>4 DEF BadgesMove
<1>14. CreatedOK'
  <2>1. ASSUME NEW m \in Minters, NEW b \in Badges, b \in mint[m].created
        PROVE  /\ badge'[b].state # "free"
               /\ badge'[b].state = "live" /\ ~Escaped(b)' => badge'[b].user = mint[m].user
    <3>1. badge'[b].state # "free"
      BY <1>2, <1>13, <2>1 DEF CreatedOK, BadgesMove
    <3>2. ASSUME badge'[b].state = "live", ~Escaped(b)' PROVE badge'[b].user = mint[m].user
      <4>1. b \notin moved
        BY <1>1, <1>5, <1>7, <1>8, <2>1, <3>2 DEF Escaped
      <4> QED
        BY <1>2, <1>9, <1>12, <2>1, <3>2, <4>1 DEF CreatedOK
    <3> QED
      BY <3>1, <3>2
  <2>2. ASSUME NEW o \in MergePairs, NEW b \in Badges, b \in record'[o].badges
        PROVE  /\ badge'[b].state # "free"
               /\ \A m \in Minters : b \in mint[m].created => b \in record'[o].open
    <3>1. CASE o = p
      BY <1>5, <1>6, <1>7, <1>8, <1>13, <2>2, <3>1 DEF BadgesMove
    <3>2. CASE o # p
      BY <1>2, <1>8, <1>13, <2>2, <3>2 DEF BadgesMove, CreatedOK
    <3> QED
      BY <3>1, <3>2
  <2> QED
    BY <1>1, <1>2, <2>1, <2>2 DEF CreatedOK
<1>15. ASSUME NoChains PROVE \A u \in Users : mergedInto[u] # d
  <2>1. ASSUME NEW u \in Users, mergedInto[u] = d PROVE FALSE
    <3>1. <<u, d>> \in MergePairs
      BY <1>2, <1>15, <2>1, LedgerConstants DEF MergeFlat
    <3>2. s = u
      BY <1>1, <1>15, <3>1 DEF NoChains
    <3> QED
      BY <1>1, <2>1, <3>2 DEF LedgerConstants
  <2> QED
    BY <2>1
<1>16. MergeFlat'
  BY <1>1, <1>2, <1>3, <1>10, <1>15 DEF MergeFlat, MergeTyped
<1>17. ASSUME NoChains
       PROVE  \A u \in Users : Root(u)' = IF Root(u) = d THEN s ELSE Root(u)
  BY <1>1, <1>3, <1>10, <1>15, <1>17, LedgerConstants DEF Root
<1>18. OwnersAgree'
  <2> SUFFICES ASSUME NoReversal'
               PROVE  /\ \A w \in retag' : Root(w.from)' = Root(w.to)'
                      /\ \A b \in Badges : Due(b)' /\ entry'[badge'[b].ref].state = "live" =>
                           (Root(badge[b].user) = Root(entry[badge[b].ref].owner))'
    BY DEF OwnersAgree
  <2>1. NoReversal /\ NoChains
    BY <1>1, <1>8 DEF NoReversal
  <2>2. ASSUME NEW w \in retag' PROVE Root(w.from)' = Root(w.to)'
    <3>1. CASE w \in retag
      BY <1>2, <1>17, <2>1, <3>1 DEF OwnersAgree, MergeTyped, Retags
    <3>2. CASE w \in Retagged(refs, d, s)
      <4>1. w.from = d /\ w.to = s
        BY <1>4, <3>2, RetaggedTyped
      <4> QED
        BY <1>1, <1>17, <2>1, <4>1 DEF Root
    <3> QED
      BY <1>1, <3>1, <3>2
  <2>3. ASSUME NEW b \in Badges, Due(b)', entry'[badge'[b].ref].state = "live"
        PROVE  (Root(badge[b].user) = Root(entry[badge[b].ref].owner))'
    <3>1. /\ Due(b) /\ badge'[b].ref = badge[b].ref /\ badge[b].state = "live"
          /\ entry[badge[b].ref].state = "live"
      BY <1>1, <1>9, <1>13, <2>3 DEF Due, Pending, BadgesMove
    <3>2. badge[b].user \in Users /\ badge[b].ref \in Refs /\ entry[badge[b].ref].owner \in Users
      BY <1>2, <3>1 DEF BadgesTyped, DedupInv, EntriesTyped
    <3>3. PICK u \in Users, v \in Users : u = badge[b].user /\ v = entry[badge[b].ref].owner
      BY <3>2
    <3>4. Root(u) = Root(v)
      BY <1>2, <2>1, <3>1, <3>3 DEF OwnersAgree
    <3>5. v = entry'[badge'[b].ref].owner
      BY <1>1, <3>1, <3>3
    <3>6. CASE b \in moved
      <4>1. u = d /\ badge'[b].user = s /\ Root(d) = d /\ Root(s) = s
        BY <1>1, <1>6, <1>12, <3>3, <3>6 DEF Root
      <4>2. Root(s)' = s /\ Root(v)' = s
        BY <1>3, <1>17, <2>1, <3>4, <4>1
      <4> QED
        BY <3>5, <4>1, <4>2 DEF Root
    <3>7. CASE b \notin moved
      <4>1. Root(u)' = Root(v)' /\ badge'[b].user = u
        BY <1>12, <1>17, <2>1, <3>3, <3>4, <3>7
      <4> QED
        BY <3>5, <4>1 DEF Root
    <3> QED
      BY <3>6, <3>7
  <2> QED
    BY <2>2, <2>3
<1> QED
  BY <1>1, <1>9, <1>11, <1>13, <1>14, <1>16, <1>18, MoveFrame

LEMMA ReverseMergeStep ==
    ASSUME LedgerConstants, OwnerInv, NEW d \in Users, NEW s \in Users, ReverseMerge(d, s)
    PROVE  OwnerInv'
<1> DEFINE p == <<d, s>>
           snap == record[p]
           rec == [snap EXCEPT !.state = "reversed"]
           back == {b \in Badges : b \in snap.badges /\ badge[b].state = "live"}
<1>1. /\ p \in MergePairs
      /\ badge' = [b \in Badges |-> IF b \in snap.badges /\ badge[b].state = "live"
                                      THEN [badge[b] EXCEPT !.user = d] ELSE badge[b]]
      /\ mergedInto' = [mergedInto EXCEPT ![d] = None]
      /\ record' = [record EXCEPT ![p] = rec]
      /\ retag' = retag \cup Retagged(snap.refs, s, d)
      /\ UNCHANGED <<backend, entry, lock, mint, del, rel, inflight, adrift>>
  BY DEF ReverseMerge
<1>2. MergeTyped /\ MergeFlat /\ BadgesTyped /\ CreatedOK
  BY DEF OwnerInv, DedupInv
<1>3. snap \in Records /\ snap.refs \in SUBSET Refs
  BY <1>1, <1>2 DEF MergeTyped, Records
<1>4. /\ rec \in Records /\ rec.state = "reversed" /\ rec.badges = snap.badges
      /\ rec.open = snap.open
  BY <1>3 DEF Records
<1>5. \A b \in Badges : b \in back <=> b \in snap.badges /\ badge[b].state = "live"
  OBVIOUS
<1> HIDE DEF rec, snap, back
<1>6. /\ record' \in [MergePairs -> Records] /\ record'[p] = rec
      /\ \A o \in MergePairs \ {p} : record'[o] = record[o]
  BY <1>1, <1>2, <1>4 DEF MergeTyped
<1>7. \A o \in MergePairs : record'[o].open = record[o].open /\ record'[o].badges = record[o].badges
  BY <1>4, <1>6 DEF snap
<1>8. \A b \in Badges : Escaped(b)' <=> Escaped(b)
  BY <1>1, <1>7 DEF Escaped
<1>9. /\ mergedInto' \in [Users -> Users \cup {None}] /\ mergedInto'[d] = None
      /\ \A u \in Users \ {d} : mergedInto'[u] = mergedInto[u]
  BY <1>1, <1>2 DEF MergeTyped
<1>10. MergeTyped'
  <2>1. retag' \subseteq Retags
    BY <1>1, <1>2, <1>3, RetaggedTyped DEF MergeTyped
  <2> QED
    BY <1>1, <1>2, <1>4, <1>6, <1>9, <2>1 DEF MergeTyped
<1>11. MergeFlat'
  BY <1>2, <1>9 DEF MergeFlat, MergeTyped
<1>12. OwnersAgree'
  BY <1>1, <1>4, <1>6 DEF OwnersAgree, NoReversal
<1>13. ASSUME NEW b \in Badges
       PROVE  /\ badge'[b] \in BadgeRows
              /\ badge'[b].state = badge[b].state /\ badge'[b].cred = badge[b].cred
              /\ badge'[b].ref = badge[b].ref
              /\ badge[b].state # "free" => badge'[b].user \in Users
              /\ b \notin back => badge'[b] = badge[b]
  <2>1. badge[b] \in BadgeRows /\ (badge[b].state # "free" => badge[b].user \in Users)
    BY <1>2 DEF BadgesTyped
  <2>2. CASE b \in back
    <3>1. badge'[b] = [badge[b] EXCEPT !.user = d]
      BY <1>1, <1>5, <2>2
    <3> QED
      BY <2>1, <2>2, <3>1 DEF BadgeRows
  <2>3. CASE b \notin back
    BY <1>1, <1>5, <2>1, <2>3
  <2> QED
    BY <2>2, <2>3
<1>14. BadgesMove
  <2>1. badge' = [b \in Badges |-> badge'[b]]
    BY <1>1
  <2>2. badge' \in [Badges -> BadgeRows]
    BY <1>13, <2>1
  <2> QED
    BY <1>13, <2>2 DEF BadgesMove
<1>15. CreatedOK'
  <2>1. ASSUME NEW m \in Minters, NEW b \in Badges, b \in mint[m].created
        PROVE  /\ badge'[b].state # "free"
               /\ badge'[b].state = "live" /\ ~Escaped(b)' => badge'[b].user = mint[m].user
    <3>1. badge'[b].state # "free"
      BY <1>2, <1>13, <2>1 DEF CreatedOK
    <3>2. ASSUME badge'[b].state = "live", ~Escaped(b)' PROVE badge'[b].user = mint[m].user
      <4>1. b \notin back
        BY <1>1, <1>2, <1>5, <1>8, <2>1, <3>2 DEF CreatedOK, Escaped, snap
      <4> QED
        BY <1>2, <1>8, <1>13, <2>1, <3>2, <4>1 DEF CreatedOK
    <3> QED
      BY <3>1, <3>2
  <2>2. \A o \in MergePairs, b \in Badges : b \in record'[o].badges =>
          /\ badge'[b].state # "free"
          /\ \A m \in Minters : b \in mint[m].created => b \in record'[o].open
    BY <1>2, <1>7, <1>13 DEF CreatedOK
  <2> QED
    BY <1>1, <1>2, <2>1, <2>2 DEF CreatedOK
<1> QED
  BY <1>1, <1>8, <1>10, <1>11, <1>12, <1>14, <1>15, MoveFrame

LEMMA ReassignStep ==
    ASSUME LedgerConstants, OwnerInv, NEW w \in retag, Reassign(w)
    PROVE  OwnerInv'
<1> DEFINE o == IF entry[w.ref].state = "live" /\ entry[w.ref].owner = w.from
                  THEN w.to ELSE entry[w.ref].owner
           x == [entry[w.ref] EXCEPT !.owner = o]
<1>1. /\ entry' = [entry EXCEPT ![w.ref] = x] /\ retag' = retag \ {w}
      /\ UNCHANGED <<backend, badge, lock, mint, del, rel, inflight, mergedInto, record,
                     adrift>>
  BY DEF Reassign
<1>2. DedupInv /\ EntriesTyped /\ MergeTyped /\ OwnersAgree
  BY DEF OwnerInv, DedupInv
<1>3. w.ref \in Refs /\ w.from \in Users /\ w.to \in Users
  BY <1>2 DEF MergeTyped, Retags
<1>4. entry[w.ref] \in EntryRows
  BY <1>2, <1>3 DEF EntriesTyped
<1>5. /\ o \in Users \cup {None} /\ (o # entry[w.ref].owner => o \in Users)
      /\ NoReversal => Root(o) = Root(entry[w.ref].owner)
  BY <1>2, <1>3, <1>4 DEF EntryRows, OwnersAgree
<1> HIDE DEF o
<1>6. /\ x \in EntryRows /\ x.state = entry[w.ref].state /\ x.cred = entry[w.ref].cred
      /\ x.owner = o
  BY <1>4, <1>5 DEF EntryRows
<1> HIDE DEF x
<1>7. /\ entry' \in [Refs -> EntryRows] /\ entry'[w.ref] = x
      /\ \A r \in Refs : r # w.ref => entry'[r] = entry[r]
  BY <1>1, <1>2, <1>3, <1>6 DEF EntriesTyped
<1>8. \A r \in Refs : /\ entry'[r].state = entry[r].state /\ entry'[r].cred = entry[r].cred
                      /\ entry'[r].owner # entry[r].owner => entry'[r].owner \in Users
                      /\ NoReversal => Root(entry'[r].owner) = Root(entry[r].owner)
  BY <1>5, <1>6, <1>7
<1>9. EntriesTyped' /\ OneEntry'
  BY <1>2, <1>7, <1>8 DEF EntriesTyped, OwnerInv, OneEntry
<1>10. BadgesDie /\ BadgesGo /\ CreatedShrinks /\ EntriesGo
  BY <1>1, <1>8 DEF OwnerInv, DedupInv, BadgesTyped, BadgesDie, BadgesGo, CreatedShrinks, EntriesGo
<1>11. \A m \in Minters : MintOK(m)'
  BY <1>1, <1>2, <1>10, MintKept DEF DedupInv
<1>12. \A b \in Badges : Due(b)' <=> Due(b)
  BY <1>1 DEF Due, Pending, Escaped
<1>13. \A b \in Badges : Due(b) => badge[b].ref \in Refs
  BY <1>2 DEF Due, DedupInv, BadgesTyped
<1>14. RelOK' /\ CallsTyped' /\ CreatedOK' /\ MergeTyped' /\ MergeFlat'
  BY <1>1 DEF OwnerInv, DedupInv, RelOK, CallsTyped, CreatedOK, MergeTyped, MergeFlat, Escaped
<1>15. BadgesTyped'
  BY <1>1, <1>8 DEF OwnerInv, DedupInv, BadgesTyped
<1>16. ReleaseSafe' /\ Anchors'
  BY <1>1, <1>2, <1>8, <1>12, <1>13 DEF DedupInv, ReleaseSafe, Anchors
<1>17. OwnersAgree'
  <2>1. NoReversal' <=> NoReversal
    BY <1>1 DEF NoReversal
  <2>2. \A u : Root(u)' = Root(u)
    BY <1>1 DEF Root
  <2>3. ASSUME NoReversal, NEW b \in Badges, Due(b), entry'[badge[b].ref].state = "live"
        PROVE  Root(badge[b].user) = Root(entry'[badge[b].ref].owner)
    BY <1>2, <1>8, <1>13, <2>3 DEF OwnersAgree
  <2>4. ASSUME NoReversal, NEW b \in Badges, Due(b), entry'[badge[b].ref].state = "live"
        PROVE  (Root(badge[b].user) = Root(entry[badge[b].ref].owner))'
    BY <1>1, <2>3, <2>4 DEF Root
  <2>5. NoReversal => \A v \in retag' : Root(v.from)' = Root(v.to)'
    BY <1>1, <1>2, <2>2 DEF OwnersAgree
  <2> QED
    BY <1>1, <1>12, <2>1, <2>4, <2>5 DEF OwnersAgree
<1> QED
  BY <1>9, <1>11, <1>14, <1>15, <1>16, <1>17 DEF OwnerInv, DedupInv

LEMMA ReassignFailsStep ==
    ASSUME LedgerConstants, OwnerInv, NEW w \in retag, ReassignFails(w)
    PROVE  OwnerInv'
<1>1. /\ retag' = retag \ {w}
      /\ UNCHANGED <<backend, entry, badge, lock, mint, del, rel, inflight, mergedInto,
                     record, adrift>>
  BY DEF ReassignFails
<1>2. EntriesTyped' /\ BadgesTyped' /\ CallsTyped' /\ MergeTyped' /\ MergeFlat'
  BY <1>1 DEF OwnerInv, DedupInv, EntriesTyped, BadgesTyped, CallsTyped, MergeTyped, MergeFlat
<1>3. RelOK' /\ CreatedOK' /\ OneEntry'
  BY <1>1 DEF OwnerInv, DedupInv, RelOK, CreatedOK, OneEntry, Escaped
<1>4. EntriesGo /\ BadgesGo
  BY <1>1 DEF EntriesGo, BadgesGo
<1>5. \A m \in Minters : MintOK(m)'
  BY <1>1, <1>4, MintKept DEF OwnerInv, DedupInv
<1>6. \A b \in Badges : Due(b)' <=> Due(b)
  BY <1>1 DEF Due, Pending, Escaped
<1>7. ReleaseSafe' /\ Anchors'
  BY <1>1, <1>6 DEF OwnerInv, DedupInv, ReleaseSafe, Anchors
<1>8. OwnersAgree'
  BY <1>1, <1>6 DEF OwnerInv, OwnersAgree, NoReversal, Root
<1> QED
  BY <1>2, <1>3, <1>5, <1>7, <1>8 DEF OwnerInv, DedupInv

-----------------------------------------------------------------------------
(* The theorems.                                                           *)

LEMMA OwnerInit ==
    ASSUME LedgerConstants, Init
    PROVE  OwnerInv
<1>1. NoEntry \in EntryRows /\ NoEntry.state = "free"
  BY DEF NoEntry, EntryRows
<1>2. NoBadge \in BadgeRows /\ NoBadge.state = "free"
  BY DEF NoBadge, BadgeRows
<1>3. /\ NoRecord \in Records /\ NoRecord.state = "none" /\ NoRecord.open = {}
      /\ NoRecord.badges = {}
  BY DEF NoRecord, Records
<1>4. IdleDel \in DelRows /\ IdleDel.pc = "idle"
  BY DEF IdleDel, DelRows
<1>5. /\ \A r \in Refs : entry[r] = NoEntry
      /\ \A b \in Badges : badge[b] = NoBadge
      /\ \A m \in Minters : mint[m] = IdleMint
      /\ \A p \in Callers : rel[p] = NoRel
      /\ \A p \in MergePairs : record[p] = NoRecord
  BY DEF Init
<1>6. EntriesTyped /\ BadgesTyped /\ MergeTyped
  BY <1>1, <1>2, <1>3 DEF Init, EntriesTyped, BadgesTyped, MergeTyped
<1>7. CallsTyped
  BY <1>4, IdleMintShape DEF Init, CallsTyped
<1>8. \A m \in Minters : MintOK(m)
  BY <1>5, IdleMintShape DEF MintOK, Writing
<1>9. CreatedOK
  BY <1>3, <1>5, IdleMintShape DEF CreatedOK
<1>10. RelOK
  BY <1>5, NoRelShape DEF Init, RelOK, Callers
<1>11. ReleaseSafe /\ Anchors
  BY <1>2, <1>5, NoRelShape DEF ReleaseSafe, Anchors, Due
<1>12. OneEntry /\ MergeFlat /\ OwnersAgree
  BY <1>1, <1>2, <1>5 DEF Init, OneEntry, MergeFlat, OwnersAgree, Due
<1> QED
  BY <1>6, <1>7, <1>8, <1>9, <1>10, <1>11, <1>12 DEF OwnerInv, DedupInv

LEMMA OwnerStutter ==
    ASSUME OwnerInv, UNCHANGED vars
    PROVE  OwnerInv'
<1>1. CallsTyped' /\ RelOK' /\ HoldersKept /\ UNCHANGED <<mint, badge, entry, mergeVars>>
  BY DEF OwnerInv, DedupInv, CallsTyped, RelOK, HoldersKept, vars, mergeVars
<1> QED
  BY <1>1, RelFrame

LEMMA OwnerStep ==
    ASSUME LedgerConstants, OwnerInv, [Next]_vars
    PROVE  OwnerInv'
<1>1. CASE UNCHANGED vars
  BY <1>1, OwnerStutter
<1>2. CASE \E m \in Minters, u \in Users, batch \in Batches : MintStart(m, u, batch)
  BY <1>2, MintStartStep
<1>3. CASE \E d \in Deleters, b \in Badges : DeleteStart(d, b)
  BY <1>3, DeleteStartStep
<1>4. CASE \E m \in Minters : MintStep(m)
  BY <1>4, RegisterStep, RegisterLookupStep, WindowOpenStep, WindowWriteStep, WindowProbeStep,
     CompensateDeleteStep, CompensateReleaseStep DEF MintStep
<1>5. CASE \E d \in Deleters : DeleteStep(d)
  BY <1>5, DeleteRowStep, DeleteCountStep, DeleteDoneStep DEF DeleteStep
<1>6. CASE \E p \in Callers : ReleaseStep(p)
  BY <1>6, ReleaseSnapshotStep, ReleaseInterimStep, ReleaseLockStep, ReleaseSendStep, ReleaseAnsweredStep
     DEF ReleaseStep
<1>7. CASE FaultStep
  BY <1>7, RegisterFailsStep, WindowFailsStep, MintDiesStep, ReleaseFailsStep, LockLostStep,
     LateReleaseStep, ReassignFailsStep DEF FaultStep
<1>8. CASE MergeStep
  BY <1>8, MergeAccountsStep, ReverseMergeStep, ReassignStep DEF MergeStep
<1> QED
  BY <1>1, <1>2, <1>3, <1>4, <1>5, <1>6, <1>7, <1>8 DEF Next

(* The inductive invariant: every badge that is due is anchored, and no    *)
(* release that keeps an entry's lock can take the entry from a badge that *)
(* is, or is about to be.                                                  *)
THEOREM LedgerInvariant == Spec => []OwnerInv
<1>1. Init => OwnerInv
  BY OwnerInit, LedgerConstants
<1>2. OwnerInv /\ [Next]_vars => OwnerInv'
  BY OwnerStep, LedgerConstants
<1> QED
  BY <1>1, <1>2, PTL DEF Spec

LEMMA SettledIsDue ==
    ASSUME OwnerInv, NEW b \in Badges, Settled(b), ~Escaped(b)
    PROVE  Due(b) /\ badge[b].ref \in Refs /\ entry[badge[b].ref].state \notin Lost
BY DEF Settled, Due, Pending, Lost, OwnerInv, DedupInv, BadgesTyped

(* Every table and every call of the ledger holds values of its shape.     *)
THEOREM LedgerTypeCorrect == Spec => []TypeOK
<1>1. OwnerInv => TypeOK
  <2> SUFFICES ASSUME OwnerInv PROVE TypeOK
    OBVIOUS
  <2>1. /\ backend \in Backends /\ entry \in [Refs -> EntryRows]
        /\ badge \in [Badges -> BadgeRows] /\ lock \in [Refs -> Callers \cup {None}]
        /\ mint \in [Minters -> MintRows] /\ rel \in [Callers -> RelRows]
        /\ mergedInto \in [Users -> Users \cup {None}] /\ retag \subseteq Retags
        /\ adrift \subseteq Badges
    BY DEF OwnerInv, DedupInv, EntriesTyped, BadgesTyped, CallsTyped, RelOK, MergeTyped
  <2> QED
    BY <2>1 DEF TypeOK, EntryRows, BadgeRows, MintRows, RelRows, Retags
<1> QED
  BY <1>1, LedgerInvariant, PTL

(* A badge that passed its probe stays anchored to a live entry for its    *)
(* own credential, on either backend, through lost locks, failed and       *)
(* retried releases, aborted batches, merges and reversals.  The badges it *)
(* says nothing of are the ones the code loses: one whose entry went to a  *)
(* Signet request given up on or to an interim DELETE older than the badge *)
(* (Settled), one a merge took from an unfinished batch, and one not yet   *)
(* probed when the batch died or its deleteMany failed (Escaped).          *)
THEOREM HandedOutIsAnchored == Spec => []BadgeAnchored
<1>1. OwnerInv => BadgeAnchored
  BY SettledIsDue DEF BadgeAnchored, OwnerInv, DedupInv, Anchors
<1> QED
  BY <1>1, LedgerInvariant, PTL

(* One credential, one account: while no merge is reversed and merges do   *)
(* not chain, two badges for the same credential belong to one account,    *)
(* however issuances, deletions, releases, merges and the re-tagging       *)
(* behind them interleave (lib/nullifier and server/wizard.ts), with the   *)
(* exceptions that Settled and Escaped name.                               *)
THEOREM OneCredentialOneAccount == Spec => []OneAccountPerCredential
<1>1. OwnerInv => OneAccountPerCredential
  <2> SUFFICES ASSUME OwnerInv, NEW b \in Badges, NEW c \in Badges, Settled(b), Settled(c),
                      ~Escaped(b), ~Escaped(c), badge[b].cred = badge[c].cred,
                      NoChains, \A p \in MergePairs : record[p].state # "reversed"
               PROVE  Root(badge[b].user) = Root(badge[c].user)
    BY DEF OneAccountPerCredential
  <2>1. \A x \in {b, c} : /\ Due(x) /\ badge[x].ref \in Refs
                          /\ entry[badge[x].ref].state = "live"
                          /\ entry[badge[x].ref].cred = badge[x].cred
    BY SettledIsDue DEF OwnerInv, DedupInv, Anchors
  <2>2. badge[b].ref = badge[c].ref
    BY <2>1 DEF OwnerInv, OneEntry
  <2>3. \A x \in {b, c} : Root(badge[x].user) = Root(entry[badge[x].ref].owner)
    BY <2>1 DEF OwnerInv, OwnersAgree, NoReversal
  <2> QED
    BY <2>2, <2>3
<1> QED
  BY <1>1, LedgerInvariant, PTL
=============================================================================
