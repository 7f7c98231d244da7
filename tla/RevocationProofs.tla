-------------------------- MODULE RevocationProofs --------------------------
(***************************************************************************)
(* Proofs about the revocation of disclosed badges (module StatusList) and *)
(* about groups, whose members' endings revoke (module Groups), for any    *)
(* anchors, relying parties, shards, bits and epochs, any users, groups,   *)
(* slugs and memberships, any number of overlapping requests, disclosures, *)
(* revoking transactions and publishers, and any heartbeat and jitter.     *)
(*                                                                         *)
(* The first part is about handles and tombstones.  It speaks of single    *)
(* actions, so that the last part can use it for the transactions of       *)
(* groups.  The second part is about the published lists.                  *)
(***************************************************************************)
EXTENDS Groups, TLAPS

Handles == Anchors \X Clients

(* What a disclosure under way knows: whose handle it is about, that the   *)
(* handle exists once it is at the second look, and that a tombstone it    *)
(* believes in is there.                                                   *)
DiscRight(q) ==
    /\ q.pc # "idle" => q.anchor \in Anchors /\ q.client \in Clients
    /\ q.pc \in {"recheck", "force"} =>
         entry[<<q.anchor, q.client>>].state # "none"
    /\ q.late \/ q.pc = "force" => q.anchor \in tomb

DiscPart == \A d \in Disclosers : DiscRight(disc[d])

(* A handle that is not there is blank, and one is revoked only once its   *)
(* anchor has a tombstone.                                                 *)
EntryRight(k) ==
    /\ entry[k].state = "none" => entry[k] = NoEntry
    /\ entry[k].state = "revoked" => k[1] \in tomb

EntryPart == \A k \in Handles : EntryRight(k)

(* A revoking transaction has seen handles of its own anchors only.        *)
RevRight(v) ==
    /\ v.pc = "idle" => v.anchors = {}
    /\ v.seen \subseteq v.anchors \X Clients
    /\ \A k \in v.seen : entry[k].state # "none"

RevPart == \A r \in Revokers : RevRight(rev[r])

(* A handle in a relying party's hands is there; it is revoked if its      *)
(* anchor is, and every transaction that is about to revoke the anchor has *)
(* seen it or finds it revoked.                                            *)
HeldRight(k) ==
    held[k] = "yes" =>
        /\ entry[k].state # "none"
        /\ k[1] \in tomb => entry[k].state = "revoked"
        /\ \A r \in Revokers : k[1] \in rev[r].anchors =>
              k \in rev[r].seen \/ entry[k].state = "revoked"

HeldPart == \A k \in Handles : HeldRight(k)

Tracked == StatusTypeOK /\ DiscPart /\ EntryPart /\ RevPart /\ HeldPart

-----------------------------------------------------------------------------
(* The blank records are of their types.                                   *)
LEMMA BlankTypes ==
    /\ NoEntry \in EntryType /\ NoList \in ListType
    /\ IdleDisc \in DiscType /\ IdleRev \in RevType /\ IdlePub \in PubType
<1>1. 0 \in Bits /\ 0 \in 0..MaxTime /\ 0 \in 0..MaxShard /\ 0 \in 0..MaxAttempts
  BY StatusConstants DEF Bits
<1>2. NoEntry \in EntryType
  BY <1>1 DEF NoEntry, EntryType
<1>3. NoList \in ListType
  BY <1>1 DEF NoList, NoJwt, ListType
<1>4. IdleDisc \in DiscType
  BY <1>1 DEF IdleDisc, DiscType
<1>5. IdleRev \in RevType
  BY DEF IdleRev, RevType
<1>6. IdlePub \in PubType
  BY <1>1, <1>3 DEF IdlePub, PubType
<1>. QED BY <1>2, <1>3, <1>4, <1>5, <1>6

(* At the start nothing is disclosed, revoked or under way.                *)
LEMMA TrackedInit == StatusInit => Tracked
<1>. SUFFICES ASSUME StatusInit PROVE Tracked OBVIOUS
<1>1. StatusTypeOK
  BY BlankTypes, StatusConstants DEF StatusInit, StatusTypeOK
<1>2. DiscPart
  BY DEF StatusInit, DiscPart, DiscRight, IdleDisc
<1>3. EntryPart
  BY DEF StatusInit, EntryPart, EntryRight, Handles, NoEntry
<1>4. RevPart
  BY DEF StatusInit, RevPart, RevRight, IdleRev
<1>5. HeldPart
  BY DEF StatusInit, HeldPart, HeldRight, Handles
<1>. QED BY <1>1, <1>2, <1>3, <1>4, <1>5 DEF Tracked

(* Handles do not vanish and a revoked one stays revoked; tombstones stay. *)
OnlyAhead ==
    /\ tomb \subseteq tomb'
    /\ \A k \in Handles : /\ entry[k].state # "none" => entry'[k].state # "none"
                          /\ entry[k].state = "revoked" => entry'[k].state = "revoked"

(* A disclosure that did not move is still right.                          *)
LEMMA DiscStays ==
    ASSUME Tracked, OnlyAhead, NEW d \in Disclosers, disc'[d] = disc[d]
    PROVE  DiscRight(disc[d])'
<1>. DEFINE q == disc[d]
<1>1. /\ DiscRight(q) /\ q \in DiscType
  BY DEF Tracked, DiscPart, StatusTypeOK
<1>2. q.pc \in {"recheck", "force"} => <<q.anchor, q.client>> \in Handles
  BY <1>1 DEF DiscRight, Handles
<1>3. DiscRight(q)'
  BY <1>1, <1>2 DEF DiscRight, OnlyAhead
<1>. QED BY <1>3

(* So is a revoking transaction.                                           *)
LEMMA RevStays ==
    ASSUME Tracked, OnlyAhead, NEW r \in Revokers, rev'[r] = rev[r]
    PROVE  RevRight(rev[r])'
<1>1. /\ RevRight(rev[r]) /\ rev[r] \in RevType
  BY DEF Tracked, RevPart, StatusTypeOK
<1>2. rev[r].seen \subseteq Handles
  BY <1>1 DEF RevType, Handles
<1>. QED BY <1>1, <1>2 DEF RevRight, OnlyAhead

(* So is a held handle, when the tombstones and the transactions are as    *)
(* they were.                                                              *)
LEMMA HeldStays ==
    ASSUME Tracked, OnlyAhead, tomb' = tomb, rev' = rev,
           NEW k \in Handles, held'[k] = held[k]
    PROVE  HeldRight(k)'
  BY DEF Tracked, HeldPart, HeldRight, OnlyAhead

(* The parts together.                                                     *)
LEMMA TrackedParts ==
    ASSUME StatusTypeOK', \A d \in Disclosers : DiscRight(disc[d])',
           \A k \in Handles : EntryRight(k)', \A r \in Revokers : RevRight(rev[r])',
           \A k \in Handles : HeldRight(k)'
    PROVE  Tracked'
  BY DEF Tracked, DiscPart, EntryPart, RevPart, HeldPart, Handles

-----------------------------------------------------------------------------
(* A disclosure that moves, and is right where it stands then.             *)
LEMMA DiscMoves ==
    ASSUME Tracked, OnlyAhead, NEW d \in Disclosers, NEW q \in DiscType,
           disc' = [disc EXCEPT ![d] = q], DiscRight(q)'
    PROVE  /\ disc' \in [Disclosers -> DiscType]
           /\ \A e \in Disclosers : DiscRight(disc[e])'
<1>1. disc' \in [Disclosers -> DiscType]
  BY DEF Tracked, StatusTypeOK
<1>2. disc'[d] = q
  BY DEF Tracked, StatusTypeOK
<1>3. ASSUME NEW e \in Disclosers, e # d PROVE DiscRight(disc[e])'
  <2>1. disc'[e] = disc[e]
    BY <1>3
  <2>. QED BY <2>1, DiscStays
<1>4. DiscRight(disc[d])'
  BY <1>2 DEF DiscRight
<1>. QED BY <1>1, <1>3, <1>4

(* A disclosure under way has a key.                                       *)
LEMMA KeyIsHandle ==
    ASSUME Tracked, NEW d \in Disclosers, disc[d].pc # "idle"
    PROVE  /\ disc[d] \in DiscType
           /\ disc[d].anchor \in Anchors /\ disc[d].client \in Clients
           /\ Key(d) \in Handles /\ Key(d)[1] = disc[d].anchor
  BY DEF Tracked, StatusTypeOK, DiscPart, DiscRight, Key, Handles

(* Handing the handle over: unless a transaction missed it or the          *)
(* tombstone is ignored, it is held and right.                             *)
LEMMA HandOverRight ==
    ASSUME Tracked, OnlyAhead, tomb' = tomb, rev' = rev,
           NEW d \in Disclosers, disc[d].pc # "idle", NEW stale,
           HandOver(d, stale), entry'[Key(d)].state # "none",
           Key(d)[1] \in tomb /\ ~stale => entry'[Key(d)].state = "revoked"
    PROVE  /\ held' \in [Handles -> {"no", "yes", "late"}]
           /\ \A k \in Handles : HeldRight(k)'
<1>. PICK h : h = Key(d) OBVIOUS
<1>0. h \in Handles
  BY KeyIsHandle
<1>1. held \in [Handles -> {"no", "yes", "late"}]
  BY DEF Tracked, StatusTypeOK, Handles
<1>. DEFINE missed == \E r \in Revokers : h[1] \in rev[r].anchors /\ h \notin rev[r].seen
<1>2. held' = [held EXCEPT ![h] = IF held[h] # "no" THEN held[h]
                                  ELSE IF missed \/ stale THEN "late" ELSE "yes"]
  BY <1>0, <1>1 DEF HandOver
<1>3. held' \in [Handles -> {"no", "yes", "late"}]
  BY <1>0, <1>1, <1>2
<1>4. ASSUME NEW k \in Handles, k # h PROVE HeldRight(k)'
  <2>1. held'[k] = held[k]
    BY <1>1, <1>2, <1>4
  <2>. QED BY <2>1, HeldStays
<1>5. HeldRight(h)'
  <2>1. CASE held[h] # "no"
    <3>1. held'[h] = held[h]
      BY <1>0, <1>1, <1>2, <2>1
    <3>. QED BY <1>0, <3>1, HeldStays
  <2>2. CASE held[h] = "no" /\ (missed \/ stale)
    <3>1. held'[h] = "late"
      BY <1>0, <1>1, <1>2, <2>2
    <3>. QED BY <3>1 DEF HeldRight
  <2>3. CASE ~missed /\ ~stale
    BY <2>3 DEF HeldRight
  <2>. QED BY <2>1, <2>2, <2>3
<1>. QED BY <1>3, <1>4, <1>5

(* Nothing but disclosures moves, and perhaps what relying parties hold.   *)
LEMMA OnlyDisc ==
    ASSUME Tracked, UNCHANGED <<entry, tomb, rev>>
    PROVE  /\ OnlyAhead
           /\ \A k \in Handles : EntryRight(k)'
           /\ \A r \in Revokers : RevRight(rev[r])'
<1>1. OnlyAhead
  BY DEF OnlyAhead
<1>2. \A k \in Handles : EntryRight(k)'
  BY DEF Tracked, EntryPart, EntryRight
<1>. QED BY <1>1, <1>2, RevStays

-----------------------------------------------------------------------------
(* The steps of a disclosure.                                              *)
LEMMA StartTracked ==
    ASSUME Tracked, NEW d \in Disclosers, NEW a \in Anchors, NEW c \in Clients,
           DiscloseStart(d, a, c)
    PROVE  Tracked'
<1>0. PICK z \in BOOLEAN : z = (a \in tomb)
  <2>1. CASE a \in tomb
    <3>1. TRUE = (a \in tomb)
      BY <2>1, Zenon
    <3>. QED BY <3>1, Zenon
  <2>2. CASE a \notin tomb
    <3>1. FALSE = (a \in tomb)
      BY <2>2, SMT
    <3>. QED BY <3>1, Zenon
  <2>. QED BY <2>1, <2>2
<1>. PICK q : q = [IdleDisc EXCEPT !.pc = "find", !.anchor = a, !.client = c,
                                   !.late = z] OBVIOUS
<1>1. q \in DiscType /\ q.pc = "find" /\ q.anchor = a /\ q.client = c /\ q.late = z
  BY BlankTypes DEF DiscType, IdleDisc
<1>2. UNCHANGED <<entry, tomb, list, rev, pub, latch, time, held>>
      /\ disc' = [disc EXCEPT ![d] = q]
  BY <1>0, Zenon DEF DiscloseStart
<1>3. /\ OnlyAhead /\ \A k \in Handles : EntryRight(k)'
      /\ \A r \in Revokers : RevRight(rev[r])'
  BY <1>2, OnlyDisc
<1>4. DiscRight(q)'
  BY <1>0, <1>1, <1>2 DEF DiscRight
<1>5. /\ disc' \in [Disclosers -> DiscType]
      /\ \A e \in Disclosers : DiscRight(disc[e])'
  BY <1>1, <1>2, <1>3, <1>4, DiscMoves
<1>6. \A k \in Handles : HeldRight(k)'
  BY <1>2, <1>3, HeldStays
<1>7. StatusTypeOK'
  BY <1>2, <1>5 DEF Tracked, StatusTypeOK
<1>. QED BY <1>3, <1>5, <1>6, <1>7, TrackedParts

(* A step that moves one disclosure and writes no handle.                  *)
LEMMA DiscOnly ==
    ASSUME Tracked, NEW d \in Disclosers, NEW q \in DiscType,
           disc' = [disc EXCEPT ![d] = q], DiscRight(q)',
           UNCHANGED <<entry, tomb, rev, pub, latch, time>>,
           list' \in [Lists -> ListType],
           held' \in [Handles -> {"no", "yes", "late"}],
           \A k \in Handles : HeldRight(k)'
    PROVE  Tracked'
<1>1. /\ OnlyAhead /\ \A k \in Handles : EntryRight(k)'
      /\ \A r \in Revokers : RevRight(rev[r])'
  BY OnlyDisc
<1>2. /\ disc' \in [Disclosers -> DiscType]
      /\ \A e \in Disclosers : DiscRight(disc[e])'
  BY <1>1, DiscMoves
<1>3. StatusTypeOK'
  BY <1>2 DEF Tracked, StatusTypeOK, Handles
<1>. QED BY <1>1, <1>2, <1>3, TrackedParts

(* What relying parties hold, where nothing is handed over.                *)
LEMMA HeldSame ==
    ASSUME Tracked, UNCHANGED <<entry, tomb, rev, held>>
    PROVE  /\ held' \in [Handles -> {"no", "yes", "late"}]
           /\ \A k \in Handles : HeldRight(k)'
<1>1. OnlyAhead
  BY DEF OnlyAhead
<1>2. held' \in [Handles -> {"no", "yes", "late"}]
  BY DEF Tracked, StatusTypeOK, Handles
<1>. QED BY <1>1, <1>2, HeldStays

LEMMA FindTracked ==
    ASSUME Tracked, NEW d \in Disclosers, FindExisting(d)
    PROVE  Tracked'
<1>0. /\ disc[d].pc = "find" /\ disc[d] \in DiscType /\ Key(d) \in Handles
      /\ DiscRight(disc[d]) /\ Key(d) = <<disc[d].anchor, disc[d].client>>
      /\ list' \in [Lists -> ListType]
      /\ UNCHANGED <<entry, tomb, list, rev, pub, latch, time>>
  BY KeyIsHandle DEF FindExisting, Tracked, DiscPart, Key, StatusTypeOK
<1>1. CASE /\ disc' = [disc EXCEPT ![d].pc = "shard"] /\ UNCHANGED held
  <2>. PICK q : q = [disc[d] EXCEPT !.pc = "shard"] OBVIOUS
  <2>1. disc' = [disc EXCEPT ![d] = q]
    BY <1>1 DEF Tracked, StatusTypeOK
  <2>2. q \in DiscType /\ DiscRight(q)'
    BY <1>0 DEF DiscType, DiscRight
  <2>. QED BY <1>0, <1>1, <2>1, <2>2, HeldSame, DiscOnly
<1>2. CASE /\ entry[Key(d)] # NoEntry /\ disc[d].late
           /\ disc' = [disc EXCEPT ![d].pc = "force"] /\ UNCHANGED held
  <2>. PICK q : q = [disc[d] EXCEPT !.pc = "force"] OBVIOUS
  <2>1. disc' = [disc EXCEPT ![d] = q]
    BY <1>2 DEF Tracked, StatusTypeOK
  <2>2. entry[Key(d)].state # "none"
    BY <1>0, <1>2 DEF Tracked, EntryPart, EntryRight
  <2>3. q \in DiscType /\ DiscRight(q)'
    BY <1>0, <1>2, <2>2 DEF DiscType, DiscRight
  <2>. QED BY <1>0, <1>2, <2>1, <2>3, HeldSame, DiscOnly
<1>3. CASE /\ entry[Key(d)] # NoEntry
           /\ disc' = [disc EXCEPT ![d] = IdleDisc]
           /\ HandOver(d, disc[d].anchor \in tomb)
  <2>1. entry[Key(d)].state # "none"
    BY <1>0, <1>3 DEF Tracked, EntryPart, EntryRight
  <2>2. OnlyAhead
    BY <1>0 DEF OnlyAhead
  <2>. DEFINE stale == disc[d].anchor \in tomb
  <2>3. HandOver(d, stale) /\ (Key(d)[1] \in tomb => stale)
    BY <1>0, <1>3
  <2>. HIDE DEF stale
  <2>4. /\ held' \in [Handles -> {"no", "yes", "late"}]
        /\ \A k \in Handles : HeldRight(k)'
    BY <1>0, <2>1, <2>2, <2>3, HandOverRight
  <2>5. DiscRight(IdleDisc)' /\ IdleDisc \in DiscType
    BY BlankTypes DEF DiscRight, IdleDisc
  <2>. QED BY <1>0, <1>3, <2>4, <2>5, DiscOnly
<1>. QED BY <1>1, <1>2, <1>3 DEF FindExisting

(* Opening a shard keeps the lists' type.                                  *)
LEMMA OpenShardType ==
    ASSUME StatusTypeOK, NEW l \in Lists
    PROVE  OpenShard(l) \in [Lists -> ListType]
<1>1. [NoList EXCEPT !.exists = TRUE, !.at = time] \in ListType
  BY BlankTypes DEF StatusTypeOK, ListType
<1>. QED BY <1>1 DEF OpenShard, StatusTypeOK

LEMMA ChooseTracked ==
    ASSUME Tracked, NEW d \in Disclosers, ChooseShard(d)
    PROVE  Tracked'
<1>0. /\ disc[d].pc = "shard" /\ disc[d] \in DiscType /\ disc[d].client \in Clients
      /\ DiscRight(disc[d])
      /\ UNCHANGED <<entry, tomb, rev, pub, latch, time, held>>
  BY KeyIsHandle DEF ChooseShard, Tracked, DiscPart
<1>1. PICK n \in 0..MaxShard : /\ list' = OpenShard(<<disc[d].client, n>>)
                               /\ disc' = [disc EXCEPT ![d].pc = "create", ![d].shard = n]
  BY DEF ChooseShard
<1>. PICK q : q = [disc[d] EXCEPT !.pc = "create", !.shard = n] OBVIOUS
<1>2. disc' = [disc EXCEPT ![d] = q]
  BY <1>1 DEF Tracked, StatusTypeOK
<1>3. q \in DiscType /\ DiscRight(q)'
  BY <1>0 DEF DiscType, DiscRight
<1>4. list' \in [Lists -> ListType]
  BY <1>0, <1>1, OpenShardType DEF Tracked, Lists
<1>. QED BY <1>0, <1>2, <1>3, <1>4, HeldSame, DiscOnly

(* One handle is written, and is there afterwards.                         *)
LEMMA EntryWritten ==
    ASSUME Tracked, NEW h \in Handles, NEW e \in EntryType,
           entry' = [entry EXCEPT ![h] = e], UNCHANGED <<tomb, rev>>,
           e.state # "none", e.state = "revoked" => h[1] \in tomb,
           entry[h].state = "revoked" => e.state = "revoked"
    PROVE  /\ OnlyAhead /\ entry' \in [Handles -> EntryType]
           /\ \A k \in Handles : EntryRight(k)'
           /\ \A r \in Revokers : RevRight(rev[r])'
<1>1. entry \in [Handles -> EntryType]
  BY DEF Tracked, StatusTypeOK, Handles
<1>2. entry' \in [Handles -> EntryType] /\ entry'[h] = e
      /\ \A k \in Handles : k # h => entry'[k] = entry[k]
  BY <1>1
<1>3. OnlyAhead
  BY <1>2 DEF OnlyAhead
<1>4. \A k \in Handles : EntryRight(k)'
  BY <1>2 DEF Tracked, EntryPart, EntryRight
<1>. QED BY <1>2, <1>3, <1>4, RevStays

LEMMA CreateTracked ==
    ASSUME Tracked, NEW d \in Disclosers, CreateEntry(d)
    PROVE  Tracked'
<1>0. /\ disc[d].pc = "create" /\ disc[d] \in DiscType /\ Key(d) \in Handles
      /\ DiscRight(disc[d]) /\ Key(d) = <<disc[d].anchor, disc[d].client>>
      /\ disc[d].client \in Clients
      /\ UNCHANGED <<tomb, rev, pub, latch, time, held>>
  BY KeyIsHandle DEF CreateEntry, Tracked, DiscPart, Key
<1>. PICK q : q = [disc[d] EXCEPT !.pc = "recheck"] OBVIOUS
<1>a. q \in DiscType /\ q.pc = "recheck" /\ q.anchor = disc[d].anchor
      /\ q.client = disc[d].client /\ q.late = disc[d].late
  BY <1>0 DEF DiscType
<1>1. CASE /\ entry[Key(d)] = NoEntry
           /\ \E b \in Bits \ Taken(Shard(d)) :
                entry' = [entry EXCEPT ![Key(d)] = NewEntry(d, b)]
           /\ disc' = [disc EXCEPT ![d].pc = "recheck"]
           /\ UNCHANGED list
  <2>1. PICK b \in Bits : entry' = [entry EXCEPT ![Key(d)] = NewEntry(d, b)]
    BY <1>1
  <2>. PICK e : e = NewEntry(d, b) OBVIOUS
  <2>. PICK h : h = Key(d) OBVIOUS
  <2>2. Shard(d) \in Lists /\ time \in 0..MaxTime /\ 0 \in 0..MaxTime
    BY <1>0, StatusConstants DEF Tracked, StatusTypeOK, Shard, Lists, DiscType
  <2>3. e \in EntryType /\ e.state # "none" /\ (e.state = "revoked" => disc[d].late)
    <3>1. CASE disc[d].late
      BY <2>2, <3>1 DEF NewEntry, EntryType
    <3>2. CASE ~disc[d].late
      BY <2>2, <3>2 DEF NewEntry, EntryType
    <3>. QED BY <3>1, <3>2
  <2>4. h[1] = disc[d].anchor /\ h \in Handles
        /\ (disc[d].late => disc[d].anchor \in tomb)
    BY <1>0 DEF DiscRight
  <2>5. entry[h].state # "revoked"
    BY <1>1 DEF NoEntry
  <2>6. entry' = [entry EXCEPT ![h] = e]
    BY <2>1
  <2>7. /\ OnlyAhead /\ entry' \in [Handles -> EntryType]
        /\ \A k \in Handles : EntryRight(k)'
        /\ \A r \in Revokers : RevRight(rev[r])'
    BY <1>0, <2>3, <2>4, <2>5, <2>6, EntryWritten
  <2>8. entry'[h] = e
    BY <2>4, <2>6 DEF Tracked, StatusTypeOK, Handles
  <2>9. DiscRight(q)'
    BY <1>0, <1>a, <2>3, <2>8 DEF DiscRight
  <2>10. disc' = [disc EXCEPT ![d] = q]
    BY <1>1 DEF Tracked, StatusTypeOK
  <2>11. /\ disc' \in [Disclosers -> DiscType]
         /\ \A x \in Disclosers : DiscRight(disc[x])'
    BY <1>a, <2>7, <2>9, <2>10, DiscMoves
  <2>12. \A k \in Handles : HeldRight(k)'
    BY <1>0, <2>7, HeldStays
  <2>13. StatusTypeOK'
    BY <1>0, <1>1, <2>7, <2>11 DEF Tracked, StatusTypeOK, Handles
  <2>. QED BY <2>7, <2>11, <2>12, <2>13, TrackedParts
<1>2. CASE /\ entry[Key(d)] # NoEntry
           /\ disc' = [disc EXCEPT ![d].pc = "recheck"]
           /\ UNCHANGED <<entry, list>>
  <2>1. entry[Key(d)].state # "none"
    BY <1>0, <1>2 DEF Tracked, EntryPart, EntryRight
  <2>2. DiscRight(q)'
    BY <1>0, <1>2, <1>a, <2>1 DEF DiscRight
  <2>3. disc' = [disc EXCEPT ![d] = q] /\ list' \in [Lists -> ListType]
    BY <1>2 DEF Tracked, StatusTypeOK
  <2>. QED BY <1>0, <1>2, <1>a, <2>2, <2>3, HeldSame, DiscOnly
<1>3. CASE /\ disc[d].shard < MaxShard
           /\ list' = OpenShard(<<disc[d].client, disc[d].shard + 1>>)
           /\ disc' = [disc EXCEPT ![d].shard = @ + 1, ![d].rolled = TRUE]
           /\ UNCHANGED entry
  <2>1. PICK n \in 0..MaxShard : n = disc[d].shard + 1
    BY <1>0, <1>3, StatusConstants DEF DiscType
  <2>. PICK s : s = [disc[d] EXCEPT !.shard = n, !.rolled = TRUE] OBVIOUS
  <2>2. s \in DiscType /\ DiscRight(s)'
    BY <1>0 DEF DiscType, DiscRight
  <2>3. disc' = [disc EXCEPT ![d] = s]
    BY <1>3, <2>1 DEF Tracked, StatusTypeOK
  <2>4. list' \in [Lists -> ListType]
    BY <1>0, <1>3, <2>1, OpenShardType DEF Tracked, Lists
  <2>. QED BY <1>0, <1>3, <2>2, <2>3, <2>4, HeldSame, DiscOnly
<1>. QED BY <1>1, <1>2, <1>3 DEF CreateEntry

LEMMA RecheckTracked ==
    ASSUME Tracked, NEW d \in Disclosers, Recheck(d)
    PROVE  Tracked'
<1>0. /\ disc[d].pc = "recheck" /\ disc[d] \in DiscType /\ Key(d) \in Handles
      /\ DiscRight(disc[d]) /\ Key(d) = <<disc[d].anchor, disc[d].client>>
      /\ list' \in [Lists -> ListType]
      /\ UNCHANGED <<entry, tomb, list, rev, pub, latch, time>>
  BY KeyIsHandle DEF Recheck, Tracked, DiscPart, Key, StatusTypeOK
<1>1. CASE disc[d].late \/ disc[d].anchor \in tomb
  <2>. PICK q : q = [disc[d] EXCEPT !.pc = "force"] OBVIOUS
  <2>1. disc' = [disc EXCEPT ![d] = q] /\ UNCHANGED held
    BY <1>1 DEF Tracked, StatusTypeOK, Recheck
  <2>2. q \in DiscType /\ DiscRight(q)'
    BY <1>0, <1>1 DEF DiscType, DiscRight
  <2>. QED BY <1>0, <2>1, <2>2, HeldSame, DiscOnly
<1>2. CASE ~(disc[d].late \/ disc[d].anchor \in tomb)
  <2>1. HandOver(d, FALSE) /\ disc' = [disc EXCEPT ![d] = IdleDisc]
    BY <1>2 DEF Recheck
  <2>2. entry'[Key(d)].state # "none" /\ Key(d)[1] \notin tomb
    BY <1>0, <1>2 DEF DiscRight
  <2>3. OnlyAhead
    BY <1>0 DEF OnlyAhead
  <2>4. /\ held' \in [Handles -> {"no", "yes", "late"}]
        /\ \A k \in Handles : HeldRight(k)'
    BY <1>0, <2>1, <2>2, <2>3, HandOverRight
  <2>5. DiscRight(IdleDisc)' /\ IdleDisc \in DiscType
    BY BlankTypes DEF DiscRight, IdleDisc
  <2>. QED BY <1>0, <2>1, <2>4, <2>5, DiscOnly
<1>. QED BY <1>1, <1>2

LEMMA ForceTracked ==
    ASSUME Tracked, NEW d \in Disclosers, ForceRevoke(d)
    PROVE  Tracked'
<1>0. /\ disc[d].pc = "force" /\ disc[d] \in DiscType /\ Key(d) \in Handles
      /\ DiscRight(disc[d]) /\ Key(d) = <<disc[d].anchor, disc[d].client>>
      /\ UNCHANGED <<tomb, list, rev, pub, latch, time>>
      /\ disc' = [disc EXCEPT ![d] = IdleDisc] /\ HandOver(d, FALSE)
  BY KeyIsHandle DEF ForceRevoke, Tracked, DiscPart, Key
<1>. PICK h : h = Key(d) OBVIOUS
<1>1. PICK e : e = IF entry[h].state = "clear"
                     THEN [entry[h] EXCEPT !.state = "revoked", !.reveal = time]
                     ELSE entry[h]
  OBVIOUS
<1>2. entry \in [Handles -> EntryType] /\ entry[h] \in EntryType /\ time \in 0..MaxTime
  BY <1>0 DEF Tracked, StatusTypeOK, Handles
<1>3. entry' = [entry EXCEPT ![h] = e] /\ entry'[h] = e
  BY <1>0, <1>1, <1>2 DEF ForceRevoke
<1>4. e \in EntryType /\ e.state = "revoked"
  <2>1. CASE entry[h].state = "clear"
    <3>1. e = [entry[h] EXCEPT !.state = "revoked", !.reveal = time]
      BY <1>1, <2>1
    <3>. QED BY <1>2, <3>1 DEF EntryType
  <2>2. CASE entry[h].state # "clear"
    <3>1. entry[h].state = "revoked"
      BY <1>0, <1>2, <2>2 DEF DiscRight, EntryType
    <3>. QED BY <1>1, <1>2, <2>2, <3>1
  <2>. QED BY <2>1, <2>2
<1>5. h[1] \in tomb
  BY <1>0 DEF DiscRight
<1>6. /\ OnlyAhead /\ entry' \in [Handles -> EntryType]
      /\ \A k \in Handles : EntryRight(k)'
      /\ \A r \in Revokers : RevRight(rev[r])'
  BY <1>0, <1>3, <1>4, <1>5, EntryWritten
<1>7. entry'[Key(d)].state = "revoked"
  BY <1>3, <1>4
<1>8. /\ held' \in [Handles -> {"no", "yes", "late"}]
      /\ \A k \in Handles : HeldRight(k)'
  BY <1>0, <1>6, <1>7, HandOverRight
<1>9. DiscRight(IdleDisc)' /\ IdleDisc \in DiscType
  BY BlankTypes DEF DiscRight, IdleDisc
<1>10. /\ disc' \in [Disclosers -> DiscType]
       /\ \A x \in Disclosers : DiscRight(disc[x])'
  BY <1>0, <1>6, <1>9, DiscMoves
<1>11. StatusTypeOK'
  BY <1>0, <1>6, <1>8, <1>10 DEF Tracked, StatusTypeOK, Handles
<1>. QED BY <1>6, <1>8, <1>10, <1>11, TrackedParts

LEMMA FailsTracked ==
    ASSUME Tracked, NEW d \in Disclosers, DiscloseFails(d)
    PROVE  Tracked'
<1>1. /\ disc' = [disc EXCEPT ![d] = IdleDisc] /\ list' \in [Lists -> ListType]
      /\ UNCHANGED <<entry, tomb, list, held, rev, pub, latch, time>>
  BY DEF DiscloseFails, Tracked, StatusTypeOK
<1>2. DiscRight(IdleDisc)' /\ IdleDisc \in DiscType
  BY BlankTypes DEF DiscRight, IdleDisc
<1>. QED BY <1>1, <1>2, HeldSame, DiscOnly

LEMMA DisclosureTracked ==
    ASSUME Tracked, NEW d \in Disclosers, Disclosure(d)
    PROVE  Tracked'
  BY FindTracked, ChooseTracked, CreateTracked, RecheckTracked, ForceTracked,
     FailsTracked DEF Disclosure

-----------------------------------------------------------------------------
(* The steps of a revoking transaction.                                    *)

(* A transaction that moves, and is right where it stands then.            *)
LEMMA RevMoves ==
    ASSUME Tracked, OnlyAhead, NEW r \in Revokers, NEW v \in RevType,
           rev' = [rev EXCEPT ![r] = v], RevRight(v)'
    PROVE  /\ rev' \in [Revokers -> RevType]
           /\ \A x \in Revokers : RevRight(rev[x])'
<1>1. rev' \in [Revokers -> RevType] /\ rev'[r] = v
  BY DEF Tracked, StatusTypeOK
<1>2. ASSUME NEW x \in Revokers, x # r PROVE RevRight(rev[x])'
  <2>1. rev'[x] = rev[x]
    BY <1>2
  <2>. QED BY <2>1, RevStays
<1>3. RevRight(rev[r])'
  BY <1>1 DEF RevRight
<1>. QED BY <1>1, <1>2, <1>3

LEMMA ScanTracked ==
    ASSUME Tracked, NEW r \in Revokers, NEW as \in SUBSET Anchors, RevokeScan(r, as)
    PROVE  Tracked'
<1>. PICK v : v = [pc |-> "scanned", anchors |-> as,
                   seen |-> {k \in as \X Clients : entry[k].state = "clear"}] OBVIOUS
<1>1. rev' = [rev EXCEPT ![r] = v]
      /\ UNCHANGED <<entry, tomb, list, disc, pub, latch, time, held>>
  BY DEF RevokeScan
<1>2. OnlyAhead
  BY <1>1 DEF OnlyAhead
<1>3. v \in RevType /\ v.anchors = as
      /\ v.seen = {k \in as \X Clients : entry[k].state = "clear"}
  BY DEF RevType
<1>4. RevRight(v)'
  BY <1>1, <1>3 DEF RevRight
<1>5. /\ rev' \in [Revokers -> RevType]
      /\ \A x \in Revokers : RevRight(rev[x])'
  BY <1>1, <1>2, <1>3, <1>4, RevMoves
<1>6. \A d \in Disclosers : DiscRight(disc[d])'
  BY <1>1, <1>2, DiscStays
<1>7. \A k \in Handles : EntryRight(k)'
  BY <1>1 DEF Tracked, EntryPart, EntryRight
<1>8. ASSUME NEW k \in Handles PROVE HeldRight(k)'
  <2>1. rev'[r] = v /\ \A x \in Revokers : x # r => rev'[x] = rev[x]
    BY <1>1 DEF Tracked, StatusTypeOK
  <2>2. entry[k] \in EntryType /\ HeldRight(k)
    BY DEF Tracked, HeldPart, StatusTypeOK, Handles
  <2>3. k[1] \in as /\ entry[k].state = "clear" => k \in v.seen
    BY <1>3 DEF Handles
  <2>. QED BY <1>1, <1>3, <2>1, <2>2, <2>3 DEF HeldRight, EntryType
<1>9. StatusTypeOK'
  BY <1>1, <1>5 DEF Tracked, StatusTypeOK
<1>. QED BY <1>5, <1>6, <1>7, <1>8, <1>9, TrackedParts

(* What a commit leaves of the handles.                                    *)
LEMMA CommitEntries ==
    ASSUME Tracked, NEW r \in Revokers, RevokeCommit(r)
    PROVE  /\ entry' \in [Handles -> EntryType]
           /\ \A k \in Handles : k \notin rev[r].seen => entry'[k] = entry[k]
           /\ \A k \in rev[r].seen : /\ k \in Handles /\ entry'[k].state = "revoked"
                                     /\ k[1] \in rev[r].anchors
<1>1. PICK delay \in [rev[r].seen -> 0..JitterMax] :
         /\ \A k \in rev[r].seen : time + delay[k] <= MaxTime
         /\ entry' = [k \in DOMAIN entry |->
                        IF k \in rev[r].seen
                          THEN [entry[k] EXCEPT !.state = "revoked",
                                                !.reveal = time + delay[k]]
                          ELSE entry[k]]
  BY DEF RevokeCommit
<1>2. entry \in [Handles -> EntryType] /\ DOMAIN entry = Handles /\ time \in 0..MaxTime
      /\ rev[r] \in RevType /\ RevRight(rev[r]) /\ rev[r].seen \subseteq Handles
  BY DEF Tracked, StatusTypeOK, Handles, RevPart, RevType
<1>3. ASSUME NEW k \in rev[r].seen
      PROVE  /\ k \in Handles /\ entry'[k] \in EntryType
             /\ entry'[k].state = "revoked" /\ k[1] \in rev[r].anchors
  <2>1. k \in Handles /\ k[1] \in rev[r].anchors
    BY <1>2 DEF RevRight
  <2>2. PICK f \in 0..MaxTime : f = time + delay[k]
    <3>1. delay[k] \in 0..JitterMax
      OBVIOUS
    <3>2. JitterMax \in Nat /\ MaxTime \in Nat
      BY StatusConstants
    <3>3. time + delay[k] <= MaxTime
      BY <1>1
    <3>. QED BY <1>2, <3>1, <3>2, <3>3
  <2>3. entry'[k] = [entry[k] EXCEPT !.state = "revoked", !.reveal = f]
    BY <1>1, <1>2, <2>1, <2>2
  <2>4. entry[k] \in EntryType
    BY <1>2, <2>1
  <2>. QED BY <2>1, <2>3, <2>4 DEF EntryType
<1>4. \A k \in Handles : k \notin rev[r].seen => entry'[k] = entry[k]
  BY <1>1, <1>2
<1>5. entry' \in [Handles -> EntryType]
  <2>1. entry' = [k \in Handles |-> entry'[k]]
    BY <1>1, <1>2
  <2>2. \A k \in Handles : entry'[k] \in EntryType
    BY <1>2, <1>3, <1>4
  <2>. QED BY <2>1, <2>2
<1>. QED BY <1>3, <1>4, <1>5

LEMMA CommitTracked ==
    ASSUME Tracked, NEW r \in Revokers, RevokeCommit(r)
    PROVE  Tracked'
<1>1. /\ tomb' = tomb \cup rev[r].anchors /\ rev' = [rev EXCEPT ![r] = IdleRev]
      /\ UNCHANGED <<list, disc, pub, latch, time, held>>
  BY DEF RevokeCommit
<1>2. /\ entry' \in [Handles -> EntryType]
      /\ \A k \in Handles : k \notin rev[r].seen => entry'[k] = entry[k]
      /\ \A k \in rev[r].seen : /\ k \in Handles /\ entry'[k].state = "revoked"
                                /\ k[1] \in rev[r].anchors
  BY CommitEntries
<1>3. OnlyAhead
  BY <1>1, <1>2 DEF OnlyAhead
<1>4. RevRight(IdleRev)' /\ IdleRev \in RevType
  BY BlankTypes DEF RevRight, IdleRev
<1>5. /\ rev' \in [Revokers -> RevType]
      /\ \A x \in Revokers : RevRight(rev[x])'
  BY <1>1, <1>3, <1>4, RevMoves
<1>6. \A d \in Disclosers : DiscRight(disc[d])'
  BY <1>1, <1>3, DiscStays
<1>7. \A k \in Handles : EntryRight(k)'
  BY <1>1, <1>2 DEF Tracked, EntryPart, EntryRight
<1>8. ASSUME NEW k \in Handles PROVE HeldRight(k)'
  <2>1. rev'[r] = IdleRev /\ \A x \in Revokers : x # r => rev'[x] = rev[x]
    BY <1>1 DEF Tracked, StatusTypeOK
  <2>2. HeldRight(k) /\ (entry[k].state = "revoked" => entry'[k].state = "revoked")
    BY <1>3 DEF Tracked, HeldPart, OnlyAhead
  <2>3. IdleRev.anchors = {}
    BY DEF IdleRev
  <2>4. entry[k].state # "none" => entry'[k].state # "none"
    BY <1>3 DEF OnlyAhead
  <2>. QED BY <1>1, <1>2, <2>1, <2>2, <2>3, <2>4 DEF HeldRight
<1>9. tomb' \subseteq Anchors
  BY <1>1 DEF Tracked, StatusTypeOK, RevType
<1>10. StatusTypeOK'
  BY <1>1, <1>2, <1>5, <1>9 DEF Tracked, StatusTypeOK, Handles
<1>. QED BY <1>5, <1>6, <1>7, <1>8, <1>10, TrackedParts

(* A transaction that is rolled back.                                      *)
LEMMA RollbackTracked ==
    ASSUME Tracked, NEW r \in Revokers, rev' = [rev EXCEPT ![r] = IdleRev],
           UNCHANGED <<entry, tomb, list, held, disc, pub, latch, time>>
    PROVE  Tracked'
<1>1. OnlyAhead
  BY DEF OnlyAhead
<1>2. RevRight(IdleRev)' /\ IdleRev \in RevType
  BY BlankTypes DEF RevRight, IdleRev
<1>3. /\ rev' \in [Revokers -> RevType]
      /\ \A x \in Revokers : RevRight(rev[x])'
  BY <1>1, <1>2, RevMoves
<1>4. \A d \in Disclosers : DiscRight(disc[d])'
  BY <1>1, DiscStays
<1>5. \A k \in Handles : EntryRight(k)'
  BY DEF Tracked, EntryPart, EntryRight
<1>6. ASSUME NEW k \in Handles PROVE HeldRight(k)'
  <2>1. rev'[r] = IdleRev /\ \A x \in Revokers : x # r => rev'[x] = rev[x]
    BY DEF Tracked, StatusTypeOK
  <2>2. IdleRev.anchors = {}
    BY DEF IdleRev
  <2>. QED BY <2>1, <2>2 DEF Tracked, HeldPart, HeldRight
<1>7. StatusTypeOK'
  BY <1>3 DEF Tracked, StatusTypeOK
<1>. QED BY <1>3, <1>4, <1>5, <1>6, <1>7, TrackedParts

(* A step of a publisher or of the clock, which touches neither handles    *)
(* nor tombstones.                                                         *)
LEMMA PublishTracked ==
    ASSUME Tracked, UNCHANGED <<entry, tomb, held, disc, rev>>,
           list' \in [Lists -> ListType], pub' \in [Workers -> PubType],
           latch' \in Workers \cup {None}, time' \in 0..MaxTime
    PROVE  Tracked'
<1>1. OnlyAhead
  BY DEF OnlyAhead
<1>2. \A d \in Disclosers : DiscRight(disc[d])'
  BY <1>1, DiscStays
<1>3. /\ \A k \in Handles : EntryRight(k)'
      /\ \A r \in Revokers : RevRight(rev[r])'
  BY OnlyDisc
<1>4. \A k \in Handles : HeldRight(k)'
  BY HeldSame
<1>5. StatusTypeOK'
  BY DEF Tracked, StatusTypeOK
<1>. QED BY <1>2, <1>3, <1>4, <1>5, TrackedParts

(* What relying parties hold is revoked with its anchor.                   *)
LEMMA TrackedHeld == Tracked => HeldIsRevoked
  BY DEF Tracked, HeldPart, HeldRight, HeldIsRevoked, Handles

-----------------------------------------------------------------------------
(* The published lists.                                                    *)

(* Every one of the bits belongs to a handle of the list that is revoked   *)
(* and whose floor has passed by then.                                     *)
RevokedBy(l, bits, t) ==
    \A b \in bits : \E k \in Handles :
        /\ entry[k].list = l /\ entry[k].bit = b
        /\ entry[k].state = "revoked" /\ entry[k].reveal <= t

(* The bits and the version of a row are those of its signature; a list    *)
(* that was never opened is blank.                                         *)
ListRight(l) ==
    /\ list[l].bits = list[l].jwt.bits
    /\ list[l].version = list[l].jwt.version
    /\ ~list[l].exists => list[l] = NoList
    /\ RevokedBy(l, list[l].bits, time)

ListPart == \A l \in Lists : ListRight(l)

(* A row a publisher has read is the list's or an older one, and what it   *)
(* signed goes beyond what it read.                                        *)
PubRight(w) ==
    /\ w.now <= time
    /\ \A l \in w.todo : list[l].exists
    /\ w.pc \in {"row", "signed", "again"} => w.list \in Lists /\ list[w.list].exists
    /\ w.pc \in {"row", "signed"} =>
         /\ w.row.version <= list[w.list].version
         /\ w.row.version = list[w.list].version => w.row.bits = list[w.list].bits
         /\ RevokedBy(w.list, w.row.bits, time)
    /\ w.pc = "signed" =>
         /\ RevokedBy(w.list, w.row.jwt.bits, time)
         /\ w.row.bits \subseteq w.row.jwt.bits
         /\ w.row.version < w.row.jwt.version

PubPart == \A p \in Workers : PubRight(pub[p])

(* Transactions under way revoke anchors that have no tombstone yet, each  *)
(* its own, and what they have seen is still clear: two of them, or one    *)
(* and a disclosure, never revoke the same handle.                         *)
ScanPart ==
    \A r \in Revokers :
        /\ rev[r].anchors \cap tomb = {}
        /\ \A k \in rev[r].seen : entry[k].state = "clear"
        /\ \A s \in Revokers : s # r => rev[r].anchors \cap rev[s].anchors = {}

PublishedInv == Tracked /\ ListPart /\ PubPart /\ ScanPart

(* A revoked handle is never written again.                                *)
RevokedStays ==
    /\ time <= time' /\ time' \in 0..MaxTime
    /\ \A k \in Handles : entry[k].state = "revoked" => entry'[k] = entry[k]

LEMMA RevokedByStays ==
    ASSUME Tracked, RevokedStays, NEW l, NEW bits, RevokedBy(l, bits, time)
    PROVE  RevokedBy(l, bits, time)'
<1>. SUFFICES ASSUME NEW b \in bits
              PROVE  \E k \in Handles :
                        /\ entry'[k].list = l /\ entry'[k].bit = b
                        /\ entry'[k].state = "revoked" /\ entry'[k].reveal <= time'
  BY DEF RevokedBy
<1>1. PICK k \in Handles : /\ entry[k].list = l /\ entry[k].bit = b
                           /\ entry[k].state = "revoked" /\ entry[k].reveal <= time
  BY DEF RevokedBy
<1>2. entry[k] \in EntryType /\ time \in 0..MaxTime
  BY DEF Tracked, StatusTypeOK, Handles
<1>3. entry[k].reveal \in Nat /\ time \in Nat /\ time' \in Nat
  BY <1>2, StatusConstants DEF EntryType, RevokedStays
<1>4. entry'[k] = entry[k] /\ time <= time'
  BY <1>1 DEF RevokedStays
<1>. QED BY <1>1, <1>3, <1>4

(* The lists are as they were but for ones that were opened.               *)
OnlyOpened ==
    \A l \in Lists : /\ list'[l].version = list[l].version
                     /\ list'[l].bits = list[l].bits
                     /\ list'[l].jwt = list[l].jwt
                     /\ list[l].exists => list'[l].exists
                     /\ ~list'[l].exists => list'[l] = list[l]

LEMMA OpenOnly ==
    ASSUME PublishedInv, NEW l \in Lists, list' = OpenShard(l)
    PROVE  OnlyOpened
<1>1. list \in [Lists -> ListType]
  BY DEF PublishedInv, Tracked, StatusTypeOK
<1>2. \A m \in Lists : m # l => list'[m] = list[m]
  BY <1>1 DEF OpenShard
<1>3. CASE list[l].exists
  <2>1. list'[l] = list[l]
    BY <1>1, <1>3 DEF OpenShard
  <2>. QED BY <1>2, <2>1 DEF OnlyOpened
<1>4. CASE ~list[l].exists
  <2>1. list[l] = NoList
    BY <1>4 DEF PublishedInv, ListPart, ListRight
  <2>2. list'[l] = [NoList EXCEPT !.exists = TRUE, !.at = time]
    BY <1>1, <1>4 DEF OpenShard
  <2>3. /\ list'[l].version = 0 /\ list'[l].bits = {} /\ list'[l].jwt = NoJwt
        /\ list'[l].exists
    BY <2>2 DEF NoList
  <2>4. list[l].version = 0 /\ list[l].bits = {} /\ list[l].jwt = NoJwt
    BY <2>1 DEF NoList
  <2>. QED BY <1>2, <1>4, <2>3, <2>4 DEF OnlyOpened
<1>. QED BY <1>3, <1>4

(* A publisher that did not move is still right while lists are opened.    *)
LEMMA PubStays ==
    ASSUME PublishedInv, RevokedStays, OnlyOpened, NEW w \in PubType, PubRight(w)
    PROVE  PubRight(w)'
<1>1. time \in 0..MaxTime /\ w.now \in 0..MaxTime /\ w.todo \subseteq Lists
  BY DEF PublishedInv, Tracked, StatusTypeOK, PubType
<1>2. time \in Nat /\ time' \in Nat /\ w.now \in Nat /\ time <= time'
  BY <1>1, StatusConstants DEF RevokedStays
<1>3. w.now <= time'
  BY <1>2 DEF PubRight
<1>4. \A l \in w.todo : list'[l].exists
  BY <1>1 DEF PubRight, OnlyOpened
<1>5. w.pc \in {"row", "signed", "again"} => w.list \in Lists /\ list'[w.list].exists
  BY DEF PubRight, OnlyOpened
<1>6. w.pc \in {"row", "signed"} =>
         /\ w.row.version <= list'[w.list].version
         /\ w.row.version = list'[w.list].version => w.row.bits = list'[w.list].bits
  BY DEF PubRight, OnlyOpened
<1>7. w.pc \in {"row", "signed"} => RevokedBy(w.list, w.row.bits, time)'
  <2>. SUFFICES ASSUME w.pc \in {"row", "signed"}
                PROVE  RevokedBy(w.list, w.row.bits, time)'
    OBVIOUS
  <2>1. RevokedBy(w.list, w.row.bits, time)
    BY DEF PubRight
  <2>. QED BY <2>1, RevokedByStays DEF PublishedInv
<1>8. w.pc = "signed" => RevokedBy(w.list, w.row.jwt.bits, time)'
  <2>. SUFFICES ASSUME w.pc = "signed"
                PROVE  RevokedBy(w.list, w.row.jwt.bits, time)'
    OBVIOUS
  <2>1. RevokedBy(w.list, w.row.jwt.bits, time)
    BY DEF PubRight
  <2>. QED BY <2>1, RevokedByStays DEF PublishedInv
<1>. QED BY <1>3, <1>4, <1>5, <1>6, <1>7, <1>8 DEF PubRight

(* So is a list that was opened, or left as it was.                        *)
LEMMA ListStays ==
    ASSUME PublishedInv, RevokedStays, OnlyOpened, NEW l \in Lists
    PROVE  ListRight(l)'
<1>1. ListRight(l)
  BY DEF PublishedInv, ListPart
<1>. PICK bits : bits = list[l].bits OBVIOUS
<1>2. RevokedBy(l, bits, time)'
  BY <1>1, RevokedByStays DEF ListRight, PublishedInv
<1>3. list'[l].bits = bits
  BY DEF OnlyOpened
<1>4. RevokedBy(l, list[l].bits, time)'
  BY <1>2, <1>3 DEF RevokedBy
<1>. QED BY <1>1, <1>4 DEF ListRight, OnlyOpened

(* A step that publishes nothing.                                          *)
LEMMA QuietStep ==
    ASSUME PublishedInv, Tracked', RevokedStays, OnlyOpened, pub' = pub, ScanPart'
    PROVE  PublishedInv'
<1>1. \A l \in Lists : ListRight(l)'
  BY ListStays
<1>2. ASSUME NEW p \in Workers PROVE PubRight(pub[p])'
  <2>. PICK w : w = pub[p] OBVIOUS
  <2>1. w \in PubType /\ PubRight(w)
    BY DEF PublishedInv, Tracked, StatusTypeOK, PubPart
  <2>2. PubRight(w)'
    BY <2>1, PubStays
  <2>3. pub'[p] = w
    OBVIOUS
  <2>. QED BY <2>2, <2>3 DEF PubRight, RevokedBy
<1>3. ListPart'
  BY <1>1 DEF ListPart, Lists
<1>4. PubPart'
  BY <1>2 DEF PubPart
<1>. QED BY <1>3, <1>4 DEF PublishedInv

(* A disclosure writes a handle that was not there, or one whose anchor    *)
(* has a tombstone: never one that a transaction is revoking, nor one that *)
(* is revoked.                                                             *)
LEMMA DisclosureQuiet ==
    ASSUME PublishedInv, NEW d \in Disclosers,
           Disclosure(d) \/ (\E a \in Anchors, c \in Clients : DiscloseStart(d, a, c))
    PROVE  RevokedStays /\ OnlyOpened /\ pub' = pub /\ ScanPart'
<1>a. UNCHANGED <<tomb, rev, pub, time>>
  <2>1. CASE Disclosure(d)
    BY <2>1, Zenon DEF Disclosure, FindExisting, ChooseShard, CreateEntry, Recheck,
                       ForceRevoke, DiscloseFails
  <2>. QED BY <2>1 DEF DiscloseStart
<1>0. /\ UNCHANGED <<tomb, rev, pub, time>> /\ time \in 0..MaxTime /\ time \in Nat
      /\ list \in [Lists -> ListType] /\ Tracked
  BY <1>a, StatusConstants DEF PublishedInv, Tracked, StatusTypeOK
<1>1. OnlyOpened
  <2>1. CASE UNCHANGED list
    BY <2>1 DEF OnlyOpened
  <2>2. CASE ChooseShard(d)
    <3>1. disc[d].client \in Clients
      BY <1>0, <2>2, KeyIsHandle DEF ChooseShard
    <3>2. PICK n \in 0..MaxShard : list' = OpenShard(<<disc[d].client, n>>)
      BY <2>2 DEF ChooseShard
    <3>3. <<disc[d].client, n>> \in Lists
      BY <3>1 DEF Lists
    <3>. QED BY <3>2, <3>3, OpenOnly
  <2>3. CASE CreateEntry(d)
    <3>0. disc[d].client \in Clients /\ disc[d] \in DiscType
      BY <1>0, <2>3, KeyIsHandle DEF CreateEntry
    <3>1. CASE /\ disc[d].shard < MaxShard
               /\ list' = OpenShard(<<disc[d].client, disc[d].shard + 1>>)
      <4>1. disc[d].shard + 1 \in 0..MaxShard
        BY <3>0, <3>1, StatusConstants DEF DiscType
      <4>2. <<disc[d].client, disc[d].shard + 1>> \in Lists
        BY <3>0, <4>1 DEF Lists
      <4>. QED BY <3>1, <4>2, OpenOnly
    <3>. QED BY <2>1, <2>3, <3>1 DEF CreateEntry
  <2>. QED BY <2>1, <2>2, <2>3
    DEF Disclosure, FindExisting, Recheck, ForceRevoke, DiscloseFails, DiscloseStart
<1>2. CASE UNCHANGED entry
  <2>1. RevokedStays
    BY <1>0, <1>2 DEF RevokedStays
  <2>2. ScanPart'
    BY <1>0, <1>2 DEF PublishedInv, ScanPart
  <2>. QED BY <1>0, <1>1, <2>1, <2>2
<1>3. ASSUME NEW h \in Handles, NEW e, entry' = [entry EXCEPT ![h] = e],
             \/ entry[h].state = "none"
             \/ h[1] \in tomb /\ (entry[h].state = "revoked" => e = entry[h])
      PROVE  RevokedStays /\ ScanPart'
  <2>1. entry \in [Handles -> EntryType]
    BY <1>0 DEF Tracked, StatusTypeOK, Handles
  <2>2. entry'[h] = e /\ \A k \in Handles : k # h => entry'[k] = entry[k]
    BY <1>3, <2>1
  <2>3. RevokedStays
    BY <1>0, <1>3, <2>2 DEF RevokedStays
  <2>4. ASSUME NEW r \in Revokers, NEW k \in rev[r].seen PROVE entry'[k] = entry[k]
    <3>1. /\ k \in Handles /\ k[1] \in rev[r].anchors /\ entry[k].state = "clear"
          /\ k[1] \notin tomb
      BY <1>0 DEF PublishedInv, Tracked, RevPart, RevRight, ScanPart, StatusTypeOK,
                  RevType, Handles
    <3>. QED BY <1>3, <2>2, <3>1
  <2>5. ScanPart'
    BY <1>0, <2>4 DEF PublishedInv, ScanPart
  <2>. QED BY <2>3, <2>5
<1>4. CASE CreateEntry(d) /\ ~UNCHANGED entry
  <2>1. Key(d) \in Handles
    BY <1>0, <1>4, KeyIsHandle DEF CreateEntry
  <2>2. PICK b \in Bits : /\ entry' = [entry EXCEPT ![Key(d)] = NewEntry(d, b)]
                          /\ entry[Key(d)] = NoEntry
    BY <1>4 DEF CreateEntry
  <2>3. entry[Key(d)].state = "none"
    BY <2>2 DEF NoEntry
  <2>. QED BY <1>0, <1>1, <1>3, <2>1, <2>2, <2>3
<1>5. CASE ForceRevoke(d)
  <2>1. Key(d) \in Handles /\ Key(d)[1] = disc[d].anchor
    BY <1>0, <1>5, KeyIsHandle DEF ForceRevoke
  <2>2. disc[d].anchor \in tomb
    BY <1>0, <1>5 DEF ForceRevoke, Tracked, DiscPart, DiscRight
  <2>3. PICK e : /\ entry' = [entry EXCEPT ![Key(d)] = e]
                 /\ entry[Key(d)].state = "revoked" => e = entry[Key(d)]
    <3>1. CASE entry[Key(d)].state = "clear"
      BY <1>5, <3>1 DEF ForceRevoke
    <3>2. CASE entry[Key(d)].state # "clear"
      BY <1>5, <3>2 DEF ForceRevoke
    <3>. QED BY <3>1, <3>2
  <2>. QED BY <1>0, <1>1, <1>3, <2>1, <2>2, <2>3
<1>. QED BY <1>2, <1>4, <1>5
  DEF Disclosure, FindExisting, ChooseShard, Recheck, DiscloseFails, DiscloseStart

(* A transaction locks its anchors before it looks for their handles.      *)
LEMMA ScanQuiet ==
    ASSUME PublishedInv, NEW r \in Revokers, NEW a \in Anchors \ tomb, RevokeScan(r, {a})
    PROVE  RevokedStays /\ OnlyOpened /\ pub' = pub /\ ScanPart'
<1>1. /\ UNCHANGED <<entry, tomb, list, pub, time>>
      /\ \A s \in Revokers : a \notin rev[s].anchors
  BY DEF RevokeScan, Unlocked
<1>2. /\ rev'[r].anchors = {a}
      /\ rev'[r].seen = {k \in {a} \X Clients : entry[k].state = "clear"}
      /\ \A s \in Revokers : s # r => rev'[s] = rev[s]
  BY DEF RevokeScan, PublishedInv, Tracked, StatusTypeOK
<1>3. RevokedStays
  BY <1>1, StatusConstants DEF RevokedStays, PublishedInv, Tracked, StatusTypeOK
<1>4. OnlyOpened
  BY <1>1 DEF OnlyOpened
<1>5. ASSUME NEW x \in Revokers
      PROVE  /\ rev'[x].anchors \cap tomb' = {}
             /\ \A k \in rev'[x].seen : entry'[k].state = "clear"
  BY <1>1, <1>2 DEF PublishedInv, ScanPart
<1>6. ASSUME NEW x \in Revokers, NEW s \in Revokers, s # x
      PROVE  rev'[x].anchors \cap rev'[s].anchors = {}
  BY <1>1, <1>2, <1>6 DEF PublishedInv, ScanPart
<1>7. ScanPart'
  BY <1>5, <1>6 DEF ScanPart
<1>. QED BY <1>1, <1>3, <1>4, <1>7

(* What it has seen is still clear when it commits.                        *)
LEMMA CommitQuiet ==
    ASSUME PublishedInv, NEW r \in Revokers, RevokeCommit(r)
    PROVE  RevokedStays /\ OnlyOpened /\ pub' = pub /\ ScanPart'
<1>0. Tracked
  BY DEF PublishedInv
<1>1. /\ tomb' = tomb \cup rev[r].anchors /\ UNCHANGED <<list, pub, time>>
  BY DEF RevokeCommit
<1>2. /\ rev'[r] = IdleRev
      /\ \A s \in Revokers : s # r => rev'[s] = rev[s]
  BY <1>0 DEF RevokeCommit, Tracked, StatusTypeOK
<1>3. /\ \A k \in Handles : k \notin rev[r].seen => entry'[k] = entry[k]
      /\ \A k \in rev[r].seen : entry[k].state = "clear" /\ k[1] \in rev[r].anchors
  BY <1>0, CommitEntries DEF PublishedInv, ScanPart
<1>4. RevokedStays
  BY <1>0, <1>1, <1>3, StatusConstants DEF RevokedStays, Tracked, StatusTypeOK
<1>5. OnlyOpened
  BY <1>1 DEF OnlyOpened
<1>6. IdleRev.anchors = {} /\ IdleRev.seen = {}
  BY DEF IdleRev
<1>7. ASSUME NEW x \in Revokers
      PROVE  /\ rev'[x].anchors \cap tomb' = {}
             /\ \A k \in rev'[x].seen : entry'[k].state = "clear"
             /\ \A s \in Revokers : s # x => rev'[x].anchors \cap rev'[s].anchors = {}
  <2>1. CASE x = r
    BY <1>2, <1>6, <2>1
  <2>2. CASE x # r
    <3>1. rev'[x] = rev[x] /\ rev[x].anchors \cap rev[r].anchors = {}
      BY <1>2, <2>2 DEF PublishedInv, ScanPart
    <3>2. rev[x].anchors \cap tomb' = {}
      BY <1>1, <3>1 DEF PublishedInv, ScanPart
    <3>3. ASSUME NEW k \in rev[x].seen PROVE entry'[k].state = "clear"
      <4>1. k \in Handles /\ k[1] \in rev[x].anchors /\ entry[k].state = "clear"
        BY <1>0 DEF Tracked, RevPart, RevRight, StatusTypeOK, RevType, Handles,
                    PublishedInv, ScanPart
      <4>2. k \notin rev[r].seen
        BY <1>3, <3>1, <4>1
      <4>. QED BY <1>3, <4>1, <4>2
    <3>4. \A s \in Revokers : s # x => rev'[x].anchors \cap rev'[s].anchors = {}
      BY <1>2, <1>6, <3>1 DEF PublishedInv, ScanPart
    <3>. QED BY <3>1, <3>2, <3>3, <3>4
  <2>. QED BY <2>1, <2>2
<1>8. ScanPart'
  BY <1>7 DEF ScanPart
<1>. QED BY <1>1, <1>4, <1>5, <1>8

-----------------------------------------------------------------------------
(* The steps of a publisher.                                               *)

(* A publisher moves and writes nothing.                                   *)
LEMMA PublishStep ==
    ASSUME PublishedInv, NEW p \in Workers, NEW w \in PubType, PubRight(w),
           pub' = [pub EXCEPT ![p] = w], latch' \in Workers \cup {None},
           UNCHANGED <<entry, tomb, held, disc, rev, time, list>>
    PROVE  PublishedInv'
<1>1. pub \in [Workers -> PubType] /\ list' \in [Lists -> ListType]
      /\ time' \in 0..MaxTime
  BY DEF PublishedInv, Tracked, StatusTypeOK
<1>2. pub' \in [Workers -> PubType] /\ pub'[p] = w
      /\ \A x \in Workers : x # p => pub'[x] = pub[x]
  BY <1>1
<1>3. Tracked'
  BY <1>1, <1>2, PublishTracked DEF PublishedInv
<1>4. ListPart'
  BY DEF PublishedInv, ListPart, ListRight, RevokedBy
<1>5. PubPart'
  BY <1>2 DEF PublishedInv, PubPart, PubRight, RevokedBy
<1>6. ScanPart'
  BY DEF PublishedInv, ScanPart
<1>. QED BY <1>3, <1>4, <1>5, <1>6 DEF PublishedInv

(* What a publisher holds.                                                 *)
LEMMA PubHolds ==
    ASSUME PublishedInv, NEW p \in Workers
    PROVE  /\ pub[p] \in PubType /\ PubRight(pub[p]) /\ Tracked
           /\ list \in [Lists -> ListType] /\ latch \in Workers \cup {None}
           /\ time \in 0..MaxTime /\ time \in Nat
  BY StatusConstants DEF PublishedInv, PubPart, Tracked, StatusTypeOK

(* On to the next list.                                                    *)
LEMMA NextListRight ==
    ASSUME PublishedInv, NEW p \in Workers
    PROVE  NextList(p) \in PubType /\ PubRight(NextList(p))
<1>. PICK w : w = pub[p] OBVIOUS
<1>0. w \in PubType /\ PubRight(w)
  BY PubHolds
<1>. PICK n : n = [w EXCEPT !.pc = "lists", !.list = None, !.row = NoList, !.left = 0]
  OBVIOUS
<1>1. 0 \in 0..MaxAttempts
  BY StatusConstants
<1>. DEFINE z == 0
<1>2. z \in 0..MaxAttempts /\ n = [w EXCEPT !.pc = "lists", !.list = None,
                                             !.row = NoList, !.left = z]
  BY <1>1
<1>. HIDE DEF z
<1>3. n \in PubType /\ n.pc = "lists" /\ n.now = w.now /\ n.todo = w.todo
  BY <1>0, <1>2, BlankTypes DEF PubType
<1>4. PubRight(n)
  BY <1>0, <1>3 DEF PubRight
<1>5. NextList(p) = n
  BY DEF NextList
<1>. QED BY <1>3, <1>4, <1>5

LEMMA StartPublished ==
    ASSUME PublishedInv, NEW p \in Workers, PublishStart(p)
    PROVE  PublishedInv'
<1>. PICK ls : ls = {l \in Lists : list[l].exists} OBVIOUS
<1>. PICK w : w = [IdlePub EXCEPT !.pc = "lists", !.now = time, !.todo = ls] OBVIOUS
<1>0. time \in 0..MaxTime /\ time \in Nat
  BY PubHolds
<1>1. w \in PubType /\ w.pc = "lists" /\ w.now = time /\ w.todo = ls
  BY <1>0, BlankTypes DEF PubType, IdlePub
<1>2. PubRight(w)
  BY <1>0, <1>1 DEF PubRight
<1>3. pub' = [pub EXCEPT ![p] = w] /\ latch' = p
      /\ UNCHANGED <<entry, tomb, held, disc, rev, time, list>>
  BY DEF PublishStart
<1>. QED BY <1>1, <1>2, <1>3, PublishStep

(* A list as it stands is a row that can be signed upon.                   *)
LEMMA RowRead ==
    ASSUME PublishedInv, NEW w \in PubType, w.now <= time,
           \A l \in w.todo : list[l].exists, w.pc = "row",
           w.list \in Lists, list[w.list].exists, w.row = list[w.list]
    PROVE  PubRight(w)
<1>1. list[w.list] \in ListType /\ ListRight(w.list)
  BY DEF PublishedInv, Tracked, StatusTypeOK, ListPart
<1>2. list[w.list].version \in Nat /\ RevokedBy(w.list, w.row.bits, time)
  BY <1>1 DEF ListType, ListRight
<1>. QED BY <1>2 DEF PubRight

LEMMA ReadPublished ==
    ASSUME PublishedInv, NEW p \in Workers, ReadList(p)
    PROVE  PublishedInv'
<1>0. /\ pub[p] \in PubType /\ PubRight(pub[p]) /\ list \in [Lists -> ListType]
      /\ latch' \in Workers \cup {None}
      /\ UNCHANGED <<entry, tomb, held, disc, rev, time, list>>
  BY PubHolds DEF ReadList
<1>1. ASSUME NEW l \in pub[p].todo,
             pub' = [pub EXCEPT ![p] = [pub[p] EXCEPT !.pc = "row", !.list = l,
                  !.row = list[l], !.todo = @ \ {l}, !.left = MaxAttempts]]
      PROVE  PublishedInv'
  <2>. PICK ls : ls = pub[p].todo \ {l} OBVIOUS
  <2>1. /\ l \in Lists /\ list[l] \in ListType /\ ls \subseteq pub[p].todo
        /\ pub[p].todo \subseteq Lists /\ MaxAttempts \in 0..MaxAttempts
    BY <1>0, StatusConstants DEF PubType
  <2>. PICK w : w = [pub[p] EXCEPT !.pc = "row", !.list = l, !.row = list[l],
                                   !.todo = ls, !.left = MaxAttempts] OBVIOUS
  <2>2. /\ w \in PubType /\ w.pc = "row" /\ w.list = l /\ w.row = list[l]
        /\ w.now = pub[p].now /\ w.todo = ls
    BY <1>0, <2>1 DEF PubType
  <2>3. list[l].exists /\ pub[p].now <= time /\ \A m \in ls : list[m].exists
    BY <1>0, <2>1 DEF PubRight
  <2>4. PubRight(w)
    BY <2>1, <2>2, <2>3, RowRead
  <2>5. pub' = [pub EXCEPT ![p] = w]
    BY <1>0, <1>1 DEF PubType
  <2>. QED BY <1>0, <2>2, <2>4, <2>5, PublishStep
<1>2. CASE /\ pub[p].pc = "again"
           /\ pub' = [pub EXCEPT ![p] = [pub[p] EXCEPT !.pc = "row",
                                                !.row = list[pub[p].list]]]
  <2>. PICK l : l = pub[p].list OBVIOUS
  <2>1. l \in Lists /\ list[l].exists /\ list[l] \in ListType
    BY <1>0, <1>2 DEF PubRight
  <2>. PICK w : w = [pub[p] EXCEPT !.pc = "row", !.row = list[l]] OBVIOUS
  <2>2. /\ w \in PubType /\ w.pc = "row" /\ w.list = l /\ w.row = list[l]
        /\ w.now = pub[p].now /\ w.todo = pub[p].todo
    BY <1>0, <2>1 DEF PubType
  <2>3. pub[p].now <= time /\ \A m \in pub[p].todo : list[m].exists
    BY <1>0 DEF PubRight
  <2>4. PubRight(w)
    BY <2>1, <2>2, <2>3, RowRead
  <2>5. pub' = [pub EXCEPT ![p] = w]
    BY <1>2
  <2>. QED BY <1>0, <2>2, <2>4, <2>5, PublishStep
<1>. QED BY <1>1, <1>2 DEF ReadList

(* What is eligible is revoked.                                            *)
LEMMA EligibleRevoked ==
    ASSUME Tracked, NEW l \in Lists, NEW t \in 0..MaxTime, t <= time
    PROVE  Eligible(l, t) \subseteq Bits /\ RevokedBy(l, Eligible(l, t), time)
<1>. SUFFICES ASSUME NEW b \in Eligible(l, t)
              PROVE  /\ b \in Bits
                     /\ \E k \in Handles : /\ entry[k].list = l /\ entry[k].bit = b
                                           /\ entry[k].state = "revoked"
                                           /\ entry[k].reveal <= time
  BY DEF RevokedBy
<1>1. PICK k \in Handles : /\ entry[k].list = l /\ entry[k].bit = b
                           /\ entry[k].state = "revoked" /\ entry[k].reveal <= t
  BY DEF Eligible, InList, Handles
<1>2. entry[k] \in EntryType /\ time \in 0..MaxTime
  BY DEF Tracked, StatusTypeOK, Handles
<1>3. b \in Bits /\ entry[k].reveal \in Nat /\ time \in Nat /\ t \in Nat
  BY <1>1, <1>2, StatusConstants DEF EntryType
<1>. QED BY <1>1, <1>3

LEMMA SignPublished ==
    ASSUME PublishedInv, NEW p \in Workers, SignList(p)
    PROVE  PublishedInv'
<1>. PICK u : u = pub[p] OBVIOUS
<1>0. /\ u \in PubType /\ PubRight(u) /\ u.pc = "row" /\ Tracked
      /\ latch' \in Workers \cup {None}
      /\ UNCHANGED <<entry, tomb, held, disc, rev, time, list>>
  BY PubHolds DEF SignList
<1>1. /\ u.list \in Lists /\ u.now \in 0..MaxTime /\ u.now <= time
      /\ u.row \in ListType /\ RevokedBy(u.list, u.row.bits, time)
  BY <1>0 DEF PubRight, PubType
<1>. PICK bits : bits = u.row.bits \cup Eligible(u.list, u.now) OBVIOUS
<1>2. /\ bits \subseteq Bits /\ RevokedBy(u.list, bits, time) /\ u.row.bits \subseteq bits
  BY <1>0, <1>1, EligibleRevoked DEF RevokedBy, ListType
<1>. PICK v : v = NewVersion(p) OBVIOUS
<1>3. v \in Nat /\ u.row.version < v
  <2>1. u.row.version \in Nat /\ u.now \in Nat
    BY <1>1, StatusConstants DEF ListType
  <2>. QED BY <2>1 DEF NewVersion
<1>4. pub' = [pub EXCEPT ![p] = IF NeedsPublishing(p, bits)
                     THEN [u EXCEPT !.pc = "signed", !.row.jwt =
                             [bits |-> bits, version |-> v]]
                     ELSE NextList(p)]
  BY DEF SignList
<1>5. CASE NeedsPublishing(p, bits)
  <2>. PICK j : j = [bits |-> bits, version |-> v] OBVIOUS
  <2>. PICK row : row = [u.row EXCEPT !.jwt = j] OBVIOUS
  <2>1. row \in ListType /\ row.jwt = j /\ row.bits = u.row.bits
        /\ row.version = u.row.version /\ j.bits = bits /\ j.version = v
    BY <1>1, <1>2, <1>3 DEF ListType
  <2>. PICK w : w = [u EXCEPT !.pc = "signed", !.row = row] OBVIOUS
  <2>2. /\ w \in PubType /\ w.pc = "signed" /\ w.row = row /\ w.list = u.list
        /\ w.now = u.now /\ w.todo = u.todo
    BY <1>0, <2>1 DEF PubType
  <2>3. w = [u EXCEPT !.pc = "signed", !.row.jwt = [bits |-> bits, version |-> v]]
    BY <1>0 DEF PubType
  <2>4. pub' = [pub EXCEPT ![p] = w]
    BY <1>4, <1>5, <2>3
  <2>5. PubRight(w)
    <3>1. /\ RevokedBy(w.list, w.row.bits, time)
          /\ RevokedBy(w.list, w.row.jwt.bits, time)
          /\ w.row.bits \subseteq w.row.jwt.bits
          /\ w.row.version < w.row.jwt.version
      BY <1>1, <1>2, <1>3, <2>1, <2>2
    <3>2. /\ w.row.version <= list[w.list].version
          /\ w.row.version = list[w.list].version => w.row.bits = list[w.list].bits
          /\ w.list \in Lists /\ list[w.list].exists
      <4>1. /\ u.row.version <= list[u.list].version
            /\ u.row.version = list[u.list].version => u.row.bits = list[u.list].bits
            /\ u.list \in Lists /\ list[u.list].exists
        BY <1>0 DEF PubRight
      <4>. QED BY <2>1, <2>2, <4>1
    <3>3. w.now <= time /\ \A l \in w.todo : list[l].exists
      BY <1>0, <2>2 DEF PubRight
    <3>. QED BY <2>2, <3>1, <3>2, <3>3 DEF PubRight
  <2>. QED BY <1>0, <2>2, <2>4, <2>5, PublishStep
<1>6. CASE ~NeedsPublishing(p, bits)
  <2>. PICK n : n = NextList(p) OBVIOUS
  <2>1. n \in PubType /\ PubRight(n) /\ pub' = [pub EXCEPT ![p] = n]
    BY <1>4, <1>6, NextListRight
  <2>. QED BY <1>0, <2>1, PublishStep
<1>. QED BY <1>5, <1>6

LEMMA SignFailsPublished ==
    ASSUME PublishedInv, NEW p \in Workers, SignFails(p)
    PROVE  PublishedInv'
<1>. PICK n : n = NextList(p) OBVIOUS
<1>1. n \in PubType /\ PubRight(n) /\ pub' = [pub EXCEPT ![p] = n]
      /\ latch' \in Workers \cup {None}
      /\ UNCHANGED <<entry, tomb, held, disc, rev, time, list>>
  BY NextListRight, PubHolds DEF SignFails
<1>. QED BY <1>1, PublishStep

LEMMA EndPublished ==
    ASSUME PublishedInv, NEW p \in Workers, PublishEnd(p) \/ LockLost(p)
    PROVE  PublishedInv'
<1>1. CASE PublishEnd(p)
  <2>1. pub' = [pub EXCEPT ![p] = IdlePub] /\ latch' \in Workers \cup {None}
        /\ UNCHANGED <<entry, tomb, held, disc, rev, time, list>>
    BY <1>1, PubHolds DEF PublishEnd
  <2>2. IdlePub \in PubType /\ time \in Nat
    BY BlankTypes, PubHolds
  <2>3. PubRight(IdlePub)
    BY <2>2 DEF PubRight, IdlePub
  <2>. QED BY <2>1, <2>2, <2>3, PublishStep
<1>2. CASE LockLost(p)
  <2>. PICK w : w = pub[p] OBVIOUS
  <2>1. w \in PubType /\ PubRight(w) /\ latch' \in Workers \cup {None}
        /\ UNCHANGED <<entry, tomb, held, disc, rev, time, list>>
    BY <1>2, PubHolds DEF LockLost
  <2>2. pub' = [pub EXCEPT ![p] = w]
    BY <1>2 DEF LockLost, PublishedInv, Tracked, StatusTypeOK
  <2>. QED BY <2>1, <2>2, PublishStep
<1>. QED BY <1>1, <1>2

(* What a guarded write leaves: the list is where it was when its row was  *)
(* read, so the new signature says all the old one says, at a higher       *)
(* version.                                                                *)
LEMMA WriteGrows ==
    ASSUME PublishedInv, NEW p \in Workers, WriteList(p), AtVersion(p)
    PROVE  LET l == pub[p].list IN
           /\ l \in Lists /\ list' \in [Lists -> ListType]
           /\ \A m \in Lists : m # l => list'[m] = list[m]
           /\ list'[l].jwt = pub[p].row.jwt /\ list'[l].bits = pub[p].row.jwt.bits
           /\ list'[l].version = pub[p].row.jwt.version /\ list'[l].exists
           /\ list[l].bits \subseteq pub[p].row.jwt.bits
           /\ list[l].version < pub[p].row.jwt.version
<1>. PICK u : u = pub[p] OBVIOUS
<1>. PICK l : l = u.list OBVIOUS
<1>0. /\ u \in PubType /\ PubRight(u) /\ u.pc = "signed" /\ list \in [Lists -> ListType]
      /\ list[l].version = u.row.version
  BY PubHolds DEF WriteList, AtVersion
<1>1. /\ l \in Lists /\ list[l] \in ListType /\ list[l].exists /\ u.row \in ListType
      /\ u.now \in 0..MaxTime /\ list[l].bits = u.row.bits
      /\ u.row.bits \subseteq u.row.jwt.bits /\ u.row.version < u.row.jwt.version
  BY <1>0 DEF PubRight, PubType
<1>2. PICK bits : bits = IF u.row.jwt.bits # u.row.bits THEN u.row.jwt.bits
                                                        ELSE list[l].bits
  OBVIOUS
<1>3. bits = u.row.jwt.bits
  BY <1>1, <1>2
<1>. PICK n : n = [list[l] EXCEPT !.version = u.row.jwt.version, !.at = u.now,
                                  !.jwt = u.row.jwt, !.bits = bits] OBVIOUS
<1>4. /\ n \in ListType /\ n.version = u.row.jwt.version /\ n.jwt = u.row.jwt
      /\ n.bits = bits /\ n.exists = list[l].exists
  BY <1>1, <1>3 DEF ListType
<1>5. list' = [list EXCEPT ![l] = n]
  BY <1>0, <1>1, <1>2 DEF WriteList, ListType
<1>6. list' \in [Lists -> ListType] /\ list'[l] = n
      /\ \A m \in Lists : m # l => list'[m] = list[m]
  BY <1>0, <1>1, <1>4, <1>5
<1>. QED BY <1>0, <1>1, <1>3, <1>4, <1>6

LEMMA WritePublished ==
    ASSUME PublishedInv, NEW p \in Workers, WriteList(p)
    PROVE  PublishedInv'
<1>. PICK u : u = pub[p] OBVIOUS
<1>0. /\ u \in PubType /\ PubRight(u) /\ u.pc = "signed" /\ Tracked
      /\ latch' \in Workers \cup {None} /\ pub \in [Workers -> PubType]
      /\ UNCHANGED <<entry, tomb, held, disc, rev, time>> /\ time' \in 0..MaxTime
  BY PubHolds DEF WriteList, Tracked, StatusTypeOK
<1>1. CASE AtVersion(p)
  <2>. PICK l : l = u.list OBVIOUS
  <2>. PICK j : j = u.row.jwt OBVIOUS
  <2>1. /\ l \in Lists /\ list' \in [Lists -> ListType]
        /\ \A m \in Lists : m # l => list'[m] = list[m]
        /\ list'[l].jwt = j /\ list'[l].bits = j.bits /\ list'[l].version = j.version
        /\ list'[l].exists /\ list[l].version < j.version
    BY <1>1, WriteGrows
  <2>. PICK n : n = NextList(p) OBVIOUS
  <2>2. n \in PubType /\ PubRight(n) /\ pub' = [pub EXCEPT ![p] = n]
    BY <1>1, NextListRight DEF WriteList
  <2>3. n.pc = "lists" /\ n.now = u.now /\ n.todo = u.todo
    BY <1>0 DEF NextList, PubType
  <2>4. pub' \in [Workers -> PubType] /\ pub'[p] = n
        /\ \A x \in Workers : x # p => pub'[x] = pub[x]
    BY <1>0, <2>2
  <2>5. Tracked'
    BY <1>0, <2>1, <2>4, PublishTracked
  <2>6. ListPart'
    <3>1. RevokedBy(l, j.bits, time)'
      BY <1>0 DEF PubRight, RevokedBy
    <3>2. ListRight(l)'
      BY <2>1, <3>1 DEF ListRight, RevokedBy
    <3>3. ASSUME NEW m \in Lists, m # l PROVE ListRight(m)'
      <4>1. list'[m] = list[m] /\ ListRight(m)
        BY <2>1, <3>3 DEF PublishedInv, ListPart
      <4>. QED BY <1>0, <4>1 DEF ListRight, RevokedBy
    <3>. QED BY <3>2, <3>3 DEF ListPart
  <2>7. ASSUME NEW m \in Lists PROVE list[m].exists => list'[m].exists
    BY <2>1
  <2>8. ASSUME NEW x \in Workers, x # p PROVE PubRight(pub[x])'
    <3>. PICK w : w = pub[x] OBVIOUS
    <3>1. w \in PubType /\ PubRight(w) /\ pub'[x] = w
      BY <2>4, <2>8, PubHolds
    <3>2. w.todo \subseteq Lists
      BY <3>1 DEF PubType
    <3>3. w.now <= time' /\ (\A m \in w.todo : list'[m].exists)
      BY <1>0, <2>7, <3>1, <3>2 DEF PubRight
    <3>4. w.pc \in {"row", "signed", "again"} => w.list \in Lists /\ list'[w.list].exists
      BY <2>7, <3>1 DEF PubRight
    <3>5. w.pc \in {"row", "signed"} =>
            /\ w.row.version <= list'[w.list].version
            /\ w.row.version = list'[w.list].version => w.row.bits = list'[w.list].bits
      <4>1. CASE w.list = l
        <5>1. w.row.version \in Nat /\ list[l].version \in Nat /\ j.version \in Nat
          BY <1>0, <2>1, <3>1 DEF PubType, ListType, Tracked, StatusTypeOK
        <5>. QED BY <2>1, <3>1, <4>1, <5>1 DEF PubRight
      <4>2. CASE w.list # l
        BY <2>1, <3>1, <4>2 DEF PubRight
      <4>. QED BY <4>1, <4>2
    <3>6. /\ w.pc \in {"row", "signed"} => RevokedBy(w.list, w.row.bits, time)'
          /\ w.pc = "signed" => RevokedBy(w.list, w.row.jwt.bits, time)'
      BY <1>0, <3>1 DEF PubRight, RevokedBy
    <3>7. PubRight(w)'
      BY <3>1, <3>3, <3>4, <3>5, <3>6 DEF PubRight
    <3>. QED BY <3>1, <3>7 DEF PubRight, RevokedBy
  <2>9. PubRight(pub[p])'
    <3>1. u.now <= time' /\ u.todo \subseteq Lists /\ \A m \in u.todo : list[m].exists
      BY <1>0 DEF PubRight, PubType
    <3>. QED BY <2>3, <2>4, <2>7, <3>1 DEF PubRight
  <2>10. PubPart'
    BY <2>8, <2>9 DEF PubPart
  <2>11. ScanPart'
    BY <1>0 DEF PublishedInv, ScanPart
  <2>. QED BY <2>5, <2>6, <2>10, <2>11 DEF PublishedInv
<1>2. CASE ~AtVersion(p)
  <2>0. UNCHANGED <<entry, tomb, held, disc, rev, time, list>>
    BY <1>0, <1>2 DEF WriteList
  <2>1. CASE u.left > 1
    <3>. PICK k : k = u.left - 1 OBVIOUS
    <3>1. k \in 0..MaxAttempts
      BY <1>0, <2>1, StatusConstants DEF PubType
    <3>. PICK w : w = [u EXCEPT !.pc = "again", !.row = NoList, !.left = k] OBVIOUS
    <3>2. /\ w \in PubType /\ w.pc = "again" /\ w.list = u.list /\ w.now = u.now
          /\ w.todo = u.todo
      BY <1>0, <3>1, BlankTypes DEF PubType
    <3>3. PubRight(w)
      BY <1>0, <3>2 DEF PubRight
    <3>4. pub' = [pub EXCEPT ![p] = w]
      BY <1>0, <1>2, <2>1 DEF WriteList, PubType
    <3>. QED BY <1>0, <2>0, <3>2, <3>3, <3>4, PublishStep
  <2>2. CASE ~(u.left > 1)
    <3>. PICK n : n = NextList(p) OBVIOUS
    <3>1. n \in PubType /\ PubRight(n) /\ pub' = [pub EXCEPT ![p] = n]
      BY <1>2, <2>2, NextListRight DEF WriteList
    <3>. QED BY <1>0, <2>0, <3>1, PublishStep
  <2>. QED BY <2>1, <2>2
<1>. QED BY <1>1, <1>2

-----------------------------------------------------------------------------
LEMMA PublishedInit == StatusInit => PublishedInv
<1>. SUFFICES ASSUME StatusInit PROVE PublishedInv OBVIOUS
<1>1. Tracked
  BY TrackedInit
<1>2. ListPart
  BY DEF StatusInit, ListPart, ListRight, RevokedBy, NoList, NoJwt
<1>3. PubPart
  BY DEF StatusInit, PubPart, PubRight, IdlePub
<1>4. ScanPart
  BY DEF StatusInit, ScanPart, IdleRev
<1>. QED BY <1>1, <1>2, <1>3, <1>4 DEF PublishedInv

(* One step of anyone keeps both parts.                                    *)
LEMMA PublishedNext ==
    ASSUME PublishedInv, [StatusNext]_statusVars
    PROVE  PublishedInv'
<1>0. Tracked
  BY DEF PublishedInv
<1>1. ASSUME NEW d \in Disclosers,
             Disclosure(d) \/ (\E a \in Anchors, c \in Clients : DiscloseStart(d, a, c))
      PROVE  PublishedInv'
  <2>1. Tracked'
    BY <1>0, <1>1, DisclosureTracked, StartTracked
  <2>. QED BY <1>1, <2>1, DisclosureQuiet, QuietStep
<1>2. ASSUME NEW r \in Revokers, NEW a \in Anchors \ tomb, RevokeScan(r, {a})
      PROVE  PublishedInv'
  <2>1. {a} \in SUBSET Anchors
    OBVIOUS
  <2>2. Tracked'
    BY <1>0, <1>2, <2>1, ScanTracked
  <2>. QED BY <1>2, <2>2, ScanQuiet, QuietStep
<1>3. ASSUME NEW r \in Revokers, RevokeCommit(r) PROVE PublishedInv'
  <2>1. Tracked'
    BY <1>0, <1>3, CommitTracked
  <2>. QED BY <1>3, <2>1, CommitQuiet, QuietStep
<1>4. ASSUME NEW p \in Workers, Publish(p) PROVE PublishedInv'
  BY <1>4, StartPublished, ReadPublished, SignPublished, SignFailsPublished,
     WritePublished, EndPublished DEF Publish
<1>5. CASE Tick \/ UNCHANGED statusVars
  <2>1. /\ UNCHANGED <<entry, tomb, list, disc, rev, pub, latch, held>>
        /\ time \in 0..MaxTime /\ time' \in 0..MaxTime /\ time <= time'
    BY <1>0, <1>5, StatusConstants DEF Tick, statusVars, Tracked, StatusTypeOK
  <2>2. Tracked'
    BY <1>0, <2>1, PublishTracked DEF Tracked, StatusTypeOK
  <2>3. RevokedStays /\ OnlyOpened
    BY <2>1 DEF RevokedStays, OnlyOpened
  <2>4. ScanPart'
    BY <2>1 DEF PublishedInv, ScanPart
  <2>. QED BY <2>1, <2>2, <2>3, <2>4, QuietStep
<1>. QED BY <1>1, <1>2, <1>3, <1>4, <1>5 DEF StatusNext

(* The inductive invariant of status lists: disclosures and revoking       *)
(* transactions keep track of each other, a list has the bits of revoked   *)
(* handles only, and what a publisher has read is the list's row or an     *)
(* older one (lib/status-list/allocate.ts, revoke.ts and publish.ts).      *)
THEOREM PublishedInvariant == StatusSpec => []PublishedInv
<1>1. PublishedInv /\ [StatusNext]_statusVars => PublishedInv'
  BY PublishedNext
<1>. QED BY <1>1, PublishedInit, PTL DEF StatusSpec

(* Handles, lists and the calls of lib/status-list keep their shapes.      *)
THEOREM StatusTypeCorrect == StatusSpec => []StatusTypeOK
<1>1. PublishedInv => StatusTypeOK
  BY DEF PublishedInv, Tracked
<1>. QED BY <1>1, PublishedInvariant, PTL

(* A list tells on nobody: whatever disclosures, transactions and          *)
(* publishers overlap, a bit that the status route serves belongs to a     *)
(* revoked handle of that list, whose anchor has its tombstone and whose   *)
(* jittered floor has passed (publish.ts, the eligible rows; revoke.ts).   *)
THEOREM ListsTellOnNobody == StatusSpec => []PublishedIsRevoked
<1>1. PublishedInv => PublishedIsRevoked
  <2>. SUFFICES ASSUME PublishedInv, NEW l \in Lists, NEW b \in Bits,
                       b \in list[l].jwt.bits
                PROVE  \E k \in InList(l) :
                          /\ entry[k].bit = b /\ entry[k].state = "revoked"
                          /\ entry[k].reveal <= time /\ k[1] \in tomb
    BY DEF PublishedIsRevoked
  <2>1. ListRight(l)
    BY DEF PublishedInv, ListPart
  <2>2. PICK k \in Handles : /\ entry[k].list = l /\ entry[k].bit = b
                             /\ entry[k].state = "revoked" /\ entry[k].reveal <= time
    BY <2>1 DEF ListRight, RevokedBy
  <2>3. k[1] \in tomb
    BY <2>2 DEF PublishedInv, Tracked, EntryPart, EntryRight
  <2>. QED BY <2>2, <2>3 DEF InList, Handles
<1>. QED BY <1>1, PublishedInvariant, PTL

(* What a relying party holds is revoked with its anchor, when any anchor  *)
(* may be disclosed or revoked at any time.                                *)
THEOREM HeldRevokedAlone == StatusSpec => []HeldIsRevoked
<1>1. PublishedInv => HeldIsRevoked
  BY TrackedHeld DEF PublishedInv
<1>. QED BY <1>1, PublishedInvariant, PTL

(* A step that changes a list's signature is a guarded write.              *)
LEMMA GrowStep ==
    ASSUME PublishedInv, [StatusNext]_statusVars, NEW l \in Lists,
           list'[l].jwt # list[l].jwt
    PROVE  /\ list[l].jwt.bits \subseteq list'[l].jwt.bits
           /\ list[l].jwt.version < list'[l].jwt.version
<1>1. \E p \in Workers : WriteList(p) /\ AtVersion(p)
  <2>1. ~OnlyOpened
    BY DEF OnlyOpened
  <2>2. list' # list
    OBVIOUS
  <2>3. ASSUME NEW d \in Disclosers,
               Disclosure(d) \/ (\E a \in Anchors, c \in Clients : DiscloseStart(d, a, c))
        PROVE  FALSE
    BY <2>1, <2>3, DisclosureQuiet
  <2>4. ASSUME NEW r \in Revokers,
               (\E a \in Anchors \ tomb : RevokeScan(r, {a})) \/ RevokeCommit(r)
        PROVE  FALSE
    BY <2>2, <2>4 DEF RevokeScan, RevokeCommit
  <2>5. ASSUME NEW p \in Workers, Publish(p) PROVE WriteList(p) /\ AtVersion(p)
    BY <2>2, <2>5 DEF Publish, PublishStart, ReadList, SignList, SignFails, WriteList,
                      PublishEnd, LockLost
  <2>6. ~(Tick \/ UNCHANGED statusVars)
    BY <2>2 DEF Tick, statusVars
  <2>. QED BY <2>3, <2>4, <2>5, <2>6 DEF StatusNext
<1>2. PICK p \in Workers : WriteList(p) /\ AtVersion(p)
  BY <1>1
<1>. PICK m : m = pub[p].list OBVIOUS
<1>. PICK j : j = pub[p].row.jwt OBVIOUS
<1>3. /\ m \in Lists /\ \A x \in Lists : x # m => list'[x] = list[x]
      /\ list'[m].jwt = j /\ list[m].bits \subseteq j.bits /\ list[m].version < j.version
  BY <1>2, WriteGrows
<1>4. l = m
  BY <1>3
<1>5. list[m].bits = list[m].jwt.bits /\ list[m].version = list[m].jwt.version
  BY <1>3 DEF PublishedInv, ListPart, ListRight
<1>. QED BY <1>3, <1>4, <1>5

(* What a served list says stays said, at ever higher versions, however    *)
(* the passes of any number of workers overlap (publish.ts, the write      *)
(* guarded by the version that was read).                                  *)
THEOREM ServedListsGrow == StatusSpec => ListsGrow
<1>1. PublishedInv /\ [StatusNext]_statusVars =>
        [\A l \in Lists : list[l].jwt' # list[l].jwt =>
           /\ list[l].jwt.bits \subseteq list'[l].jwt.bits
           /\ list[l].jwt.version < list'[l].jwt.version]_statusVars
  BY GrowStep
<1>. QED BY <1>1, PublishedInvariant, PTL DEF StatusSpec, ListsGrow

-----------------------------------------------------------------------------
(* Groups.                                                                 *)

(* A membership there is belongs to a group there is, a live one to a live *)
(* group, and a tombstone follows the end of a membership, except for one  *)
(* that began behind the request that ended it.                            *)
MemberRight(m) ==
    /\ member[m].state # "none" =>
         /\ member[m].group \in GroupIds
         /\ group[member[m].group].state # "none"
    /\ m \in tomb => member[m].state = "gone"
    /\ member[m].state = "gone" /\ ~member[m].overlap => m \in tomb

MemberPart == \A m \in Anchors : MemberRight(m)

(* UNIQUE(groupId, userId).                                                *)
UniquePart ==
    \A m, n \in Anchors :
        /\ member[m].state = "live" /\ member[n].state = "live"
        /\ member[m].group = member[n].group /\ member[m].user = member[n].user
        => m = n

(* What a request knows.  One that founds a group or adds a member has the *)
(* user and the group it is about.  One that deletes a group               *)
(* has scanned memberships of that group, all but those that began since;  *)
(* one that removes a member has read a membership of that user in that    *)
(* group, the only one but for those that began since.                     *)
ReqRight(r) ==
    /\ req[r].pc = "create" => req[r].actor \in Users
    /\ req[r].pc = "add" => req[r].group \in GroupIds /\ req[r].target \in Users
    /\ rev[r].pc = "scanned" => req[r].pc \in {"delete", "remove"}
    /\ req[r].pc = "delete" /\ rev[r].pc = "scanned" =>
         /\ \A m \in rev[r].anchors : /\ member[m].state # "none"
                                      /\ member[m].group = req[r].group
         /\ \A m \in Anchors :
              member[m].state = "live" /\ member[m].group = req[r].group =>
                  m \in rev[r].anchors \/ member[m].overlap
    /\ req[r].pc = "remove" =>
         /\ req[r].mid \in Anchors /\ member[req[r].mid].state # "none"
         /\ member[req[r].mid].group = req[r].group
         /\ member[req[r].mid].user = req[r].target
         /\ rev[r].pc = "scanned" => rev[r].anchors = {req[r].mid}
         /\ \A m \in Anchors :
              /\ member[m].state = "live" /\ member[m].group = req[r].group
              /\ member[m].user = req[r].target
              => m = req[r].mid \/ member[m].overlap

ReqPart == \A r \in Requests : ReqRight(r)

GroupInv == Tracked /\ TypeOK /\ MemberPart /\ UniquePart /\ ReqPart

-----------------------------------------------------------------------------
(* The blank records are of their types.                                   *)
LEMMA BlankGroupTypes ==
    NoGroup \in GroupType /\ NoMember \in MemberType /\ IdleReq \in ReqType
  BY DEF NoGroup, GroupType, NoMember, MemberType, IdleReq, ReqType, Rank

LEMMA GroupInit == Init => GroupInv
<1>. SUFFICES ASSUME Init PROVE GroupInv OBVIOUS
<1>1. Tracked
  BY TrackedInit DEF Init
<1>2. TypeOK
  BY <1>1, BlankGroupTypes DEF Init, TypeOK, Tracked
<1>3. MemberPart
  BY DEF Init, StatusInit, MemberPart, MemberRight, NoMember
<1>4. UniquePart
  BY DEF Init, UniquePart, NoMember
<1>5. ReqPart
  BY DEF Init, StatusInit, ReqPart, ReqRight, IdleReq, IdleRev, Requests
<1>. QED BY <1>1, <1>2, <1>3, <1>4, <1>5 DEF GroupInv

(* Memberships end and begin, and keep whose they are; one that begins     *)
(* behind a request that ends such memberships is marked.                  *)
MembersAhead ==
    \A m \in Anchors :
        /\ member[m].state # "none" =>
             /\ member'[m].state # "none" /\ member'[m].group = member[m].group
             /\ member'[m].user = member[m].user
             /\ member'[m].overlap = member[m].overlap
             /\ member'[m].state = "live" => member[m].state = "live"
        /\ member[m].state = "none" /\ member'[m].state # "none" =>
             (Overlaps(member'[m].group, member'[m].user) => member'[m].overlap)

(* A request that did not move is still right.                             *)
LEMMA ReqStays ==
    ASSUME GroupInv, MembersAhead, NEW r \in Requests,
           req'[r] = req[r], rev'[r] = rev[r]
    PROVE  ReqRight(r)'
<1>. PICK q : q = req[r] OBVIOUS
<1>. PICK v : v = rev[r] OBVIOUS
<1>1. ReqRight(r) /\ q \in ReqType /\ v \in RevType
  BY DEF GroupInv, ReqPart, TypeOK, StatusTypeOK, Requests
<1>2. CASE q.pc = "delete" /\ v.pc = "scanned"
  <2>1. v.anchors \subseteq Anchors
    BY <1>1 DEF RevType
  <2>2. \A m \in v.anchors : member'[m].state # "none" /\ member'[m].group = q.group
    BY <1>1, <1>2, <2>1 DEF ReqRight, MembersAhead
  <2>3. ASSUME NEW m \in Anchors, member'[m].state = "live", member'[m].group = q.group
        PROVE  m \in v.anchors \/ member'[m].overlap
    <3>1. CASE member[m].state # "none"
      BY <1>1, <1>2, <2>3, <3>1 DEF ReqRight, MembersAhead
    <3>2. CASE member[m].state = "none"
      <4>1. Overlaps(member'[m].group, member'[m].user)
        BY <1>2, <2>3 DEF Overlaps
      <4>. QED BY <2>3, <3>2, <4>1 DEF MembersAhead
    <3>. QED BY <3>1, <3>2
  <2>. QED BY <1>2, <2>2, <2>3 DEF ReqRight
<1>3. CASE q.pc = "remove"
  <2>1. /\ q.mid \in Anchors /\ member[q.mid].state # "none"
        /\ member[q.mid].group = q.group /\ member[q.mid].user = q.target
        /\ v.pc = "scanned" => v.anchors = {q.mid}
    BY <1>1, <1>3 DEF ReqRight
  <2>2. /\ member'[q.mid].state # "none" /\ member'[q.mid].group = q.group
        /\ member'[q.mid].user = q.target
    BY <2>1 DEF MembersAhead
  <2>3. ASSUME NEW m \in Anchors, member'[m].state = "live", member'[m].group = q.group,
               member'[m].user = q.target
        PROVE  m = q.mid \/ member'[m].overlap
    <3>1. CASE member[m].state # "none"
      BY <1>1, <1>3, <2>3, <3>1 DEF ReqRight, MembersAhead
    <3>2. CASE member[m].state = "none"
      <4>1. Overlaps(member'[m].group, member'[m].user)
        BY <1>3, <2>3 DEF Overlaps
      <4>. QED BY <2>3, <3>2, <4>1 DEF MembersAhead
    <3>. QED BY <3>1, <3>2
  <2>. QED BY <1>3, <2>1, <2>2, <2>3 DEF ReqRight
<1>4. CASE q.pc # "remove" /\ ~(q.pc = "delete" /\ v.pc = "scanned")
  BY <1>1, <1>4 DEF ReqRight
<1>. QED BY <1>2, <1>3, <1>4

(* A request that is over knows nothing.                                   *)
LEMMA ReqOver ==
    ASSUME NEW r \in Requests, req'[r] = IdleReq, rev'[r].pc = "idle"
    PROVE  ReqRight(r)'
  BY DEF ReqRight, IdleReq

(* A step that changes neither groups nor requests nor tombstones.         *)
LEMMA StatusStep ==
    ASSUME GroupInv, Tracked', UNCHANGED <<groupVars, tomb, rev>>
    PROVE  GroupInv'
<1>1. TypeOK'
  BY DEF GroupInv, TypeOK, Tracked, groupVars
<1>2. MemberPart'
  BY DEF GroupInv, MemberPart, MemberRight, groupVars
<1>3. UniquePart'
  BY DEF GroupInv, UniquePart, groupVars
<1>4. ReqPart'
  BY DEF GroupInv, ReqPart, ReqRight, groupVars
<1>. QED BY <1>1, <1>2, <1>3, <1>4 DEF GroupInv

(* A request checks: only the request itself moves.                        *)
LEMMA CheckStep ==
    ASSUME GroupInv, NEW r \in Requests, NEW q \in ReqType,
           req' = [req EXCEPT ![r] = q], ReqRight(r)',
           UNCHANGED <<group, member, slugTomb, statusVars>>
    PROVE  GroupInv'
<1>1. req' \in [Requests -> ReqType] /\ \A x \in Requests : x # r => req'[x] = req[x]
  BY DEF GroupInv, TypeOK
<1>2. Tracked'
  BY DEF GroupInv, Tracked, StatusTypeOK, DiscPart, DiscRight, EntryPart, EntryRight,
         RevPart, RevRight, HeldPart, HeldRight, statusVars
<1>3. TypeOK'
  BY <1>1, <1>2 DEF GroupInv, TypeOK, Tracked
<1>4. MemberPart' /\ UniquePart'
  BY DEF GroupInv, MemberPart, MemberRight, UniquePart, statusVars
<1>5. MembersAhead /\ rev' = rev
  BY DEF MembersAhead, statusVars
<1>6. ReqPart'
  BY <1>1, <1>5, ReqStays DEF ReqPart
<1>. QED BY <1>2, <1>3, <1>4, <1>6 DEF GroupInv

-----------------------------------------------------------------------------
(* The checks.                                                             *)

(* A request that has only checked is right, unless it is a removal.       *)
LEMMA PlainCheck ==
    ASSUME GroupInv, NEW r \in Requests, req[r].pc = "idle", NEW q \in ReqType,
           q.pc # "remove", req' = [req EXCEPT ![r] = q],
           q.pc = "create" => q.actor \in Users,
           q.pc = "add" => q.group \in GroupIds /\ q.target \in Users,
           UNCHANGED <<group, member, slugTomb, statusVars>>
    PROVE  GroupInv'
<1>1. rev[r].pc = "idle" /\ rev' = rev
  BY DEF GroupInv, ReqPart, ReqRight, TypeOK, StatusTypeOK, RevType, Requests, statusVars
<1>2. req'[r] = q
  BY DEF GroupInv, TypeOK
<1>3. ReqRight(r)'
  BY <1>1, <1>2 DEF ReqRight
<1>. QED BY <1>3, CheckStep

LEMMA CreateCheckInv ==
    ASSUME GroupInv, NEW r \in Requests, NEW u \in Users, NEW s \in Slugs,
           CreateCheck(r, u, s)
    PROVE  GroupInv'
<1>. PICK q : q = [IdleReq EXCEPT !.pc = "create", !.actor = u, !.slug = s] OBVIOUS
<1>1. q \in ReqType /\ q.pc = "create" /\ q.actor = u
  BY BlankGroupTypes DEF ReqType, IdleReq
<1>. QED BY <1>1, PlainCheck DEF CreateCheck

LEMMA DeleteCheckInv ==
    ASSUME GroupInv, NEW r \in Requests, NEW u \in Users, NEW g \in GroupIds,
           DeleteCheck(r, u, g)
    PROVE  GroupInv'
<1>. PICK q : q = [IdleReq EXCEPT !.pc = "delete", !.actor = u, !.group = g,
                                  !.slug = group[g].slug] OBVIOUS
<1>0. group[g].slug \in Slugs \cup {None}
  BY DEF GroupInv, TypeOK, GroupType
<1>1. q \in ReqType /\ q.pc = "delete"
  BY <1>0, BlankGroupTypes DEF ReqType, IdleReq
<1>. QED BY <1>1, PlainCheck DEF DeleteCheck

LEMMA AddRoleCheckInv ==
    ASSUME GroupInv, NEW r \in Requests, NEW u \in Users, NEW g \in GroupIds,
           NEW t \in Users, NEW role \in {"admin", "member"},
           AddCheck(r, u, g, t, role) \/ RoleCheck(r, u, g, t, role)
    PROVE  GroupInv'
<1>1. role \in DOMAIN Rank
  BY DEF Rank
<1>2. ASSUME NEW pc \in {"add", "role"}
      PROVE  [IdleReq EXCEPT !.pc = pc, !.actor = u, !.group = g, !.target = t,
                             !.role = role] \in ReqType
  BY <1>1, BlankGroupTypes DEF ReqType, IdleReq
<1>3. CASE AddCheck(r, u, g, t, role)
  <2>. PICK q : q = [IdleReq EXCEPT !.pc = "add", !.actor = u, !.group = g,
                                    !.target = t, !.role = role] OBVIOUS
  <2>1. q \in ReqType /\ q.pc = "add" /\ q.group = g /\ q.target = t
    BY <1>2 DEF IdleReq
  <2>. QED BY <1>3, <2>1, PlainCheck DEF AddCheck
<1>4. CASE RoleCheck(r, u, g, t, role)
  <2>. PICK q : q = [IdleReq EXCEPT !.pc = "role", !.actor = u, !.group = g,
                                    !.target = t, !.role = role] OBVIOUS
  <2>1. q \in ReqType /\ q.pc = "role"
    BY <1>2 DEF IdleReq
  <2>. QED BY <1>4, <2>1, PlainCheck DEF RoleCheck
<1>. QED BY <1>3, <1>4

LEMMA RemoveCheckInv ==
    ASSUME GroupInv, NEW r \in Requests, NEW u \in Users, NEW g \in GroupIds,
           NEW t \in Users, RemoveCheck(r, u, g, t)
    PROVE  GroupInv'
<1>1. PICK m \in MemberRow(g, t) :
         req' = [req EXCEPT ![r] = [IdleReq EXCEPT !.pc = "remove", !.actor = u,
                                         !.group = g, !.target = t, !.mid = m]]
  BY DEF RemoveCheck
<1>2. /\ m \in Anchors /\ member[m].state = "live" /\ member[m].group = g
      /\ member[m].user = t
  BY DEF MemberRow, Live
<1>. PICK q : q = [IdleReq EXCEPT !.pc = "remove", !.actor = u, !.group = g,
                                  !.target = t, !.mid = m] OBVIOUS
<1>3. q \in ReqType /\ q.pc = "remove" /\ q.group = g /\ q.target = t /\ q.mid = m
  BY <1>2, BlankGroupTypes DEF ReqType, IdleReq
<1>4. /\ req[r].pc = "idle" /\ UNCHANGED <<group, member, slugTomb, statusVars>>
      /\ req' = [req EXCEPT ![r] = q]
  BY <1>1 DEF RemoveCheck
<1>5. rev[r].pc = "idle" /\ rev' = rev
  BY <1>4 DEF GroupInv, ReqPart, ReqRight, TypeOK, StatusTypeOK, RevType, Requests,
              statusVars
<1>6. req'[r] = q
  BY <1>4 DEF GroupInv, TypeOK
<1>7. ASSUME NEW n \in Anchors, member[n].state = "live", member[n].group = g,
             member[n].user = t
      PROVE  n = m
  BY <1>2, <1>7 DEF GroupInv, UniquePart
<1>8. ReqRight(r)'
  BY <1>2, <1>3, <1>4, <1>5, <1>6, <1>7 DEF ReqRight
<1>. QED BY <1>3, <1>4, <1>8, CheckStep

-----------------------------------------------------------------------------
(* The transactions.                                                       *)

(* Done(r), as the other lemmas use it.                                    *)
LEMMA DoneOthers ==
    ASSUME GroupInv, NEW r \in Requests, Done(r)
    PROVE  /\ req' \in [Requests -> ReqType] /\ req'[r] = IdleReq
           /\ \A x \in Requests : x # r => req'[x] = req[x]
  BY BlankGroupTypes DEF GroupInv, TypeOK, Done

LEMMA StatusSame ==
    ASSUME Tracked, UNCHANGED statusVars
    PROVE  Tracked'
  BY DEF Tracked, StatusTypeOK, DiscPart, DiscRight, EntryPart, EntryRight,
         RevPart, RevRight, HeldPart, HeldRight, statusVars

(* One membership begins, in a group there is, where the user has none.    *)
Begins(m, g, u, role) ==
    /\ m \in Anchors /\ g \in GroupIds /\ u \in Users /\ role \in DOMAIN Rank
    /\ member[m] = NoMember /\ group'[g].state # "none"
    /\ member' = [member EXCEPT ![m] = NewMember(g, u, role)]
    /\ \A n \in Anchors : member[n].state = "live" /\ member[n].group = g
                           => member[n].user # u

(* Groups do not vanish from the table.                                    *)
GroupsStay ==
    /\ group' \in [GroupIds -> GroupType]
    /\ \A h \in GroupIds : group[h].state # "none" => group'[h].state # "none"
    /\ slugTomb' \in [Slugs -> {"none", "hot", "cold"}]

LEMMA MemberBegins ==
    ASSUME GroupInv, NEW r \in Requests, NEW m, NEW g, NEW u, NEW role,
           Begins(m, g, u, role), GroupsStay,
           rev[r].pc = "idle", Done(r), UNCHANGED statusVars
    PROVE  GroupInv'
<1>0. /\ m \in Anchors /\ g \in GroupIds /\ u \in Users /\ role \in DOMAIN Rank
      /\ member[m] = NoMember /\ group'[g].state # "none"
      /\ \A n \in Anchors : member[n].state = "live" /\ member[n].group = g
                             => member[n].user # u
  BY DEF Begins
<1>1. PICK z \in BOOLEAN : z = Overlaps(g, u)
  <2>1. CASE Overlaps(g, u)
    <3>1. TRUE = Overlaps(g, u)
      BY <2>1, Zenon DEF Overlaps
    <3>. QED BY <3>1, Zenon
  <2>2. CASE ~Overlaps(g, u)
    <3>1. FALSE = Overlaps(g, u)
      BY <2>2, SMT DEF Overlaps
    <3>. QED BY <3>1, Zenon
  <2>. QED BY <2>1, <2>2
<1>. PICK n : n = [state |-> "live", group |-> g, user |-> u, role |-> role,
                   overlap |-> z] OBVIOUS
<1>2. member' = [member EXCEPT ![m] = n]
  BY <1>1, Zenon DEF NewMember, Begins
<1>3. n \in MemberType /\ n.state = "live" /\ n.group = g /\ n.user = u /\ n.overlap = z
  BY <1>0 DEF MemberType
<1>4. member \in [Anchors -> MemberType]
  BY DEF GroupInv, TypeOK
<1>5. member' \in [Anchors -> MemberType] /\ member'[m] = n
      /\ \A k \in Anchors : k # m => member'[k] = member[k]
  BY <1>0, <1>2, <1>3, <1>4
<1>6. member[m].state = "none"
  BY <1>0 DEF NoMember
<1>7. MembersAhead
  BY <1>1, <1>3, <1>5, <1>6 DEF MembersAhead
<1>8. Tracked'
  BY StatusSame DEF GroupInv
<1>9. /\ req' \in [Requests -> ReqType] /\ req'[r] = IdleReq
      /\ \A x \in Requests : x # r => req'[x] = req[x]
  BY DoneOthers
<1>10. TypeOK'
  BY <1>5, <1>8, <1>9 DEF TypeOK, Tracked, GroupsStay
<1>11. tomb' = tomb /\ rev' = rev
  BY DEF statusVars
<1>12. MemberPart'
  <2>1. ASSUME NEW k \in Anchors, k # m PROVE MemberRight(k)'
    <3>1. member'[k] = member[k] /\ MemberRight(k)
      BY <1>5, <2>1 DEF GroupInv, MemberPart
    <3>. QED BY <1>11, <3>1 DEF MemberRight, GroupsStay
  <2>2. MemberRight(m)'
    <3>1. m \notin tomb
      BY <1>0, <1>6 DEF GroupInv, MemberPart, MemberRight
    <3>. QED BY <1>0, <1>3, <1>5, <1>11, <3>1 DEF MemberRight
  <2>. QED BY <2>1, <2>2 DEF MemberPart
<1>13. UniquePart'
  BY <1>0, <1>3, <1>5 DEF GroupInv, UniquePart
<1>14. ReqPart'
  <2>1. ReqRight(r)'
    BY <1>9, <1>11, ReqOver
  <2>2. ASSUME NEW x \in Requests, x # r PROVE ReqRight(x)'
    BY <1>7, <1>9, <1>11, <2>2, ReqStays
  <2>. QED BY <2>1, <2>2 DEF ReqPart
<1>. QED BY <1>8, <1>10, <1>12, <1>13, <1>14 DEF GroupInv

(* A request ends and nothing else happens.                                *)
LEMMA RequestOver ==
    ASSUME GroupInv, NEW r \in Requests, rev[r].pc = "idle", Done(r),
           UNCHANGED <<group, member, slugTomb, statusVars>>
    PROVE  GroupInv'
<1>1. req' = [req EXCEPT ![r] = IdleReq] /\ IdleReq \in ReqType /\ req'[r] = IdleReq
  BY BlankGroupTypes DEF Done, GroupInv, TypeOK
<1>2. ReqRight(r)'
  BY <1>1, ReqOver DEF statusVars
<1>. QED BY <1>1, <1>2, CheckStep

(* A request that does not end memberships has no transaction that does.   *)
LEMMA NoTransaction ==
    ASSUME GroupInv, NEW r \in Requests, req[r].pc \notin {"delete", "remove"}
    PROVE  rev[r].pc = "idle"
  BY DEF GroupInv, ReqPart, ReqRight, TypeOK, StatusTypeOK, RevType, Requests

LEMMA CreateTxInv ==
    ASSUME GroupInv, NEW r \in Requests, CreateTx(r)
    PROVE  GroupInv'
<1>0. /\ req[r].pc = "create" /\ req[r] \in ReqType /\ req[r].actor \in Users
      /\ Done(r) /\ UNCHANGED statusVars /\ rev[r].pc = "idle"
  BY NoTransaction DEF CreateTx, GroupInv, TypeOK, ReqPart, ReqRight
<1>1. CASE UNCHANGED <<group, member, slugTomb>>
  BY <1>0, <1>1, RequestOver
<1>2. ASSUME NEW g \in GroupIds, NEW m \in Anchors,
             group[g] = NoGroup, member[m] = NoMember,
             group' = [group EXCEPT ![g] = [state |-> "live",
                               slug |-> req[r].slug, owner |-> req[r].actor]],
             member' = [member EXCEPT ![m] = NewMember(g, req[r].actor, "owner")],
             slugTomb' = [slugTomb EXCEPT ![req[r].slug] = "none"]
      PROVE  GroupInv'
  <2>. PICK n : n = [state |-> "live", slug |-> req[r].slug, owner |-> req[r].actor]
    OBVIOUS
  <2>1. n \in GroupType /\ n.state = "live"
    BY <1>0 DEF GroupType, ReqType
  <2>2. group' \in [GroupIds -> GroupType] /\ group'[g].state = "live"
        /\ \A h \in GroupIds : h # g => group'[h] = group[h]
    BY <1>2, <2>1 DEF GroupInv, TypeOK
  <2>3. slugTomb' \in [Slugs -> {"none", "hot", "cold"}]
    BY <1>2 DEF GroupInv, TypeOK
  <2>4. group[g].state = "none"
    BY <1>2 DEF NoGroup
  <2>5. \A k \in Anchors : member[k].state = "live" => member[k].group # g
    BY <2>4 DEF GroupInv, MemberPart, MemberRight
  <2>6. "owner" \in DOMAIN Rank
    BY DEF Rank
  <2>7. \A h \in GroupIds : group[h].state # "none" => group'[h].state # "none"
    BY <2>2, <2>4
  <2>8. GroupsStay
    BY <2>2, <2>3, <2>7 DEF GroupsStay
  <2>. PICK u : u = req[r].actor OBVIOUS
  <2>9. Begins(m, g, u, "owner")
    BY <1>0, <1>2, <2>2, <2>5, <2>6 DEF Begins
  <2>. QED BY <1>0, <2>8, <2>9, MemberBegins
<1>. QED BY <1>1, <1>2 DEF CreateTx

LEMMA AddTxInv ==
    ASSUME GroupInv, NEW r \in Requests, AddTx(r)
    PROVE  GroupInv'
<1>0. /\ req[r].pc = "add" /\ req[r] \in ReqType /\ req[r].group \in GroupIds
      /\ req[r].target \in Users /\ rev[r].pc = "idle"
      /\ Done(r) /\ UNCHANGED <<group, slugTomb, statusVars>>
      /\ group' \in [GroupIds -> GroupType]
      /\ slugTomb' \in [Slugs -> {"none", "hot", "cold"}]
  BY NoTransaction DEF AddTx, GroupInv, TypeOK, ReqPart, ReqRight
<1>1. CASE UNCHANGED member
  BY <1>0, <1>1, RequestOver
<1>2. CASE ~UNCHANGED member
  <2>. PICK g : g = req[r].group OBVIOUS
  <2>. PICK u : u = req[r].target OBVIOUS
  <2>. PICK role : role = req[r].role OBVIOUS
  <2>1. /\ group[g].state = "live" /\ MemberRow(g, u) = {}
        /\ \E m \in Anchors : /\ member[m] = NoMember
                              /\ member' = [member EXCEPT ![m] = NewMember(g, u, role)]
    BY <1>2 DEF AddTx
  <2>2. PICK m \in Anchors : /\ member[m] = NoMember
                             /\ member' = [member EXCEPT ![m] = NewMember(g, u, role)]
    BY <2>1
  <2>3. \A n \in Anchors : member[n].state = "live" /\ member[n].group = g
                              => member[n].user # u
    BY <2>1 DEF MemberRow, Live
  <2>4. role \in DOMAIN Rank /\ g \in GroupIds /\ u \in Users
    BY <1>0 DEF ReqType
  <2>5. GroupsStay /\ group'[g].state # "none"
    BY <1>0, <2>1 DEF GroupsStay
  <2>6. Begins(m, g, u, role)
    BY <2>2, <2>3, <2>4, <2>5 DEF Begins
  <2>. QED BY <1>0, <2>5, <2>6, MemberBegins
<1>. QED BY <1>1, <1>2

LEMMA RoleTxInv ==
    ASSUME GroupInv, NEW r \in Requests, RoleTx(r)
    PROVE  GroupInv'
<1>0. /\ req[r].pc = "role" /\ req[r] \in ReqType /\ rev[r].pc = "idle"
      /\ Done(r) /\ UNCHANGED <<group, slugTomb, statusVars>>
  BY NoTransaction DEF RoleTx, GroupInv, TypeOK
<1>. PICK role : role = req[r].role OBVIOUS
<1>. PICK ms : ms = MemberRow(req[r].group, req[r].target) OBVIOUS
<1>1. /\ role \in DOMAIN Rank /\ member \in [Anchors -> MemberType]
      /\ member' = [m \in Anchors |-> IF m \in ms
                      THEN [member[m] EXCEPT !.role = role] ELSE member[m]]
  BY <1>0 DEF RoleTx, ReqType, GroupInv, TypeOK
<1>2. ASSUME NEW m \in Anchors
      PROVE  /\ member'[m] \in MemberType /\ member'[m].state = member[m].state
             /\ member'[m].group = member[m].group /\ member'[m].user = member[m].user
             /\ member'[m].overlap = member[m].overlap
  <2>0. member[m] \in MemberType
    BY <1>1
  <2>1. CASE m \in ms
    <3>1. member'[m] = [member[m] EXCEPT !.role = role]
      BY <1>1, <2>1
    <3>. QED BY <1>1, <2>0, <3>1 DEF MemberType
  <2>2. CASE m \notin ms
    BY <1>1, <2>0, <2>2
  <2>. QED BY <2>1, <2>2
<1>3. member' \in [Anchors -> MemberType]
  <2>1. member' = [m \in Anchors |-> member'[m]]
    BY <1>1
  <2>. QED BY <1>2, <2>1
<1>4. Tracked' /\ tomb' = tomb /\ rev' = rev
  BY <1>0, StatusSame DEF GroupInv, statusVars
<1>5. /\ req' \in [Requests -> ReqType] /\ req'[r] = IdleReq
      /\ \A x \in Requests : x # r => req'[x] = req[x]
  BY <1>0, DoneOthers
<1>6. TypeOK'
  BY <1>0, <1>3, <1>4, <1>5 DEF GroupInv, TypeOK, Tracked
<1>7. MembersAhead
  BY <1>2 DEF MembersAhead
<1>8. MemberPart'
  BY <1>0, <1>2, <1>4 DEF GroupInv, MemberPart, MemberRight
<1>9. UniquePart'
  BY <1>2 DEF GroupInv, UniquePart
<1>10. ReqPart'
  <2>1. ReqRight(r)'
    BY <1>0, <1>4, <1>5, ReqOver
  <2>2. ASSUME NEW x \in Requests, x # r PROVE ReqRight(x)'
    BY <1>4, <1>5, <1>7, <2>2, ReqStays
  <2>. QED BY <2>1, <2>2 DEF ReqPart
<1>. QED BY <1>4, <1>6, <1>8, <1>9, <1>10 DEF GroupInv

-----------------------------------------------------------------------------
(* The transactions that revoke.                                           *)

(* A scan: only the transaction itself moves.                              *)
LEMMA ScanStep ==
    ASSUME GroupInv, NEW r \in Requests, NEW as \in SUBSET Anchors,
           RevokeScan(r, as), UNCHANGED groupVars,
           (rev'[r].pc = "scanned" /\ rev'[r].anchors = as) => ReqRight(r)'
    PROVE  GroupInv'
<1>1. Tracked'
  BY ScanTracked DEF GroupInv, Requests
<1>2. /\ rev'[r].pc = "scanned" /\ rev'[r].anchors = as
      /\ \A x \in Requests : x # r => rev'[x] = rev[x]
      /\ UNCHANGED <<group, member, slugTomb, req, tomb>>
  BY DEF RevokeScan, GroupInv, Tracked, StatusTypeOK, Requests, groupVars
<1>3. TypeOK'
  BY <1>1, <1>2 DEF GroupInv, TypeOK, Tracked
<1>4. MemberPart' /\ UniquePart'
  BY <1>2 DEF GroupInv, MemberPart, MemberRight, UniquePart
<1>5. MembersAhead
  BY <1>2 DEF MembersAhead
<1>6. ReqPart'
  BY <1>2, <1>5, ReqStays DEF ReqPart
<1>. QED BY <1>1, <1>3, <1>4, <1>6 DEF GroupInv

LEMMA DeleteScanInv ==
    ASSUME GroupInv, NEW r \in Requests, DeleteScan(r)
    PROVE  GroupInv'
<1>. PICK as : as = Live(req[r].group) OBVIOUS
<1>1. as \in SUBSET Anchors /\ RevokeScan(r, as) /\ UNCHANGED groupVars
      /\ req[r].pc = "delete"
  BY DEF DeleteScan, Live
<1>2. ASSUME rev'[r].pc = "scanned", rev'[r].anchors = as PROVE ReqRight(r)'
  BY <1>1, <1>2 DEF ReqRight, Live, groupVars
<1>. QED BY <1>1, <1>2, ScanStep

LEMMA RemoveScanInv ==
    ASSUME GroupInv, NEW r \in Requests, RemoveScan(r)
    PROVE  GroupInv'
<1>0. req[r].pc = "remove" /\ ReqRight(r) /\ req[r].mid \in Anchors
  BY DEF RemoveScan, GroupInv, ReqPart, ReqRight
<1>1. CASE RevokeScan(r, RemoveAnchors(r)) /\ UNCHANGED groupVars
  <2>. PICK as : as = {req[r].mid} OBVIOUS
  <2>1. as \in SUBSET Anchors /\ RevokeScan(r, as)
    BY <1>0, <1>1 DEF RemoveAnchors
  <2>2. ASSUME rev'[r].pc = "scanned", rev'[r].anchors = as PROVE ReqRight(r)'
    BY <1>0, <1>1, <2>2 DEF ReqRight, groupVars
  <2>. QED BY <1>1, <2>1, <2>2, ScanStep
<1>2. CASE Done(r) /\ UNCHANGED <<group, member, slugTomb, statusVars>>
  <2>1. rev[r].pc # "scanned"
    BY <1>0 DEF RemoveScan, Removing
  <2>2. rev[r].pc = "idle"
    BY <2>1 DEF GroupInv, Tracked, StatusTypeOK, RevType, Requests
  <2>. QED BY <1>2, <2>2, RequestOver
<1>. QED BY <1>1, <1>2 DEF RemoveScan

(* Memberships end with a commit that revokes them, or those of them that  *)
(* did not begin behind it.                                                *)
LEMMA EndStep ==
    ASSUME GroupInv, NEW r \in Requests, RevokeCommit(r), Done(r),
           NEW ms \in SUBSET Anchors, member' = Ended(ms),
           \A m \in ms : member[m].state = "live" /\ (m \in rev[r].anchors \/ member[m].overlap),
           \A m \in rev[r].anchors : m \in ms \/ member[m].state = "gone",
           group' \in [GroupIds -> GroupType],
           \A h \in GroupIds : group[h].state # "none" => group'[h].state # "none",
           slugTomb' \in [Slugs -> {"none", "hot", "cold"}]
    PROVE  GroupInv'
<1>0. member \in [Anchors -> MemberType] /\ rev[r] \in RevType
  BY DEF GroupInv, TypeOK, StatusTypeOK, Requests
<1>1. Tracked'
  BY CommitTracked DEF GroupInv, Requests
<1>2. /\ tomb' = tomb \cup rev[r].anchors /\ rev'[r].pc = "idle"
      /\ \A x \in Requests : x # r => rev'[x] = rev[x]
  BY DEF RevokeCommit, GroupInv, Tracked, StatusTypeOK, Requests, IdleRev
<1>3. ASSUME NEW m \in Anchors
      PROVE  /\ member'[m] \in MemberType
             /\ member'[m].group = member[m].group /\ member'[m].user = member[m].user
             /\ member'[m].overlap = member[m].overlap
             /\ m \in ms => member'[m].state = "gone"
             /\ m \notin ms => member'[m].state = member[m].state
  <2>0. member[m] \in MemberType
    BY <1>0
  <2>1. CASE m \in ms
    <3>1. member'[m] = [member[m] EXCEPT !.state = "gone"]
      BY <2>1 DEF Ended
    <3>. QED BY <2>0, <2>1, <3>1 DEF MemberType
  <2>2. CASE m \notin ms
    <3>1. member'[m] = member[m]
      BY <2>2 DEF Ended
    <3>. QED BY <2>0, <2>2, <3>1
  <2>. QED BY <2>1, <2>2
<1>4. member' \in [Anchors -> MemberType]
  <2>1. member' = [m \in Anchors |-> member'[m]]
    BY DEF Ended
  <2>. QED BY <1>3, <2>1
<1>5. /\ req' \in [Requests -> ReqType] /\ req'[r] = IdleReq
      /\ \A x \in Requests : x # r => req'[x] = req[x]
  BY DoneOthers
<1>6. TypeOK'
  BY <1>1, <1>4, <1>5 DEF TypeOK, Tracked
<1>7. MembersAhead
  BY <1>3 DEF MembersAhead
<1>8. ASSUME NEW m \in Anchors PROVE MemberRight(m)'
  <2>1. MemberRight(m) /\ (m \in ms => member[m].state = "live")
    BY DEF GroupInv, MemberPart
  <2>2. m \in tomb' => member'[m].state = "gone"
    BY <1>2, <1>3, <2>1 DEF MemberRight
  <2>3. member'[m].state = "gone" /\ ~member'[m].overlap => m \in tomb'
    BY <1>2, <1>3, <2>1 DEF MemberRight
  <2>4. member'[m].state # "none" =>
          member'[m].group \in GroupIds /\ group'[member'[m].group].state # "none"
    BY <1>3, <2>1 DEF MemberRight
  <2>. QED BY <2>2, <2>3, <2>4 DEF MemberRight
<1>9. MemberPart'
  BY <1>8 DEF MemberPart
<1>10. UniquePart'
  BY <1>3 DEF GroupInv, UniquePart
<1>11. ReqPart'
  <2>1. ReqRight(r)'
    BY <1>2, <1>5, ReqOver
  <2>2. ASSUME NEW x \in Requests, x # r PROVE ReqRight(x)'
    BY <1>2, <1>5, <1>7, <2>2, ReqStays
  <2>. QED BY <2>1, <2>2 DEF ReqPart
<1>. QED BY <1>1, <1>6, <1>9, <1>10, <1>11 DEF GroupInv

LEMMA DeleteCommitInv ==
    ASSUME GroupInv, NEW r \in Requests, DeleteCommit(r)
    PROVE  GroupInv'
<1>. PICK g : g = req[r].group OBVIOUS
<1>. PICK ms : ms = Live(g) OBVIOUS
<1>0. /\ req[r].pc = "delete" /\ rev[r].pc = "scanned" /\ ReqRight(r)
      /\ RevokeCommit(r) /\ Done(r) /\ member' = Ended(ms)
      /\ rev[r].anchors \subseteq Anchors /\ member \in [Anchors -> MemberType]
  BY DEF DeleteCommit, RevokeCommit, GroupInv, ReqPart, Tracked, StatusTypeOK, RevType,
         Requests, TypeOK
<1>1. ms \in SUBSET Anchors
      /\ \A m \in Anchors : m \in ms <=> member[m].state = "live" /\ member[m].group = g
  BY DEF Live
<1>2. \A m \in ms : member[m].state = "live" /\ (m \in rev[r].anchors \/ member[m].overlap)
  BY <1>0, <1>1 DEF ReqRight
<1>3. \A m \in rev[r].anchors : m \in ms \/ member[m].state = "gone"
  BY <1>0, <1>1 DEF ReqRight, MemberType
<1>4. /\ group' \in [GroupIds -> GroupType]
      /\ \A h \in GroupIds : group[h].state # "none" => group'[h].state # "none"
  <2>1. group \in [GroupIds -> GroupType] /\ group' = [group EXCEPT ![g].state = "gone"]
    BY DEF DeleteCommit, GroupInv, TypeOK
  <2>2. ASSUME NEW h \in GroupIds
        PROVE  group'[h] \in GroupType
               /\ (group[h].state # "none" => group'[h].state # "none")
    <3>0. group[h] \in GroupType
      BY <2>1
    <3>1. CASE h = g
      <4>1. group'[h] = [group[h] EXCEPT !.state = "gone"]
        BY <2>1, <3>1
      <4>. QED BY <3>0, <4>1 DEF GroupType
    <3>2. CASE h # g
      BY <2>1, <3>0, <3>2
    <3>. QED BY <3>1, <3>2
  <2>3. group' = [h \in GroupIds |-> group'[h]]
    BY <2>1
  <2>. QED BY <2>2, <2>3
<1>5. slugTomb' \in [Slugs -> {"none", "hot", "cold"}]
  BY DEF DeleteCommit, GroupInv, TypeOK
<1>. QED BY <1>0, <1>1, <1>2, <1>3, <1>4, <1>5, EndStep

LEMMA RemoveCommitInv ==
    ASSUME GroupInv, NEW r \in Requests, RemoveCommit(r)
    PROVE  GroupInv'
<1>. PICK q : q = req[r] OBVIOUS
<1>. PICK ms : ms = MemberRow(q.group, q.target) OBVIOUS
<1>0. /\ q.pc = "remove" /\ rev[r].pc = "scanned" /\ ReqRight(r)
      /\ RevokeCommit(r) /\ Done(r) /\ member' = Ended(ms)
      /\ UNCHANGED <<group, slugTomb>> /\ member \in [Anchors -> MemberType]
  BY DEF RemoveCommit, RevokeCommit, GroupInv, ReqPart, TypeOK
<1>1. ms \in SUBSET Anchors
      /\ \A m \in Anchors : m \in ms <=> /\ member[m].state = "live"
                                         /\ member[m].group = q.group
                                         /\ member[m].user = q.target
  BY DEF MemberRow, Live
<1>2. rev[r].anchors = {q.mid} /\ q.mid \in Anchors /\ member[q.mid].state # "none"
      /\ member[q.mid].group = q.group /\ member[q.mid].user = q.target
  BY <1>0 DEF ReqRight
<1>3. \A m \in ms : member[m].state = "live" /\ (m \in rev[r].anchors \/ member[m].overlap)
  BY <1>0, <1>1, <1>2 DEF ReqRight
<1>4. \A m \in rev[r].anchors : m \in ms \/ member[m].state = "gone"
  BY <1>0, <1>1, <1>2 DEF MemberType
<1>5. /\ group' \in [GroupIds -> GroupType]
      /\ \A h \in GroupIds : group[h].state # "none" => group'[h].state # "none"
      /\ slugTomb' \in [Slugs -> {"none", "hot", "cold"}]
  BY <1>0 DEF GroupInv, TypeOK
<1>. QED BY <1>0, <1>1, <1>3, <1>4, <1>5, EndStep

LEMMA DeleteFailsInv ==
    ASSUME GroupInv, NEW r \in Requests, DeleteFails(r)
    PROVE  GroupInv'
<1>1. Tracked'
  BY RollbackTracked DEF DeleteFails, GroupInv, Requests
<1>2. /\ UNCHANGED <<group, member, slugTomb, tomb>> /\ Done(r)
      /\ rev'[r].pc = "idle" /\ \A x \in Requests : x # r => rev'[x] = rev[x]
  BY DEF DeleteFails, GroupInv, Tracked, StatusTypeOK, Requests, IdleRev
<1>3. /\ req' \in [Requests -> ReqType] /\ req'[r] = IdleReq
      /\ \A x \in Requests : x # r => req'[x] = req[x]
  BY <1>2, DoneOthers
<1>4. TypeOK'
  BY <1>1, <1>2, <1>3 DEF GroupInv, TypeOK, Tracked
<1>5. MemberPart' /\ UniquePart'
  BY <1>2 DEF GroupInv, MemberPart, MemberRight, UniquePart
<1>6. MembersAhead
  BY <1>2 DEF MembersAhead
<1>7. ReqPart'
  <2>1. ReqRight(r)'
    BY <1>2, <1>3, ReqOver
  <2>2. ASSUME NEW x \in Requests, x # r PROVE ReqRight(x)'
    BY <1>2, <1>3, <1>6, <2>2, ReqStays
  <2>. QED BY <2>1, <2>2 DEF ReqPart
<1>. QED BY <1>1, <1>4, <1>5, <1>7 DEF GroupInv

-----------------------------------------------------------------------------
LEMMA RequestInv ==
    ASSUME GroupInv, NEW r \in Requests, Request(r)
    PROVE  GroupInv'
<1>1. ASSUME NEW u \in Users, NEW s \in Slugs, CreateCheck(r, u, s) PROVE GroupInv'
  BY <1>1, CreateCheckInv
<1>2. ASSUME NEW u \in Users, NEW t \in Users, NEW g \in GroupIds,
             \/ DeleteCheck(r, u, g)
             \/ \E role \in {"admin", "member"} : \/ AddCheck(r, u, g, t, role)
                                                  \/ RoleCheck(r, u, g, t, role)
             \/ RemoveCheck(r, u, g, t)
      PROVE  GroupInv'
  BY <1>2, DeleteCheckInv, AddRoleCheckInv, RemoveCheckInv
<1>. QED
  BY <1>1, <1>2, CreateTxInv, DeleteScanInv, DeleteCommitInv, DeleteFailsInv,
     AddTxInv, RemoveScanInv, RemoveCommitInv, RoleTxInv DEF Request

LEMMA DisclosingInv ==
    ASSUME GroupInv, NEW d \in Disclosers,
           \/ \E m \in Anchors, c \in Clients : Disclose(d, m, c)
           \/ Disclosure(d) /\ UNCHANGED groupVars
    PROVE  GroupInv'
<1>0. Tracked
  BY DEF GroupInv
<1>1. ASSUME NEW m \in Anchors, NEW c \in Clients, Disclose(d, m, c) PROVE GroupInv'
  <2>1. DiscloseStart(d, m, c) /\ UNCHANGED groupVars
    BY <1>1 DEF Disclose
  <2>2. Tracked' /\ UNCHANGED <<tomb, rev>>
    BY <1>0, <2>1, StartTracked DEF DiscloseStart
  <2>. QED BY <2>1, <2>2, StatusStep
<1>2. CASE Disclosure(d) /\ UNCHANGED groupVars
  <2>1. UNCHANGED <<tomb, rev>>
    BY <1>2, Zenon DEF Disclosure, FindExisting, ChooseShard, CreateEntry, Recheck,
                       ForceRevoke, DiscloseFails
  <2>2. Tracked'
    BY <1>0, <1>2, DisclosureTracked
  <2>. QED BY <1>2, <2>1, <2>2, StatusStep
<1>. QED BY <1>1, <1>2

LEMMA GroupNext == ASSUME GroupInv, [Next]_vars PROVE GroupInv'
<1>1. ASSUME NEW s \in Slugs, Cooled(s) PROVE GroupInv'
  <2>1. /\ UNCHANGED <<group, member, req, statusVars>>
        /\ slugTomb' \in [Slugs -> {"none", "hot", "cold"}]
    BY <1>1 DEF Cooled, GroupInv, TypeOK
  <2>2. Tracked' /\ tomb' = tomb /\ rev' = rev
    BY <2>1, StatusSame DEF GroupInv, statusVars
  <2>3. TypeOK'
    BY <2>1, <2>2 DEF GroupInv, TypeOK, Tracked
  <2>4. MemberPart' /\ UniquePart' /\ ReqPart'
    BY <2>1, <2>2 DEF GroupInv, MemberPart, MemberRight, UniquePart, ReqPart, ReqRight
  <2>. QED BY <2>2, <2>3, <2>4 DEF GroupInv
<1>2. CASE UNCHANGED vars
  <2>1. UNCHANGED statusVars /\ UNCHANGED <<groupVars, tomb, rev>>
    BY <1>2 DEF vars, statusVars
  <2>2. Tracked'
    BY <2>1, StatusSame DEF GroupInv
  <2>. QED BY <2>1, <2>2, StatusStep
<1>. QED BY <1>1, <1>2, RequestInv, DisclosingInv DEF Next

(* The inductive invariant of groups: what a request of group-actions.ts   *)
(* has read is what it will end, but for memberships that began since.     *)
THEOREM GroupInvariant == Spec => []GroupInv
<1>1. GroupInv /\ [Next]_vars => GroupInv'
  BY GroupNext
<1>. QED BY <1>1, GroupInit, PTL DEF Spec

(* Groups, memberships and the requests of group-actions.ts keep their     *)
(* shapes.                                                                 *)
THEOREM GroupTypeCorrect == Spec => []TypeOK
<1>1. GroupInv => TypeOK
  BY DEF GroupInv
<1>. QED BY <1>1, GroupInvariant, PTL

(* An anchor is revoked exactly when its membership ends: whichever        *)
(* requests of however many owners and admins overlap, a member is never   *)
(* revoked, and a former member always is, unless the membership began     *)
(* behind the request that ended it (group-actions.ts, removeMember        *)
(* and deleteGroup, which read the ids before they delete the rows).       *)
THEOREM RevokedExactlyWhenGone == Spec => []RevokedWhenGone
<1>1. GroupInv => RevokedWhenGone
  BY DEF GroupInv, MemberPart, MemberRight, RevokedWhenGone
<1>. QED BY <1>1, GroupInvariant, PTL

(* A handle that a relying party holds is revoked once its membership's    *)
(* anchor is, however the disclosure overlaps the transaction, but for one *)
(* handed out while that transaction was committing (allocate.ts, the      *)
(* second look at the tombstone; revoke.ts).                               *)
THEOREM HeldIsRevokedWithMember == Spec => []HeldIsRevoked
<1>1. GroupInv => HeldIsRevoked
  BY TrackedHeld DEF GroupInv
<1>. QED BY <1>1, GroupInvariant, PTL
=============================================================================
