----------------------------- MODULE StatusList -----------------------------
(***************************************************************************)
(* Revocation of disclosed badges.  A revocable fact (an anchor) gets, at  *)
(* its first disclosure to a relying party, a handle: a random bit of one  *)
(* of that party's lists.  Revoking the anchor marks its handles in the    *)
(* caller's transaction and leaves a tombstone for handles still to come;  *)
(* publishers fold revoked bits into signed lists that the status route    *)
(* serves as they are.                                                     *)
(*                                                                         *)
(* Disclosures, revoking transactions and publishers run concurrently; a   *)
(* step ends at every await that others can tell.  Time is counted in      *)
(* publisher epochs, and a version is the epoch it was signed in, or one   *)
(* more than the previous version.                                         *)
(***************************************************************************)
EXTENDS Naturals, FiniteSets

CONSTANTS
    Anchors,     \* revocable facts: GroupMembership ids
    Clients,     \* relying parties
    Disclosers,  \* concurrent disclosures that allocate a handle
    Revokers,    \* concurrent transactions that revoke anchors
    Workers,     \* scheduled publishers, one per app instance
    SizeBits,    \* SHARD_SIZE_BITS
    FillLimit,   \* SHARD_FILL_THRESHOLD * SHARD_SIZE_BITS
    MaxShard,    \* bound: the highest shard number
    MaxTime,     \* bound: the last epoch
    JitterMax,   \* JITTER_MAX_MS
    Heartbeat,   \* HEARTBEAT_MS
    MaxAttempts, \* PUBLISH_MAX_ATTEMPTS (4 in the code)
    None

Lists == Clients \X (0..MaxShard)
Bits == 0..(SizeBits - 1)

ASSUME StatusConstants ==
    /\ SizeBits \in Nat \ {0} /\ MaxAttempts \in Nat \ {0}
    /\ FillLimit \in 1..SizeBits
    /\ MaxShard \in Nat /\ MaxTime \in Nat
    /\ JitterMax \in 0..MaxTime /\ Heartbeat \in Nat \ {0}
    /\ None \notin Anchors \cup Clients \cup Workers

VARIABLES
    entry,  \* BadgeStatusEntry rows, UNIQUE(statusAnchor, clientId)
    tomb,   \* StatusAnchorRevocation rows
    list,   \* StatusList rows, UNIQUE(clientId, shardNo)
    held,   \* the handles relying parties hold, "late" where one was handed
            \* out behind the back of a transaction revoking its anchor
    disc,   \* disclosures under way
    rev,    \* revoking transactions under way
    pub,    \* publisher passes under way
    latch,  \* holder of the publisher's advisory lock
    time

statusVars == <<entry, tomb, list, held, disc, rev, pub, latch, time>>

NoEntry == [state |-> "none", list |-> None, bit |-> 0, reveal |-> 0]
NoJwt == [bits |-> {}, version |-> 0]
NoList == [exists |-> FALSE, version |-> 0, bits |-> {}, jwt |-> NoJwt, at |-> 0]
IdleDisc == [pc |-> "idle", anchor |-> None, client |-> None, late |-> FALSE,
             shard |-> 0, rolled |-> FALSE]
IdleRev == [pc |-> "idle", anchors |-> {}, seen |-> {}]
IdlePub == [pc |-> "idle", now |-> 0, todo |-> {}, list |-> None, row |-> NoList,
            left |-> 0]

StatusInit ==
    /\ entry = [k \in Anchors \X Clients |-> NoEntry]
    /\ tomb = {}
    /\ list = [l \in Lists |-> NoList]
    /\ held = [k \in Anchors \X Clients |-> "no"]
    /\ disc = [d \in Disclosers |-> IdleDisc]
    /\ rev = [r \in Revokers |-> IdleRev]
    /\ pub = [p \in Workers |-> IdlePub]
    /\ latch = None
    /\ time = 0

Key(d) == <<disc[d].anchor, disc[d].client>>
Shard(d) == <<disc[d].client, disc[d].shard>>
InList(l) == {k \in Anchors \X Clients : entry[k].list = l}
Shards(c) == {n \in 0..MaxShard : list[<<c, n>>].exists}

-----------------------------------------------------------------------------
(* allocateStatusEntry.                                                    *)

(* The handle leaves with the credential.  It is late when a transaction   *)
(* has looked for the anchor's handles without it and has yet to commit.   *)
HandOver(d, stale) ==
    LET k == Key(d)
        missed == \E r \in Revokers : k[1] \in rev[r].anchors /\ k \notin rev[r].seen
    IN  held' = [held EXCEPT ![k] = IF @ # "no" THEN @
                                    ELSE IF missed \/ stale THEN "late" ELSE "yes"]

(* The tombstone is read before anything else.                             *)
DiscloseStart(d, a, c) ==
    /\ disc[d].pc = "idle"
    /\ disc' = [disc EXCEPT ![d] = [IdleDisc EXCEPT !.pc = "find",
                   !.anchor = a, !.client = c, !.late = a \in tomb]]
    /\ UNCHANGED <<entry, tomb, list, rev, pub, latch, time, held>>

(* An existing handle is reused, and revoked if the tombstone was there at *)
(* the first read; it is not looked for again.                             *)
FindExisting(d) ==
    /\ disc[d].pc = "find"
    /\ \/ /\ entry[Key(d)] = NoEntry
          /\ disc' = [disc EXCEPT ![d].pc = "shard"]
          /\ UNCHANGED held
       \/ /\ entry[Key(d)] # NoEntry /\ disc[d].late
          /\ disc' = [disc EXCEPT ![d].pc = "force"]
          /\ UNCHANGED held
       \/ /\ entry[Key(d)] # NoEntry /\ ~disc[d].late
          /\ disc' = [disc EXCEPT ![d] = IdleDisc]
          /\ HandOver(d, disc[d].anchor \in tomb)
    /\ UNCHANGED <<entry, tomb, list, rev, pub, latch, time>>

(* The shard to write to: the top one, or the next once that one is        *)
(* filled.  A shard another disclosure opens first is used as it is.       *)
WritableShard(c) ==
    IF Shards(c) = {} THEN 0
    ELSE LET top == CHOOSE n \in Shards(c) : \A k \in Shards(c) : k <= n
         IN  IF Cardinality(InList(<<c, top>>)) >= FillLimit THEN top + 1 ELSE top

OpenShard(l) == [list EXCEPT ![l] = IF @.exists THEN @
                    ELSE [NoList EXCEPT !.exists = TRUE, !.at = time]]

ChooseShard(d) ==
    /\ disc[d].pc = "shard"
    /\ LET n == WritableShard(disc[d].client) IN
         /\ n \in 0..MaxShard
         /\ list' = OpenShard(<<disc[d].client, n>>)
         /\ disc' = [disc EXCEPT ![d].pc = "create", ![d].shard = n]
    /\ UNCHANGED <<entry, tomb, rev, pub, latch, time, held>>

(* A handle of an anchor whose tombstone was read is born revoked.         *)
NewEntry(d, b) ==
    [state |-> IF disc[d].late THEN "revoked" ELSE "clear",
     list |-> Shard(d), bit |-> b, reveal |-> IF disc[d].late THEN time ELSE 0]

Taken(l) == {entry[k].bit : k \in InList(l)}

(* Random draws until a free bit is hit; a handle made meanwhile wins.     *)
(* When every draw collides the next shard is tried, once.                 *)
CreateEntry(d) ==
    /\ disc[d].pc = "create"
    /\ \/ /\ entry[Key(d)] = NoEntry
          /\ \E b \in Bits \ Taken(Shard(d)) :
               entry' = [entry EXCEPT ![Key(d)] = NewEntry(d, b)]
          /\ disc' = [disc EXCEPT ![d].pc = "recheck"]
          /\ UNCHANGED list
       \/ /\ entry[Key(d)] # NoEntry
          /\ disc' = [disc EXCEPT ![d].pc = "recheck"]
          /\ UNCHANGED <<entry, list>>
       \/ /\ entry[Key(d)] = NoEntry
          /\ Taken(Shard(d)) # {} /\ ~disc[d].rolled
          /\ disc[d].shard < MaxShard
          /\ list' = OpenShard(<<disc[d].client, disc[d].shard + 1>>)
          /\ disc' = [disc EXCEPT ![d].shard = @ + 1, ![d].rolled = TRUE]
          /\ UNCHANGED entry
    /\ UNCHANGED <<tomb, rev, pub, latch, time, held>>

MutNoRecheck(d) ==
    /\ disc[d].pc = "recheck"
    /\ disc' = [disc EXCEPT ![d] = IdleDisc]
    /\ HandOver(d, FALSE)
    /\ UNCHANGED <<entry, tomb, list, rev, pub, latch, time>>

(* The tombstone is read again after the handle exists.                    *)
Recheck(d) ==
    /\ disc[d].pc = "recheck"
    /\ IF disc[d].late \/ disc[d].anchor \in tomb
         THEN /\ disc' = [disc EXCEPT ![d].pc = "force"]
              /\ UNCHANGED held
         ELSE /\ disc' = [disc EXCEPT ![d] = IdleDisc]
              /\ HandOver(d, FALSE)
    /\ UNCHANGED <<entry, tomb, list, rev, pub, latch, time>>

(* Only a row that is still clear is touched.                              *)
ForceRevoke(d) ==
    /\ disc[d].pc = "force"
    /\ entry' = [entry EXCEPT ![Key(d)] = IF @.state = "clear"
                   THEN [entry[Key(d)] EXCEPT !.state = "revoked", !.reveal = time]
                   ELSE @]
    /\ disc' = [disc EXCEPT ![d] = IdleDisc]
    /\ HandOver(d, FALSE)
    /\ UNCHANGED <<tomb, list, rev, pub, latch, time>>

(* A database error, or no free bit in the second shard either, omits the  *)
(* badge; what was written stays.                                          *)
DiscloseFails(d) ==
    /\ disc[d].pc # "idle"
    /\ disc' = [disc EXCEPT ![d] = IdleDisc]
    /\ UNCHANGED <<entry, tomb, list, held, rev, pub, latch, time>>

Disclosure(d) ==
    \/ FindExisting(d) \/ ChooseShard(d) \/ CreateEntry(d)
    \/ Recheck(d) \/ ForceRevoke(d) \/ DiscloseFails(d)

-----------------------------------------------------------------------------
(* revokeStatusAnchor, inside its caller's transaction.  What it writes is *)
(* seen at the commit; two transactions that revoke one anchor exclude     *)
(* each other through the tombstone's key.                                 *)

Unlocked(as) == \A r \in Revokers : rev[r].anchors \cap as = {}

(* The clear handles, as the transaction reads them.                       *)
RevokeScan(r, as) ==
    /\ rev[r].pc = "idle"
    /\ Unlocked(as)
    /\ rev' = [rev EXCEPT ![r] = [pc |-> "scanned", anchors |-> as,
                  seen |-> {k \in as \X Clients : entry[k].state = "clear"}]]
    /\ UNCHANGED <<entry, tomb, list, disc, pub, latch, time, held>>

(* Every handle gets a floor of its own for its publication.  Bound: the   *)
(* floor lies before the last epoch.                                       *)
RevokeCommit(r) ==
    /\ rev[r].pc = "scanned"
    /\ \E delay \in [rev[r].seen -> 0..JitterMax] :
         /\ \A k \in rev[r].seen : time + delay[k] <= MaxTime
         /\ entry' = [k \in DOMAIN entry |->
                        IF k \in rev[r].seen
                          THEN [entry[k] EXCEPT !.state = "revoked",
                                                !.reveal = time + delay[k]]
                          ELSE entry[k]]
    /\ tomb' = tomb \cup rev[r].anchors
    /\ rev' = [rev EXCEPT ![r] = IdleRev]
    /\ UNCHANGED <<list, disc, pub, latch, time, held>>

-----------------------------------------------------------------------------
(* The publisher.  A pass fixes its own time and goes through the lists    *)
(* there are; scheduled passes exclude each other by an advisory lock.     *)
(* (A status:publish run by hand is a pass that lost its lock at once.)    *)

PublishStart(p) ==
    /\ pub[p].pc = "idle"
    /\ latch = None
    /\ latch' = p
    /\ pub' = [pub EXCEPT ![p] = [IdlePub EXCEPT !.pc = "lists", !.now = time,
                 !.todo = {l \in Lists : list[l].exists}]]
    /\ UNCHANGED <<entry, tomb, list, disc, rev, time, held>>

(* publishList begins an attempt with the list's row.                      *)
ReadList(p) ==
    /\ \/ /\ pub[p].pc = "lists"
          /\ \E l \in pub[p].todo :
               pub' = [pub EXCEPT ![p] = [pub[p] EXCEPT !.pc = "row", !.list = l,
                  !.row = list[l], !.todo = @ \ {l}, !.left = MaxAttempts]]
       \/ /\ pub[p].pc = "again"
          /\ pub' = [pub EXCEPT ![p] = [pub[p] EXCEPT !.pc = "row",
                                               !.row = list[pub[p].list]]]
    /\ UNCHANGED <<entry, tomb, list, disc, rev, latch, time, held>>

MutEligibleAll(l, now) == {entry[k].bit : k \in InList(l)}

(* Revoked handles whose floor has passed.                                 *)
Eligible(l, now) ==
    {entry[k].bit : k \in {j \in InList(l) : /\ entry[j].state = "revoked"
                                             /\ entry[j].reveal <= now}}

NextList(p) == [pub[p] EXCEPT !.pc = "lists", !.list = None, !.row = NoList,
                              !.left = 0]

(* A list is signed when a bit is new, when it was never signed, and when  *)
(* its signature is due for renewal.  Signing may fail: the pass goes on   *)
(* to the next list.                                                       *)
NeedsPublishing(p, bits) ==
    \/ bits # pub[p].row.bits
    \/ pub[p].row.jwt = NoJwt
    \/ pub[p].now >= pub[p].row.at + Heartbeat

(* The clock, but always above the last version.                           *)
NewVersion(p) == LET next == pub[p].row.version + 1
                 IN  IF next > pub[p].now THEN next ELSE pub[p].now

SignList(p) ==
    /\ pub[p].pc = "row"
    /\ LET bits == pub[p].row.bits \cup Eligible(pub[p].list, pub[p].now) IN
         pub' = [pub EXCEPT ![p] =
                   IF NeedsPublishing(p, bits)
                     THEN [pub[p] EXCEPT !.pc = "signed", !.row.jwt =
                             [bits |-> bits, version |-> NewVersion(p)]]
                     ELSE NextList(p)]
    /\ UNCHANGED <<entry, tomb, list, disc, rev, latch, time, held>>

SignFails(p) ==
    /\ pub[p].pc = "row"
    /\ NeedsPublishing(p, pub[p].row.bits \cup Eligible(pub[p].list, pub[p].now))
    /\ pub' = [pub EXCEPT ![p] = NextList(p)]
    /\ UNCHANGED <<entry, tomb, list, disc, rev, latch, time, held>>

MutAnyVersion(p) == TRUE

(* The row is written only if it is still at the version that was read;    *)
(* otherwise the attempt is repeated, a bounded number of times.           *)
AtVersion(p) == list[pub[p].list].version = pub[p].row.version

WriteList(p) ==
    /\ pub[p].pc = "signed"
    /\ IF AtVersion(p)
         THEN /\ list' = [list EXCEPT ![pub[p].list] =
                   [list[pub[p].list] EXCEPT
                      !.version = pub[p].row.jwt.version, !.at = pub[p].now,
                      !.jwt = pub[p].row.jwt,
                      !.bits = IF pub[p].row.jwt.bits # pub[p].row.bits
                                 THEN pub[p].row.jwt.bits ELSE @]]
              /\ pub' = [pub EXCEPT ![p] = NextList(p)]
         ELSE /\ pub' = [pub EXCEPT ![p] = IF pub[p].left > 1
                           THEN [pub[p] EXCEPT !.pc = "again", !.row = NoList,
                                               !.left = @ - 1]
                           ELSE NextList(p)]
              /\ UNCHANGED list
    /\ UNCHANGED <<entry, tomb, disc, rev, latch, time, held>>

MutKeepsLatch(p) ==
    /\ pub[p].pc = "lists" /\ pub[p].todo = {}
    /\ pub' = [pub EXCEPT ![p] = IdlePub]
    /\ UNCHANGED <<entry, tomb, list, held, disc, rev, time, latch>>

(* The end of a pass.  (One that cannot load the issuer key ends before it *)
(* begins.)                                                                *)
PublishEnd(p) ==
    /\ pub[p].pc = "lists" /\ pub[p].todo = {}
    /\ pub' = [pub EXCEPT ![p] = IdlePub]
    /\ latch' = IF latch = p THEN None ELSE latch
    /\ UNCHANGED <<entry, tomb, list, held, disc, rev, time>>

(* The transaction that holds the lock times out; the pass, on connections *)
(* of its own, goes on.                                                    *)
LockLost(p) ==
    /\ latch = p
    /\ latch' = None
    /\ UNCHANGED <<entry, tomb, list, held, disc, rev, pub, time>>

Publish(p) ==
    \/ PublishStart(p) \/ ReadList(p) \/ SignList(p) \/ SignFails(p)
    \/ WriteList(p) \/ PublishEnd(p) \/ LockLost(p)

Tick ==
    /\ time < MaxTime
    /\ time' = time + 1
    /\ UNCHANGED <<entry, tomb, list, disc, rev, pub, latch, held>>

-----------------------------------------------------------------------------
(* On its own: any anchor may be disclosed or revoked at any time.         *)
StatusNext ==
    \/ \E d \in Disclosers : \/ \E a \in Anchors, c \in Clients : DiscloseStart(d, a, c)
                             \/ Disclosure(d)
    \/ \E r \in Revokers : \/ \E a \in Anchors \ tomb : RevokeScan(r, {a})
                           \/ RevokeCommit(r)
    \/ \E p \in Workers : Publish(p)
    \/ Tick

StatusSpec == StatusInit /\ [][StatusNext]_statusVars

(* The interval keeps running, a pass goes on while it can, requests end,  *)
(* and time goes on.  A signing outage ends: a worker that is offered a    *)
(* list to sign again and again signs it.                                  *)
StatusFair ==
    /\ \A p \in Workers :
         /\ WF_statusVars(PublishStart(p)) /\ WF_statusVars(ReadList(p))
         /\ WF_statusVars(WriteList(p)) /\ WF_statusVars(PublishEnd(p))
         /\ \A l \in Lists : SF_statusVars(SignList(p) /\ pub[p].list = l)
    /\ \A d \in Disclosers : WF_statusVars(Disclosure(d))
    /\ \A r \in Revokers : WF_statusVars(RevokeCommit(r))
    /\ WF_statusVars(Tick)

StatusFairSpec == StatusSpec /\ StatusFair

-----------------------------------------------------------------------------
EntryType == [state : {"none", "clear", "revoked"}, list : Lists \cup {None},
              bit : Bits, reveal : 0..MaxTime]
ListType == [exists : BOOLEAN, version : Nat, bits : SUBSET Bits,
             jwt : [bits : SUBSET Bits, version : Nat], at : 0..MaxTime]
DiscType == [pc : {"idle", "find", "shard", "create", "recheck", "force"},
             anchor : Anchors \cup {None}, client : Clients \cup {None},
             late : BOOLEAN, shard : 0..MaxShard, rolled : BOOLEAN]
RevType == [pc : {"idle", "scanned"}, anchors : SUBSET Anchors,
            seen : SUBSET (Anchors \X Clients)]
PubType == [pc : {"idle", "lists", "row", "signed", "again"}, now : 0..MaxTime,
            todo : SUBSET Lists, list : Lists \cup {None}, row : ListType,
            left : 0..MaxAttempts]

StatusTypeOK ==
    /\ entry \in [Anchors \X Clients -> EntryType]
    /\ tomb \subseteq Anchors
    /\ held \in [Anchors \X Clients -> {"no", "yes", "late"}]
    /\ list \in [Lists -> ListType]
    /\ disc \in [Disclosers -> DiscType]
    /\ rev \in [Revokers -> RevType]
    /\ pub \in [Workers -> PubType]
    /\ latch \in Workers \cup {None}
    /\ time \in 0..MaxTime

(* What a list served once says stays said, and every new signature has a  *)
(* higher version, however passes of workers and scripts overlap: the      *)
(* relying party's high-water mark and the route's ETag rest on it         *)
(* (publish.ts, the guarded write).                                        *)
ListsGrow ==
    [][\A l \in Lists : list[l].jwt' # list[l].jwt =>
         /\ list[l].jwt.bits \subseteq list'[l].jwt.bits
         /\ list[l].jwt.version < list'[l].jwt.version]_statusVars

(* A list tells on nobody: a published bit belongs to a revoked handle of  *)
(* that list whose floor has passed, and the anchor has its tombstone.     *)
PublishedIsRevoked ==
    \A l \in Lists, b \in Bits : b \in list[l].jwt.bits =>
        \E k \in InList(l) : /\ entry[k].bit = b /\ entry[k].state = "revoked"
                             /\ entry[k].reveal <= time /\ k[1] \in tomb

(* A handle that a relying party holds is revoked with its anchor, however *)
(* the disclosure and the revocation overlap, but for one handed out while *)
(* the revocation was committing (allocate.ts, the second look at the      *)
(* tombstone; revoke.ts, the tombstone first).                             *)
HeldIsRevoked ==
    \A k \in Anchors \X Clients :
        held[k] = "yes" /\ k[1] \in tomb => entry[k].state = "revoked"

(* A revoked handle is in its served list in the end, through signing      *)
(* failures, lost writes and aborted passes.                               *)
RevokedIsServed ==
    \A k \in Anchors \X Clients :
        entry[k].state = "revoked" ~>
            \E l \in Lists : entry[k].list = l /\ entry[k].bit \in list[l].jwt.bits
=============================================================================
