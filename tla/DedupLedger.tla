---------------------------- MODULE DedupLedger -----------------------------
(***************************************************************************)
(* One credential, one account: the sybil-dedup ledger behind badge        *)
(* issuance.  A batch of badges is minted by issueBadgesAndComplete, which *)
(* registers each credential in the ledger, inserts the badge, and probes  *)
(* the entry again; deleteBadge and an aborted batch release entries; an   *)
(* account merge, or its reversal, moves badges in a transaction and       *)
(* re-tags their entries afterwards.                                       *)
(*                                                                         *)
(* Both backends are modelled.  "interim": the ledger is a table beside    *)
(* Badge, and release is one conditional DELETE, which looks for badges in *)
(* the snapshot it starts from and takes effect at its commit.  "signet":  *)
(* the ledger is a remote service, and an advisory lock per entry orders a *)
(* release against the mint window.  A step ends at every await.           *)
(***************************************************************************)
EXTENDS Naturals, Sequences, FiniteSets

CONSTANTS
    Users,          \* accounts; a dedupHandle is named by its account
    Creds,          \* ledger values: one per (anchor, badge type)
    Batches,        \* sequences of distinct Creds a plugin may complete with
    Refs,           \* ledger entry ids, never reused
    Badges,         \* badge ids, never reused
    Minters,        \* concurrent issueBadgesAndComplete calls
    Deleters,       \* concurrent deleteBadge calls
    MergePairs,     \* <<donor, survivor>> pairs that may merge
    Backends,       \* values of MINISTER_NULLIFIER_BACKEND considered
    Faults,         \* whether network, database and signing calls may fail
    LateDelivery,   \* whether Signet may act on a request given up on
    Reversals,      \* whether merges may be reversed
    HealAttempts,   \* attempts of the self-heal loop (3 in the code)
    Attempts,       \* attempts of runPostCommit (3 in the code)
    None

ASSUME LedgerConstants ==
    /\ Batches \subseteq Seq(Creds) \ {<<>>}
    /\ Backends \subseteq {"interim", "signet"}
    /\ Faults \in BOOLEAN /\ LateDelivery \in BOOLEAN /\ Reversals \in BOOLEAN
    /\ HealAttempts \in Nat \ {0} /\ Attempts \in Nat \ {0}
    /\ Minters \cap Deleters = {}
    /\ None \notin Users \cup Refs \cup Badges \cup Minters \cup Deleters
    /\ MergePairs \subseteq Users \X Users
    /\ \A p \in MergePairs : p[1] # p[2]

VARIABLES
    backend,    \* MINISTER_NULLIFIER_BACKEND, fixed for a deployment
    entry,      \* NullifierEntry rows
    badge,      \* Badge rows with a nullifierRef
    lock,       \* holder of an entry's advisory lock (signet)
    mint,       \* issueBadgesAndComplete calls
    del,        \* deleteBadge calls
    rel,        \* release calls, one at a time per caller
    inflight,   \* release requests given up on that Signet may still run
    mergedInto, \* User.mergedIntoUserId
    record,     \* MergeRecord: the badges a merge moved, and their refs;
                \* ghost (open): those of a batch that was not finished
    retag,      \* reassignOwner work that follows a commit
    adrift      \* ghost: badges whose batch died before it had probed them

vars == <<backend, entry, badge, lock, mint, del, rel, inflight, mergedInto,
          record, retag, adrift>>
mergeVars == <<mergedInto, record, retag, adrift, backend>>

Callers == Minters \cup Deleters

NoEntry == [state |-> "free", cred |-> None, owner |-> None]
NoBadge == [state |-> "free", user |-> None, cred |-> None, ref |-> None]
IdleMint == [pc |-> "idle", user |-> None, todo |-> <<>>, ref |-> None,
             badge |-> None, heal |-> 0, created |-> {}, fresh |-> {}]
IdleDel == [pc |-> "idle", user |-> None, badge |-> None, ref |-> None]
NoRel == [pc |-> "none", ref |-> None, owner |-> None, left |-> 0]
NoRecord == [state |-> "none", badges |-> {}, refs |-> {}, open |-> {}]

Init ==
    /\ backend \in Backends
    /\ entry = [r \in Refs |-> NoEntry]
    /\ badge = [b \in Badges |-> NoBadge]
    /\ lock = [r \in Refs |-> None]
    /\ mint = [m \in Minters |-> IdleMint]
    /\ del = [d \in Deleters |-> IdleDel]
    /\ rel = [p \in Callers |-> NoRel]
    /\ inflight = {}
    /\ mergedInto = [u \in Users |-> None]
    /\ record = [p \in MergePairs |-> NoRecord]
    /\ retag = {}
    /\ adrift = {}

SessionOk(u) == mergedInto[u] = None

(* The entries that hold a credential: at most one, UNIQUE(value).         *)
Holding(c) == {r \in Refs : entry[r].state = "live" /\ entry[r].cred = c}

(* Badge rows that still reference an entry.                               *)
Siblings(r) == {b \in Badges : badge[b].state = "live" /\ badge[b].ref = r}

Cred(m) == Head(mint[m].todo)

-----------------------------------------------------------------------------
(* issueBadgesAndComplete.                                                 *)

(* Bound: a batch starts only while badge ids remain for those under way.  *)
BadgeIdsLeft ==
    Cardinality({b \in Badges : badge[b] = NoBadge})
        > Cardinality({m \in Minters : mint[m].pc # "idle"})

MintStart(m, u, batch) ==
    /\ mint[m].pc = "idle"
    /\ SessionOk(u)
    /\ BadgeIdsLeft
    /\ mint' = [mint EXCEPT ![m] = [IdleMint EXCEPT !.pc = "register",
                                      !.user = u, !.todo = batch]]
    /\ UNCHANGED <<entry, badge, lock, del, rel, inflight, mergeVars>>

(* The outcome of a registration that found the credential held by r.      *)
Registered(m, r) ==
    mint' = [mint EXCEPT ![m] =
               IF entry[r].owner = mint[m].user
                 THEN [@ EXCEPT !.pc = "window", !.ref = r]     \* already_yours
                 ELSE [@ EXCEPT !.pc = "abort"]]                \* taken

(* registerDedup.  Signet decides at once; the interim backend inserts and *)
(* looks the row up in a second statement when UNIQUE(value) refuses it.   *)
Register(m) ==
    /\ mint[m].pc = "register"
    /\ \/ /\ Holding(Cred(m)) = {}
          /\ \E r \in Refs :
               /\ entry[r] = NoEntry
               /\ entry' = [entry EXCEPT ![r] = [state |-> "live",
                              cred |-> Cred(m), owner |-> mint[m].user]]
               /\ mint' = [mint EXCEPT ![m] = [mint[m] EXCEPT !.pc = "window",
                              !.ref = r, !.fresh = mint[m].fresh \cup {r}]]
       \/ /\ backend = "signet"
          /\ \E r \in Holding(Cred(m)) : Registered(m, r)
          /\ UNCHANGED entry
       \/ /\ backend = "interim"
          /\ Holding(Cred(m)) # {}
          /\ mint' = [mint EXCEPT ![m].pc = "lookup"]
          /\ UNCHANGED entry
    /\ UNCHANGED <<badge, lock, del, rel, inflight, mergeVars>>

(* A failure of the call: in the self-heal it compensates the batch; at    *)
(* the first registration it leaves the function, nothing undone.          *)
RegisterThrows(m) ==
    mint' = [mint EXCEPT ![m] = IF @.heal = 0 THEN IdleMint
                                              ELSE [@ EXCEPT !.pc = "abort"]]

RegisterLookup(m) ==
    /\ mint[m].pc = "lookup"
    /\ \/ \E r \in Holding(Cred(m)) : Registered(m, r)
       \/ Holding(Cred(m)) = {} /\ RegisterThrows(m)
    /\ UNCHANGED <<entry, badge, lock, del, rel, inflight, mergeVars>>

(* An outage; Signet may have registered although its answer was lost.     *)
RegisterFails(m) ==
    /\ Faults
    /\ mint[m].pc = "register"
    /\ RegisterThrows(m)
    /\ \/ UNCHANGED entry
       \/ /\ backend = "signet" /\ Holding(Cred(m)) = {}
          /\ \E r \in Refs : /\ entry[r] = NoEntry
                             /\ entry' = [entry EXCEPT ![r] =
                                  [state |-> "live", cred |-> Cred(m),
                                   owner |-> mint[m].user]]
    /\ UNCHANGED <<badge, lock, del, rel, inflight, mergeVars>>

(* serializeMintWindow opens: the signet backend takes the entry's lock.   *)
WindowOpen(m) ==
    /\ mint[m].pc = "window"
    /\ \/ backend = "interim" /\ UNCHANGED lock
       \/ /\ backend = "signet" /\ lock[mint[m].ref] = None
          /\ lock' = [lock EXCEPT ![mint[m].ref] = m]
    /\ mint' = [mint EXCEPT ![m].pc = "write"]
    /\ UNCHANGED <<entry, badge, del, rel, inflight, mergeVars>>

(* Mutant: the window's transaction is left open.                          *)
MutUnlock(p) == UNCHANGED lock

Unlock(p) == lock' = [r \in Refs |-> IF lock[r] = p THEN None ELSE lock[r]]

(* In the window: issueBadge's transaction inserts the signed badge, or    *)
(* the self-heal re-points the one already minted (a badge that is gone by *)
(* then makes the update throw).                                           *)
WindowWrite(m) ==
    LET q == mint[m] IN
    /\ q.pc = "write"
    /\ \/ /\ q.heal = 0
          /\ \E b \in Badges :
               /\ badge[b] = NoBadge
               /\ badge' = [badge EXCEPT ![b] = [state |-> "live",
                              user |-> q.user, cred |-> Cred(m), ref |-> q.ref]]
               /\ mint' = [mint EXCEPT ![m] = [q EXCEPT !.pc = "probe",
                              !.badge = b, !.created = q.created \cup {b}]]
          /\ UNCHANGED lock
       \/ /\ q.heal > 0 /\ badge[q.badge].state = "live"
          /\ badge' = [badge EXCEPT ![q.badge].ref = q.ref]
          /\ mint' = [mint EXCEPT ![m].pc = "probe"]
          /\ UNCHANGED lock
       \/ /\ q.heal > 0 /\ badge[q.badge].state # "live"
          /\ mint' = [mint EXCEPT ![m].pc = "abort"]
          /\ Unlock(m)
          /\ UNCHANGED badge
    /\ UNCHANGED <<entry, del, rel, inflight, mergeVars>>

(* Mutant: the probe is dropped, the entry is assumed to have survived.    *)
MutProbePresent(m) == TRUE

(* entryExistsForOwner.                                                    *)
ProbePresent(m) ==
    entry[mint[m].ref].state = "live" /\ entry[mint[m].ref].owner = mint[m].user

(* The badge is anchored: go on with the batch, or complete the session.   *)
Anchored(q) ==
    IF Len(q.todo) = 1 THEN IdleMint
    ELSE [q EXCEPT !.pc = "register", !.todo = Tail(q.todo), !.ref = None,
                   !.badge = None, !.heal = 0]

(* assertLockLive.                                                         *)
LockLive(m) == backend = "signet" => lock[mint[m].ref] = m

(* The mint-side probe, then assertLockLive: an answer read without the    *)
(* lock is not trusted.  A gone entry starts, or repeats, the self-heal.   *)
WindowProbe(m) ==
    LET q == mint[m] IN
    /\ q.pc = "probe"
    /\ mint' = [mint EXCEPT ![m] =
         IF ~LockLive(m) THEN [q EXCEPT !.pc = "abort"]
         ELSE IF ProbePresent(m) THEN Anchored(q)
         ELSE IF q.heal = HealAttempts THEN [q EXCEPT !.pc = "abort"]
         ELSE [q EXCEPT !.pc = "register", !.heal = @ + 1]]
    /\ Unlock(m)
    /\ UNCHANGED <<entry, badge, del, rel, inflight, mergeVars>>

(* Signing, database or probe failure inside the window, or a lock that    *)
(* could not be had: the batch is compensated after the window.            *)
WindowFails(m) ==
    /\ Faults
    /\ mint[m].pc \in {"window", "write", "probe"}
    /\ mint' = [mint EXCEPT ![m].pc = "abort"]
    /\ Unlock(m)
    /\ UNCHANGED <<entry, badge, del, rel, inflight, mergeVars>>

(* runPostCommit: a release with all its attempts ahead, and one fewer.    *)
PostCommit(r, u) == [pc |-> "want", ref |-> r, owner |-> u, left |-> Attempts]

Retried(q) == IF q.left = 1 THEN NoRel
                            ELSE [q EXCEPT !.pc = "want", !.left = @ - 1]

(* compensateBatch: the badges of this batch go ...                        *)
CompensateDelete(m) ==
    /\ mint[m].pc = "abort"
    /\ badge' = [b \in Badges |->
         IF b \in mint[m].created /\ badge[b].user = mint[m].user
           THEN [badge[b] EXCEPT !.state = "deleted"] ELSE badge[b]]
    /\ mint' = [mint EXCEPT ![m] = [@ EXCEPT !.pc = "undo", !.created = {}]]
    /\ UNCHANGED <<entry, lock, del, rel, inflight, mergeVars>>

(* ... and only the registrations that were fresh are released.            *)
CompensateRelease(m) ==
    /\ mint[m].pc = "undo"
    /\ rel[m] = NoRel
    /\ IF mint[m].fresh = {}
         THEN /\ mint' = [mint EXCEPT ![m] = IdleMint]
              /\ UNCHANGED rel
         ELSE \E r \in mint[m].fresh :
                /\ mint' = [mint EXCEPT ![m].fresh = @ \ {r}]
                /\ rel' = [rel EXCEPT ![m] = PostCommit(r, mint[m].user)]
    /\ UNCHANGED <<entry, badge, lock, del, inflight, mergeVars>>

(* The process dies in the middle of a batch, or the compensation's own    *)
(* deleteMany throws: nothing more is undone.  The badges probed before    *)
(* are anchored; the one being written, or healed, stays as it is.         *)
MintDies(m) ==
    /\ Faults
    /\ mint[m].pc \notin {"idle", "undo"}
    /\ mint' = [mint EXCEPT ![m] = IdleMint]
    /\ adrift' = adrift \cup ({mint[m].badge} \ {None})
    /\ Unlock(m)
    /\ UNCHANGED <<backend, entry, badge, del, rel, inflight, mergedInto, record,
                   retag>>

-----------------------------------------------------------------------------
(* deleteBadge.                                                            *)

DeleteStart(d, b) ==
    /\ del[d].pc = "idle"
    /\ badge[b].state = "live"
    /\ SessionOk(badge[b].user)
    /\ del' = [del EXCEPT ![d] = [pc |-> "delete", user |-> badge[b].user,
                                  badge |-> b, ref |-> badge[b].ref]]
    /\ UNCHANGED <<entry, badge, lock, mint, rel, inflight, mergeVars>>

DeleteRow(d) ==
    LET q == del[d] IN
    /\ del[d].pc = "delete"
    /\ IF badge[q.badge].state = "live" /\ badge[q.badge].user = q.user
         THEN /\ badge' = [badge EXCEPT ![q.badge].state = "deleted"]
              /\ del' = [del EXCEPT ![d].pc = "count"]
         ELSE del' = [del EXCEPT ![d] = IdleDel] /\ UNCHANGED badge
    /\ UNCHANGED <<entry, lock, mint, rel, inflight, mergeVars>>

(* The fast path: no release while siblings obviously remain.              *)
DeleteCount(d) ==
    /\ del[d].pc = "count"
    /\ IF Siblings(del[d].ref) # {}
         THEN del' = [del EXCEPT ![d] = IdleDel] /\ UNCHANGED rel
         ELSE /\ del' = [del EXCEPT ![d].pc = "release"]
              /\ rel' = [rel EXCEPT ![d] = PostCommit(del[d].ref, del[d].user)]
    /\ UNCHANGED <<entry, badge, lock, mint, inflight, mergeVars>>

DeleteDone(d) ==
    /\ del[d].pc = "release"
    /\ rel[d] = NoRel
    /\ del' = [del EXCEPT ![d] = IdleDel]
    /\ UNCHANGED <<entry, badge, lock, mint, rel, inflight, mergeVars>>

-----------------------------------------------------------------------------
(* NullifierService.release, under runPostCommit.                          *)

(* how: "gone", "late" for a release its caller had given up on, or        *)
(* "overtaken" for a DELETE that a badge inserted since its snapshot has   *)
(* overtaken (the row is gone all the same; the properties tell which).    *)
Freed(r, owner, how) ==
    entry' = [entry EXCEPT ![r].state =
                IF @ = "live" /\ entry[r].owner = owner THEN how ELSE @]

(* Mutant: the sibling guard of the release is dropped.                    *)
MutGuarded(r) == FALSE

(* Whether a badge still referencing the entry keeps it from being freed.  *)
Guarded(r) == Siblings(r) # {}

(* interim: one DELETE, whose NOT EXISTS over Badge reads the snapshot the *)
(* statement starts from ...                                               *)
ReleaseSnapshot(p) ==
    /\ backend = "interim"
    /\ rel[p].pc = "want"
    /\ rel' = [rel EXCEPT ![p] = IF Guarded(rel[p].ref) THEN NoRel
                                 ELSE [@ EXCEPT !.pc = "snapped"]]
    /\ UNCHANGED <<entry, badge, lock, mint, del, inflight, mergeVars>>

(* ... and which takes the row when it commits, as long as the handle is   *)
(* the same: the badges are not looked at again.                           *)
ReleaseInterim(p) ==
    /\ rel[p].pc = "snapped"
    /\ Freed(rel[p].ref, rel[p].owner,
             IF Guarded(rel[p].ref) THEN "overtaken" ELSE "gone")
    /\ rel' = [rel EXCEPT ![p] = NoRel]
    /\ UNCHANGED <<badge, lock, mint, del, inflight, mergeVars>>

(* signet: the lock, and the fresh sibling count under it ...              *)
ReleaseLock(p) ==
    LET r == rel[p].ref IN
    /\ backend = "signet"
    /\ rel[p].pc = "want"
    /\ lock[r] = None
    /\ IF Guarded(r) THEN rel' = [rel EXCEPT ![p] = NoRel] /\ UNCHANGED lock
       ELSE /\ rel' = [rel EXCEPT ![p].pc = "counted"]
            /\ lock' = [lock EXCEPT ![r] = p]
    /\ UNCHANGED <<entry, badge, mint, del, inflight, mergeVars>>

(* ... the lock is proved alive again before POST /dedup/release; a lock   *)
(* that evaporated fails the attempt.                                      *)
ReleaseSend(p) ==
    LET r == rel[p].ref IN
    /\ rel[p].pc = "counted"
    /\ rel' = [rel EXCEPT ![p] = IF lock[r] = p THEN [@ EXCEPT !.pc = "sent"]
                                                ELSE Retried(@)]
    /\ UNCHANGED <<entry, badge, lock, mint, del, inflight, mergeVars>>

(* Signet answers in time: the entry is deleted, or was before, or is      *)
(* another handle's (403), which fails the attempt.                        *)
ReleaseAnswered(p) ==
    LET q == rel[p] IN
    /\ q.pc = "sent"
    /\ Freed(q.ref, q.owner, "gone")
    /\ rel' = [rel EXCEPT ![p] =
         IF entry[q.ref].state = "live" /\ entry[q.ref].owner # q.owner
           THEN Retried(q) ELSE NoRel]
    /\ Unlock(p)
    /\ UNCHANGED <<badge, mint, del, inflight, mergeVars>>

(* The absolute deadline passes, or a call fails: the lock transaction     *)
(* ends and the attempt is used up; the request may be on its way still.   *)
ReleaseFails(p) ==
    /\ Faults
    /\ rel[p].pc \in {"want", "snapped", "sent"}
    /\ rel' = [rel EXCEPT ![p] = Retried(@)]
    /\ inflight' = IF rel[p].pc = "sent" /\ LateDelivery
                     THEN inflight \cup {<<rel[p].ref, rel[p].owner>>}
                     ELSE inflight
    /\ Unlock(p)
    /\ UNCHANGED <<entry, badge, mint, del, mergeVars>>

(* Signet runs a release its caller has given up on.                       *)
LateRelease(x) ==
    /\ x \in inflight
    /\ Freed(x[1], x[2], "late")
    /\ inflight' = inflight \ {x}
    /\ UNCHANGED <<badge, lock, mint, del, rel, mergeVars>>

(* The lock transaction times out under its holder.  A request already     *)
(* sent ends within its deadline, before the 60 s budget.                  *)
LockLost(r) ==
    /\ Faults
    /\ lock[r] # None
    /\ rel[lock[r]].pc # "sent"
    /\ lock' = [lock EXCEPT ![r] = None]
    /\ UNCHANGED <<entry, badge, mint, del, rel, inflight, mergeVars>>

-----------------------------------------------------------------------------
(* Account merge and reversal: the ledger's part.                          *)

Retagged(refs, from, to) == {[ref |-> r, from |-> from, to |-> to] : r \in refs}

(* mergeAccounts; bound: a pair of accounts is merged once.                *)
MergeAccounts(d, s) ==
    LET moved == {b \in Badges : badge[b].state = "live" /\ badge[b].user = d}
        refs == {badge[b].ref : b \in moved}
        open == {b \in moved : \E m \in Minters : b \in mint[m].created}
    IN  /\ <<d, s>> \in MergePairs
        /\ SessionOk(d) /\ SessionOk(s)
        /\ record[<<d, s>>].state = "none"
        /\ badge' = [b \in Badges |-> IF b \in moved
                       THEN [badge[b] EXCEPT !.user = s] ELSE badge[b]]
        /\ mergedInto' = [mergedInto EXCEPT ![d] = s]
        /\ record' = [record EXCEPT ![<<d, s>>] =
             [state |-> "merged", badges |-> moved, refs |-> refs, open |-> open]]
        /\ retag' = retag \cup Retagged(refs, d, s)
        /\ UNCHANGED <<backend, entry, lock, mint, del, rel, inflight, adrift>>

(* reverseMerge: the recorded badges go back, whoever owns them now.       *)
ReverseMerge(d, s) ==
    LET snap == record[<<d, s>>] IN
    /\ Reversals
    /\ <<d, s>> \in MergePairs
    /\ snap.state = "merged"
    /\ mergedInto[d] = s
    /\ badge' = [b \in Badges |->
         IF b \in snap.badges /\ badge[b].state = "live"
           THEN [badge[b] EXCEPT !.user = d] ELSE badge[b]]
    /\ mergedInto' = [mergedInto EXCEPT ![d] = None]
    /\ record' = [record EXCEPT ![<<d, s>>].state = "reversed"]
    /\ retag' = retag \cup Retagged(snap.refs, s, d)
    /\ UNCHANGED <<backend, entry, lock, mint, del, rel, inflight, adrift>>

(* reassignOwner after the commit: owner-checked per entry.                *)
Reassign(w) ==
    /\ w \in retag
    /\ entry' = [entry EXCEPT ![w.ref].owner =
                   IF entry[w.ref].state = "live" /\ @ = w.from THEN w.to ELSE @]
    /\ retag' = retag \ {w}
    /\ UNCHANGED <<backend, badge, lock, mint, del, rel, inflight, mergedInto,
                   record, adrift>>

(* Its attempts are used up; the entry keeps its handle.                   *)
ReassignFails(w) ==
    /\ Faults
    /\ w \in retag
    /\ retag' = retag \ {w}
    /\ UNCHANGED <<backend, entry, badge, lock, mint, del, rel, inflight,
                   mergedInto, record, adrift>>

-----------------------------------------------------------------------------

MintStep(m) ==
    \/ Register(m) \/ RegisterLookup(m) \/ WindowOpen(m) \/ WindowWrite(m)
    \/ WindowProbe(m) \/ CompensateDelete(m) \/ CompensateRelease(m)

DeleteStep(d) == DeleteRow(d) \/ DeleteCount(d) \/ DeleteDone(d)

ReleaseStep(p) ==
    \/ ReleaseSnapshot(p) \/ ReleaseInterim(p)
    \/ ReleaseLock(p) \/ ReleaseSend(p) \/ ReleaseAnswered(p)

FaultStep ==
    \/ \E m \in Minters : RegisterFails(m) \/ WindowFails(m) \/ MintDies(m)
    \/ \E p \in Callers : ReleaseFails(p)
    \/ \E r \in Refs : LockLost(r)
    \/ \E x \in inflight : LateRelease(x)
    \/ \E w \in retag : ReassignFails(w)

MergeStep ==
    \/ \E d, s \in Users : MergeAccounts(d, s) \/ ReverseMerge(d, s)
    \/ \E w \in retag : Reassign(w)

Next ==
    \/ \E m \in Minters, u \in Users, batch \in Batches : MintStart(m, u, batch)
    \/ \E d \in Deleters, b \in Badges : DeleteStart(d, b)
    \/ \E m \in Minters : MintStep(m)
    \/ \E d \in Deleters : DeleteStep(d)
    \/ \E p \in Callers : ReleaseStep(p)
    \/ FaultStep
    \/ MergeStep

Spec == Init /\ [][Next]_vars

(* A request that has started is run to its end by the server, and so is   *)
(* the work behind a commit.  Postgres grants a contended advisory lock in *)
(* the order it was asked for, so the two steps that wait for one are      *)
(* strongly fair.                                                          *)
Fairness ==
    /\ \A m \in Minters : WF_vars(MintStep(m)) /\ SF_vars(WindowOpen(m))
    /\ \A d \in Deleters : WF_vars(DeleteStep(d))
    /\ \A p \in Callers : WF_vars(ReleaseStep(p)) /\ SF_vars(ReleaseLock(p))
    /\ WF_vars(\E w \in retag : Reassign(w))

FairSpec == Spec /\ Fairness

-----------------------------------------------------------------------------
(* Properties.                                                             *)

(* An account that took another over is not itself merged into a third, so *)
(* that what an account has become is one step away.                       *)
NoChains == \A p, q \in MergePairs : p[1] = q[2] => p[2] = q[1]

Root(u) == IF mergedInto[u] = None THEN u ELSE mergedInto[u]

(* A live badge that no unfinished batch may still take back, and whose    *)
(* entry was taken by no release that its code knows it cannot stop: a     *)
(* request that Signet ran after it was given up on, or an interim DELETE  *)
(* with a snapshot older than the badge, committed after the badge's probe *)
(* (the residual that interim.ts accepts for as long as there are no users *)
(* on that backend).                                                       *)
Settled(b) ==
    /\ badge[b].state = "live"
    /\ \A m \in Minters : b \notin mint[m].created
    /\ entry[badge[b].ref].state \notin {"late", "overtaken"}

(* A badge that compensation never reached: a merge took it from an        *)
(* unfinished batch, whose deleteMany looks for it under the old account,  *)
(* or the batch died, or its deleteMany failed, before the badge's probe   *)
(* had passed.                                                             *)
Escaped(b) == b \in adrift \/ \E p \in MergePairs : b \in record[p].open

(* Every table and every call holds values of its shape.                   *)
TypeOK ==
    /\ backend \in Backends
    /\ entry \in [Refs -> [state : {"free", "live", "gone", "late",
                                    "overtaken"},
                           cred : Creds \cup {None}, owner : Users \cup {None}]]
    /\ badge \in [Badges -> [state : {"free", "live", "deleted"},
                             user : Users \cup {None}, cred : Creds \cup {None},
                             ref : Refs \cup {None}]]
    /\ lock \in [Refs -> Callers \cup {None}]
    /\ \A m \in Minters :
         /\ mint[m].pc \in {"idle", "register", "lookup", "window", "write",
                            "probe", "abort", "undo"}
         /\ mint[m].user \in Users \cup {None}
         /\ mint[m].ref \in Refs \cup {None}
         /\ mint[m].badge \in Badges \cup {None}
         /\ mint[m].heal \in 0..HealAttempts
         /\ mint[m].created \subseteq Badges /\ mint[m].fresh \subseteq Refs
    /\ \A p \in Callers : /\ rel[p].pc \in {"none", "want", "snapped", "counted",
                                           "sent"}
                          /\ rel[p].ref \in Refs \cup {None}
                          /\ rel[p].left \in 0..Attempts
    /\ mergedInto \in [Users -> Users \cup {None}]
    /\ retag \subseteq [ref : Refs, from : Users, to : Users]
    /\ adrift \subseteq Badges

(* One credential, one account: two badges for the same credential belong  *)
(* to one account, through deletes racing re-issues, aborted batches, lost *)
(* locks, failed releases and account merges that are not reversed (and do *)
(* not chain), unless one of them escaped its batch's compensation or lost *)
(* its entry to a release that could not be stopped (Escaped, Settled).    *)
OneAccountPerCredential ==
    \A b, c \in Badges :
        /\ Settled(b) /\ Settled(c) /\ ~Escaped(b) /\ ~Escaped(c)
        /\ badge[b].cred = badge[c].cred
        /\ NoChains /\ \A p \in MergePairs : record[p].state # "reversed"
        => Root(badge[b].user) = Root(badge[c].user)

(* What the guard of release and the mint-side probe are for: a badge that *)
(* passed its probe stays anchored to a live ledger entry for its own      *)
(* credential, so nobody else can register it, whoever it moves to, with   *)
(* the same exceptions.                                                    *)
BadgeAnchored ==
    \A b \in Badges : Settled(b) /\ ~Escaped(b) =>
        /\ entry[badge[b].ref].state = "live"
        /\ entry[badge[b].ref].cred = badge[b].cred

(* Nobody waits for ever on an entry's lock: a batch and a delete that     *)
(* have started come to an end, whatever fails on the way (as far as the   *)
(* bound on entry ids lets a batch register).                              *)
RequestsEnd ==
    /\ \A m \in Minters : mint[m].pc # "idle" ~>
         (mint[m].pc = "idle" \/ NoEntry \notin {entry[r] : r \in Refs})
    /\ \A d \in Deleters : del[d].pc # "idle" ~> del[d].pc = "idle"
=============================================================================
