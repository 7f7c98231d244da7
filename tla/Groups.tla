------------------------------- MODULE Groups -------------------------------
(***************************************************************************)
(* Groups and their members.  A group has one owner, set when it is        *)
(* founded; owner and admins add and remove members, and only the owner    *)
(* makes or removes an admin or deletes the group.  A membership is the    *)
(* anchor of the member's badge: ending it revokes the anchor in the same  *)
(* transaction (StatusList), and a badge is disclosed only while its       *)
(* holder is a member.                                                     *)
(*                                                                         *)
(* An action checks first and writes in a transaction of its own later;    *)
(* what it read may be stale by then.  The founding gate's score is any    *)
(* score: whether it is high enough is left open.  Publishers only read    *)
(* the handles and are left to StatusList.                                 *)
(***************************************************************************)
EXTENDS StatusList

CONSTANTS
    Users,
    GroupIds,   \* Group ids, never reused
    Slugs,
    MaxOwned    \* maxOwnedGroups of the configuration

ASSUME GroupConstants == MaxOwned \in Nat /\ None \notin Users \cup GroupIds \cup Slugs

VARIABLES
    group,      \* Group rows
    member,     \* GroupMembership rows, by id; an id is an anchor
    slugTomb,   \* GroupSlugTombstone: "hot" during the cooldown
    req         \* server actions under way

groupVars == <<group, member, slugTomb, req>>
vars == <<statusVars, groupVars>>

Requests == Revokers

NoGroup == [state |-> "none", slug |-> None, owner |-> None]
NoMember == [state |-> "none", group |-> None, user |-> None, role |-> "member",
             overlap |-> FALSE]
IdleReq == [pc |-> "idle", actor |-> None, group |-> None, slug |-> None,
            target |-> None, mid |-> None, role |-> "member"]

Init ==
    /\ StatusInit
    /\ group = [g \in GroupIds |-> NoGroup]
    /\ member = [m \in Anchors |-> NoMember]
    /\ slugTomb = [s \in Slugs |-> "none"]
    /\ req = [r \in Requests |-> IdleReq]

(* The membership of a user in a group, UNIQUE(groupId, userId).           *)
Live(g) == {m \in Anchors : member[m].state = "live" /\ member[m].group = g}
MemberRow(g, u) == {m \in Live(g) : member[m].user = u}

Rank == [member |-> 1, admin |-> 2, owner |-> 3]

(* requireGroupRole.                                                       *)
HasRole(g, u, min) == \E m \in MemberRow(g, u) : Rank[member[m].role] >= Rank[min]

Owned(u) == {g \in GroupIds : group[g].state = "live" /\ group[g].owner = u}
SlugHeld(s) == \E g \in GroupIds : group[g].state = "live" /\ group[g].slug = s

Done(r) == req' = [req EXCEPT ![r] = IdleReq]

-----------------------------------------------------------------------------
(* createGroup: the checks, then the transaction.  Only the slug's unique  *)
(* key is checked again there.                                             *)

CreateCheck(r, u, s) ==
    /\ req[r].pc = "idle"
    /\ ~SlugHeld(s) /\ slugTomb[s] # "hot"
    /\ Cardinality(Owned(u)) < MaxOwned
    /\ req' = [req EXCEPT ![r] = [IdleReq EXCEPT !.pc = "create", !.actor = u,
                                                 !.slug = s]]
    /\ UNCHANGED <<group, member, slugTomb, statusVars>>

(* A membership that begins while a request that ends such a membership    *)
(* has already read what there is.                                         *)
Overlaps(g, u) ==
    \E r \in Requests :
        /\ req[r].group = g
        /\ \/ req[r].pc = "delete" /\ rev[r].pc = "scanned"
           \/ req[r].pc = "remove" /\ req[r].target = u

NewMember(g, u, role) == [state |-> "live", group |-> g, user |-> u, role |-> role,
                          overlap |-> Overlaps(g, u)]

CreateTx(r) ==
    /\ req[r].pc = "create"
    /\ \/ /\ ~SlugHeld(req[r].slug)
          /\ \E g \in GroupIds, m \in Anchors :
               /\ group[g] = NoGroup /\ member[m] = NoMember
               /\ group' = [group EXCEPT ![g] = [state |-> "live",
                               slug |-> req[r].slug, owner |-> req[r].actor]]
               /\ member' = [member EXCEPT ![m] = NewMember(g, req[r].actor, "owner")]
          /\ slugTomb' = [slugTomb EXCEPT ![req[r].slug] = "none"]
       \/ SlugHeld(req[r].slug) /\ UNCHANGED <<group, member, slugTomb>>
    /\ Done(r)
    /\ UNCHANGED statusVars

-----------------------------------------------------------------------------
(* deleteGroup: lists the memberships and revokes each, then deletes the   *)
(* group, which takes along every membership there is by then.             *)

DeleteCheck(r, u, g) ==
    /\ req[r].pc = "idle"
    /\ HasRole(g, u, "owner")
    /\ req' = [req EXCEPT ![r] = [IdleReq EXCEPT !.pc = "delete", !.actor = u,
                                                 !.group = g, !.slug = group[g].slug]]
    /\ UNCHANGED <<group, member, slugTomb, statusVars>>

DeleteScan(r) ==
    /\ req[r].pc = "delete"
    /\ RevokeScan(r, Live(req[r].group))
    /\ UNCHANGED groupVars

(* The row of a member whose removal is under way is locked until then.    *)
Removing(g, u) == \E r \in Requests : /\ req[r].pc = "remove" /\ req[r].group = g
                                      /\ req[r].target = u /\ rev[r].pc = "scanned"

Ended(ms) == [m \in Anchors |-> IF m \in ms THEN [member[m] EXCEPT !.state = "gone"]
                                            ELSE member[m]]

DeleteCommit(r) ==
    /\ req[r].pc = "delete"
    /\ \A m \in Live(req[r].group) : ~Removing(req[r].group, member[m].user)
    /\ RevokeCommit(r)
    /\ group[req[r].group].state = "live"
    /\ group' = [group EXCEPT ![req[r].group].state = "gone"]
    /\ member' = Ended(Live(req[r].group))
    /\ slugTomb' = [slugTomb EXCEPT ![req[r].slug] = "hot"]
    /\ Done(r)

(* The group is no longer there: the transaction is rolled back.           *)
DeleteFails(r) ==
    /\ req[r].pc = "delete" /\ rev[r].pc = "scanned"
    /\ group[req[r].group].state = "gone"
    /\ rev' = [rev EXCEPT ![r] = IdleRev]
    /\ Done(r)
    /\ UNCHANGED <<group, member, slugTomb, entry, tomb, list, held, disc, pub,
                   latch, time>>

-----------------------------------------------------------------------------
(* addMember, removeMember, setMemberRole.                                 *)

AddCheck(r, u, g, t, role) ==
    /\ req[r].pc = "idle"
    /\ HasRole(g, u, IF role = "admin" THEN "owner" ELSE "admin")
    /\ MemberRow(g, t) = {}
    /\ req' = [req EXCEPT ![r] = [IdleReq EXCEPT !.pc = "add", !.actor = u,
                                    !.group = g, !.target = t, !.role = role]]
    /\ UNCHANGED <<group, member, slugTomb, statusVars>>

(* Refused by the unique key, or because the group is gone.                *)
AddTx(r) ==
    /\ req[r].pc = "add"
    /\ ~Removing(req[r].group, req[r].target)
    /\ IF group[req[r].group].state = "live"
            /\ MemberRow(req[r].group, req[r].target) = {}
         THEN \E m \in Anchors :
                /\ member[m] = NoMember
                /\ member' = [member EXCEPT ![m] =
                     NewMember(req[r].group, req[r].target, req[r].role)]
         ELSE UNCHANGED member
    /\ Done(r)
    /\ UNCHANGED <<group, slugTomb, statusVars>>

(* The owner is never removed, an admin only by the owner.                 *)
MayRemove(actorRole, targetRole) ==
    /\ targetRole # "owner"
    /\ targetRole = "admin" => actorRole = "owner"

RemoveCheck(r, u, g, t) ==
    /\ req[r].pc = "idle"
    /\ HasRole(g, u, "admin")
    /\ \E a \in MemberRow(g, u), m \in MemberRow(g, t) :
         /\ MayRemove(member[a].role, member[m].role)
         /\ req' = [req EXCEPT ![r] = [IdleReq EXCEPT !.pc = "remove", !.actor = u,
                                         !.group = g, !.target = t, !.mid = m]]
    /\ UNCHANGED <<group, member, slugTomb, statusVars>>

MutRemoveAnchors(r) == {}

(* The row is deleted by group and user; the anchor revoked is the one     *)
(* that was read.                                                          *)
RemoveAnchors(r) == {req[r].mid}

RemoveScan(r) ==
    /\ req[r].pc = "remove"
    /\ ~Removing(req[r].group, req[r].target)
    /\ \/ /\ MemberRow(req[r].group, req[r].target) # {}
          /\ RevokeScan(r, RemoveAnchors(r))
          /\ UNCHANGED groupVars
       \/ /\ MemberRow(req[r].group, req[r].target) = {}
          /\ Done(r)
          /\ UNCHANGED <<group, member, slugTomb, statusVars>>

RemoveCommit(r) ==
    /\ req[r].pc = "remove"
    /\ RevokeCommit(r)
    /\ member' = Ended(MemberRow(req[r].group, req[r].target))
    /\ Done(r)
    /\ UNCHANGED <<group, slugTomb>>

RoleCheck(r, u, g, t, role) ==
    /\ req[r].pc = "idle"
    /\ HasRole(g, u, "owner")
    /\ \E m \in MemberRow(g, t) : member[m].role \notin {"owner", role}
    /\ req' = [req EXCEPT ![r] = [IdleReq EXCEPT !.pc = "role", !.actor = u,
                                    !.group = g, !.target = t, !.role = role]]
    /\ UNCHANGED <<group, member, slugTomb, statusVars>>

RoleTx(r) ==
    /\ req[r].pc = "role"
    /\ ~Removing(req[r].group, req[r].target)
    /\ member' = [m \in Anchors |-> IF m \in MemberRow(req[r].group, req[r].target)
                                      THEN [member[m] EXCEPT !.role = req[r].role]
                                      ELSE member[m]]
    /\ Done(r)
    /\ UNCHANGED <<group, slugTomb, statusVars>>

-----------------------------------------------------------------------------
(* A badge outlives its membership; it is disclosed while its holder is a  *)
(* member of the group again or still.                                     *)
Disclose(d, m, c) ==
    /\ member[m].state # "none"
    /\ MemberRow(member[m].group, member[m].user) # {}
    /\ DiscloseStart(d, m, c)
    /\ UNCHANGED groupVars

(* The slug's cooldown ends.                                               *)
Cooled(s) ==
    /\ slugTomb[s] = "hot"
    /\ slugTomb' = [slugTomb EXCEPT ![s] = "cold"]
    /\ UNCHANGED <<group, member, req, statusVars>>

Request(r) ==
    \/ \E u \in Users, s \in Slugs : CreateCheck(r, u, s)
    \/ \E u, t \in Users, g \in GroupIds :
         \/ DeleteCheck(r, u, g)
         \/ \E role \in {"admin", "member"} : \/ AddCheck(r, u, g, t, role)
                                              \/ RoleCheck(r, u, g, t, role)
         \/ RemoveCheck(r, u, g, t)
    \/ CreateTx(r) \/ DeleteScan(r) \/ DeleteCommit(r) \/ DeleteFails(r)
    \/ AddTx(r) \/ RemoveScan(r) \/ RemoveCommit(r) \/ RoleTx(r)

Next ==
    \/ \E r \in Requests : Request(r)
    \/ \E d \in Disclosers : \/ \E m \in Anchors, c \in Clients : Disclose(d, m, c)
                             \/ Disclosure(d) /\ UNCHANGED groupVars
    \/ \E s \in Slugs : Cooled(s)

Spec == Init /\ [][Next]_vars

-----------------------------------------------------------------------------
GroupType == [state : {"none", "live", "gone"}, slug : Slugs \cup {None},
              owner : Users \cup {None}]
MemberType == [state : {"none", "live", "gone"}, group : GroupIds \cup {None},
               user : Users \cup {None}, role : DOMAIN Rank, overlap : BOOLEAN]
ReqType == [pc : {"idle", "create", "delete", "add", "remove", "role"},
            actor : Users \cup {None}, group : GroupIds \cup {None},
            slug : Slugs \cup {None}, target : Users \cup {None},
            mid : Anchors \cup {None}, role : DOMAIN Rank]

TypeOK ==
    /\ StatusTypeOK
    /\ group \in [GroupIds -> GroupType]
    /\ member \in [Anchors -> MemberType]
    /\ slugTomb \in [Slugs -> {"none", "hot", "cold"}]
    /\ req \in [Requests -> ReqType]

(* An anchor is revoked exactly when its membership ends: never while the  *)
(* membership lasts, whichever requests overlap, and always afterwards     *)
(* unless it began while the request that ended it was already under way   *)
(* (removeMember and deleteGroup read the ids before they delete).         *)
RevokedWhenGone ==
    \A m \in Anchors :
        /\ member[m].state = "live" => m \notin tomb
        /\ member[m].state = "gone" /\ ~member[m].overlap => m \in tomb
=============================================================================
