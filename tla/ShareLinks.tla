----------------------------- MODULE ShareLinks -----------------------------
(***************************************************************************)
(* Share links: bearer tokens for a set of badges, opened by anyone until  *)
(* they expire or are revoked.  A request for the page reads the link,     *)
(* then the badges, re-mints each and decides at the account gate; the     *)
(* link may be revoked, badges deleted and time pass between those reads.  *)
(* The page shows what the badges say; a re-minted copy stays with the     *)
(* server, and only its failure shows.                                     *)
(***************************************************************************)
EXTENDS BadgeTable

CONSTANTS
    LinkIds,
    Ttls,               \* link lifetimes an owner may choose, in ticks
    RevocableTypes,     \* BADGE_TYPES[type].revocable
    Viewers,            \* browsers; each has one view in progress
    SessionOf           \* the user a browser is signed in as, or Null

(* ShareLink rows.                                                         *)
LinkRows ==
    [owner : Users, badges : SUBSET BadgeIds, expiresAt : Nat, gated : BOOLEAN, revoked : BOOLEAN]

ASSUME ShareConstants == Ttls \subseteq Nat /\ Null \notin LinkRows

VARIABLES
    link,       \* ShareLink rows, or Null
    viewing,    \* the view a browser has in progress
    linkView,   \* ShareLinkView rows <<link, viewerUserId>>
    shown       \* history: the pages browsers were shown

shareVars == <<link, viewing, linkView, shown>>

NoView == [pc |-> "idle"]

ShareInit ==
    /\ link = [l \in LinkIds |-> Null]
    /\ viewing = [v \in Viewers |-> NoView]
    /\ linkView = {}
    /\ shown = {}

(* The owner's badges only, none of a revocable type.                      *)
createShareLink(l, u, B, ttl, requiresAccount) ==
    /\ link[l] = Null
    /\ B # {} /\ B \subseteq Held(u)
    /\ \A b \in B : TypeOf[b] \notin RevocableTypes
    /\ link' = [link EXCEPT ![l] = [owner |-> u, badges |-> B, expiresAt |-> clock + ttl,
                                    gated |-> requiresAccount, revoked |-> FALSE]]
    /\ UNCHANGED <<badgeVars, viewing, linkView, shown>>

revokeShareLink(l) ==
    /\ link[l] # Null /\ ~link[l].revoked
    /\ link' = [link EXCEPT ![l].revoked = TRUE]
    /\ UNCHANGED <<badgeVars, viewing, linkView, shown>>

(* What had ended when a request came in: a history, no read of the code.  *)
Ended(l) ==
    [revoked |-> link[l].revoked, deleted |-> {b \in BadgeIds : status[b] = "deleted"},
     at |-> clock]

(* SharePage: the limiter lets the request for a link through.             *)
RequestPage(v, l) ==
    /\ viewing[v] = NoView
    /\ link[l] # Null
    /\ viewing' = [viewing EXCEPT ![v] = [pc |-> "link", link |-> l, before |-> Ended(l)]]
    /\ UNCHANGED <<badgeVars, link, linkView, shown>>

(* Mutated form: whether the link is revoked is not looked at.             *)
MutUsable(row) == ~(row.expiresAt < clock)

Usable(row) == ~row.revoked /\ ~(row.expiresAt < clock)

(* loadShareLinkByToken, first read: the link row.                         *)
OpenLink(v) ==
    /\ viewing[v].pc = "link"
    /\ LET row == link[viewing[v].link]
       IN  viewing' = [viewing EXCEPT ![v] =
                         IF Usable(row)
                         THEN [pc |-> "badges", link |-> @.link, before |-> @.before, row |-> row]
                         ELSE NoView]
    /\ UNCHANGED <<badgeVars, link, linkView, shown>>

(* Second read: the link's badges that its owner still holds, expired or   *)
(* not.                                                                    *)
ReadBadges(v) ==
    /\ viewing[v].pc = "badges"
    /\ LET row == viewing[v].row
       IN  viewing' = [viewing EXCEPT ![v] =
                         [pc |-> "mint", link |-> @.link, before |-> @.before, row |-> row,
                          badges |-> {b \in row.badges \cap Held(row.owner) :
                                        TypeOf[b] \notin RevocableTypes}]]
    /\ UNCHANGED <<badgeVars, link, linkView, shown>>

(* A badge whose re-minting throws is left out.                            *)
Reminted(badges) == SUBSET badges

(* The account gate decides whether the page shows the badges, and the     *)
(* view is recorded first.                                                 *)
RenderLink(v) ==
    /\ viewing[v].pc = "mint"
    /\ LET l == viewing[v].link
           refused == viewing[v].row.gated /\ SessionOf[v] = Null
       IN  \E B \in Reminted(viewing[v].badges) :
             /\ linkView' = linkView \cup {<<l, SessionOf[v]>>}
             /\ shown' = IF refused THEN shown
                         ELSE shown \cup {[link |-> l, badges |-> B, to |-> v,
                                           before |-> viewing[v].before]}
    /\ viewing' = [viewing EXCEPT ![v] = NoView]
    /\ UNCHANGED <<badgeVars, link>>

(* A read or the insert throws: the browser gets an error page.            *)
ViewFails(v) ==
    /\ viewing[v] # NoView
    /\ viewing' = [viewing EXCEPT ![v] = NoView]
    /\ UNCHANGED <<badgeVars, link, linkView, shown>>

ShareNext ==
    \/ \E l \in LinkIds, u \in Users, B \in SUBSET BadgeIds, ttl \in Ttls, gated \in BOOLEAN :
         createShareLink(l, u, B, ttl, gated)
    \/ \E l \in LinkIds : revokeShareLink(l)
    \/ \E v \in Viewers, l \in LinkIds : RequestPage(v, l)
    \/ \E v \in Viewers : OpenLink(v) \/ ReadBadges(v) \/ RenderLink(v) \/ ViewFails(v)

-----------------------------------------------------------------------------
(* Properties.                                                             *)

(* A page may miss what ends while it is rendered, and nothing that ended  *)
(* before its request: the link was neither revoked nor past its time when *)
(* the request came in, every badge shown is on the link, its owner's,     *)
(* irrevocable by type and not deleted by then; and the owner finds a view *)
(* of the browser's user recorded, who is signed in if the link asks for   *)
(* it (loadShareLinkByToken, SharePage).                                   *)
NoStalePage ==
    \A s \in shown :
        /\ ~s.before.revoked /\ s.before.at <= link[s.link].expiresAt
        /\ s.badges \subseteq link[s.link].badges \ s.before.deleted
        /\ \A b \in s.badges : OwnerOf[b] = link[s.link].owner /\ TypeOf[b] \notin RevocableTypes
        /\ <<s.link, SessionOf[s.to]>> \in linkView
        /\ link[s.link].gated => SessionOf[s.to] # Null
=============================================================================
