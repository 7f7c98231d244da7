--------------------------- MODULE MCOidcProvider ---------------------------
(***************************************************************************)
(* Small instances of OidcProvider.  b1 and b2 are sibling badges (one     *)
(* scope) of the first account, b3 belongs to the second account; "name"   *)
(* is the profile claim.                                                   *)
(***************************************************************************)
EXTENDS OidcProvider, TLC

CONSTANTS u1, u2, c1, c2, b1, b2, b3, h1, h2, j1, j2, k1, k2, name,
          badgeScope, profileScope

BothScopes == {badgeScope, profileScope}

MCScopeOf == [i \in Items |-> IF i \in Badges THEN badgeScope ELSE profileScope]
MCBadgeOwner == [b \in Badges |-> IF b = b3 THEN u2 ELSE u1]

OneConfig == {BothScopes}

NameRequest == [scopes |-> {profileScope}, policy |-> FALSE]
PolicyRequest == [scopes |-> BothScopes, policy |-> TRUE]
BadgeRequest == [scopes |-> {badgeScope}, policy |-> FALSE]
AllRequests == {NameRequest, PolicyRequest, BadgeRequest}

OneMerge == {<<u1, u2>>}

(* u1 is banned and edits; c2 is administered, c1 is not.                  *)
MCAdminOps ==
    ({"ban", "signout", "persona"} \X {u1})
        \cup ({"update", "rotate", "delete"} \X {c2}) \cup {<<"badge", b1>>}

Untouched(c) ==
    /\ allowed[c] # None
    /\ \A t \in Tabs : tab[t].client # c
    /\ \A k \in Codes : codes[k].client # c
    /\ \A h \in Handlers : handler[h].client # c
Absent(u) ==
    /\ \A p \in Users : mergedInto[p] # u
    /\ \A t \in Tabs : tab[t].user # u
    /\ \A k \in Codes : codes[k].user # u
Unticked(b) == (\A x \in ticked : x[2] # b) /\ \A t \in Tabs : b \notin tab[t].items
Only(r) == \A t \in Tabs : tab[t].pc # "idle" => tab[t].scopes = r.scopes
TokensAre(states) == \A j \in Jtis : tokens[j].state \in states
NoBan == \A u \in Users : ~banned[u]
NoEdit == \A u \in Users : editing[u] = None
NoExpiry == \A k \in Codes : ~codes[k].expired
OneExchange == handler[h2] = IdleHandler /\ tokens[j2] = FreeToken
KeepsBadges == \A b \in Badges : badgeOwner[b] # None

(* Bound, in three cases.  Everything happens around one consent of u1 to  *)
(* share the name;                                                         *)
OneConsent ==
    /\ Absent(u2) /\ Unticked(b1) /\ Unticked(b2) /\ Only(NameRequest)
    /\ codes[k2] = FreeCode /\ NoEdit /\ KeepsBadges
(* or badges and personas change while one request at a time serves one    *)
(* relying party whose tokens stay;                                        *)
OneRelyingParty ==
    /\ Absent(u2) /\ Unticked(b2) /\ Only(PolicyRequest) /\ Untouched(c2)
    /\ OneExchange /\ TokensAre({"free", "live"}) /\ NoBan /\ NoExpiry
(* or u1 and u2 merge between their consents to share sibling badges.      *)
OneMerger ==
    /\ Unticked(name) /\ Only(BadgeRequest) /\ Untouched(c2)
    /\ OneExchange /\ TokensAre({"free", "live"}) /\ NoBan /\ NoExpiry
    /\ NoEdit /\ KeepsBadges
Bound == OneConsent \/ OneRelyingParty \/ OneMerger

(* Racing requests, and the ids they draw, are interchangeable.            *)
RequestSymmetry == Permutations({h1, h2}) \cup Permutations({j1, j2})
=============================================================================
