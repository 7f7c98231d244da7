--------------------------- MODULE MCAllReaders ----------------------------
(* A small instance of AllReaders for TLC.                                 *)
EXTENDS AllReaders

MCOwnerOf == <<"u1", "u1", "u1", "u1", "u2">>
MCTypeOf == <<"oauth", "oauth", "age18", "age21", "age18">>
MCAttrOf == <<"x", "y", "x", "x", "x">>
MCLifetime == <<Null, Null, 1, Null, Null>>

leaf(t, w, a) == [kind |-> "leaf", type |-> t, where |-> w, maxAge |-> a]
node(k, n, of) == [kind |-> k, n |-> n, of |-> of]

(* Overlapping branches, ages and nested nodes; branches of distinct types *)
(* of which one, two or all are wanted; nothing to choose from; and one    *)
(* policy too deep and one too wide to be admitted.                        *)
MCPolicies ==
    LET oauth == leaf("oauth", Null, Null)
        x == leaf("oauth", "x", Null)
        y == leaf("oauth", "y", 1)
        adult == leaf("age21", Null, Null)
        age == leaf("age18", Null, 1)
        either == node("anyOf", 0, <<oauth, age>>)
    IN  { x, either, node("anyOf", 0, <<>>),
          node("atLeast", 2, <<oauth, x, age>>),
          node("atLeast", 2, <<adult, oauth, age>>),
          node("allOf", 0, <<adult, node("anyOf", 0, <<age, y>>)>>),
          node("allOf", 0, <<node("allOf", 0, <<node("allOf", 0, <<x>>)>>)>>),
          node("anyOf", 0, <<x, y, age, oauth>>) }

MCWeightRows == {<<"oauth", "x">>, <<"oauth", "*">>, <<"age18", "*">>, <<"age21", "*">>}
MCInitialWeight == [k \in MCWeightRows |-> IF k \in {<<"oauth", "x">>, <<"age21", "*">>} THEN 3 ELSE 9]
MCFamilyOf == [t \in {"oauth", "age18", "age21"} |-> IF t = "oauth" THEN Null ELSE "age"]
MCInitialCategory == [t \in {"oauth", "age18", "age21"} |-> IF t = "oauth" THEN "social" ELSE "human"]
cut(a, b, c, d, m, n) == [b1 |-> a, b2 |-> b, b3 |-> c, b4 |-> d, b3Cats |-> m, b4Cats |-> n]
MCCutoffChoices == {cut(2, 4, 8, 14, 1, 2), cut(2, 4, 14, 8, 1, 2)}

MCAllowlists == {{<<"oauth", "x">>, <<"age18", "x">>}, {<<"oauth", "x">>}}
MCCohortNum == {[type |-> "age18", values |-> {"x"}]}
MCCohortDen == {[type |-> "oauth", values |-> {"x", "y"}]}

MCSessionOf == [v \in {"home", "cafe"} |-> IF v = "home" THEN "u2" ELSE Null]
MCForged == {<<>>, <<"c2">>}

front(h, n, e, p) == [header |-> h, hops |-> n, edge |-> e, proxies |-> p]
(* Cloudflare with the defaults; two own proxies; header trust off and no  *)
(* hops; and two that break the contract: the defaults behind a proxy that *)
(* passes the header on, and more hops than proxies.                       *)
MCDeployments ==
    { front(TRUE, 0, TRUE, 1), front(FALSE, 2, FALSE, 2), front(FALSE, 0, FALSE, 1),
      front(TRUE, 1, FALSE, 1), front(FALSE, 2, FALSE, 1) }

-----------------------------------------------------------------------------
Edits ==
    Cardinality({k \in WeightRows : rows[k] # [weight |-> InitialWeight[k], category |-> InitialCategory[k[1]]]})
      + Cardinality({c \in Categories : caps[c] # Max(CapChoices)})
(* Badges a reader sees.                                                   *)
Seen ==
    CASE reader = "consent" -> {1, 2, 3, 4, 5}
      [] reader = "scorer" -> {1, 2, 3, 4}
      [] reader = "statistics" -> {1, 3, 5}
      [] reader = "share" -> {3, 4}
      [] OTHER -> {}

(* Bound: at most one badge is deleted or issued after the start, none     *)
(* under the scorer and the statistics; one configuration row is edited,   *)
(* before or after it is loaded, and reloaded under all badges; a manual   *)
(* recompute runs early; one page of a link is shown; the other user's     *)
(* badge and one of another type are there from the start whenever a page  *)
(* is rendered or holders are counted; one allowlist is enough where only  *)
(* the statistics read it, and one deployment where the limiter is not     *)
(* run.                                                                    *)
Bound ==
    /\ \A b \in BadgeIds \ Seen : status[b] = "unissued"
    /\ Cardinality({b \in BadgeIds : status[b] = "deleted" \/ issuedAt[b] > 0}) <=
         (IF reader \in {"scorer", "statistics"} THEN 0 ELSE 1)
    /\ reader = "scorer" /\ clock > 0 => clock = 1 /\ \A b \in Seen : status[b] = "held"
    /\ IF reader = "statistics" THEN clock < 2 ELSE allow = {<<"oauth", "x">>}
    /\ clock > 0 => ~("manual" \in DOMAIN job /\ job.manual)
    /\ page # NoPage \/ outcome # NoOutcome =>
         \A b \in {4, 5} : status[b] = "held" /\ issuedAt[b] = 0
    /\ counts["age18"] * counts["age21"] = 0 => \A t \in Types : counts[t] = 0
    /\ Cardinality(grant) < 3
    /\ Edits <= 1
    /\ Cardinality(shown) <= 1
    /\ reader # "limiter" => deploy = front(TRUE, 0, TRUE, 1)
=============================================================================
