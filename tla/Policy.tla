------------------------------- MODULE Policy -------------------------------
(***************************************************************************)
(* The structured badge policy a relying party may send: its bounds, its   *)
(* evaluation, the choice of the most private set of badges that satisfies *)
(* it, and the consent page built on them, from rendering to the set the   *)
(* server discloses.                                                       *)
(*                                                                         *)
(* A node is a record: a leaf names a badge type, perhaps an attribute     *)
(* value and a maximal age; allOf, anyOf and atLeast have children in of.  *)
(* The theorem prover does not reach this module (RECURSIVE).              *)
(***************************************************************************)
EXTENDS BadgeTable, Sequences, SequencesExt

CONSTANTS
    Policies,           \* the policies relying parties send
    ScopeTypes,         \* badge types among the requested scopes
    MaxAtLeastN,        \* MAX_ATLEAST_N
    MaxNodeChildren,    \* MAX_NODE_CHILDREN
    MaxPolicyNodes,     \* MAX_POLICY_NODES
    MaxPolicyDepth,     \* MAX_POLICY_DEPTH
    Month,              \* ticks in a calendar month
    Holder              \* the user at the consent page

VARIABLES
    counts,     \* holderCountsByType, cached
    grant,      \* OidcGrant.badgeIds: instances the client has seen
    page,       \* the consent page as rendered, with what is ticked
    outcome     \* the submission of the last page: candidates, disclosed

policyVars == <<counts, grant, page, outcome>>

Leaf(p) == p.kind = "leaf"
Children(p) == IF Leaf(p) THEN <<>> ELSE p.of

-----------------------------------------------------------------------------
(* What parseMinisterPolicy admits.                                        *)

RECURSIVE Nodes(_), policyDepth(_), policyBadgeTypes(_), NodesWithin(_)

Nodes(p) == 1 + FoldSeq(LAMBDA c, n : n + Nodes(c), 0, Children(p))

policyDepth(p) ==
    1 + FoldSeq(LAMBDA c, d : IF policyDepth(c) > d THEN policyDepth(c) ELSE d, 0, Children(p))

policyBadgeTypes(p) ==
    IF Leaf(p) THEN {p.type}
    ELSE UNION {policyBadgeTypes(p.of[i]) : i \in DOMAIN p.of}

NodesWithin(p) ==
    /\ p.kind = "atLeast" => p.n <= MaxAtLeastN
    /\ Len(Children(p)) <= MaxNodeChildren
    /\ \A i \in DOMAIN Children(p) : NodesWithin(p.of[i])

Admitted(p) ==
    /\ Nodes(p) <= MaxPolicyNodes
    /\ NodesWithin(p)
    /\ policyDepth(p) <= MaxPolicyDepth
    /\ policyBadgeTypes(p) \subseteq ScopeTypes

-----------------------------------------------------------------------------
(* Evaluation against a set of badges B at time now.                       *)

(* Badges age from the start of the month they were issued in, which is    *)
(* all a relying party sees.                                               *)
issuanceMonthStart(b) == (issuedAt[b] \div Month) * Month

badgeSatisfiesLeaf(p, b, now) ==
    /\ TypeOf[b] = p.type
    /\ p.maxAge # Null => now - issuanceMonthStart(b) <= p.maxAge
    /\ p.where # Null => AttrOf[b] = p.where

(* Mutated form: a badge once given stays with its branch.                 *)
MutTryAssign(adjacency, branch, m) ==
    FoldLeft(LAMBDA s, b :
               IF s.ok \/ s.assigned[b] # 0 THEN s
               ELSE [s EXCEPT !.ok = TRUE, !.assigned[b] = branch],
             [m EXCEPT !.ok = FALSE], adjacency[branch])

(* Kuhn's augmenting paths.  m.assigned gives a badge the branch that has  *)
(* it, m.visited the badges this search has tried.                         *)
RECURSIVE tryAssign(_, _, _)
tryAssign(adjacency, branch, m) ==
    LET try(s, b) ==
          LET seen == [s EXCEPT !.visited = @ \cup {b}]
              free == seen.assigned[b] = 0
              other == tryAssign(adjacency, seen.assigned[b], seen)
          IN  IF s.ok \/ b \in s.visited THEN s
              ELSE IF free THEN [seen EXCEPT !.ok = TRUE, !.assigned[b] = branch]
              ELSE IF other.ok THEN [other EXCEPT !.assigned[b] = branch]
              ELSE other
    IN  FoldLeft(try, [m EXCEPT !.ok = FALSE], adjacency[branch])

RECURSIVE evaluate(_, _, _)

maxDistinctBranchMatch(branches, B, now) ==
    LET adjacency == [i \in DOMAIN branches |->
                        SetToSeq({b \in B : evaluate(branches[i], {b}, now)})]
        none == [ok |-> FALSE, visited |-> {}, assigned |-> [b \in B |-> 0]]
        step(s, i) ==
          LET t == tryAssign(adjacency, i, [none EXCEPT !.assigned = s.assigned])
          IN  [assigned |-> t.assigned, matched |-> s.matched + IF t.ok THEN 1 ELSE 0]
    IN  FoldLeft(step, [assigned |-> none.assigned, matched |-> 0],
                 [i \in DOMAIN branches |-> i]).matched

evaluate(p, B, now) ==
    CASE p.kind = "leaf"    -> \E b \in B : badgeSatisfiesLeaf(p, b, now)
      [] p.kind = "allOf"   -> \A i \in DOMAIN p.of : evaluate(p.of[i], B, now)
      [] p.kind = "anyOf"   -> \E i \in DOMAIN p.of : evaluate(p.of[i], B, now)
      [] p.kind = "atLeast" -> p.n <= 0 \/ maxDistinctBranchMatch(p.of, B, now) >= p.n

-----------------------------------------------------------------------------
(* Selection.  A selection is a set of badges.                             *)

TypesOf(S) == {TypeOf[b] : b \in S}

(* The holder counts of the disclosed types, smallest first.               *)
anonymityVector(S) ==
    SortSeq([i \in 1..Cardinality(TypesOf(S)) |-> counts[SetToSeq(TypesOf(S))[i]]], <)

(* S ranks before T: the first difference of the vectors decides for the   *)
(* larger count (a missing position counts as infinite), then the smaller  *)
(* set.  Ties keep the order of the list, which is left open here.         *)
Better(S, T) ==
    LET v == anonymityVector(S)
        w == anonymityVector(T)
        differ == {i \in 1..(IF Len(v) > Len(w) THEN Len(v) ELSE Len(w)) :
                     i > Len(v) \/ i > Len(w) \/ v[i] # w[i]}
        first == Min(differ)
    IN  IF differ = {} THEN Cardinality(S) < Cardinality(T)
        ELSE first > Len(v) \/ (first <= Len(w) /\ v[first] > w[first])

bestOf(selections) ==
    CHOOSE S \in selections : \A T \in selections : ~Better(T, S)

RECURSIVE selectionsFor(_, _, _)
selectionsFor(p, B, now) ==
    LET of == Children(p)
        sels == [i \in DOMAIN of |-> selectionsFor(of[i], B, now)]
        met == {i \in DOMAIN of : sels[i] # {}}
        best(i) == bestOf(sels[i])
    IN  CASE p.kind = "leaf"    -> {{b} : b \in {c \in B : badgeSatisfiesLeaf(p, c, now)}}
          [] p.kind = "allOf"   -> IF met = DOMAIN of THEN {UNION {best(i) : i \in met}} ELSE {}
          [] p.kind = "anyOf"   -> {best(i) : i \in met}
          [] p.kind = "atLeast" -> {UNION {best(i) : i \in I} : I \in kSubset(p.n, met)}

(* Mutated form: nested nodes are not looked into.                         *)
MutFindGaps(p, B, now) ==
    {p.of[i].type : i \in {j \in DOMAIN Children(p) : Leaf(p.of[j]) /\ ~evaluate(p.of[j], B, now)}}

RECURSIVE findGaps(_, _, _)
findGaps(p, B, now) ==
    LET below(I) == UNION {findGaps(p.of[i], B, now) : i \in I}
    IN  CASE p.kind = "leaf"  -> IF evaluate(p, B, now) THEN {} ELSE {p.type}
          [] p.kind = "anyOf" -> below(DOMAIN p.of)
          [] OTHER            -> below({i \in DOMAIN p.of : ~evaluate(p.of[i], B, now)})

Satisfiable(p, B, now) == selectionsFor(p, B, now) # {}

selectMinimalAnonymitySet(p, B, now) ==
    IF Satisfiable(p, B, now) THEN bestOf(selectionsFor(p, B, now)) ELSE {}

-----------------------------------------------------------------------------
(* The consent page and its submission.                                    *)

NoPage == [open |-> FALSE]
NoOutcome == [known |-> FALSE]

(* queryHolderCounts; the result is reused until the cache lapses.         *)
HolderCounts ==
    [t \in Types |-> Cardinality({u \in Users : \E b \in Held(u) : TypeOf[b] = t})]

PolicyInit ==
    /\ counts = [t \in Types |-> 0]
    /\ grant = {}
    /\ page = NoPage
    /\ outcome = NoOutcome

RefreshCounts ==
    /\ counts' = HolderCounts
    /\ UNCHANGED <<badgeVars, grant, page, outcome>>

(* grantedRelevantBadgeIds: what the client has seen and the user holds.   *)
Granted == {b \in grant \cap Held(Holder) : TypeOf[b] \in ScopeTypes}

Branches(p) == IF Leaf(p) THEN <<p>> ELSE p.of

(* firstBadgeType names a branch by its first leaf.                        *)
RECURSIVE firstBadgeType(_)
firstBadgeType(p) ==
    IF Leaf(p) THEN p.type
    ELSE LET firsts == SelectSeq([i \in DOMAIN p.of |-> firstBadgeType(p.of[i])],
                                 LAMBDA t : t # Null)
         IN  IF firsts = <<>> THEN Null ELSE firsts[1]

(* The badges the page lets its user tick.  Without a policy, every        *)
(* requested badge that is not locked; with one, every held badge of the   *)
(* type of a branch, unless an instance of that type is locked.            *)
Options(p, locked) ==
    LET shown == {firstBadgeType(Branches(p)[i]) : i \in DOMAIN Branches(p)} \ TypesOf(locked)
    IN  IF p = Null THEN {b \in Held(Holder) : TypeOf[b] \in ScopeTypes} \ locked
        ELSE {b \in Held(Holder) : TypeOf[b] \in shown}

(* preselectedBadgeIds: the most private set, less what is locked by type. *)
Preselected(p, locked) ==
    IF p = Null THEN {}
    ELSE {b \in selectMinimalAnonymitySet(p, Held(Holder), clock) :
            TypeOf[b] \notin TypesOf(locked)}

(* The page is rendered: the locked section, the picker and what is ticked *)
(* to begin with.                                                          *)
RenderConsent(p) ==
    /\ page = NoPage
    /\ p # Null => Admitted(p)
    /\ page' = [open |-> TRUE, policy |-> p, locked |-> Granted,
                options |-> Options(p, Granted),
                ticked |-> Granted \cup Preselected(p, Granted)]
    /\ outcome' = NoOutcome
    /\ UNCHANGED <<badgeVars, counts, grant>>

(* toggleBadge, or selectExclusive in a group that wants exactly one.      *)
TickBadge(b) ==
    /\ page.open
    /\ b \in page.options
    /\ page' = [page EXCEPT !.ticked =
                  IF page.policy # Null /\ page.policy.kind = "anyOf" THEN (@ \ page.options) \cup {b}
                  ELSE IF b \in @ THEN @ \ {b} ELSE @ \cup {b}]
    /\ UNCHANGED <<badgeVars, counts, grant, outcome>>

(* Mutated form: what is ticked is disclosed.                              *)
MutMinimizeToPolicy(p, B, now) == B

(* Without a policy the identity, with one a selection.                    *)
minimizeToPolicy(p, B, now) ==
    IF p = Null THEN B ELSE selectMinimalAnonymitySet(p, B, now)

(* approveConsent: what was ticked and is still held, with what the client *)
(* has seen, trimmed to one selection and added to the grant.              *)
SubmitConsent ==
    /\ page.open
    /\ LET owned == {b \in page.ticked \cap Held(Holder) : TypeOf[b] \in ScopeTypes}
           candidates == owned \cup Granted
           disclosed == minimizeToPolicy(page.policy, candidates, clock)
       IN  /\ outcome' = [known |-> TRUE, policy |-> page.policy,
                          candidates |-> candidates, disclosed |-> disclosed]
           /\ grant' = grant \cup disclosed
    /\ page' = NoPage
    /\ UNCHANGED <<badgeVars, counts>>

DenyConsent ==
    /\ page.open
    /\ page' = NoPage
    /\ UNCHANGED <<badgeVars, counts, grant, outcome>>

PolicyNext ==
    \/ RefreshCounts
    \/ \E p \in Policies \cup {Null} : RenderConsent(p)
    \/ \E b \in BadgeIds : TickBadge(b)
    \/ SubmitConsent
    \/ DenyConsent

-----------------------------------------------------------------------------
(* Properties.                                                             *)

(* The reference for the matching: the largest set of branches that can be *)
(* given badges of their own.                                              *)
LargestMatch(branches, B, now) ==
    LET fits(I, f) == \A i \in I : evaluate(branches[i], {f[i]}, now)
        matched == {I \in SUBSET DOMAIN branches : \E f \in Injection(I, B) : fits(I, f)}
    IN  Max({Cardinality(I) : I \in matched})

(* maxDistinctBranchMatch (lib/oidc-policy.ts) finds a maximum matching of *)
(* branches and badges, whatever order branches and badges come in.        *)
MatchingIsMaximum ==
    page.open /\ page.policy # Null =>
        LET of == Children(page.policy)
            B == Held(Holder)
        IN  maxDistinctBranchMatch(of, B, clock) = LargestMatch(of, B, clock)

RECURSIVE Reachable(_)
Reachable(p) ==
    /\ p.kind = "atLeast" => p.n <= Len(p.of)
    /\ p.kind = "anyOf" => p.of # <<>>
    /\ \A i \in DOMAIN Children(p) : Reachable(p.of[i])

(* A user whose badges satisfy a policy is never told that they do not,    *)
(* and one told so is told of a type that is missing, unless the policy    *)
(* wants more branches than it lists, or one of none                       *)
(* (selectMinimalAnonymitySet).                                            *)
NoFalseGap ==
    page.open /\ page.policy # Null =>
        LET p == page.policy
            B == Held(Holder)
        IN  ~Satisfiable(p, B, clock) =>
               /\ ~evaluate(p, B, clock)
               /\ Reachable(p) => findGaps(p, B, clock) # {}

(* No badge type occurs in two branches, and atLeast counts leaves.        *)
RECURSIVE Separate(_)
Separate(p) ==
    \A i \in DOMAIN Children(p) :
        /\ Separate(p.of[i])
        /\ p.kind = "atLeast" => Leaf(p.of[i])
        /\ \A j \in DOMAIN p.of \ {i} :
             policyBadgeTypes(p.of[i]) \cap policyBadgeTypes(p.of[j]) = {}

(* Under a policy whose branches share no badge type, what approveConsent  *)
(* discloses satisfies the policy whenever the badges ticked and seen do,  *)
(* and no badge of it could be left out (minimizeToPolicy).                *)
OneMinimalSet ==
    [][outcome'.known /\ ~outcome.known /\ outcome'.policy # Null =>
         LET p == outcome'.policy
             disclosed == outcome'.disclosed
             met(B) == evaluate(p, B, clock)
         IN  Separate(p) /\ met(outcome'.candidates) =>
                /\ met(disclosed)
                /\ \A b \in disclosed : ~met(disclosed \ {b})]_<<badgeVars, policyVars>>
=============================================================================
