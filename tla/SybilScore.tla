---------------------------- MODULE SybilScore ------------------------------
(***************************************************************************)
(* The anti-sybil score: the weight, category, cap and cutoff rows an      *)
(* admin edits, the scorer's cached copy of them, and the pure scorer.     *)
(*                                                                         *)
(* The three queries of a load run in parallel and are read here at once:  *)
(* no property relates one table to another.  Every badge row is native,   *)
(* so the scorer's issuer test is left out.                                *)
(***************************************************************************)
EXTENDS BadgeTable, Integers, Sequences, Functions

CONSTANTS
    WeightRows,     \* BadgeWeight keys <<type, qualifier>>; Star is "*"
    Star,
    FamilyOf,       \* the ladder a type belongs to, or Null
    Categories,
    InitialWeight,      \* the seeded weight of each row
    InitialCategory,    \* and the category of each type
    WeightChoices,  \* weights an admin may set
    CapChoices,
    CutoffChoices,  \* cutoffs records [b1..b4, b3Cats, b4Cats] an admin may send
    QualifyAt,      \* CATEGORY_QUALIFY_THRESHOLD
    ConfigTtl       \* CONFIG_CACHE_TTL_MS, in ticks

LadderSteps(c) == c.b1 <= c.b2 /\ c.b2 <= c.b3 /\ c.b3 <= c.b4 /\ c.b3Cats <= c.b4Cats

(* The seeded ladder of cutoffs is among those an admin may send.          *)
ASSUME SybilConstants ==
    /\ IsFiniteSet(Categories) /\ QualifyAt \in Nat /\ ConfigTtl \in Nat
    /\ InitialWeight \in [WeightRows -> Nat] /\ WeightChoices \subseteq Nat
    /\ CapChoices \subseteq Nat /\ \E most \in CapChoices : \A cap \in CapChoices : most >= cap
    /\ CutoffChoices \subseteq [b1 : Nat, b2 : Nat, b3 : Nat, b4 : Nat, b3Cats : Nat, b4Cats : Nat]
    /\ \E c \in CutoffChoices : LadderSteps(c)

VARIABLES
    rows,       \* BadgeWeight: weight and category of each key
    caps,       \* SybilCategory.cap
    cutoffs,    \* SybilBucketConfig
    config      \* configCache

sybilVars == <<rows, caps, cutoffs, config>>

NoConfig == [known |-> FALSE]

SybilInit ==
    /\ rows = [k \in WeightRows |-> [weight |-> InitialWeight[k],
                                     category |-> InitialCategory[k[1]]]]
    /\ caps = [c \in Categories |-> Max(CapChoices)]
    /\ cutoffs = CHOOSE c \in CutoffChoices : LadderSteps(c)
    /\ config = NoConfig

-----------------------------------------------------------------------------
(* The editors.  An edit that changes nothing returns before it writes.    *)

updateSybilWeight(k, weight, category) ==
    /\ k \in WeightRows /\ category \in Categories
    /\ rows[k] # [weight |-> weight, category |-> category]
    /\ rows' = [rows EXCEPT ![k] = [weight |-> weight, category |-> category]]
    /\ UNCHANGED <<badgeVars, caps, cutoffs, config>>

updateSybilCategoryCap(c, cap) ==
    /\ caps[c] # cap
    /\ caps' = [caps EXCEPT ![c] = cap]
    /\ UNCHANGED <<badgeVars, rows, cutoffs, config>>

saveBucketCutoffs(c) ==
    /\ LadderSteps(c)
    /\ cutoffs' = c
    /\ UNCHANGED <<badgeVars, rows, caps, config>>

(* buildSybilScoringConfig: the category of a type is that of whichever of *)
(* its rows the query returns last.                                        *)
buildSybilScoringConfig(category) ==
    [known |-> TRUE, weights |-> [k \in WeightRows |-> rows[k].weight],
     category |-> category, caps |-> caps, cutoffs |-> cutoffs,
     expiresAt |-> clock + ConfigTtl]

TypeCategories(t) == {rows[k].category : k \in {j \in WeightRows : j[1] = t}}

ConfigCached == config.known /\ clock < config.expiresAt

loadSybilScoringConfig ==
    /\ ~ConfigCached
    /\ \E category \in [Types -> Categories] :
         /\ \A t \in Types : TypeCategories(t) # {} => category[t] \in TypeCategories(t)
         /\ config' = buildSybilScoringConfig(category)
    /\ UNCHANGED <<badgeVars, rows, caps, cutoffs>>

SybilNext ==
    \/ \E k \in WeightRows, w \in WeightChoices, c \in Categories : updateSybilWeight(k, w, c)
    \/ \E c \in Categories, cap \in CapChoices : updateSybilCategoryCap(c, cap)
    \/ \E c \in CutoffChoices : saveBucketCutoffs(c)
    \/ loadSybilScoringConfig

-----------------------------------------------------------------------------
(* The scorer, over a set of badges B and a configuration cfg.             *)

(* Most specific first: the attribute's row, then the type's "*" row.      *)
qualifierChain(b) == <<AttrOf[b], Star>>

weightFor(cfg, b) ==
    LET chain == qualifierChain(b)
        found == {i \in DOMAIN chain : <<TypeOf[b], chain[i]>> \in WeightRows}
    IN  IF found = {} THEN 0 ELSE cfg.weights[<<TypeOf[b], chain[Min(found)]>>]

familyKey(b) ==
    IF FamilyOf[TypeOf[b]] # Null THEN <<"family", FamilyOf[TypeOf[b]]>> ELSE <<"single", b>>

(* The badges of a category that count: unexpired and of some weight.      *)
Counted(cfg, B, c) ==
    {b \in B : /\ ~(Expires(b) /\ expiresAt(b) < clock)
               /\ weightFor(cfg, b) > 0
               /\ cfg.category[TypeOf[b]] = c}

(* One weight per family, its largest.                                     *)
FamilyWeights(cfg, B, c) ==
    LET counted == Counted(cfg, B, c)
    IN  [k \in {familyKey(b) : b \in counted} |->
           Max({weightFor(cfg, b) : b \in {d \in counted : familyKey(d) = k}})]

(* The orders a family of weights can be listed in.                        *)
Listings(weights) == Bijection(1..Cardinality(DOMAIN weights), DOMAIN weights)

(* Mutated form: the weights decay in whatever order they come.            *)
MutMemberWeights(weights) ==
    LET order == CHOOSE o \in Listings(weights) : TRUE
    IN  [i \in DOMAIN order |-> weights[order[i]]]

(* memberWeights, largest first.                                           *)
memberWeights(weights) ==
    LET order == CHOOSE o \in Listings(weights) :
                   \A i, j \in DOMAIN o : i < j => weights[o[i]] >= weights[o[j]]
    IN  [i \in DOMAIN order |-> weights[order[i]]]

(* 2^n, as a recursive function of its exponent.                           *)
TwoTo(n) ==
    LET power[i \in 0..n] == IF i = 0 THEN 1 ELSE 2 * power[i - 1]
    IN  power[n]

Decayed(list) ==
    LET sum[i \in 0..Len(list)] ==
          IF i = 0 THEN 0 ELSE sum[i - 1] + list[i] \div TwoTo(i - 1)
    IN  sum[Len(list)]

Contribution(cfg, B, c) ==
    LET sum == Decayed(memberWeights(FamilyWeights(cfg, B, c)))
    IN  IF sum < cfg.caps[c] THEN sum ELSE cfg.caps[c]

sybilScore(cfg, B) ==
    LET contribution == [c \in Categories |-> Contribution(cfg, B, c)]
        raw == MapThenSumSet(LAMBDA c : contribution[c], Categories)
        cats == Cardinality({c \in Categories : contribution[c] >= QualifyAt})
        k == cfg.cutoffs
    IN  [raw |-> raw, cats |-> cats,
         bucket |-> IF raw >= k.b4 /\ cats >= k.b4Cats THEN 4
                    ELSE IF raw >= k.b3 /\ cats >= k.b3Cats THEN 3
                    ELSE IF raw >= k.b2 THEN 2
                    ELSE IF raw >= k.b1 THEN 1
                    ELSE 0]

-----------------------------------------------------------------------------
(* Properties.                                                             *)

(* Under whatever configuration admins set up and the scorer cached, a     *)
(* badge never lowers its holder's raw score or bucket: family collapse,   *)
(* decay, caps and breadth floors are all monotone (lib/sybil-score.ts).   *)
MoreBadgesNeverLower ==
    config.known =>
        \A u \in Users :
            LET with == sybilScore(config, Held(u))
            IN  \A b \in Held(u) :
                  LET without == sybilScore(config, Held(u) \ {b})
                  IN  without.raw <= with.raw /\ without.bucket <= with.bucket
=============================================================================
