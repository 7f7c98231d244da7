------------------------------- MODULE Stats --------------------------------
(***************************************************************************)
(* Badge statistics: the job that recomputes the three statistic tables    *)
(* from the badges, statement by statement in one transaction, and the     *)
(* public transparency page drawn from whatever the tables hold, perhaps   *)
(* written by an older deployment with another allowlist.                  *)
(*                                                                         *)
(* A badge has one attribute value, so an allowlist is a set of pairs      *)
(* <<type, value>>.  A printed range is named by its lower bound.  Bound:  *)
(* one job at a time (scheduled jobs exclude each other by the advisory    *)
(* lock; a manual run that overlaps one is left out).                      *)
(***************************************************************************)
EXTENDS SybilScore

CONSTANTS
    Allowlists,     \* the allowlists of successive deployments
    CohortNum,      \* numerator and denominator filters of a cohort: sets of
    CohortDen,      \*   clauses [type, values]
    RangeLowers,    \* lower bounds of the printed ranges, 0 among them
    SuppressionK,   \* DEFAULT_SUPPRESSION_K
    StatsInterval   \* ticks between scheduled runs

(* DEFAULT_SUPPRESSION_K is the lower bound of a printed range.            *)
ASSUME StatsConstants == RangeLowers \subseteq Nat /\ {0, SuppressionK} \subseteq RangeLowers

VARIABLES
    allow,          \* the allowlist of the running deployment
    badgeStat,      \* BadgeStat rows [type, value, count]; Null value: total
    cohortStat,     \* [num, den], or Null
    bucketStat,     \* count per bucket, or Null
    statsRun,       \* StatsRun.computedAt, or Null
    job             \* the recompute in progress

statsVars == <<allow, badgeStat, cohortStat, bucketStat, statsRun, job>>

NoJob == [pc |-> "idle"]

StatsInit ==
    /\ allow \in Allowlists
    /\ badgeStat = {}
    /\ cohortStat = Null
    /\ bucketStat = Null
    /\ statsRun = Null
    /\ job = NoJob

isAllowlistedKey(a, t) == \E p \in a : p[1] = t
isAllowlistedValue(a, t, v) == <<t, v>> \in a

-----------------------------------------------------------------------------
(* The recompute.  Each statement sees the badges committed before it;     *)
(* unexpired is judged at the job's own now.                               *)

Unexpired(now) == {b \in BadgeIds : status[b] = "held" /\ (Expires(b) => expiresAt(b) > now)}

HoldersOf(B) == Cardinality({OwnerOf[b] : b \in B})

Start(manual) ==
    /\ job = NoJob
    /\ ~manual /\ statsRun # Null => clock - statsRun >= StatsInterval
    /\ job' = [pc |-> "totals", manual |-> manual, now |-> clock, rows |-> {},
               cohort |-> cohortStat, buckets |-> Null]
    /\ UNCHANGED <<badgeVars, sybilVars, allow, badgeStat, cohortStat, bucketStat, statsRun>>

ReadTotals ==
    /\ job.pc = "totals"
    /\ LET B(t) == {b \in Unexpired(job.now) : TypeOf[b] = t}
       IN  job' = [job EXCEPT !.pc = "values",
                     !.rows = {[type |-> t, value |-> Null, count |-> HoldersOf(B(t))] :
                                 t \in {s \in Types : B(s) # {}}}]
    /\ UNCHANGED <<badgeVars, sybilVars, allow, badgeStat, cohortStat, bucketStat, statsRun>>

(* The code asks once per (type, key) pair, and once for each side of a    *)
(* cohort; a pass of the model reads all pairs in one step and both sides  *)
(* in one, so it has no counts that straddle a change of the badges.  No   *)
(* property compares two counts of one pass.                               *)
ReadValues ==
    /\ job.pc = "values"
    /\ LET B(p) == {b \in Unexpired(job.now) : TypeOf[b] = p[1] /\ AttrOf[b] = p[2]}
           held == {p \in {<<TypeOf[b], AttrOf[b]>> : b \in BadgeIds} : B(p) # {}}
       IN  job' = [job EXCEPT !.pc = "cohort",
                     !.rows = @ \cup {[type |-> p[1], value |-> p[2], count |-> HoldersOf(B(p))] :
                                        p \in {q \in held : isAllowlistedValue(allow, q[1], q[2])}}]
    /\ UNCHANGED <<badgeVars, sybilVars, allow, badgeStat, cohortStat, bucketStat, statsRun>>

(* countCohortSide: the users who hold a badge for every clause.           *)
countCohortSide(filter, now) ==
    Cardinality({u \in Users : \A c \in filter :
                   \E b \in Unexpired(now) \cap Held(u) :
                       TypeOf[b] = c.type /\ AttrOf[b] \in c.values})

ValidFilter(filter) == \A c \in filter : isAllowlistedKey(allow, c.type)

ReadCohort ==
    /\ job.pc = "cohort"
    /\ job' = [job EXCEPT !.pc = "buckets",
                 !.cohort = IF ValidFilter(CohortNum) /\ ValidFilter(CohortDen)
                            THEN [num |-> countCohortSide(CohortNum, job.now),
                                  den |-> countCohortSide(CohortDen, job.now)]
                            ELSE @]
    /\ UNCHANGED <<badgeVars, sybilVars, allow, badgeStat, cohortStat, bucketStat, statsRun>>

(* The distribution of users over the buckets, under the scorer's          *)
(* configuration, which is loaded if the cache has lapsed.                 *)
ReadBuckets ==
    /\ job.pc = "buckets"
    /\ IF ConfigCached THEN UNCHANGED <<badgeVars, sybilVars>> ELSE loadSybilScoringConfig
    /\ LET bucket(u) == sybilScore(config', Unexpired(job.now) \cap Held(u)).bucket
       IN  job' = [job EXCEPT !.pc = "commit",
                     !.buckets = [i \in 0..4 |-> Cardinality({u \in Users : bucket(u) = i})]]
    /\ UNCHANGED <<allow, badgeStat, cohortStat, bucketStat, statsRun>>

(* The transaction commits; a scheduled run stamps StatsRun inside it.     *)
Commit ==
    /\ job.pc = "commit"
    /\ badgeStat' = job.rows
    /\ cohortStat' = job.cohort
    /\ bucketStat' = job.buckets
    /\ statsRun' = IF job.manual THEN statsRun ELSE job.now
    /\ job' = IF job.manual THEN [pc |-> "stamp", now |-> job.now] ELSE NoJob
    /\ UNCHANGED <<badgeVars, sybilVars, allow>>

(* recomputeAllStats stamps after its transaction.                         *)
Stamp ==
    /\ job.pc = "stamp"
    /\ statsRun' = job.now
    /\ job' = NoJob
    /\ UNCHANGED <<badgeVars, sybilVars, allow, badgeStat, cohortStat, bucketStat>>

(* The job throws, or a deployment restarts the process, perhaps with      *)
(* another allowlist; the tables stay as they were and a restart drops the *)
(* cached configuration.                                                   *)
Deploy(a) ==
    /\ allow' = a
    /\ job' = NoJob
    /\ config' = NoConfig \/ (a = allow /\ config' = config)
    /\ UNCHANGED <<badgeVars, rows, caps, cutoffs, badgeStat, cohortStat, bucketStat, statsRun>>

StatsNext ==
    \/ \E manual \in BOOLEAN : Start(manual)
    \/ ReadTotals \/ ReadValues \/ ReadCohort \/ ReadBuckets \/ Commit \/ Stamp
    \/ \E a \in Allowlists : Deploy(a)

-----------------------------------------------------------------------------
(* The transparency page, from the tables as they are.                     *)

publicCountLowerBound(n) == Max({l \in RangeLowers : l <= n})
publicCountDisplay(n) == publicCountLowerBound(n)

Shown(r) == r.value = Null \/ isAllowlistedValue(allow, r.type, r.value)

(* No row is shown before a run is stamped, and a cohort without counts    *)
(* prints zeros.                                                           *)
Table == IF statsRun = Null THEN {} ELSE badgeStat
Cohort == IF cohortStat = Null THEN [num |-> 0, den |-> 0] ELSE cohortStat

(* A type with attribute rows and no total prints 0.                       *)
PublicTypes ==
    LET shown == {r \in Table : Shown(r)}
        total(t) == {r.count : r \in {q \in shown : q.type = t /\ q.value = Null}}
    IN  {[type |-> t, total |-> Max(total(t) \cup {0})] : t \in {r.type : r \in shown}}

(* Mutated form: the counts themselves decide the order.                   *)
MutSortKey(n) == n

(* Which of two rows comes first, where the names do not decide.           *)
publicSortKey(n) == publicCountLowerBound(n)

PublicValues ==
    {[type |-> r.type, value |-> r.value, display |-> publicCountDisplay(r.count)] :
       r \in {q \in Table : q.value # Null /\ Shown(q)}}

(* The page but for its order and the percentage.                          *)
Printed ==
    [totals |-> {<<r.type, publicCountDisplay(r.total)>> : r \in PublicTypes},
     values |-> PublicValues,
     cohort |-> <<publicCountDisplay(Cohort.num), publicCountDisplay(Cohort.den)>>]

Order ==
    LET values == {q \in Table : q.value # Null /\ Shown(q)}
    IN  [types |-> {<<p[1].type, p[2].type>> : p \in
                      {q \in PublicTypes \X PublicTypes :
                         publicSortKey(q[1].total) > publicSortKey(q[2].total)}},
         values |-> {<<p[1].type, p[1].value, p[2].value>> : p \in
                      {q \in values \X values :
                         /\ q[1].type = q[2].type
                         /\ publicSortKey(q[1].count) > publicSortKey(q[2].count)}}]

(* The ratio of the lower bounds, to the nearest 5.                        *)
Percent(num, den) ==
    LET n == publicCountLowerBound(num)
        d == publicCountLowerBound(den)
    IN  IF num >= SuppressionK /\ den >= SuppressionK /\ d > 0
        THEN 5 * ((40 * n + d) \div (2 * d)) ELSE Null

PublicPage ==
    [printed |-> Printed, order |-> Order,
     percent |-> Percent(Cohort.num, Cohort.den)]

-----------------------------------------------------------------------------
(* Properties.                                                             *)

(* Nobody who watches the page learns of a change that stays within the    *)
(* printed ranges: order and percentage follow from what is printed        *)
(* (publicSortKey, buildPublicCohortRow in lib/transparency-view.ts).      *)
PublicHides ==
    [][Printed' = Printed => PublicPage' = PublicPage]_<<badgeStat, cohortStat, statsRun, allow>>
=============================================================================
