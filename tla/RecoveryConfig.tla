--------------------------- MODULE RecoveryConfig ---------------------------
(***************************************************************************)
(* The operator's side of threshold recovery: the weight each badge type   *)
(* counts for, whether it may recover an account alone, and the threshold. *)
(* A change that makes recovery easier waits out a delay; one that makes   *)
(* it harder applies at once.  Every edit runs in a transaction that first *)
(* takes one advisory lock; recovery attempts read without it.             *)
(*                                                                         *)
(* Admins are the sessions gateRecoveryConfig lets through.                *)
(***************************************************************************)
EXTENDS Naturals

CONSTANTS
    Rows,           \* BadgeWeight rows of recovery-eligible types
    Admins,         \* concurrent edits
    Runs,           \* RecoveryAttempt rows
    WeightMax,      \* RECOVERY_WEIGHT_MAX
    ThresholdMin,   \* RECOVERY_THRESHOLD_MIN
    ThresholdMax,   \* RECOVERY_THRESHOLD_MAX
    WeakenDelay,    \* RECOVERY_WEAKEN_DELAY_MS
    AttemptTTL,     \* RECOVERY_ATTEMPT_TTL_MS
    SeedWeight,     \* BADGE_WEIGHT_SEED, the recovery weights
    SoloRows,       \* SOLO_RECOVERY_TYPES
    MaxTime,        \* bound: the clock stops here
    Null

WeightRange == 0..WeightMax
ThresholdRange == ThresholdMin..ThresholdMax

ASSUME RecoveryConfigConstants ==
    /\ WeightMax \in Nat /\ ThresholdMin \in Nat /\ ThresholdMax \in Nat
    /\ ThresholdMin <= ThresholdMax
    /\ WeakenDelay \in Nat /\ AttemptTTL \in Nat /\ MaxTime \in Nat
    /\ AttemptTTL < WeakenDelay
    /\ SoloRows \subseteq Rows
    /\ SeedWeight \in [Rows -> WeightRange]
    /\ \A r \in Rows \ SoloRows : SeedWeight[r] < ThresholdMin
    /\ Null \notin Nat /\ Null \notin Admins

VARIABLES
    weightRow,  \* the recovery columns of BadgeWeight
    config,     \* the RecoveryConfig singleton
    now,        \* the clock
    lock,       \* holder of the advisory lock
    edit,       \* edits under way, with what they read
    run         \* attempts: what they need, and the heaviest single proof

rcVars == <<weightRow, config, now, lock, edit, run>>

NoEdit == [pc |-> "idle"]
NoRun == [status |-> "none"]

RcInit ==
    /\ weightRow = [r \in Rows |-> [live |-> SeedWeight[r], pending |-> Null,
                                    at |-> 0, solo |-> r \in SoloRows]]
    /\ config = [live |-> ThresholdMin, pending |-> Null, at |-> 0]
    /\ now = 0
    /\ lock = Null
    /\ edit = [a \in Admins |-> NoEdit]
    /\ run = [t \in Runs |-> NoRun]

-----------------------------------------------------------------------------
(* The guardrails.                                                         *)

(* effectiveRecoveryWeight and effectiveRecoveryThreshold: a pending value *)
(* counts once its time has come; the live column is never promoted.       *)
Effective(x) == IF x.pending # Null /\ x.at <= now THEN x.pending ELSE x.live

worstThreshold(c) ==
    IF c.pending # Null /\ c.pending < c.live THEN c.pending ELSE c.live

worstWeight(r) ==
    IF r.pending # Null /\ r.pending > r.live THEN r.pending ELSE r.live

soloBlockError(weight, threshold, solo) == weight >= threshold /\ ~solo

Immediate(x, v) == [x EXCEPT !.live = v, !.pending = Null, !.at = 0]
Scheduled(x, v) == [x EXCEPT !.pending = v, !.at = now + WeakenDelay]

(* Mutated form: the direction is taken from the scheduled weight.         *)
MutPlanWeight(read, r, v) ==
    IF v <= worstWeight(read) THEN Immediate(r, v) ELSE Scheduled(r, v)

(* The direction is taken from the live column as it was read, whatever is *)
(* pending; a write names only the columns of its plan.                    *)
planRecoveryWeightWrite(read, r, v) ==
    IF v <= read.live THEN Immediate(r, v) ELSE Scheduled(r, v)

planThresholdWrite(read, c, v) ==
    IF v >= read.live THEN Immediate(c, v) ELSE Scheduled(c, v)

-----------------------------------------------------------------------------
(* An edit takes the lock and reads; then it writes, or throws.            *)

LockFree == lock = Null

Locks(a, request) ==
    /\ edit[a] = NoEdit
    /\ LockFree
    /\ lock' = a
    /\ edit' = [edit EXCEPT ![a] = request]
    /\ UNCHANGED <<weightRow, config, now, run>>

(* Commit and rollback both release a transaction's advisory lock.         *)
Unlocks(a) ==
    /\ lock' = IF lock = a THEN Null ELSE lock
    /\ edit' = [edit EXCEPT ![a] = NoEdit]

WeightRead(a, r, v) ==
    Locks(a, [pc |-> "weight", of |-> r, to |-> v, row |-> weightRow[r], config |-> config])

SoloRead(a, r, v) ==
    Locks(a, [pc |-> "solo", of |-> r, to |-> v, row |-> weightRow[r], config |-> config])

ThresholdRead(a, v) ==
    Locks(a, [pc |-> "threshold", to |-> v, rows |-> weightRow, config |-> config])

WeightRefused(e) == soloBlockError(e.to, worstThreshold(e.config), e.row.solo)

SoloRefused(e) ==
    \/ e.row.solo = e.to
    \/ ~e.to /\ soloBlockError(worstWeight(e.row), worstThreshold(e.config), FALSE)

(* Mutated form: scheduled heavier weights are not counted.                *)
MutThresholdRefused(e) ==
    \E r \in Rows : soloBlockError(e.rows[r].live, e.to, e.rows[r].solo)

ThresholdRefused(e) ==
    \E r \in Rows : soloBlockError(worstWeight(e.rows[r]), e.to, e.rows[r].solo)

UpdateRecoveryWeight(a) ==
    LET e == edit[a]
    IN  /\ e.pc = "weight"
        /\ ~WeightRefused(e)
        /\ weightRow' = [weightRow EXCEPT ![e.of] = planRecoveryWeightWrite(e.row, @, e.to)]
        /\ Unlocks(a)
        /\ UNCHANGED <<config, now, run>>

SetAllowSoloRecovery(a) ==
    LET e == edit[a]
    IN  /\ e.pc = "solo"
        /\ ~SoloRefused(e)
        /\ weightRow' = [weightRow EXCEPT ![e.of].solo = e.to]
        /\ Unlocks(a)
        /\ UNCHANGED <<config, now, run>>

UpdateRecoveryThreshold(a) ==
    LET e == edit[a]
    IN  /\ e.pc = "threshold"
        /\ ~ThresholdRefused(e)
        /\ config' = planThresholdWrite(e.config, config, e.to)
        /\ Unlocks(a)
        /\ UNCHANGED <<weightRow, now, run>>

EditThrows(a) ==
    LET e == edit[a]
    IN  /\ \/ e.pc = "weight" /\ WeightRefused(e)
           \/ e.pc = "solo" /\ SoloRefused(e)
           \/ e.pc = "threshold" /\ ThresholdRefused(e)
        /\ Unlocks(a)
        /\ UNCHANGED <<weightRow, config, now, run>>

-----------------------------------------------------------------------------
(* Recovery attempts.                                                      *)

(* startRecoveryAttempt fixes what the attempt needs for its whole life.   *)
RunStart(t) ==
    /\ run[t] = NoRun
    /\ run' = [run EXCEPT ![t] =
                 [status |-> "pending", need |-> Effective(config),
                  expires |-> now + AttemptTTL, alone |-> {},
                  soloThen |-> {r \in Rows : weightRow[r].solo}]]
    /\ UNCHANGED <<weightRow, config, now, lock, edit>>

(* Mutated form: an attempt does not expire.                               *)
MutRunning(t) == run[t].status = "pending"

Running(t) == run[t].status = "pending" /\ now < run[t].expires

(* recordReProof reads the row's weight afresh.  alone collects the rows   *)
(* whose one proof met what the attempt needs.                             *)
RunReProof(t, r) ==
    /\ Running(t)
    /\ run' = [run EXCEPT ![t].alone =
                 IF Effective(weightRow[r]) >= run[t].need THEN @ \cup {r} ELSE @]
    /\ UNCHANGED <<weightRow, config, now, lock, edit>>

Tick ==
    /\ now < MaxTime
    /\ now' = now + 1
    /\ UNCHANGED <<weightRow, config, lock, edit, run>>

RcNext ==
    \/ \E a \in Admins :
         \/ \E r \in Rows, v \in WeightRange : WeightRead(a, r, v)
         \/ \E r \in Rows, v \in BOOLEAN : SoloRead(a, r, v)
         \/ \E v \in ThresholdRange : ThresholdRead(a, v)
         \/ UpdateRecoveryWeight(a)
         \/ SetAllowSoloRecovery(a)
         \/ UpdateRecoveryThreshold(a)
         \/ EditThrows(a)
    \/ \E t \in Runs : RunStart(t) \/ \E r \in Rows : RunReProof(t, r)
    \/ Tick

RcSpec == RcInit /\ [][RcNext]_rcVars

-----------------------------------------------------------------------------
(* Properties.                                                             *)

Columns(values) == [live : values, pending : values \cup {Null}, at : Nat]

(* The columns stay within their bounds, and a pending value is always the *)
(* weaker one: a heavier weight, a lower threshold.                        *)
RcTypeOK ==
    /\ \A r \in Rows :
         /\ weightRow[r] \in [live : WeightRange, pending : WeightRange \cup {Null},
                        at : Nat, solo : BOOLEAN]
         /\ weightRow[r].pending # Null => weightRow[r].pending > weightRow[r].live
    /\ config \in Columns(ThresholdRange)
    /\ config.pending # Null => config.pending < config.live
    /\ now \in 0..MaxTime
    /\ lock \in Admins \cup {Null}

(* No badge type without the solo flag reaches the threshold alone, now or *)
(* when the scheduled changes land: the "global state predicate" each of   *)
(* the three edits checks from its own side of the lock.                   *)
SoloBlocked ==
    \A r \in Rows : ~weightRow[r].solo => worstWeight(weightRow[r]) < worstThreshold(config)

(* Recovery never gets easier the moment an operator (or a hijacked admin  *)
(* session) says so: an effective weight rises and the effective threshold *)
(* falls only by the passing of time.                                      *)
NeverEasierAtOnce ==
    [][ now' = now =>
          /\ \A r \in Rows : Effective(weightRow[r])' <= Effective(weightRow[r])
          /\ Effective(config)' >= Effective(config) ]_rcVars

(* A single proof meets an attempt only for a type that was a solo type    *)
(* when the attempt began, whatever edits land while it runs: the delay    *)
(* outlasts the attempt.                                                   *)
NoSoloEntry == \A t \in Runs : run[t] # NoRun => run[t].alone \subseteq run[t].soloThen

=============================================================================
