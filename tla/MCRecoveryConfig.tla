-------------------------- MODULE MCRecoveryConfig --------------------------
(* RecoveryConfig on a small instance: one type that may recover alone, one *)
(* that may not, with the weights' maximum the lowest threshold as in the   *)
(* code, two overlapping edits and one attempt.                             *)
EXTENDS RecoveryConfig, TLC

CONSTANTS
    plain, tlsn

MCSeedWeight == [r \in Rows |-> IF r = tlsn THEN WeightMax ELSE 1]

MCSymmetry == Permutations(Admins)
=============================================================================
