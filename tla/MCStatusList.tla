---------------------------- MODULE MCStatusList ----------------------------
(* StatusList on a small instance: one handle of one list, two publishers. *)
EXTENDS StatusList
=============================================================================
