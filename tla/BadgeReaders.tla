---------------------------- MODULE BadgeReaders ----------------------------
(***************************************************************************)
(* What reads the Badge table behind the public pages, over one table and  *)
(* one clock: the scorer and the statistics built on it, share links, and  *)
(* the rate limiter in front of them.  AllReaders adds the consent page.   *)
(*                                                                         *)
(* No reader writes what another reads, except the statistics, which use   *)
(* the scorer.  A behaviour therefore follows one reader, chosen at the    *)
(* start, against every history of the table.                              *)
(***************************************************************************)
EXTENDS Stats, ShareLinks, RateLimit

VARIABLE reader     \* the reader this behaviour follows

vars == <<badgeVars, sybilVars, statsVars, shareVars, rateVars, reader>>

Init ==
    /\ BadgeInit
    /\ SybilInit
    /\ StatsInit
    /\ ShareInit
    /\ RateInit
    /\ reader \in {"consent", "scorer", "statistics", "share", "limiter"}

(* A badge is issued or deleted, or time passes: no reader moves.          *)
TableStep ==
    /\ reader # "limiter"
    /\ BadgeNext
    /\ UNCHANGED <<sybilVars, statsVars, shareVars, rateVars, reader>>

ScorerStep ==
    /\ reader = "scorer"
    /\ SybilNext
    /\ UNCHANGED <<statsVars, shareVars, rateVars, reader>>

StatisticsStep ==
    /\ reader = "statistics"
    /\ StatsNext
    /\ UNCHANGED <<shareVars, rateVars, reader>>

ShareStep ==
    /\ reader = "share"
    /\ ShareNext
    /\ UNCHANGED <<sybilVars, statsVars, rateVars, reader>>

LimiterStep ==
    /\ reader = "limiter"
    /\ RateNext
    /\ UNCHANGED <<badgeVars, sybilVars, statsVars, shareVars, reader>>

Next ==
    \/ TableStep
    \/ ScorerStep
    \/ StatisticsStep
    \/ ShareStep
    \/ LimiterStep

Spec == Init /\ [][Next]_vars
=============================================================================
