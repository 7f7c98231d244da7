----------------------------- MODULE AllReaders -----------------------------
(***************************************************************************)
(* BadgeReaders with one reader more, the consent page of Policy.  A step  *)
(* of the page is a stutter of BadgeReaders, so a behaviour of AllSpec is  *)
(* one of BadgeReaders' Spec as well, and its theorems are true here too.  *)
(***************************************************************************)
EXTENDS BadgeReaders, Policy

allVars == <<vars, policyVars>>

AllInit == Init /\ PolicyInit

ConsentStep ==
    /\ reader = "consent"
    /\ PolicyNext
    /\ UNCHANGED <<sybilVars, statsVars, shareVars, rateVars, reader>>

AllNext ==
    \/ Next /\ UNCHANGED policyVars
    \/ ConsentStep

AllSpec == AllInit /\ [][AllNext]_allVars
=============================================================================
