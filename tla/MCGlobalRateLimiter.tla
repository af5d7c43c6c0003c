------------------------ MODULE MCGlobalRateLimiter ------------------------
(***************************************************************************)
(* Instances of GlobalRateLimiter for TLC.                                 *)
(***************************************************************************)
EXTENDS GlobalRateLimiter, TLC

NoPercent == Unset

UserSymmetry == Permutations(Users)
=============================================================================
