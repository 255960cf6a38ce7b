--------------------------- MODULE MCWeeklyDigest ---------------------------
(***************************************************************************)
(* Instances of WeeklyDigest for TLC: a week is two seconds long, so that  *)
(* a few ticks hold a digest that fails and the digests that follow it.    *)
(***************************************************************************)
EXTENDS WeeklyDigest
=============================================================================
