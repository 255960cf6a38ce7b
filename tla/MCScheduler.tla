---------------------------- MODULE MCScheduler ----------------------------
(***************************************************************************)
(* Instances of Scheduler for TLC: two firings of the poll schedule, one   *)
(* or two of the digest schedule, and the startup poll.                    *)
(***************************************************************************)
EXTENDS Scheduler, TLC

CONSTANTS p1, p2, d1, d2
=============================================================================
