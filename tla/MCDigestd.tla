----------------------------- MODULE MCDigestd -----------------------------
(***************************************************************************)
(* Instances of Digestd for TLC: one firing of the poll schedule, two of   *)
(* the digest schedule and the startup poll.                               *)
(***************************************************************************)
EXTENDS Digestd

CONSTANTS p1, d1, d2
=============================================================================
