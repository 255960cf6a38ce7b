---------------------------- MODULE MCSummarizer ----------------------------
(***************************************************************************)
(* Instances of Summarizer for TLC: texts of up to three runes where two   *)
(* are the limit, and a few ticks for a call.                              *)
(***************************************************************************)
EXTENDS Summarizer
=============================================================================
