------------------------------- MODULE MCPoll -------------------------------
(***************************************************************************)
(* Instances of Poll for TLC.  Four messages cover the cases the code tells *)
(* apart: two that share a Message-Id, one of them from a sender out of    *)
(* scope, one that does not parse, and one whose body the server does not  *)
(* return.                                                                 *)
(***************************************************************************)
EXTENDS Poll, TLC

CONSTANTS board, reply, notice, hollow, idA, idB

MCMsgID ==
  board :> idA @@ reply :> idA @@ notice :> NoID @@ hollow :> idB
MCPair == board :> idA @@ reply :> idA
MCPairNoID == board :> idA @@ notice :> NoID
=============================================================================
