----------------------------- MODULE MCArchive -----------------------------
(***************************************************************************)
(* An instance of Archive for TLC.  Two messages have the Message-Id       *)
(* <uid-1>; the third has none and no Date, and two UIDs one after the     *)
(* other: as UID 1 it wants the path of the other two, and it has the hash *)
(* of one of them.                                                         *)
(***************************************************************************)
EXTENDS Archive, TLC

CONSTANTS board, reply, notice, name1, name2, hash1, hash2, w1, w2

MCName == board :> name1 @@ reply :> name1 @@ notice :> NoName
MCUIDName == 1 :> name1 @@ 2 :> name2
MCHash == board :> hash1 @@ reply :> hash2 @@ notice :> hash2
MCMonthOf == board :> 1 @@ reply :> 1
=============================================================================
