---------------------------- MODULE TokenPairs ----------------------------
(***************************************************************************)
(* A member of Token names ONE call of issuePairWithID: the refresh_tokens *)
(* row, the raw refresh token whose hash the row holds, and the access JWT *)
(* signed with it are created together and are told apart by the variable  *)
(* they live in.  The ids are random UUIDs and 256-bit secrets, so a fresh *)
(* member of Token stands for "an id nobody has used".                     *)
(***************************************************************************)
EXTENDS Domain

CONSTANT Token
ASSUME NoneAssumption == None \notin User \cup Token
===========================================================================
