------------------------------ MODULE MCTransfer ------------------------------
(***************************************************************************)
(* Instances of Transfer for TLC: a source of six pieces, of which a       *)
(* selective download wants two ranges that do not meet.                   *)
(***************************************************************************)
EXTENDS Transfer

TwoRanges == <<2, 3, 5, 6>>
TwoCuts == <<2, 4>>
=============================================================================
