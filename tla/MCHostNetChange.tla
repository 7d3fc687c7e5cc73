-------------------------- MODULE MCHostNetChange --------------------------
(***************************************************************************)
(* HostNetChange for TLC; identifiers are interchangeable.                 *)
(***************************************************************************)
EXTENDS HostNetChange, TLC

MCSymmetry == Permutations(Ids)
=============================================================================
