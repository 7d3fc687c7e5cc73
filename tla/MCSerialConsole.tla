-------------------------- MODULE MCSerialConsole --------------------------
(***************************************************************************)
(* The console hub of one machine for TLC.                                 *)
(***************************************************************************)
EXTENDS SerialConsole, TLC

MCSymmetry == Permutations(Clients)
=============================================================================
