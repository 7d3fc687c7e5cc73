---------------------------- MODULE MCDhcpLeases ----------------------------
(***************************************************************************)
(* DhcpLeases for TLC: two nested ranges that share one address below the  *)
(* pool and have pools of one and of two addresses.                        *)
(***************************************************************************)
EXTENDS DhcpLeases, TLC

MCRanges == {[base |-> 0, size |-> 4], [base |-> 0, size |-> 5]}
MCSymmetry == Permutations(Macs)
=============================================================================
