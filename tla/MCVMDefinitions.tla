-------------------------- MODULE MCVMDefinitions --------------------------
(***************************************************************************)
(* Definitions of virtual machines for TLC.                                *)
(***************************************************************************)
EXTENDS VMDefinitions, TLC

MCSymmetry == Permutations(Names) \cup Permutations(Macs)
              \cup Permutations(Threads) \cup Permutations(Ids)
              \cup Permutations(Disks)
=============================================================================
