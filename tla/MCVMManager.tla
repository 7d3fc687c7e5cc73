---------------------------- MODULE MCVMManager ----------------------------
(***************************************************************************)
(* VMManager for TLC.  Processes, callers and VMs are interchangeable      *)
(* model values; runs that check liveness use no symmetry.                 *)
(***************************************************************************)
EXTENDS VMManager, TLC

MCSymmetry ==
    Permutations(VMs) \cup Permutations(Pids) \cup Permutations(Callers)
=============================================================================
