---------------------------- MODULE MCLinuxLinks ----------------------------
(***************************************************************************)
(* LinuxLinks for TLC; member interfaces, addresses and destinations are   *)
(* interchangeable.                                                        *)
(***************************************************************************)
EXTENDS LinuxLinks, TLC

MCSymmetry == Permutations(Members) \cup Permutations(Addresses)
                  \cup Permutations(Routes)
=============================================================================
