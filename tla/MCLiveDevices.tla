--------------------------- MODULE MCLiveDevices ---------------------------
(***************************************************************************)
(* LiveDevices for TLC.                                                    *)
(***************************************************************************)
EXTENDS LiveDevices, TLC

MCSymmetry == Permutations(Addrs) \cup Permutations(Logins)
              \cup Permutations(Drives)
=============================================================================
