-------------------------- MODULE MCBridgeServices --------------------------
(***************************************************************************)
(* BridgeServices for TLC: one machine on both bridges, one on the second  *)
(* only; a bridge is unmanaged, has DHCP only, or has everything, on one   *)
(* of two ranges.                                                          *)
(***************************************************************************)
EXTENDS BridgeServices, TLC

CONSTANTS v1, v2, b1, b2

MCUses == (v1 :> <<b1, b2>>) @@ (v2 :> <<b2>>)
MCChoices == {Off, [range |-> 1, nat |-> FALSE, dns |-> FALSE],
               [range |-> 1, nat |-> TRUE, dns |-> TRUE],
               [range |-> 2, nat |-> TRUE, dns |-> TRUE]}
=============================================================================
