--------------------------- MODULE NetTransaction ---------------------------
(***************************************************************************)
(* What the host network manager promises an operator: risky changes are   *)
(* confirmable transactions.  The network may only move while a            *)
(* transaction is open, and a transaction ends in one of two ways: the     *)
(* operator accepts the network as it is, or the accepted one is back.     *)
(***************************************************************************)
CONSTANT Networks

VARIABLES
    current,  \* the network of the host
    accepted, \* the network the operator last accepted
    open      \* whether a transaction is open

vars == <<current, accepted, open>>

Init ==
    /\ current \in Networks
    /\ accepted = current
    /\ open = FALSE

Begin ==
    /\ ~open
    /\ open' = TRUE
    /\ UNCHANGED <<current, accepted>>

Move ==
    /\ open
    /\ current' \in Networks
    /\ UNCHANGED <<accepted, open>>

Accept ==
    /\ open
    /\ open' = FALSE
    /\ accepted' = current
    /\ UNCHANGED current

RollBack ==
    /\ open
    /\ current = accepted
    /\ open' = FALSE
    /\ UNCHANGED <<current, accepted>>

Next == Begin \/ Move \/ Accept \/ RollBack

Spec == Init /\ [][Next]_vars
=============================================================================
