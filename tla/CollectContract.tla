---------------------------- MODULE CollectContract ----------------------------
(***************************************************************************)
(* What one collection cycle promises to the operator who only sees the    *)
(* adapter instance in VCF Operations: an error means that nothing was     *)
(* delivered, and neither an error nor a warning means that everything the *)
(* cycle found in the inventory was.                                       *)
(***************************************************************************)
CONSTANT Object     \* the native clusters and hosts

VARIABLES
    listed,         \* objects the cycle has found in the inventory
    delivered,      \* objects that received their risk attributes
    verdict         \* what the adapter instance shows

vars == <<listed, delivered, verdict>>

Init == listed = {} /\ delivered = {} /\ verdict = "pending"

Discover ==
    /\ verdict = "pending"
    /\ listed' \in SUBSET Object
    /\ listed \subseteq listed'
    /\ UNCHANGED <<delivered, verdict>>

Report ==
    /\ verdict = "pending"
    /\ verdict' \in {"error", "warned", "healthy"}
    /\ delivered' \in SUBSET listed
    /\ verdict' = "error" => delivered' = {}
    /\ verdict' = "healthy" => delivered' = listed
    /\ UNCHANGED listed

Next == Discover \/ Report

Spec == Init /\ [][Next]_vars
================================================================================
