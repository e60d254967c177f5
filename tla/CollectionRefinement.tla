-------------------------- MODULE CollectionRefinement --------------------------
(***************************************************************************)
(* CollectionCycle implements CollectContract.  The warnings an operator   *)
(* sees are Collection Health's count, which is published with the result. *)
(***************************************************************************)
EXTENDS CollectionCycle

Listed == clusters \cup UNION {hostsOf[c] : c \in clusters}

Verdict == IF pc # "done" THEN "pending"
           ELSE IF error # "none" THEN "error"
           ELSE IF count > 0 THEN "warned" ELSE "healthy"

Contract == INSTANCE CollectContract
    WITH Object <- Cluster \cup Host, listed <- Listed, delivered <- sent, verdict <- Verdict

(* Each step of the cycle is a step the operator's view allows: objects are *)
(* found, then one report of them is made and never changed.                *)
ImplementsContract == Contract!Spec
================================================================================
