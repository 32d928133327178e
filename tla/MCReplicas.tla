----------------------------- MODULE MCReplicas -----------------------------
(* Model values for the run of Replicas. *)
EXTENDS Replicas

CONSTANTS c1, c2, typed, more, erased, appended, relayed, b1, b2
=============================================================================
