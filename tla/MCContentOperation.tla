-------------------------- MODULE MCContentOperation --------------------------
(* A request, its retry, the same key with another body, and a delivery that
   comes twice. *)
EXTENDS ContentOperation, TLC

CONSTANTS first, retry, other, patch, resent, k1, k2, b1, b2

Keys == [a \in AppendOp |-> IF a \in Patch THEN k2 ELSE k1]
Bodies == [a \in AppendOp |-> IF a = other THEN b2 ELSE b1]
=============================================================================
