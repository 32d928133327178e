----------------------------- MODULE MCNodeQueue -----------------------------
(* An instance of FlushPool, and the line one of its queues implements. *)
EXTENDS FlushPool

CONSTANTS n1, n2, n3, r1, r2, other

MCCall == (Round \X Node) \cup {other}
MCLists == [r \in Round |-> IF r = r1 THEN {<<n1, n2, n3>>} ELSE {<<>>, <<n2, n1>>}]
MCMayReject == {<<r1, n1>>, other}
MCNodeOf == [c \in MCCall |-> IF c = other THEN n1 ELSE c[2]]

Line1 == INSTANCE TaskLine WITH Call <- CallsOf(n1), line <- LineOf(n1), busy <- Busy(n1)

(* The promise chain of n1, where the calls of both rounds and the other one meet,
   is a first-in-first-out line with one server. *)
ImplementsTaskLine == Line1!Spec
=============================================================================
