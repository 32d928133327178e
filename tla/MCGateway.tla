------------------------------ MODULE MCGateway ------------------------------
(* Two sockets of one user. *)
EXTENDS Gateway, TLC

CONSTANTS c1, c2, user, viewed

Users == [c \in Client |-> user]
Symmetry == Permutations(Client)
=============================================================================
