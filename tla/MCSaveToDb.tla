----------------------------- MODULE MCSaveToDb -----------------------------
(* Model values for the run of SaveToDb. *)
EXTENDS SaveToDb, TLC

CONSTANTS n1, n2, f1, f2, s1, s2, s3

(* One document comes with a file. *)
ShownFiles == (n1 :> {f1}) @@ (n2 :> {})

(* Two syncs of one node may overlap; which node that is makes no difference. *)
NodeOfSync == (s1 :> n1) @@ (s2 :> n1) @@ (s3 :> n2)
=============================================================================
