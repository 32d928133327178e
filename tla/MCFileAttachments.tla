-------------------------- MODULE MCFileAttachments --------------------------
(* Model values for the run of FileAttachments: each node has one sync. *)
EXTENDS FileAttachments, TLC

CONSTANTS n1, n2, f1, s1, s2

(* One of the documents comes with the file. *)
ShownFiles == (n1 :> {f1}) @@ (n2 :> {})

NodeOfSync == (s1 :> n1) @@ (s2 :> n2)
=============================================================================
