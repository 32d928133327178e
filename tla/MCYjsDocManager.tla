-------------------------- MODULE MCYjsDocManager --------------------------
(* Model values for the runs of YjsDocManager. *)
EXTENDS YjsDocManager, TLC

CONSTANTS c1, c2, typed, more, erased, viewed, appended
=============================================================================
