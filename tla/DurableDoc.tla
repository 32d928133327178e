------------------------------ MODULE DurableDoc ------------------------------
(***************************************************************************)
(* What the document manager promises of one node's document, without      *)
(* caches, queues, timers or requests: an opened document starts from      *)
(* everything saved, only grows while it is open, and is saved over and    *)
(* over without ever losing what was saved.  Deleting the node ends the    *)
(* promise.                                                                *)
(***************************************************************************)
EXTENDS Integers

CONSTANTS Op, Null

VARIABLES
  content,   \* the open document, or Null
  saved,     \* what the database has
  deleted

vars == <<content, saved, deleted>>

Init == content = Null /\ saved \in SUBSET Op /\ deleted = FALSE

Open ==
  /\ content = Null
  /\ content' # Null /\ content' \in SUBSET Op /\ saved \subseteq content'
  /\ UNCHANGED <<saved, deleted>>

Edit ==
  /\ content # Null
  /\ content' # Null /\ content' \in SUBSET Op /\ content \subseteq content'
  /\ UNCHANGED <<saved, deleted>>

Save ==
  /\ saved' \in SUBSET Op /\ saved \subseteq saved'
  /\ UNCHANGED <<content, deleted>>

(* Eviction, or the end of the process; a save under way may still land. *)
Close ==
  /\ content' = Null
  /\ saved' \in SUBSET Op /\ saved \subseteq saved'
  /\ UNCHANGED deleted

Delete == deleted' = TRUE /\ UNCHANGED <<content, saved>>

(* After the deletion: no promise. *)
AfterDelete ==
  /\ deleted /\ deleted'
  /\ content' \in {Null} \cup SUBSET Op /\ saved' \in SUBSET Op

Next == Open \/ Edit \/ Save \/ Close \/ Delete \/ AfterDelete

Spec == Init /\ [][Next]_vars
=============================================================================
