------------------------------ MODULE SaveToDb ------------------------------
(***************************************************************************)
(* saveToDb of src/src/global/yjs/yjs-crdt.service.ts, for several nodes   *)
(* of one workspace: the transaction that reads content and writes it      *)
(* back, the attachment sync after it (FileAttachments), and the DEL of    *)
(* the workspace sync cache at the end.  A save has the name of its sync;  *)
(* one that a rejected SET left behind runs on beside the node's next.     *)
(* The API server writes the other fields of content and fills the cache.  *)
(***************************************************************************)
EXTENDS FileAttachments

CONSTANT MaxApiWrites   \* bound of the exploration

ASSUME ApiBoundAssumption == MaxApiWrites \in Nat

VARIABLES
  save,       \* the next step of the saveToDb, or "idle"
  field,      \* nodes.content without markdownBody: how many of the API server's writes it holds
  seen,       \* currentContent of the save
  overtaken,  \* the field got a newer value after the save read it (ghost)
  snapshot    \* the workspace sync cache, compared with the nodes rows; "forsaken" is an
              \* outdated one whose DEL was rejected or not sent by a save left behind

rowVars == <<field, seen, overtaken>>
saveVars == <<vars, save, rowVars, snapshot>>

Phases == {"idle", "read", "update", "sync", "invalidate"}

(* Values, and what a save's phase has to do with its sync. *)
SaveTypeOK ==
  /\ TypeOK
  /\ save \in [Sync -> Phases]
  /\ field \in [Node -> Nat] /\ seen \in [Sync -> Nat] /\ overtaken \in [Sync -> BOOLEAN]
  /\ snapshot \in {"none", "current", "outdated", "forsaken"}
  /\ \A s \in Sync :
       /\ save[s] = "idle" <=> pc[s] = "idle"
       /\ save[s] \in {"read", "update"} => pc[s] = "diff"
       /\ save[s] = "invalidate" <=> pc[s] = "record"
       /\ save[s] # "update" => seen[s] = 0 /\ ~overtaken[s]

SaveInit ==
  /\ Init
  /\ save = [s \in Sync |-> "idle"]
  /\ field = [n \in Node |-> 0]
  /\ seen = [s \in Sync |-> 0] /\ overtaken = [s \in Sync |-> FALSE]
  /\ snapshot = "none"

Phase(s, phase) == save' = [save EXCEPT ![s] = phase]

(* A row changed: a cached answer no longer shows it. *)
Outdated == IF snapshot = "current" THEN "outdated" ELSE snapshot
Forsaken(value) == IF value = "outdated" THEN "forsaken" ELSE value

(* The flush captures the document, its attachments included, and calls saveToDb. *)
Capture(s) ==
  /\ Extract(s) /\ Phase(s, "read")
  /\ UNCHANGED <<rowVars, snapshot>>

(* The transaction begins and reads content; it takes no lock. *)
ReadRow(s) ==
  /\ save[s] = "read" /\ Phase(s, "update")
  /\ seen' = [seen EXCEPT ![s] = field[Of[s]]]
  /\ UNCHANGED <<vars, field, overtaken, snapshot>>

(* Mutant: markdownBody takes the place of the whole content. *)
BodyAlone(s) == 0

(* The whole of content is written: what was read, with the new markdownBody. *)
UpdatedContent(s) == seen[s]

WriteContent(s) == field' = [field EXCEPT ![Of[s]] = UpdatedContent(s)]

(* The node's saves between their read and their update. *)
Updating(n) == {s \in Sync : Of[s] = n /\ save[s] = "update"}

(* currentContent goes with the transaction; what it wrote may be news to the others. *)
EndTransaction(s, written) ==
  /\ seen' = [seen EXCEPT ![s] = 0]
  /\ overtaken' = [t \in Sync |->
       /\ t # s
       /\ overtaken[t] \/ (written /\ t \in Updating(Of[s]) /\ seen[t] < seen[s])]

(* update and commit: the lock on the row is held for no longer. *)
CommitRow(s) ==
  /\ save[s] = "update" /\ Phase(s, "sync")
  /\ WriteContent(s) /\ EndTransaction(s, TRUE)
  /\ snapshot' = Outdated
  /\ UNCHANGED vars

(* A statement of syncNodeAttachments, outside the transaction. *)
SyncStatement(s) ==
  /\ save[s] = "sync" /\ Statement(s)
  /\ Phase(s, IF pc'[s] = "record" THEN "invalidate" ELSE "sync")
  /\ UNCHANGED <<rowVars, snapshot>>

(* The save is over, and with the answer to the SET the flush records its vector: what
   a SET leaves that rejects after the DEL, it leaves too when it rejects just before. *)
SaveEnds(s) ==
  /\ save[s] = "invalidate" /\ Phase(s, "idle") /\ Record(s)
  /\ UNCHANGED rowVars

(* Mutant: the cache is left alone when the sync had nothing to add. *)
DropIfAdded(s) == IF toAdd[s] # {} THEN "none" ELSE snapshot

Dropped(s) == "none"

(* DEL of the cache, the last step of the save. *)
Invalidate(s) == SaveEnds(s) /\ snapshot' = Dropped(s)

(* The DEL rejects; the error is dropped and the save counts as done. *)
InvalidateRejects(s) ==
  SaveEnds(s) /\ StatementsMayFail /\ snapshot' = Forsaken(snapshot)

(* A statement before the DEL rejects and saveToDb with it, without a DEL; the
   commit may have been applied all the same.  Nobody retries a save left behind. *)
SaveRejects(s) ==
  /\ save[s] \in {"read", "update", "sync"} /\ Phase(s, "idle")
  /\ StatementRejects(s)
  /\ \E written \in BOOLEAN :
       /\ written => save[s] = "update"
       /\ IF written THEN WriteContent(s) ELSE UNCHANGED field
       /\ EndTransaction(s, written)
       /\ LET value == IF written THEN Outdated ELSE snapshot
          IN  snapshot' = IF s \in left THEN Forsaken(value) ELSE value

(* The flush's SET rejects while saveToDb is at work, or after it has resolved. *)
FlushRejects(s) == SetRejects(s) /\ UNCHANGED <<save, rowVars, snapshot>>

SaveStep(s) ==
  ReadRow(s) \/ CommitRow(s) \/ SyncStatement(s) \/ Invalidate(s)

DocChanges(n) == Edit(n) /\ UNCHANGED <<save, rowVars, snapshot>>

(* External: the API server changes another field of content and deletes the cache. *)
ApiWrites(n) ==
  /\ (\A m \in Node : field[m] < MaxApiWrites)
  /\ field' = [field EXCEPT ![n] = @ + 1]
  /\ overtaken' = [s \in Sync |-> overtaken[s] \/ s \in Updating(n)]
  /\ snapshot' = "none"
  /\ UNCHANGED <<vars, save, seen>>

(* External: the API server answers a sync from the rows and caches the answer. *)
ApiFillsCache ==
  /\ snapshot = "none" /\ snapshot' = "current"
  /\ UNCHANGED <<vars, save, rowVars>>

SaveNext ==
  \/ \E s \in Sync :
       Capture(s) \/ SaveStep(s) \/ InvalidateRejects(s) \/ SaveRejects(s) \/ FlushRejects(s)
  \/ \E n \in Node : DocChanges(n) \/ ApiWrites(n)
  \/ ApiFillsCache

SaveSpec == SaveInit /\ [][SaveNext]_saveVars

(* As long as a save has a step to take, or a flush one to begin, some such step is
   taken: commands are answered, and the safety flush comes back to a document in
   memory whose vector is not the recorded one.  A document that only lost something
   since is skipped each time, and no fairness is assumed for it. *)
SaveFairSpec ==
  SaveSpec /\ WF_saveVars(\E s \in Sync : Capture(s) \/ SaveStep(s))

------------------------------------------------------------------------------
(* Once every save is over and none is due, the cache does not show older rows, also
   after saves that committed and failed later, unless a DEL was rejected, or was not
   sent by a save left behind: nothing but the node's next save repeats it. *)
SnapshotIsCurrent == Quiet => snapshot # "outdated"

(* A save takes a field back only if the field got a newer value between that save's
   read and its write: older writes are in what was read. *)
OlderApiWritesSurvive ==
  [][\A n \in Node : field'[n] < field[n] => \E s \in Updating(n) : overtaken[s]]_saveVars

(* When the edits and the failures stop, the rows of a node end up those of the files
   its document shows and of those it only lost since its last save began, and stay
   so: a file that was inserted gets its row, and one that was removed loses it with
   the next insertion, whatever was rejected before. *)
RowsCatchUp ==
  <>[](\A n \in Node : ~overlapped[n] => attached[n] = refs[n] \cup erased[n])
=============================================================================
