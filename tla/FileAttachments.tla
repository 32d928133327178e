--------------------------- MODULE FileAttachments ---------------------------
(***************************************************************************)
(* syncNodeAttachments of src/src/domain/file-attachment/service/          *)
(* file-attachment.service.ts: the last part of saveToDb, outside its      *)
(* transaction.  Every statement commits on its own, and the syncs of      *)
(* different nodes interleave.                                             *)
(*                                                                         *)
(* Two habits of flushDocLocked (yjs-doc-manager.ts) decide which syncs    *)
(* there are.  A flush saves only when the state vector differs from the   *)
(* recorded one, and a deletion does not change it.  And Promise.all ends  *)
(* the flush when the SET rejects, while saveToDb and its sync go on: such *)
(* a sync is left behind, and the node's next flush may begin beside it.   *)
(***************************************************************************)
EXTENDS Integers, FiniteSets

CONSTANTS
  Node, File,
  Shown,                  \* the files each document shows when it is loaded
  Sync, Of,               \* the syncs that may run at once, and the node of each
  StatementsMayFail,      \* commands to PostgreSQL and Redis may reject
  MaxRunning,             \* bounds of the exploration: syncs at once,
  MaxEdits, MaxFailures   \* edits and rejections

ASSUME ShownAssumption == Shown \in [Node -> SUBSET File]
ASSUME OfAssumption == Of \in [Sync -> Node]
ASSUME FailAssumption == StatementsMayFail \in BOOLEAN
ASSUME BoundAssumption == MaxRunning \in Nat /\ MaxEdits \in Nat /\ MaxFailures \in Nat

VARIABLES
  refs,       \* the files the node's document shows
  erased,     \* the files it lost since it was last captured (ghost)
  attached,   \* file_attachments: the files each node has a row for
  status,     \* files.status
  stale,      \* the vector is neither recorded nor that of the flush at work
  left,       \* the syncs whose flush has ended with a rejected SET
  overlapped, \* the node's last sync began beside one left behind (ghost)
  pc,         \* the statement the sync is about to run, or "idle"
  want,       \* referencedIds of the sync
  toAdd, toRemove,
  orphanIds,
  edits, failures

tables == <<attached, status>>
flushes == <<stale, left, overlapped>>
locals == <<want, toAdd, toRemove, orphanIds>>
vars == <<refs, erased, tables, flushes, pc, locals, edits, failures>>

Statements ==
  {"idle", "diff", "create", "activate", "delete", "count", "orphan", "record"}

(* Values, no statement runs with an empty list of files, and only a sync that runs
   is left behind. *)
TypeOK ==
  /\ refs \in [Node -> SUBSET File] /\ erased \in [Node -> SUBSET File]
  /\ attached \in [Node -> SUBSET File]
  /\ status \in [File -> {"PENDING", "ACTIVE", "ORPHAN"}]
  /\ stale \in [Node -> BOOLEAN] /\ overlapped \in [Node -> BOOLEAN]
  /\ left \subseteq {s \in Sync : pc[s] # "idle"}
  /\ pc \in [Sync -> Statements]
  /\ want \in [Sync -> SUBSET File] /\ toAdd \in [Sync -> SUBSET File]
  /\ toRemove \in [Sync -> SUBSET File] /\ orphanIds \in [Sync -> SUBSET File]
  /\ \A s \in Sync :
       /\ pc[s] \in {"create", "activate"} => toAdd[s] # {}
       /\ pc[s] \in {"delete", "count"} => toRemove[s] # {}
       /\ pc[s] = "orphan" => orphanIds[s] # {} /\ orphanIds[s] \subseteq toRemove[s]
  /\ edits \in Nat /\ failures \in Nat

(* Uploaded files are PENDING until a sync finds them in a document, and none has: the
   documents that show files are just loaded, and no vector is recorded for them. *)
Init ==
  /\ refs = Shown
  /\ erased = [n \in Node |-> {}] /\ attached = [n \in Node |-> {}]
  /\ status = [f \in File |-> "PENDING"]
  /\ stale = [n \in Node |-> Shown[n] # {}] /\ overlapped = [n \in Node |-> FALSE] /\ left = {}
  /\ pc = [s \in Sync |-> "idle"]
  /\ want = [s \in Sync |-> {}] /\ toAdd = want /\ toRemove = want /\ orphanIds = want
  /\ edits = 0 /\ failures = 0

Goto(s, statement) == pc' = [pc EXCEPT ![s] = statement]

(* The sync is over, and its local values with it. *)
End(s) ==
  /\ Goto(s, "idle") /\ left' = left \ {s}
  /\ want' = [want EXCEPT ![s] = {}] /\ toAdd' = [toAdd EXCEPT ![s] = {}]
  /\ toRemove' = [toRemove EXCEPT ![s] = {}] /\ orphanIds' = [orphanIds EXCEPT ![s] = {}]

Running(n) == {s \in Sync : Of[s] = n /\ pc[s] # "idle"}

(* Somebody pastes or removes files, or types.  What is inserted changes the vector,
   and so does a new load of the document, for which none is recorded; to remove
   something does not. *)
Edit(n) ==
  /\ edits < MaxEdits /\ edits' = edits + 1
  /\ \E files \in SUBSET File, inserts \in BOOLEAN :
       /\ files # refs[n] \/ (inserts /\ ~stale[n])
       /\ files \subseteq refs[n] \/ inserts
       /\ refs' = [refs EXCEPT ![n] = files]
       /\ erased' = [erased EXCEPT ![n] = (@ \cup refs[n]) \ files]
       /\ stale' = [stale EXCEPT ![n] = @ \/ inserts]
  /\ UNCHANGED <<tables, left, overlapped, pc, locals, failures>>

(* Idle syncs are interchangeable: one that begins takes the first free name. *)
Spare(n) == CHOOSE s \in Sync : Of[s] = n /\ pc[s] = "idle"

(* A flush whose vector is not the recorded one captured the document, and
   extractReferencedFileIds finds its files.  The node's flushes wait for one another,
   but not for the syncs that earlier ones left behind. *)
Extract(s) ==
  LET n == Of[s] IN
  /\ pc[s] = "idle" /\ s = Spare(n) /\ stale[n] /\ Running(n) \subseteq left
  /\ Cardinality({t \in Sync : pc[t] # "idle"}) < MaxRunning
  /\ stale' = [stale EXCEPT ![n] = FALSE]
  /\ erased' = [erased EXCEPT ![n] = {}]
  /\ overlapped' = [overlapped EXCEPT ![n] = Running(n) # {}]
  /\ want' = [want EXCEPT ![s] = refs[n]]
  /\ Goto(s, "diff")
  /\ UNCHANGED <<refs, tables, left, toAdd, toRemove, orphanIds, edits, failures>>

(* findAttachedFileIdsByNodeId; the parts of the diff that are empty are skipped. *)
AfterDiff(add, remove) ==
  IF add # {} THEN "create" ELSE IF remove # {} THEN "delete" ELSE "record"

Diff(s) ==
  /\ pc[s] = "diff"
  /\ toAdd' = [toAdd EXCEPT ![s] = want[s] \ attached[Of[s]]]
  /\ toRemove' = [toRemove EXCEPT ![s] = attached[Of[s]] \ want[s]]
  /\ Goto(s, AfterDiff(toAdd'[s], toRemove'[s]))
  /\ UNCHANGED <<refs, erased, tables, flushes, want, orphanIds, edits, failures>>

(* Mutant: nothing is removed once something was added. *)
AddOnly(s) == "record"

AfterAdd(s) == IF toRemove[s] # {} THEN "delete" ELSE "record"

AfterCreate(s) == "activate"

(* createAttachments, which skips the rows that exist. *)
Create(s) ==
  /\ pc[s] = "create"
  /\ attached' = [attached EXCEPT ![Of[s]] = @ \cup toAdd[s]]
  /\ Goto(s, AfterCreate(s))
  /\ UNCHANGED <<refs, erased, status, flushes, locals, edits, failures>>

SetStatus(files, value) ==
  status' = [f \in File |-> IF f \in files THEN value ELSE status[f]]

(* markFilesActive. *)
Activate(s) ==
  /\ pc[s] = "activate"
  /\ SetStatus(toAdd[s], "ACTIVE")
  /\ Goto(s, AfterAdd(s))
  /\ UNCHANGED <<refs, erased, attached, flushes, locals, edits, failures>>

(* deleteAttachments. *)
Delete(s) ==
  /\ pc[s] = "delete"
  /\ attached' = [attached EXCEPT ![Of[s]] = @ \ toRemove[s]]
  /\ Goto(s, "count")
  /\ UNCHANGED <<refs, erased, status, flushes, locals, edits, failures>>

(* Mutant: the rows of the files that are left are counted the wrong way round. *)
StillReferenced(s) == {f \in toRemove[s] : \E n \in Node : f \in attached[n]}

(* countAttachmentsByFileIds: the removed files no node has a row for. *)
Unreferenced(s) == {f \in toRemove[s] : \A n \in Node : f \notin attached[n]}

Count(s) ==
  /\ pc[s] = "count"
  /\ orphanIds' = [orphanIds EXCEPT ![s] = Unreferenced(s)]
  /\ Goto(s, IF orphanIds'[s] # {} THEN "orphan" ELSE "record")
  /\ UNCHANGED <<refs, erased, tables, flushes, want, toAdd, toRemove, edits, failures>>

(* markFilesOrphan. *)
Orphan(s) ==
  /\ pc[s] = "orphan"
  /\ SetStatus(orphanIds[s], "ORPHAN")
  /\ Goto(s, "record")
  /\ UNCHANGED <<refs, erased, attached, flushes, locals, edits, failures>>

(* The SET has resolved too and the flush records its vector; a sync left behind ends
   with nobody waiting for it. *)
Record(s) ==
  /\ pc[s] = "record" /\ End(s)
  /\ UNCHANGED <<refs, erased, tables, stale, overlapped, edits, failures>>

Fails ==
  StatementsMayFail /\ failures < MaxFailures /\ failures' = failures + 1

(* Mutant: a flush whose sync failed counts as saved. *)
ForgetFailure(n) == UNCHANGED stale

(* lastSavedStateVector is not recorded, so the next flush saves and syncs again. *)
RetryLater(n) == stale' = [stale EXCEPT ![n] = TRUE]

(* A statement rejects and saveToDb with it: the flush fails, unless it had ended
   before, when nobody hears of it. *)
StatementRejects(s) ==
  /\ pc[s] \notin {"idle", "record"} /\ Fails
  /\ IF s \in left THEN UNCHANGED stale ELSE RetryLater(Of[s])
  /\ End(s)
  /\ UNCHANGED <<refs, erased, tables, overlapped, edits>>

(* The flush's SET rejects and ends it; its sync goes on. *)
SetRejects(s) ==
  /\ pc[s] # "idle" /\ s \notin left /\ Fails
  /\ RetryLater(Of[s]) /\ left' = left \cup {s}
  /\ UNCHANGED <<refs, erased, tables, overlapped, pc, locals, edits>>

Statement(s) ==
  Diff(s) \/ Create(s) \/ Activate(s) \/ Delete(s) \/ Count(s) \/ Orphan(s)

SyncStep(s) == Extract(s) \/ Statement(s) \/ Record(s)

Next ==
  \/ \E n \in Node : Edit(n)
  \/ \E s \in Sync : SyncStep(s) \/ StatementRejects(s) \/ SetRejects(s)

Spec == Init /\ [][Next]_vars

------------------------------------------------------------------------------
(* Settled: no sync is running and none is due. *)
SettledNode(n) == Running(n) = {} /\ ~stale[n]
Quiet == \A n \in Node : SettledNode(n)
Attached(f) == \E n \in Node : f \in attached[n]

(* Settled, a node has a row for each file its document shows and for each it lost
   since its last save began, and no other, whatever was rejected: unless that last
   save ran beside one left behind.  A node is right again after the next save that
   has it for itself. *)
RowsFollowContent ==
  \A n \in Node :
    SettledNode(n) /\ ~overlapped[n] => attached[n] = refs[n] \cup erased[n]

(* A file that lost its last reference does not stay ACTIVE. *)
UnreferencedIsOrphan ==
  Quiet => \A f \in File : status[f] = "ACTIVE" => Attached(f)

(* An attached file is not ORPHAN: only files without references are. *)
OrphanIsUnreferenced ==
  Quiet => \A f \in File : status[f] = "ORPHAN" => ~Attached(f)

(* findStaleFiles takes a PENDING file to be attached to no node. *)
PendingIsUnattached ==
  Quiet => \A f \in File : status[f] = "PENDING" => ~Attached(f)

(* Until a statement or SET rejects, whatever nodes share and however they interleave,
   a status is at worst ORPHAN too much: never ACTIVE too long or PENDING too long. *)
NoStatusLagsBehind == failures = 0 => UnreferencedIsOrphan /\ PendingIsUnattached
=============================================================================
