--------------------------- MODULE SaveToDb_proofs ---------------------------
(***************************************************************************)
(* saveToDb, for any sets of nodes, files and saves at once, whatever is   *)
(* rejected and however often the API server writes.  The sync inside a    *)
(* save is a sync of FileAttachments (SaveUsesSync), so what is proved     *)
(* there holds here, for the overlapping saves of one node too; the rest   *)
(* is about the row and the cache of the workspace.                        *)
(***************************************************************************)
EXTENDS SaveToDb, FileAttachments_proofs

(* As long as nobody overtook it, a save read at least what the row holds. *)
ReadIsNotOlder ==
  \A s \in Sync : save[s] = "update" /\ ~overtaken[s] => field[Of[s]] <= seen[s]

(* A cache that shows older rows is going to be deleted by somebody, and a node whose
   save was left behind has a save to come. *)
InvalidationIsDue ==
  snapshot = "outdated" => (\E n \in Node : stale[n]) \/ (\E s \in Sync : save[s] # "idle")

SInv == SaveTypeOK /\ ReadIsNotOlder /\ InvalidationIsDue
------------------------------------------------------------------------------
(* A step of a save is a step of its sync, or none that the sync sees. *)
LEMMA StepIsSyncStep == [SaveNext]_saveVars => [Next]_vars
<1> SUFFICES ASSUME [SaveNext]_saveVars PROVE [Next]_vars
  OBVIOUS
<1>1. ASSUME NEW s \in Sync, Capture(s) PROVE Next
  BY <1>1 DEF Capture, Next, SyncStep
<1>2. ASSUME NEW s \in Sync, SyncStatement(s) PROVE Next
  BY <1>2 DEF SyncStatement, Next, SyncStep
<1>3. ASSUME NEW s \in Sync, Invalidate(s) \/ InvalidateRejects(s) PROVE Next
  BY <1>3 DEF Invalidate, InvalidateRejects, SaveEnds, Next, SyncStep
<1>4. ASSUME NEW s \in Sync, SaveRejects(s) \/ FlushRejects(s) PROVE Next
  BY <1>4 DEF SaveRejects, FlushRejects, Next
<1>5. ASSUME NEW n \in Node, DocChanges(n) PROVE Next
  BY <1>5 DEF DocChanges, Next
<1>6. ASSUME NEW s \in Sync, ReadRow(s) \/ CommitRow(s) PROVE UNCHANGED vars
  BY <1>6 DEF ReadRow, CommitRow
<1>7. ASSUME NEW n \in Node, ApiWrites(n) PROVE UNCHANGED vars
  BY <1>7 DEF ApiWrites
<1>8. CASE ApiFillsCache
  BY <1>8 DEF ApiFillsCache
<1>9. CASE UNCHANGED saveVars
  BY <1>9 DEF saveVars
<1> QED BY <1>1, <1>2, <1>3, <1>4, <1>5, <1>6, <1>7, <1>8, <1>9 DEF SaveNext, SaveStep

(* The syncs that saves run, overlapping ones included, are the syncs of
   FileAttachments. *)
THEOREM SaveUsesSync == SaveSpec => Spec
<1>1. SaveInit => Init
  BY DEF SaveInit
<1> QED BY <1>1, StepIsSyncStep, PTL DEF SaveSpec, Spec

(* So the rows of a node are those of the document last captured whenever its saves are
   over and the last one did not begin beside one left behind. *)
THEOREM SavedRowsAreRight == SaveSpec => []RowsFollowContent
  BY SaveUsesSync, RowsAreRight, PTL

(* And until something rejects no status lags behind. *)
THEOREM SavedStatusKeepsUp == SaveSpec => []NoStatusLagsBehind
  BY SaveUsesSync, StatusKeepsUp, PTL

------------------------------------------------------------------------------
LEMMA SaveInitInv == SaveInit => SInv
<1> SUFFICES ASSUME SaveInit PROVE SInv
  OBVIOUS
<1>1. TypeOK
  BY InitType DEF SaveInit
<1> QED BY <1>1 DEF SaveInit, Init, SInv, SaveTypeOK, Phases, ReadIsNotOlder, InvalidationIsDue

(* Types and phases, one step per action. *)
LEMMA NextSaveType == SaveTypeOK /\ [SaveNext]_saveVars => SaveTypeOK'
<1> SUFFICES ASSUME SaveTypeOK, [SaveNext]_saveVars PROVE SaveTypeOK'
  OBVIOUS
<1>0. TypeOK'
  BY StepIsSyncStep, NextType DEF SaveTypeOK
<1> USE <1>0, OfAssumption DEF SaveTypeOK, Phases, Phase, rowVars
<1>1. ASSUME NEW s \in Sync, Capture(s) PROVE SaveTypeOK'
  BY <1>1 DEF Capture, Extract, Goto, TypeOK
<1>2. ASSUME NEW s \in Sync, ReadRow(s) PROVE SaveTypeOK'
  BY <1>2 DEF ReadRow, vars
<1>3. ASSUME NEW s \in Sync, CommitRow(s) PROVE SaveTypeOK'
  BY <1>3 DEF CommitRow, WriteContent, UpdatedContent, Outdated, EndTransaction, Updating, vars
<1>4. ASSUME NEW s \in Sync, SyncStatement(s) PROVE SaveTypeOK'
  <2>1. \A t \in Sync \ {s} : pc'[t] = pc[t]
    BY <1>4 DEF SyncStatement, Statement, Diff, Create, Activate, Delete, Count, Orphan,
                Goto, TypeOK
  <2>2. pc'[s] # "idle"
    BY <1>4 DEF SyncStatement, Statement, Diff, AfterDiff, Create, AfterCreate, Activate,
                AfterAdd, Delete, Count, Orphan, Goto, TypeOK
  <2>3. /\ save[s] = "sync" /\ UNCHANGED <<rowVars, snapshot>>
        /\ save' = [save EXCEPT ![s] = IF pc'[s] = "record" THEN "invalidate" ELSE "sync"]
    BY <1>4 DEF SyncStatement
  <2> QED BY <2>1, <2>2, <2>3
<1>5. ASSUME NEW s \in Sync, Invalidate(s) \/ InvalidateRejects(s) PROVE SaveTypeOK'
  <2>1. SaveEnds(s) /\ snapshot' \in {"none", "current", "outdated", "forsaken"}
    BY <1>5 DEF Invalidate, InvalidateRejects, Dropped, Forsaken
  <2>2. pc' = [pc EXCEPT ![s] = "idle"] /\ pc \in [Sync -> Statements]
    BY <2>1 DEF SaveEnds, Record, End, Goto, TypeOK
  <2> QED BY <2>1, <2>2 DEF SaveEnds
<1>6. ASSUME NEW s \in Sync, SaveRejects(s) PROVE SaveTypeOK'
  <2>1. PICK written \in BOOLEAN :
          /\ IF written THEN WriteContent(s) ELSE UNCHANGED field
          /\ EndTransaction(s, written)
          /\ LET value == IF written THEN Outdated ELSE snapshot
             IN  snapshot' = IF s \in left THEN Forsaken(value) ELSE value
    BY <1>6 DEF SaveRejects
  <2>2. snapshot' \in {"none", "current", "outdated", "forsaken"}
    BY <2>1 DEF Outdated, Forsaken
  <2>3. /\ field' \in [Node -> Nat] /\ seen' \in [Sync -> Nat]
        /\ overtaken' \in [Sync -> BOOLEAN]
        /\ seen'[s] = 0 /\ ~overtaken'[s]
        /\ \A t \in Sync \ {s} : seen'[t] = seen[t]
        /\ \A t \in Sync : save[t] # "update" => ~overtaken'[t]
    BY <2>1 DEF WriteContent, UpdatedContent, EndTransaction, Updating
  <2>4. /\ pc' = [pc EXCEPT ![s] = "idle"] /\ save' = [save EXCEPT ![s] = "idle"]
    BY <1>6 DEF SaveRejects, StatementRejects, End, Goto
  <2>5. pc \in [Sync -> Statements]
    BY DEF TypeOK
  <2> QED BY <2>2, <2>3, <2>4, <2>5
<1>7. ASSUME NEW s \in Sync, FlushRejects(s) PROVE SaveTypeOK'
  BY <1>7 DEF FlushRejects, SetRejects
<1>8. ASSUME NEW n \in Node, DocChanges(n) PROVE SaveTypeOK'
  BY <1>8 DEF DocChanges, Edit
<1>9. ASSUME NEW n \in Node, ApiWrites(n) PROVE SaveTypeOK'
  BY <1>9 DEF ApiWrites, Updating, vars
<1>10. CASE ApiFillsCache
  BY <1>10 DEF ApiFillsCache, vars
<1>11. CASE UNCHANGED saveVars
  BY <1>11 DEF saveVars, vars
<1> QED BY <1>1, <1>2, <1>3, <1>4, <1>5, <1>6, <1>7, <1>8, <1>9, <1>10, <1>11
        DEF SaveNext, SaveStep

(* Whoever writes a newer value marks the saves that read an older one. *)
LEMMA WriteMarks ==
  ASSUME SaveTypeOK, ReadIsNotOlder, NEW s \in Sync, save[s] = "update",
         WriteContent(s), EndTransaction(s, TRUE),
         NEW t \in Sync, t # s, save[t] = "update", ~overtaken'[t]
  PROVE  field'[Of[t]] <= seen'[t]
<1> USE OfAssumption DEF SaveTypeOK, ReadIsNotOlder
<1>1. ~overtaken[t] /\ seen'[t] = seen[t]
  BY DEF EndTransaction
<1>2. CASE Of[t] = Of[s]
  <2>1. ~(seen[t] < seen[s])
    BY <1>2 DEF EndTransaction, Updating
  <2> QED BY <1>1, <1>2, <2>1 DEF WriteContent, UpdatedContent
<1>3. CASE Of[t] # Of[s]
  BY <1>1, <1>3 DEF WriteContent
<1> QED BY <1>2, <1>3

(* A write of the API server after the read is recorded, and so is that of another save
   of the node, when it is news. *)
LEMMA NextReadIsNotOlder ==
  SaveTypeOK /\ ReadIsNotOlder /\ [SaveNext]_saveVars => ReadIsNotOlder'
<1> SUFFICES ASSUME SaveTypeOK, ReadIsNotOlder, [SaveNext]_saveVars PROVE ReadIsNotOlder'
  OBVIOUS
<1> USE OfAssumption DEF SaveTypeOK, ReadIsNotOlder, Phases, Phase, rowVars
<1>1. ASSUME NEW s \in Sync, ReadRow(s) PROVE ReadIsNotOlder'
  BY <1>1 DEF ReadRow
<1>2. ASSUME NEW s \in Sync, save[s] = "update", WriteContent(s), EndTransaction(s, TRUE),
             save'[s] # "update", \A t \in Sync \ {s} : save'[t] = save[t]
      PROVE  ReadIsNotOlder'
  BY <1>2, WriteMarks
<1>3. ASSUME NEW s \in Sync, CommitRow(s) PROVE ReadIsNotOlder'
  BY <1>2, <1>3 DEF CommitRow
<1>4. ASSUME NEW s \in Sync, SaveRejects(s) PROVE ReadIsNotOlder'
  <2>1. save' = [save EXCEPT ![s] = "idle"]
    BY <1>4 DEF SaveRejects
  <2>2. CASE save[s] = "update" /\ WriteContent(s) /\ EndTransaction(s, TRUE)
    BY <1>2, <2>1, <2>2
  <2>3. CASE UNCHANGED field /\ EndTransaction(s, FALSE)
    BY <2>1, <2>3 DEF EndTransaction
  <2>4. \E written \in BOOLEAN :
          /\ written => save[s] = "update"
          /\ IF written THEN WriteContent(s) ELSE UNCHANGED field
          /\ EndTransaction(s, written)
    BY <1>4 DEF SaveRejects
  <2> QED BY <2>2, <2>3, <2>4
<1>5. ASSUME NEW n \in Node, ApiWrites(n) PROVE ReadIsNotOlder'
  BY <1>5 DEF ApiWrites, Updating
<1>6. ASSUME NEW s \in Sync, Capture(s) \/ SyncStatement(s) \/ FlushRejects(s)
      PROVE ReadIsNotOlder'
  BY <1>6 DEF Capture, SyncStatement, FlushRejects
<1>7. ASSUME NEW s \in Sync, Invalidate(s) \/ InvalidateRejects(s) PROVE ReadIsNotOlder'
  BY <1>7 DEF Invalidate, InvalidateRejects, SaveEnds
<1>8. ASSUME NEW n \in Node, DocChanges(n) PROVE ReadIsNotOlder'
  BY <1>8 DEF DocChanges
<1>9. CASE ApiFillsCache \/ UNCHANGED saveVars
  BY <1>9 DEF ApiFillsCache, saveVars
<1> QED BY <1>1, <1>3, <1>4, <1>5, <1>6, <1>7, <1>8, <1>9 DEF SaveNext, SaveStep

(* Whoever outdates the cache is still to delete it, or failed and comes back, or
   forsakes it. *)
LEMMA NextInvalidation ==
  SaveTypeOK /\ InvalidationIsDue /\ [SaveNext]_saveVars => InvalidationIsDue'
<1> SUFFICES ASSUME SaveTypeOK, InvalidationIsDue, [SaveNext]_saveVars PROVE InvalidationIsDue'
  OBVIOUS
<1> USE OfAssumption DEF SaveTypeOK, InvalidationIsDue, Phases, Phase, rowVars
<1>1. ASSUME NEW s \in Sync, save'[s] # "idle" PROVE InvalidationIsDue'
  BY <1>1
<1>2. ASSUME NEW s \in Sync,
             Capture(s) \/ ReadRow(s) \/ CommitRow(s) \/ SyncStatement(s)
      PROVE  InvalidationIsDue'
  <2>1. save'[s] # "idle"
    BY <1>2 DEF Capture, ReadRow, CommitRow, SyncStatement
  <2> QED BY <1>1, <2>1
<1>3. ASSUME NEW s \in Sync, Invalidate(s) \/ InvalidateRejects(s) PROVE InvalidationIsDue'
  <2>1. snapshot' # "outdated"
    BY <1>3 DEF Invalidate, InvalidateRejects, Dropped, Forsaken
  <2> QED BY <2>1
<1>4. ASSUME NEW s \in Sync, SaveRejects(s) PROVE InvalidationIsDue'
  <2>1. CASE s \in left
    <3>1. snapshot' # "outdated"
      BY <2>1, <1>4 DEF SaveRejects, Forsaken
    <3> QED BY <3>1
  <2>2. CASE s \notin left
    <3>1. stale'[Of[s]]
      BY <2>2, <1>4 DEF SaveRejects, StatementRejects, RetryLater, TypeOK
    <3> QED BY <3>1
  <2> QED BY <2>1, <2>2
<1>5. ASSUME NEW s \in Sync, FlushRejects(s) PROVE InvalidationIsDue'
  <2>1. stale'[Of[s]]
    BY <1>5 DEF FlushRejects, SetRejects, RetryLater, TypeOK
  <2> QED BY <2>1
<1>6. ASSUME NEW n \in Node, DocChanges(n) PROVE InvalidationIsDue'
  <2>1. \A m \in Node : stale[m] => stale'[m]
    BY <1>6 DEF DocChanges, Edit, TypeOK
  <2> QED BY <1>6, <2>1 DEF DocChanges
<1>7. ASSUME NEW n \in Node, ApiWrites(n) PROVE InvalidationIsDue'
  BY <1>7 DEF ApiWrites
<1>8. CASE ApiFillsCache \/ UNCHANGED saveVars
  BY <1>8 DEF ApiFillsCache, saveVars, vars, flushes
<1> QED BY <1>2, <1>3, <1>4, <1>5, <1>6, <1>7, <1>8 DEF SaveNext, SaveStep

LEMMA NextSInv == SInv /\ [SaveNext]_saveVars => SInv'
  BY NextSaveType, NextReadIsNotOlder, NextInvalidation DEF SInv

------------------------------------------------------------------------------
(* Every value is of its kind, and a save is in its sync exactly when a sync runs. *)
THEOREM SaveTypeCorrect == SaveSpec => []SaveTypeOK
<1>1. SInv => SaveTypeOK
  BY DEF SInv
<1> QED BY <1>1, SaveInitInv, NextSaveType, PTL DEF SaveSpec

(* Once all saves are over and none is due, the cache of the workspace is deleted or
   current, unless a DEL was rejected or a save left behind failed before its own: also
   after saves that failed behind their commit. *)
THEOREM CacheIsCurrent == SaveSpec => []SnapshotIsCurrent
<1>1. SInv => SnapshotIsCurrent
  <2> SUFFICES ASSUME SInv, Quiet PROVE snapshot # "outdated"
    BY DEF SnapshotIsCurrent
  <2>1. \A s \in Sync : pc[s] = "idle"
    BY OfAssumption DEF Quiet, SettledNode, Running
  <2>2. \A n \in Node : ~stale[n]
    BY DEF Quiet, SettledNode
  <2> QED BY <2>1, <2>2 DEF SInv, SaveTypeOK, InvalidationIsDue
<1> QED BY <1>1, SaveInitInv, NextSInv, PTL DEF SaveSpec

(* A save loses a field the API server wrote only if the field got a newer value between
   the save's read of content and its update. *)
THEOREM OlderWritesSurvive == SaveSpec => OlderApiWritesSurvive
<1>1. SInv /\ [SaveNext]_saveVars
        => [\A n \in Node : field'[n] < field[n] => \E s \in Updating(n) : overtaken[s]]_saveVars
  <2> SUFFICES ASSUME SInv, [SaveNext]_saveVars, NEW m \in Node, field'[m] < field[m]
               PROVE \E s \in Updating(m) : overtaken[s]
    OBVIOUS
  <2> USE OfAssumption DEF SInv, SaveTypeOK, ReadIsNotOlder, rowVars
  <2>1. ASSUME NEW s \in Sync, WriteContent(s), save[s] = "update"
        PROVE  \E t \in Updating(m) : overtaken[t]
    <3>1. Of[s] = m /\ seen[s] < field[m]
      BY <2>1 DEF WriteContent, UpdatedContent
    <3>2. overtaken[s]
      BY <2>1, <3>1
    <3> QED BY <2>1, <3>1, <3>2 DEF Updating
  <2>2. ASSUME NEW n \in Node, ApiWrites(n) PROVE FALSE
    BY <2>2 DEF ApiWrites
  <2>3. UNCHANGED field => FALSE
    OBVIOUS
  <2>4. ASSUME NEW s \in Sync, SaveRejects(s) PROVE \E t \in Updating(m) : overtaken[t]
    BY <2>1, <2>3, <2>4 DEF SaveRejects
  <2>5. ASSUME NEW s \in Sync, CommitRow(s) PROVE \E t \in Updating(m) : overtaken[t]
    BY <2>1, <2>5 DEF CommitRow
  <2> QED BY <2>2, <2>3, <2>4, <2>5
      DEF SaveNext, SaveStep, Capture, ReadRow, SyncStatement, Invalidate, InvalidateRejects,
          SaveEnds, FlushRejects, DocChanges, ApiFillsCache, saveVars
<1> QED BY <1>1, SaveInitInv, NextSInv, PTL DEF SaveSpec, OlderApiWritesSurvive
=============================================================================
