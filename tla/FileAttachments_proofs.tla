------------------------ MODULE FileAttachments_proofs ------------------------
(***************************************************************************)
(* The attachment index, for any sets of nodes, files and syncs.           *)
(*                                                                         *)
(* A sync is a plan made once (Diff) and carried out statement by          *)
(* statement.  Outcome is what the node's rows will be if it is carried    *)
(* out from where it stands, and nobody else's statement on the node's     *)
(* rows comes in between.  A sync that began alone stays alone until the   *)
(* next begins (SoleUntilOverlap), so that for such a sync the outcome     *)
(* being what the flush captured is inductive.  For the status of the      *)
(* files the invariant names, for each file that is not what it should be  *)
(* yet, the sync that is going to mark it.                                 *)
(***************************************************************************)
EXTENDS FileAttachments, TLAPS

Outcome(s) ==
  IF pc[s] = "diff" THEN want[s]
  ELSE IF pc[s] = "create" THEN (attached[Of[s]] \cup toAdd[s]) \ toRemove[s]
  ELSE IF pc[s] \in {"activate", "delete"} THEN attached[Of[s]] \ toRemove[s]
  ELSE attached[Of[s]]

(* The files of the document when it was last captured, as far as an insertion since
   has not made the node stale anyway. *)
Captured(n) == refs[n] \cup erased[n]

(* A node whose last sync began alone has no other one running. *)
SoleUntilOverlap ==
  \A s, t \in Sync :
    /\ Of[s] = Of[t] /\ ~overlapped[Of[s]]
    /\ pc[s] # "idle" /\ pc[t] # "idle"
    => s = t

(* What a sync at work will leave, or one that is over has left. *)
OutcomeIsCaptured ==
  \A n \in Node : ~stale[n] /\ ~overlapped[n] =>
    /\ \A s \in Running(n) : Outcome(s) = Captured(n)
    /\ Running(n) = {} => attached[n] = Captured(n)

(* A sync left behind made its node stale, and overlaps with the save that ended that. *)
LeftIsNoticed == \A s \in left : stale[Of[s]] \/ overlapped[Of[s]]

RowsInv == TypeOK /\ SoleUntilOverlap /\ LeftIsNoticed /\ OutcomeIsCaptured

(* Nothing is left behind before anything was rejected. *)
NoneLeftYet == failures = 0 => left = {} /\ \A n \in Node : ~overlapped[n]

(* An attached file is PENDING only between createAttachments and markFilesActive. *)
ActivationIsDue ==
  \A n \in Node, f \in File : status[f] = "PENDING" /\ f \in attached[n] =>
    \E s \in Sync : Of[s] = n /\ pc[s] = "activate" /\ f \in toAdd[s]

(* An ACTIVE file without a row is one some sync has deleted and not yet marked. *)
WillCountOrMark(s, f) ==
  \/ pc[s] = "count" /\ f \in toRemove[s]
  \/ pc[s] = "orphan" /\ f \in orphanIds[s]
HasRowOrIsDue(f) ==
  (\E n \in Node : f \in attached[n]) \/ (\E s \in Sync : WillCountOrMark(s, f))
OrphaningIsDue == \A f \in File : status[f] = "ACTIVE" => HasRowOrIsDue(f)

AddedIsAttached ==
  \A s \in Sync : pc[s] = "activate" => toAdd[s] \subseteq attached[Of[s]]

Marked == ActivationIsDue /\ OrphaningIsDue /\ AddedIsAttached
MarkedSoFar == failures = 0 => Marked
------------------------------------------------------------------------------
(* Every value is of its kind, initially. *)
LEMMA InitType == Init => TypeOK
  BY ShownAssumption DEF Init, TypeOK, Statements

(* One step per statement. *)
LEMMA NextType == TypeOK /\ [Next]_vars => TypeOK'
<1> SUFFICES ASSUME TypeOK, [Next]_vars PROVE TypeOK'
  OBVIOUS
<1> USE OfAssumption DEF TypeOK, Statements, Goto, tables, flushes, locals
<1>1. ASSUME NEW n \in Node, Edit(n) PROVE TypeOK'
  BY <1>1 DEF Edit
<1>2. ASSUME NEW s \in Sync, Extract(s) PROVE TypeOK'
  BY <1>2 DEF Extract
<1>3. ASSUME NEW s \in Sync, Diff(s) PROVE TypeOK'
  BY <1>3 DEF Diff, AfterDiff
<1>4. ASSUME NEW s \in Sync, Create(s) PROVE TypeOK'
  BY <1>4 DEF Create, AfterCreate
<1>5. ASSUME NEW s \in Sync, Activate(s) PROVE TypeOK'
  BY <1>5 DEF Activate, AfterAdd, SetStatus
<1>6. ASSUME NEW s \in Sync, Delete(s) PROVE TypeOK'
  BY <1>6 DEF Delete
<1>7. ASSUME NEW s \in Sync, Count(s) PROVE TypeOK'
  BY <1>7 DEF Count, Unreferenced
<1>8. ASSUME NEW s \in Sync, Orphan(s) PROVE TypeOK'
  BY <1>8 DEF Orphan, SetStatus
<1>9. ASSUME NEW s \in Sync, Record(s) PROVE TypeOK'
  BY <1>9 DEF Record, End
<1>10. ASSUME NEW s \in Sync, StatementRejects(s) PROVE TypeOK'
  <2>1. stale' \in [Node -> BOOLEAN]
    BY <1>10 DEF StatementRejects, RetryLater
  <2>2. failures' \in Nat
    BY <1>10 DEF StatementRejects, Fails
  <2> QED BY <1>10, <2>1, <2>2 DEF StatementRejects, End
<1>11. ASSUME NEW s \in Sync, SetRejects(s) PROVE TypeOK'
  BY <1>11 DEF SetRejects, RetryLater, Fails
<1>12. CASE UNCHANGED vars
  BY <1>12 DEF vars
<1> QED BY <1>1, <1>2, <1>3, <1>4, <1>5, <1>6, <1>7, <1>8, <1>9, <1>10, <1>11, <1>12
        DEF Next, SyncStep, Statement

(* Every value is of its kind, and no statement runs with an empty list. *)
THEOREM TypeCorrect == Spec => []TypeOK
<1>1. QED BY InitType, NextType, PTL DEF Spec

------------------------------------------------------------------------------
(* Only Extract makes a sync run or declares a node free of overlap. *)
LEMMA NextSole == TypeOK /\ SoleUntilOverlap /\ [Next]_vars => SoleUntilOverlap'
<1> SUFFICES ASSUME TypeOK, SoleUntilOverlap, [Next]_vars PROVE SoleUntilOverlap'
  OBVIOUS
<1> USE DEF TypeOK, Statements, Goto, tables, flushes, locals, SoleUntilOverlap
<1>1. ASSUME NEW s \in Sync, Extract(s) PROVE SoleUntilOverlap'
  <2>1. \A t \in Sync : Of[t] = Of[s] /\ ~overlapped'[Of[s]] => pc[t] = "idle"
    BY <1>1, OfAssumption DEF Extract, Running
  <2>2. \A t \in Sync : t # s => pc'[t] = pc[t]
    BY <1>1 DEF Extract
  <2>3. \A n \in Node : n # Of[s] => overlapped'[n] = overlapped[n]
    BY <1>1 DEF Extract
  <2> QED BY <2>1, <2>2, <2>3, OfAssumption
<1>2. ASSUME NEW s \in Sync, pc[s] # "idle", pc' = [pc EXCEPT ![s] = pc'[s]],
             overlapped' = overlapped
      PROVE  SoleUntilOverlap'
  BY <1>2, OfAssumption
<1>3. ASSUME UNCHANGED <<pc, overlapped>> PROVE SoleUntilOverlap'
  BY <1>3
<1>4. ASSUME NEW s \in Sync, Statement(s) \/ Record(s) \/ StatementRejects(s)
      PROVE SoleUntilOverlap'
  <2>1. pc[s] # "idle" /\ overlapped' = overlapped
    BY <1>4 DEF Statement, Diff, Create, Activate, Delete, Count, Orphan, Record,
                StatementRejects
  <2>2. pc' = [pc EXCEPT ![s] = pc'[s]]
    BY <1>4 DEF Statement, Diff, Create, Activate, Delete, Count, Orphan, Record,
                StatementRejects, End
  <2> QED BY <1>2, <2>1, <2>2
<1>5. ASSUME NEW n \in Node, Edit(n) PROVE SoleUntilOverlap'
  BY <1>3, <1>5 DEF Edit
<1>6. ASSUME NEW s \in Sync, SetRejects(s) PROVE SoleUntilOverlap'
  BY <1>3, <1>6 DEF SetRejects
<1>7. CASE UNCHANGED vars
  BY <1>3, <1>7 DEF vars
<1> QED BY <1>1, <1>4, <1>5, <1>6, <1>7 DEF Next, SyncStep

(* A rejected SET makes the node stale; the save that comes next finds the sync running. *)
LEMMA NextLeft == TypeOK /\ LeftIsNoticed /\ [Next]_vars => LeftIsNoticed'
<1> SUFFICES ASSUME TypeOK, LeftIsNoticed, [Next]_vars PROVE LeftIsNoticed'
  OBVIOUS
<1> USE OfAssumption DEF TypeOK, LeftIsNoticed, flushes
<1>1. ASSUME NEW n \in Node, Edit(n) PROVE LeftIsNoticed'
  BY <1>1 DEF Edit
<1>2. ASSUME NEW s \in Sync, Extract(s) PROVE LeftIsNoticed'
  <2>1. \A t \in left : Of[t] = Of[s] => t \in Running(Of[s])
    BY DEF Running
  <2> QED BY <1>2, <2>1 DEF Extract
<1>3. ASSUME NEW s \in Sync, Statement(s) PROVE LeftIsNoticed'
  BY <1>3 DEF Statement, Diff, Create, Activate, Delete, Count, Orphan
<1>4. ASSUME NEW s \in Sync, Record(s) PROVE LeftIsNoticed'
  BY <1>4 DEF Record, End
<1>5. ASSUME NEW s \in Sync, StatementRejects(s) PROVE LeftIsNoticed'
  <2>1. left' \subseteq left /\ overlapped' = overlapped
    BY <1>5 DEF StatementRejects, End
  <2>2. \A n \in Node : stale[n] => stale'[n]
    BY <1>5 DEF StatementRejects, RetryLater
  <2> QED BY <2>1, <2>2
<1>6. ASSUME NEW s \in Sync, SetRejects(s) PROVE LeftIsNoticed'
  BY <1>6 DEF SetRejects, RetryLater
<1>7. CASE UNCHANGED vars
  BY <1>7 DEF vars
<1> QED BY <1>1, <1>2, <1>3, <1>4, <1>5, <1>6, <1>7 DEF Next, SyncStep

(* No step changes the outcome of a sync that has its node for itself, unless it makes
   the node stale. *)
LEMMA NextOutcome == RowsInv /\ [Next]_vars => OutcomeIsCaptured'
<1> SUFFICES ASSUME RowsInv, [Next]_vars,
                    NEW m \in Node, ~stale'[m], ~overlapped'[m]
             PROVE  /\ \A t \in Running(m)' : Outcome(t)' = Captured(m)'
                    /\ Running(m)' = {} => attached'[m] = Captured(m)'
  BY DEF OutcomeIsCaptured
<1> DEFINE Goal == /\ \A t \in Running(m)' : Outcome(t)' = Captured(m)'
                   /\ Running(m)' = {} => attached'[m] = Captured(m)'
<1> USE OfAssumption
    DEF RowsInv, TypeOK, Statements, Goto, tables, flushes, locals,
        SoleUntilOverlap, OutcomeIsCaptured, Outcome, Captured, Running
<1>1. ASSUME NEW n \in Node, Edit(n) PROVE Goal
  <2>1. ~stale[m] /\ ~overlapped[m]
    BY <1>1 DEF Edit
  <2>2. refs'[m] \cup erased'[m] = refs[m] \cup erased[m]
    BY <1>1 DEF Edit
  <2>3. UNCHANGED <<pc, want, toAdd, toRemove, attached>>
    BY <1>1 DEF Edit
  <2> QED BY <2>1, <2>2, <2>3
<1>2. ASSUME NEW s \in Sync, Extract(s) PROVE Goal
  <2>1. CASE Of[s] # m
    BY <2>1, <1>2 DEF Extract
  <2>2. CASE Of[s] = m
    <3>1. \A t \in Running(m)' : t = s
      BY <2>2, <1>2 DEF Extract
    <3>2. pc'[s] = "diff" /\ want'[s] = refs'[m] /\ erased'[m] = {}
      BY <2>2, <1>2 DEF Extract
    <3> QED BY <2>2, <3>1, <3>2
  <2> QED BY <2>1, <2>2
<1>3. ASSUME NEW s \in Sync, Diff(s) PROVE Goal
  <2>1. CASE Of[s] # m
    BY <2>1, <1>3 DEF Diff
  <2>2. CASE Of[s] = m
    <3>1. /\ want[s] = Captured(m) /\ Captured(m)' = Captured(m) /\ attached' = attached
          /\ toAdd'[s] = want[s] \ attached[m] /\ toRemove'[s] = attached[m] \ want[s]
      BY <2>2, <1>3 DEF Diff
    <3>2. pc'[s] = AfterDiff(toAdd'[s], toRemove'[s])
      BY <2>2, <1>3 DEF Diff, AfterDiff
    <3>3. toAdd'[s] = {} => Outcome(s)' = attached[m] \ toRemove'[s]
      BY <2>2, <3>1, <3>2 DEF AfterDiff
    <3>4. toAdd'[s] # {} => Outcome(s)' = (attached[m] \cup toAdd'[s]) \ toRemove'[s]
      BY <2>2, <3>1, <3>2 DEF AfterDiff
    <3>5. Outcome(s)' = Captured(m)'
      BY <3>1, <3>3, <3>4
    <3>6. Running(m)' = {s}
      BY <2>2, <1>3, <3>2 DEF Diff, AfterDiff
    <3> QED BY <3>5, <3>6
  <2> QED BY <2>1, <2>2
<1>4. ASSUME NEW s \in Sync, Create(s) PROVE Goal
  BY <1>4 DEF Create, AfterCreate
<1>5. ASSUME NEW s \in Sync, Activate(s) PROVE Goal
  BY <1>5 DEF Activate, AfterAdd
<1>6. ASSUME NEW s \in Sync, Delete(s) PROVE Goal
  BY <1>6 DEF Delete
<1>7. ASSUME NEW s \in Sync, Count(s) PROVE Goal
  BY <1>7 DEF Count
<1>8. ASSUME NEW s \in Sync, Orphan(s) PROVE Goal
  BY <1>8 DEF Orphan
<1>9. ASSUME NEW s \in Sync, Record(s) PROVE Goal
  BY <1>9 DEF Record, End
<1>10. ASSUME NEW s \in Sync, StatementRejects(s) PROVE Goal
  <2>1. CASE Of[s] # m
    <3>1. stale'[m] = stale[m]
      BY <2>1, <1>10 DEF StatementRejects, RetryLater
    <3> QED BY <2>1, <3>1, <1>10 DEF StatementRejects, End
  <2>2. CASE Of[s] = m /\ s \notin left
    BY <2>2, <1>10 DEF StatementRejects, RetryLater
  <2>3. CASE Of[s] = m /\ s \in left
    BY <2>3, <1>10 DEF StatementRejects, LeftIsNoticed
  <2> QED BY <2>1, <2>2, <2>3
<1>11. ASSUME NEW s \in Sync, SetRejects(s) PROVE Goal
  BY <1>11 DEF SetRejects, RetryLater
<1>12. CASE UNCHANGED vars
  BY <1>12 DEF vars
<1> QED BY <1>1, <1>2, <1>3, <1>4, <1>5, <1>6, <1>7, <1>8, <1>9, <1>10, <1>11, <1>12
        DEF Next, SyncStep, Statement

(* Whatever rejects and whoever else syncs: once no sync of a node runs or is due, and
   its last one began while no other was left behind, the node has exactly the rows of
   the files that its document showed when it was last captured. *)
THEOREM RowsAreRight == Spec => []RowsFollowContent
<1>1. Init => RowsInv
  <2> SUFFICES ASSUME Init PROVE RowsInv
    OBVIOUS
  <2>1. TypeOK
    BY InitType
  <2> QED BY <2>1, ShownAssumption
      DEF Init, RowsInv, SoleUntilOverlap, LeftIsNoticed, OutcomeIsCaptured, Running,
          Captured
<1>2. RowsInv /\ [Next]_vars => RowsInv'
  BY NextType, NextSole, NextLeft, NextOutcome DEF RowsInv
<1>3. RowsInv => RowsFollowContent
  BY DEF RowsInv, OutcomeIsCaptured, RowsFollowContent, SettledNode, Captured
<1> QED BY <1>1, <1>2, <1>3, PTL DEF Spec

------------------------------------------------------------------------------
FirstInv == TypeOK /\ SoleUntilOverlap /\ NoneLeftYet /\ MarkedSoFar

(* As long as nothing was rejected, a node's syncs follow one another. *)
LEMMA NextNoneLeft == TypeOK /\ NoneLeftYet /\ [Next]_vars => NoneLeftYet'
<1> SUFFICES ASSUME TypeOK, NoneLeftYet, [Next]_vars, failures' = 0
             PROVE  left' = {} /\ \A n \in Node : ~overlapped'[n]
  BY DEF NoneLeftYet
<1> USE OfAssumption DEF TypeOK, NoneLeftYet, flushes, Fails
<1>1. ASSUME NEW s \in Sync, Extract(s) PROVE left' = {} /\ \A n \in Node : ~overlapped'[n]
  <2>1. Running(Of[s]) = {} /\ left' = {}
    BY <1>1 DEF Extract
  <2> QED BY <1>1, <2>1 DEF Extract
<1>2. ASSUME NEW s \in Sync, Statement(s) \/ Record(s)
      PROVE  left' = {} /\ \A n \in Node : ~overlapped'[n]
  BY <1>2 DEF Statement, Diff, Create, Activate, Delete, Count, Orphan, Record, End
<1>3. ASSUME NEW s \in Sync, StatementRejects(s) \/ SetRejects(s) PROVE FALSE
  BY <1>3 DEF StatementRejects, SetRejects
<1>4. ASSUME NEW n \in Node, Edit(n) PROVE left' = {} /\ \A m \in Node : ~overlapped'[m]
  BY <1>4 DEF Edit
<1>5. CASE UNCHANGED vars
  BY <1>5 DEF vars
<1> QED BY <1>1, <1>2, <1>3, <1>4, <1>5 DEF Next, SyncStep

(* Until something rejects, each mark that is missing is still going to be made. *)
LEMMA NextMarked == FirstInv /\ [Next]_vars => MarkedSoFar'
<1> SUFFICES ASSUME FirstInv, [Next]_vars, failures' = 0 PROVE Marked'
  BY DEF MarkedSoFar
<1> USE OfAssumption DEF FirstInv, TypeOK, Statements, Goto, tables, flushes, locals
<1>0. ASSUME NEW s \in Sync, StatementRejects(s) \/ SetRejects(s) PROVE FALSE
  BY <1>0 DEF StatementRejects, SetRejects, Fails
<1>1. UNCHANGED failures
  BY <1>0 DEF Next, SyncStep, Statement, Edit, Extract, Diff, Create, Activate, Delete,
              Count, Orphan, Record, vars
<1>2. Marked /\ \A n \in Node : ~overlapped[n]
  BY <1>1 DEF MarkedSoFar, NoneLeftYet
<1>3. \A s, t \in Sync : Of[s] = Of[t] /\ pc[s] # "idle" /\ pc[t] # "idle" => s = t
  BY <1>2 DEF SoleUntilOverlap
<1> USE DEF Marked, ActivationIsDue, OrphaningIsDue, HasRowOrIsDue, WillCountOrMark,
            AddedIsAttached
<1>4. ASSUME NEW n \in Node, Edit(n) PROVE Marked'
  BY <1>2, <1>4 DEF Edit
<1>5. ASSUME NEW s \in Sync, Extract(s) PROVE Marked'
  BY <1>2, <1>5 DEF Extract
<1>6. ASSUME NEW s \in Sync, Diff(s) PROVE Marked'
  BY <1>2, <1>6 DEF Diff, AfterDiff
<1>7. ASSUME NEW s \in Sync, Create(s) PROVE Marked'
  <2>1. ActivationIsDue'
    BY <1>2, <1>7 DEF Create, AfterCreate
  <2>2. OrphaningIsDue'
    BY <1>2, <1>7 DEF Create, AfterCreate
  <2>3. AddedIsAttached'
    BY <1>2, <1>7 DEF Create, AfterCreate
  <2> QED BY <2>1, <2>2, <2>3
<1>8. ASSUME NEW s \in Sync, Activate(s) PROVE Marked'
  <2>1. ActivationIsDue' /\ AddedIsAttached'
    BY <1>2, <1>8 DEF Activate, AfterAdd, SetStatus
  <2>2. OrphaningIsDue'
    BY <1>2, <1>8 DEF Activate, AfterAdd, SetStatus
  <2> QED BY <2>1, <2>2
<1>9. ASSUME NEW s \in Sync, Delete(s) PROVE Marked'
  <2>1. ActivationIsDue'
    BY <1>2, <1>9 DEF Delete
  <2>2. AddedIsAttached'
    BY <1>2, <1>3, <1>9 DEF Delete
  <2>3. OrphaningIsDue'
    BY <1>2, <1>9 DEF Delete
  <2> QED BY <2>1, <2>2, <2>3
<1>10. ASSUME NEW s \in Sync, Count(s) PROVE Marked'
  <2>1. ActivationIsDue' /\ AddedIsAttached'
    BY <1>2, <1>10 DEF Count
  <2>2. OrphaningIsDue'
    BY <1>2, <1>10 DEF Count, Unreferenced
  <2> QED BY <2>1, <2>2
<1>11. ASSUME NEW s \in Sync, Orphan(s) PROVE Marked'
  BY <1>2, <1>11 DEF Orphan, SetStatus
<1>12. ASSUME NEW s \in Sync, Record(s) PROVE Marked'
  BY <1>2, <1>12 DEF Record, End
<1>13. CASE UNCHANGED vars
  BY <1>2, <1>13 DEF vars
<1> QED BY <1>0, <1>4, <1>5, <1>6, <1>7, <1>8, <1>9, <1>10, <1>11, <1>12, <1>13
        DEF Next, SyncStep, Statement

LEMMA InitFirst == Init => FirstInv
<1> SUFFICES ASSUME Init PROVE FirstInv
  OBVIOUS
<1>1. TypeOK
  BY InitType
<1> QED BY <1>1 DEF Init, FirstInv, SoleUntilOverlap, NoneLeftYet, MarkedSoFar, Marked,
                    ActivationIsDue, OrphaningIsDue, AddedIsAttached

LEMMA NextFirst == FirstInv /\ [Next]_vars => FirstInv'
  BY NextType, NextSole, NextNoneLeft, NextMarked DEF FirstInv

(* Until a statement or SET rejects: once no sync runs or is due, a file without
   references is not left ACTIVE, so the collector gets to see it, and an attached
   one is not PENDING, so findStaleFiles does not take it for an abandoned upload. *)
THEOREM StatusKeepsUp == Spec => []NoStatusLagsBehind
<1>1. FirstInv => NoStatusLagsBehind
  <2> SUFFICES ASSUME FirstInv, failures = 0, Quiet, NEW f \in File
               PROVE  /\ status[f] = "ACTIVE" => Attached(f)
                      /\ status[f] = "PENDING" => ~Attached(f)
    BY ZenonT(30) DEF NoStatusLagsBehind, UnreferencedIsOrphan, PendingIsUnattached
  <2>1. \A s \in Sync : pc[s] = "idle"
    BY OfAssumption DEF Quiet, SettledNode, Running
  <2>2. Marked
    BY DEF FirstInv, MarkedSoFar
  <2> QED BY <2>1, <2>2 DEF Marked, ActivationIsDue, OrphaningIsDue, HasRowOrIsDue,
                            WillCountOrMark, Attached
<1> QED BY <1>1, InitFirst, NextFirst, PTL DEF Spec
------------------------------------------------------------------------------
(* Files that stay with one node: every file a document ever shows belongs to it,
   as when nobody copies a file from one document to another. *)
Unshared(owner) == \A n \in Node : \A f \in refs[n] : owner[f] = n

StatusIsExact == Quiet => \A f \in File : Attached(f) <=> status[f] = "ACTIVE"

(* Then a sync deals with its own files only, no other sync attaches the files it is
   about to mark ORPHAN, and a file it attaches is not ORPHAN for longer than that. *)
OwnFiles(owner) ==
  /\ \A n \in Node : \A f \in attached[n] : owner[f] = n
  /\ \A s \in Sync : \A f \in want[s] \cup toAdd[s] \cup toRemove[s] : owner[f] = Of[s]
OrphansStayDetached ==
  \A s \in Sync : pc[s] = "orphan" => orphanIds[s] \cap attached[Of[s]] = {}
OrphanIsReactivated ==
  \A n \in Node, f \in File : status[f] = "ORPHAN" /\ f \in attached[n] =>
    \E s \in Sync : Of[s] = n /\ pc[s] = "activate" /\ f \in toAdd[s]

OwnInv(owner) ==
  OwnFiles(owner) /\ (failures = 0 => OrphansStayDetached /\ OrphanIsReactivated)

(* Whatever overlaps, a sync whose document shares no file deals with its own. *)
LEMMA NextOwnFiles ==
  ASSUME NEW owner, TypeOK, Unshared(owner), OwnFiles(owner), [Next]_vars
  PROVE  OwnFiles(owner)'
<1> USE OfAssumption DEF TypeOK, Statements, Goto, tables, locals, Unshared, OwnFiles
<1>1. ASSUME NEW n \in Node, Edit(n) PROVE OwnFiles(owner)'
  BY <1>1 DEF Edit
<1>2. ASSUME NEW s \in Sync, Extract(s) PROVE OwnFiles(owner)'
  BY <1>2 DEF Extract
<1>3. ASSUME NEW s \in Sync, Diff(s) PROVE OwnFiles(owner)'
  BY <1>3 DEF Diff
<1>4. ASSUME NEW s \in Sync, Create(s) PROVE OwnFiles(owner)'
  BY <1>4 DEF Create
<1>5. ASSUME NEW s \in Sync, Activate(s) \/ Orphan(s) PROVE OwnFiles(owner)'
  BY <1>5 DEF Activate, Orphan
<1>6. ASSUME NEW s \in Sync, Delete(s) PROVE OwnFiles(owner)'
  BY <1>6 DEF Delete
<1>7. ASSUME NEW s \in Sync, Count(s) PROVE OwnFiles(owner)'
  BY <1>7 DEF Count
<1>8. ASSUME NEW s \in Sync, Record(s) \/ StatementRejects(s) PROVE OwnFiles(owner)'
  <2>1. End(s) /\ refs' = refs /\ attached' = attached
    BY <1>8 DEF Record, StatementRejects
  <2> QED BY <2>1 DEF End
<1>9. ASSUME NEW s \in Sync, SetRejects(s) PROVE OwnFiles(owner)'
  BY <1>9 DEF SetRejects
<1>10. CASE UNCHANGED vars
  BY <1>10 DEF vars
<1> QED BY <1>1, <1>2, <1>3, <1>4, <1>5, <1>6, <1>7, <1>8, <1>9, <1>10
        DEF Next, SyncStep, Statement

(* Until a statement or SET rejects and as long as documents share no file, the status
   is exact whenever no sync runs or is due: ACTIVE are the attached files and no
   others.  So what the collector of ORPHAN files could still take wrongly takes a
   file in two documents. *)
THEOREM UnsharedIsExact ==
  ASSUME NEW CONSTANT owner
  PROVE  Spec /\ []Unshared(owner) => [](failures = 0 => StatusIsExact)
<1>1. Init => OwnInv(owner)
  BY DEF Init, OwnInv, OwnFiles, OrphansStayDetached, OrphanIsReactivated
<1>2. FirstInv /\ Unshared(owner) /\ OwnInv(owner) /\ [Next]_vars => OwnInv(owner)'
  <2> SUFFICES ASSUME FirstInv, Unshared(owner), OwnInv(owner), [Next]_vars, failures' = 0
               PROVE  OrphansStayDetached' /\ OrphanIsReactivated'
    BY NextOwnFiles DEF OwnInv, FirstInv
  <2> USE OfAssumption DEF FirstInv, TypeOK, Statements, Goto, tables, flushes, locals, OwnInv
  <2>0. ASSUME NEW s \in Sync, StatementRejects(s) \/ SetRejects(s) PROVE FALSE
    BY <2>0 DEF StatementRejects, SetRejects, Fails
  <2>1. UNCHANGED failures
    BY <2>0 DEF Next, SyncStep, Statement, Edit, Extract, Diff, Create, Activate, Delete,
                Count, Orphan, Record, vars
  <2>2. \A s, t \in Sync : Of[s] = Of[t] /\ pc[s] # "idle" /\ pc[t] # "idle" => s = t
    BY <2>1 DEF NoneLeftYet, SoleUntilOverlap
  <2>3. OrphansStayDetached /\ OrphanIsReactivated /\ OwnFiles(owner)
    BY <2>1
  <2> DEFINE Goal == OrphansStayDetached' /\ OrphanIsReactivated'
  <2> USE DEF OrphansStayDetached, OrphanIsReactivated
  <2>4. ASSUME NEW n \in Node, Edit(n) PROVE Goal
    BY <2>3, <2>4 DEF Edit
  <2>5. ASSUME NEW s \in Sync, Extract(s) PROVE Goal
    BY <2>3, <2>5 DEF Extract
  <2>6. ASSUME NEW s \in Sync, Diff(s) PROVE Goal
    BY <2>3, <2>6 DEF Diff, AfterDiff
  <2>7. ASSUME NEW s \in Sync, Create(s) PROVE Goal
    <3>1. OrphansStayDetached'
      BY <2>2, <2>3, <2>7 DEF Create, AfterCreate
    <3>2. OrphanIsReactivated'
      BY <2>3, <2>7 DEF Create, AfterCreate
    <3> QED BY <3>1, <3>2
  <2>8. ASSUME NEW s \in Sync, Activate(s) PROVE Goal
    BY <2>3, <2>8 DEF Activate, AfterAdd, SetStatus
  <2>9. ASSUME NEW s \in Sync, Delete(s) PROVE Goal
    BY <2>3, <2>9 DEF Delete
  <2>10. ASSUME NEW s \in Sync, Count(s) PROVE Goal
    BY <2>3, <2>10 DEF Count, Unreferenced
  <2>11. ASSUME NEW s \in Sync, Orphan(s) PROVE Goal
    <3>1. OrphansStayDetached'
      BY <2>3, <2>11 DEF Orphan
    <3>2. \A f \in orphanIds[s], n \in Node : f \notin attached[n]
      BY <2>3, <2>11 DEF Orphan, OwnFiles
    <3>3. OrphanIsReactivated'
      BY <2>3, <2>11, <3>2 DEF Orphan, SetStatus
    <3> QED BY <3>1, <3>3
  <2>12. ASSUME NEW s \in Sync, Record(s) PROVE Goal
    BY <2>3, <2>12 DEF Record, End
  <2>13. CASE UNCHANGED vars
    BY <2>3, <2>13 DEF vars
  <2> QED BY <2>0, <2>4, <2>5, <2>6, <2>7, <2>8, <2>9, <2>10, <2>11, <2>12, <2>13
          DEF Next, SyncStep, Statement
<1>3. FirstInv /\ OwnInv(owner) /\ NoStatusLagsBehind => (failures = 0 => StatusIsExact)
  <2> SUFFICES ASSUME FirstInv, OwnInv(owner), NoStatusLagsBehind, failures = 0, Quiet
               PROVE  \A f \in File : Attached(f) <=> status[f] = "ACTIVE"
    BY DEF StatusIsExact
  <2>1. \A s \in Sync : pc[s] = "idle"
    BY OfAssumption DEF Quiet, SettledNode, Running
  <2>2. \A f \in File : status[f] \in {"PENDING", "ACTIVE", "ORPHAN"}
    BY DEF FirstInv, TypeOK
  <2> QED BY <2>1, <2>2 DEF OwnInv, OrphanIsReactivated, NoStatusLagsBehind,
                            UnreferencedIsOrphan, PendingIsUnattached, Attached
<1> QED BY <1>1, <1>2, <1>3, InitFirst, NextFirst, StatusKeepsUp, PTL DEF Spec
=============================================================================
