---------------------------- MODULE YjsDocManager ----------------------------
(***************************************************************************)
(* One node of src/src/global/yjs/yjs-doc-manager.ts with the two stores   *)
(* behind it (yjs-crdt.service.ts).  Every map of the class is keyed by    *)
(* nodeId and no step reads two entries, so one node is the whole class;   *)
(* flushAll is, for one node, SafetyFlush.                                 *)
(*                                                                         *)
(* A Y.Doc is the set of operations merged into it: Y.applyUpdate is a     *)
(* union, idempotent and commutative.  An operation of Deletion only adds  *)
(* to the delete set, which the state vector does not show.                *)
(*                                                                         *)
(* A step is a run of JavaScript up to an await whose answer comes from    *)
(* outside, with the microtasks it settles.  A Redis command takes effect  *)
(* when it is issued (one connection, in order); its answer comes later.   *)
(***************************************************************************)
EXTENDS Integers, Sequences

CONSTANTS
  Client,        \* socket ids
  Op,            \* operations on the document
  Deletion,      \* the operations that only delete
  ViewerOp,      \* sent by a socket whose yjsReadOnly is set
  AppendOp,      \* made by appendMarkdown, one per call
  Null,
  RedisMayFail, DbMayFail,   \* which store may reject a command
  StrayMessages, \* sockets may send yjs_sync or yjs_leave without a join
  MaxQueue, MaxFailures, MaxCrashes, MaxSpare   \* bounds of the exploration

ASSUME OpAssumption ==
  /\ Deletion \subseteq Op /\ ViewerOp \subseteq Op /\ AppendOp \subseteq Op
  /\ AppendOp \cap (ViewerOp \cup Deletion) = {}
ASSUME NullAssumption == Null \notin Op /\ \A state \in SUBSET Op : Null # state
ASSUME FaultAssumption == {RedisMayFail, DbMayFail, StrayMessages} \subseteq BOOLEAN
ASSUME BoundAssumption ==
  MaxQueue \in Nat /\ MaxFailures \in Nat /\ MaxCrashes \in Nat /\ MaxSpare \in Nat

VARIABLES
  redis,         \* the yjs-doc key: a state, or Null
  db,            \* nodes.yjs_state
  row,           \* the nodes row: "live", "soft" (deleted_at set) or "gone"
  loading,       \* loadDoc: "no", "redis" (the GET answered), "db" (the row was read)
  loadState,     \* the state loadDoc holds, or Null
  waiting,       \* sockets whose handleYjsJoin awaits the load
  loaded,        \* docs.has(nodeId); the next six are the ManagedDoc
  doc, clients, saveTimer, idleTimer, dirtyForEmbed, lastSaved,
  tracked,       \* ghost: what scheduleSave covered since the load
  spare,         \* idle timers that removeClient armed and then overwrote
  queue,         \* the node's runExclusive chain: Null a flush, an op its append
  phase,         \* the head of queue: "none" (not started), "load", "save", "skip"
  snap,          \* the state it captured
  redisAck,      \* the answer its SET will have: "ok" or "fail"
  dbAck,         \* its transaction: "pending" or "committed"
  dropped,       \* the ManagedDoc it holds left the map, "clean" or "dirty"
  stray,         \* transactions whose flush already rejected
  embedded,      \* ghost: what the enqueued embed jobs were enqueued for
  call,          \* each appendMarkdown call: "new", "open", "done", "failed"
  failures, crashes

storeVars  == <<redis, db, row>>
loadVars   == <<loading, loadState, waiting>>
docVars    == <<loaded, doc, clients, saveTimer, idleTimer, dirtyForEmbed, lastSaved, tracked>>
flightVars == <<phase, snap, redisAck, dbAck, dropped>>
ghostVars  == <<embedded, call>>
faultVars  == <<failures, crashes>>
rest == <<stray, ghostVars, faultVars>>
vars == <<storeVars, loadVars, docVars, spare, queue, flightVars, rest>>

(* Y.encodeStateVector: deletions leave no trace in it. *)
Vector(state) == state \ Deletion

StoreTypes ==
  /\ redis \in {Null} \cup SUBSET Op /\ db \in SUBSET Op /\ row \in {"live", "soft", "gone"}
  /\ stray \in SUBSET [id : Nat, snap : SUBSET Op]
LoadTypes ==
  /\ loading \in {"no", "redis", "db"} /\ loadState \in {Null} \cup SUBSET Op
  /\ waiting \in SUBSET Client
DocTypes ==
  /\ loaded \in BOOLEAN /\ doc \in SUBSET Op /\ clients \in SUBSET Client
  /\ saveTimer \in BOOLEAN /\ idleTimer \in {"off", "armed", "due"} /\ spare \in Nat
  /\ dirtyForEmbed \in BOOLEAN /\ lastSaved \in {Null} \cup SUBSET Op /\ tracked \in SUBSET Op
  /\ ~loaded => doc = {} /\ clients = {} /\ ~saveTimer /\ idleTimer = "off"
FlightTypes ==
  /\ phase \in {"none", "load", "save", "skip"} /\ snap \in SUBSET Op
  /\ redisAck \in {"none", "ok", "fail"} /\ dbAck \in {"none", "pending", "committed"}
  /\ dropped \in {"no", "clean", "dirty"}
GhostTypes ==
  /\ embedded \in SUBSET Op /\ call \in [AppendOp -> {"new", "open", "done", "failed"}]
  /\ failures \in Nat /\ crashes \in Nat

(* Values, and no timer outlives its document. *)
TypeOK ==
  /\ StoreTypes /\ LoadTypes /\ DocTypes /\ FlightTypes /\ GhostTypes
  /\ queue \in Seq(AppendOp \cup {Null})

Init ==
  /\ db \in SUBSET (Op \ (Deletion \cup ViewerOp \cup AppendOp)) /\ redis \in {Null, db}
  /\ row = "live"
  /\ loading = "no" /\ loadState = Null /\ waiting = {}
  /\ loaded = FALSE /\ doc = {} /\ clients = {} /\ saveTimer = FALSE /\ idleTimer = "off"
  /\ dirtyForEmbed = FALSE /\ lastSaved = Null /\ tracked = {} /\ spare = 0
  /\ queue = <<>> /\ phase = "none" /\ snap = {} /\ redisAck = "none" /\ dbAck = "none"
  /\ dropped = "no" /\ stray = {}
  /\ embedded = {} /\ call = [op \in AppendOp |-> "new"]
  /\ failures = 0 /\ crashes = 0

------------------------------------------------------------------------------
(* Pieces of steps. *)

(* appendMarkdownToYjsDoc: one operation.  It takes out the whole tree and puts in
   the tree of the extended text; to Yjs that is an addition like any other. *)
WithAppend(state, op) == state \cup {op}

(* Mutant: addClient ran before the document was in the map, and did nothing. *)
NewDocUnjoined(state, members) ==
  /\ loaded' = TRUE /\ doc' = state /\ clients' = {}
  /\ saveTimer' = FALSE /\ idleTimer' = "off" /\ lastSaved' = Null

(* docs.set of a fresh ManagedDoc; the sockets in members are added at once. *)
NewDoc(state, members) ==
  /\ loaded' = TRUE /\ doc' = state /\ clients' = members
  /\ saveTimer' = FALSE /\ idleTimer' = "off" /\ lastSaved' = Null

(* Mutant: the debounce timer outlives the document. *)
ForgetDocOnly ==
  /\ loaded' = FALSE /\ doc' = {} /\ clients' = {} /\ saveTimer' = saveTimer
  /\ idleTimer' = "off" /\ dirtyForEmbed' = FALSE /\ lastSaved' = Null /\ tracked' = {}

(* clearTimeout of both timers, doc.destroy, docs.delete. *)
ForgetDoc ==
  /\ loaded' = FALSE /\ doc' = {} /\ clients' = {} /\ saveTimer' = FALSE
  /\ idleTimer' = "off" /\ dirtyForEmbed' = FALSE /\ lastSaved' = Null /\ tracked' = {}

(* A running flush keeps the ManagedDoc it started with. *)
DropDoc ==
  /\ ForgetDoc
  /\ dropped' = IF loaded /\ phase \in {"save", "skip"} /\ dropped = "no"
                THEN IF dirtyForEmbed THEN "dirty" ELSE "clean"
                ELSE dropped

(* Mutant: evictDoc does not look whether a client is back. *)
EvictInUse == IF loaded THEN DropDoc ELSE UNCHANGED <<docVars, dropped>>

(* evictDoc: no flush, and nothing if a client is back. *)
EvictDoc == IF loaded /\ clients = {} THEN DropDoc ELSE UNCHANGED <<docVars, dropped>>

EndLoad == loading' = "no" /\ loadState' = Null /\ waiting' = {}

EndTask ==
  /\ queue' = Tail(queue) /\ phase' = "none" /\ snap' = {}
  /\ redisAck' = "none" /\ dbAck' = "none" /\ dropped' = "no"

(* The appendMarkdown call at the head of the queue, if it is one, gets its answer. *)
Answer(outcome) == call' = [op \in AppendOp |-> IF op = Head(queue) THEN outcome ELSE call[op]]

(* runExclusive of a flush: behind whatever the node's chain holds. *)
EnqueueFlush == Len(queue) < MaxQueue /\ queue' = Append(queue, Null)

Fail == failures < MaxFailures /\ failures' = failures + 1

(* Mutant: the cached copy is not written. *)
IssueNoSet(state) == redisAck' = "ok" /\ UNCHANGED <<redis, failures>>

(* saveToRedis of state: a rejected SET may or may not have been applied. *)
IssueSet(state) ==
  \/ redis' = state /\ redisAck' = "ok" /\ UNCHANGED failures
  \/ RedisMayFail /\ Fail /\ redis' \in {redis, state} /\ redisAck' = "fail"

(* deleteFromRedis; its rejection is only logged. *)
DeleteCached ==
  redis' \in {Null} \cup (IF RedisMayFail THEN {redis} ELSE {})

(* flushDocLocked from the capture on: both writes are issued together. *)
BeginSave(state) ==
  /\ phase' = "save" /\ snap' = state /\ dbAck' = "pending" /\ dropped' = "no"
  /\ IssueSet(state)

------------------------------------------------------------------------------
(* getOrCreateDoc, loadDoc and addClient, as handleYjsJoin calls them. *)

JoinLoaded(c) ==
  /\ loaded
  /\ idleTimer' = "off" /\ clients' = clients \cup {c}
  /\ UNCHANGED <<storeVars, loadVars, loaded, doc, saveTimer, dirtyForEmbed, lastSaved, tracked,
                 spare, queue, flightVars, rest>>

JoinLoading(c) ==
  /\ ~loaded /\ loading # "no"
  /\ waiting' = waiting \cup {c}
  /\ UNCHANGED <<storeVars, loading, loadState, docVars, spare, queue, flightVars, rest>>

(* Mutant: the row is read even when there is a cached copy. *)
StartLoadFromDb == loading' = "redis" /\ loadState' = Null

(* loadFromRedis turns an error into a miss. *)
StartLoad ==
  /\ loading' = "redis"
  /\ loadState' \in {redis} \cup (IF RedisMayFail THEN {Null} ELSE {})

JoinStartsLoad(c) ==
  /\ ~loaded /\ loading = "no"
  /\ StartLoad /\ waiting' = {c}
  /\ UNCHANGED <<storeVars, docVars, spare, queue, flightVars, rest>>

(* Mutant: what the row has is not used. *)
NoState == {}

(* A row that is gone is loaded as an empty document. *)
RowState == IF row = "gone" THEN {} ELSE db

LoadFromDb ==
  /\ loading = "redis" /\ loadState = Null
  /\ loading' = "db" /\ loadState' = RowState
  /\ UNCHANGED <<storeVars, waiting, docVars, spare, queue, flightVars, rest>>

InstallDoc ==
  /\ loading # "no" /\ loadState # Null /\ phase # "load"
  /\ NewDoc(loadState, waiting) /\ dirtyForEmbed' = FALSE /\ tracked' = {}
  /\ EndLoad
  /\ UNCHANGED <<storeVars, spare, queue, flightVars, rest>>

(* The load an append awaits: its task goes on in the same turn. *)
InstallDocForAppend ==
  /\ loading # "no" /\ loadState # Null /\ phase = "load"
  /\ NewDoc(WithAppend(loadState, Head(queue)), waiting) /\ dirtyForEmbed' = TRUE
  /\ tracked' = {Head(queue)}
  /\ EndLoad /\ BeginSave(WithAppend(loadState, Head(queue)))
  /\ UNCHANGED <<db, row, spare, queue, stray, ghostVars, crashes>>

(* Mutant: the append that awaits the load is not told. *)
LeaveAppendWaiting == UNCHANGED <<queue, flightVars, call>>

RejectAppend ==
  IF phase = "load" THEN EndTask /\ Answer("failed") ELSE UNCHANGED <<queue, flightVars, call>>

(* findUnique rejects: every caller that awaits the load is rejected. *)
LoadFails ==
  /\ loading = "redis" /\ loadState = Null /\ DbMayFail /\ Fail
  /\ EndLoad /\ RejectAppend
  /\ UNCHANGED <<storeVars, docVars, spare, stray, embedded, crashes>>

------------------------------------------------------------------------------
(* Sync messages (handleYjsSync) and removeClient. *)

(* readSyncMessage merges first, whatever the message and whoever sends it. *)
Merge(op) ==
  /\ loaded /\ (clients # {} \/ StrayMessages)
  /\ doc' = doc \cup {op}
  /\ UNCHANGED <<storeVars, loadVars, loaded, clients, idleTimer, lastSaved,
                 spare, queue, flightVars, rest>>

(* messageType 2 of an editor: relayed, then scheduleSave re-arms the debounce. *)
Update(op) ==
  /\ op \notin ViewerOp \cup AppendOp
  /\ Merge(op)
  /\ saveTimer' = TRUE /\ dirtyForEmbed' = TRUE /\ tracked' = tracked \cup {op}

(* messageType 2 of a viewer: handleYjsSync returns after the merge. *)
ViewerUpdate(op) ==
  /\ op \in ViewerOp
  /\ Merge(op) /\ UNCHANGED <<saveTimer, dirtyForEmbed, tracked>>

(* messageType 1, the answer to the server's SyncStep1: merged, nothing more. *)
SyncStep2(op) ==
  /\ op \notin ViewerOp \cup AppendOp
  /\ Merge(op) /\ UNCHANGED <<saveTimer, dirtyForEmbed, tracked>>

(* Mutant: the idle timer is armed and nothing is flushed. *)
ArmIdleOnly == idleTimer' = "armed" /\ UNCHANGED <<queue, spare>>

(* The last one out flushes and arms the idle timer; a handle it still held is
   overwritten, not cleared. *)
FlushAndArmIdle ==
  /\ EnqueueFlush /\ idleTimer' = "armed"
  /\ spare' = IF idleTimer = "off" THEN spare ELSE spare + 1
  /\ spare' <= MaxSpare

(* removeClient: a socket that is not registered gets through too. *)
Leave(c) ==
  /\ loaded /\ (c \in clients \/ StrayMessages)
  /\ clients' = clients \ {c}
  /\ IF clients' = {} THEN FlushAndArmIdle ELSE UNCHANGED <<queue, idleTimer, spare>>
  /\ UNCHANGED <<storeVars, loadVars, loaded, doc, saveTimer, dirtyForEmbed, lastSaved, tracked,
                 flightVars, rest>>

------------------------------------------------------------------------------
(* Timers. *)

DebounceFires ==
  /\ saveTimer /\ saveTimer' = FALSE /\ EnqueueFlush
  /\ UNCHANGED <<storeVars, loadVars, loaded, doc, clients, idleTimer, dirtyForEmbed, lastSaved,
                 tracked, spare, flightVars, rest>>

SafetyFlush ==
  /\ loaded /\ EnqueueFlush
  /\ UNCHANGED <<storeVars, loadVars, docVars, spare, flightVars, rest>>

(* DOC_IDLE_TIMEOUT_MS (300 s) is longer than any flush waits: the timer does
   not run out while the flush queued with it is unfinished. *)
IdleRipens ==
  /\ idleTimer = "armed" /\ queue = <<>>
  /\ idleTimer' = "due"
  /\ UNCHANGED <<storeVars, loadVars, loaded, doc, clients, saveTimer, dirtyForEmbed, lastSaved,
                 tracked, spare, queue, flightVars, rest>>

IdleFires ==
  /\ idleTimer = "due" /\ EvictDoc
  /\ UNCHANGED <<storeVars, loadVars, spare, queue, phase, snap, redisAck, dbAck, rest>>

SpareFires ==
  /\ spare > 0 /\ spare' = spare - 1 /\ EvictDoc
  /\ UNCHANGED <<storeVars, loadVars, queue, phase, snap, redisAck, dbAck, rest>>

------------------------------------------------------------------------------
(* The node's queue: tasks run one at a time, in order. *)

AppendRequested(op) ==
  /\ call[op] = "new" /\ Len(queue) < MaxQueue
  /\ call' = [call EXCEPT ![op] = "open"] /\ queue' = Append(queue, op)
  /\ UNCHANGED <<storeVars, loadVars, docVars, spare, flightVars, stray, embedded, faultVars>>

FlushStarts == queue # <<>> /\ Head(queue) = Null /\ phase = "none"
AppendStarts == queue # <<>> /\ Head(queue) # Null /\ phase = "none"

(* "Yjs doc is not loaded": thrown, logged. *)
FlushNotLoaded ==
  /\ FlushStarts /\ ~loaded
  /\ EndTask
  /\ UNCHANGED <<storeVars, loadVars, docVars, spare, rest>>

(* Mutant: saved once, saved for good. *)
SavedOnce == lastSaved # Null

NothingToSave == lastSaved # Null /\ lastSaved = Vector(doc)

(* No transaction: only the cached copy is written again. *)
FlushSkips ==
  /\ FlushStarts /\ loaded /\ NothingToSave
  /\ saveTimer' = FALSE /\ dirtyForEmbed' = FALSE
  /\ phase' = "skip" /\ snap' = doc /\ IssueSet(doc)
  /\ UNCHANGED <<db, row, loadVars, loaded, doc, clients, idleTimer, lastSaved, tracked, spare,
                 queue, dbAck, dropped, stray, ghostVars, crashes>>

FlushSaves ==
  /\ FlushStarts /\ loaded /\ ~NothingToSave
  /\ saveTimer' = FALSE
  /\ BeginSave(doc)
  /\ UNCHANGED <<db, row, loadVars, loaded, doc, clients, idleTimer, dirtyForEmbed, lastSaved,
                 tracked, spare, queue, stray, ghostVars, crashes>>

(* getOrCreateDoc cancels the idle timer; the append is new to the vector, so
   the flush that follows in the same task always saves. *)
AppendApplies ==
  /\ AppendStarts /\ loaded
  /\ doc' = WithAppend(doc, Head(queue)) /\ tracked' = tracked \cup {Head(queue)}
  /\ idleTimer' = "off" /\ dirtyForEmbed' = TRUE /\ saveTimer' = FALSE
  /\ BeginSave(doc')
  /\ UNCHANGED <<db, row, loadVars, loaded, clients, lastSaved, spare, queue, stray,
                 ghostVars, crashes>>

AppendLoads ==
  /\ AppendStarts /\ ~loaded
  /\ phase' = "load"
  /\ IF loading = "no" THEN StartLoad /\ waiting' = {} ELSE UNCHANGED loadVars
  /\ UNCHANGED <<storeVars, docVars, spare, queue, snap, redisAck, dbAck, dropped, rest>>

(* updateNodeRow: one transaction that overwrites yjs_state. *)
DbCommits ==
  /\ dbAck = "pending" /\ row # "gone"
  /\ dbAck' = "committed" /\ db' = snap
  /\ UNCHANGED <<redis, row, loadVars, docVars, spare, queue, phase, snap, redisAck, dropped,
                 rest>>

(* Mutant: the error is only logged. *)
LogGone == UNCHANGED <<docVars, redis>>

(* handleFlushError cleans up after a flush; an append has no such handler. *)
CleanUpGone ==
  IF Head(queue) = Null THEN ForgetDoc /\ DeleteCached ELSE UNCHANGED <<docVars, redis>>

(* NodeGoneError. *)
NodeGone ==
  /\ dbAck = "pending" /\ row = "gone"
  /\ EndTask /\ Answer("failed")
  /\ CleanUpGone
  /\ UNCHANGED <<db, row, loadVars, spare, stray, embedded, faultVars>>

(* The transaction, or syncNodeAttachments after its commit, rejects. *)
DbRejects ==
  /\ dbAck # "none" /\ DbMayFail /\ Fail
  /\ EndTask /\ Answer("failed")
  /\ UNCHANGED <<storeVars, loadVars, docVars, spare, stray, embedded, crashes>>

(* Promise.all rejects on the SET: nobody waits for the transaction any more. *)
RedisRejects ==
  /\ redisAck = "fail"
  /\ stray' = IF dbAck = "pending" THEN stray \cup {[id |-> failures, snap |-> snap]} ELSE stray
  /\ EndTask /\ Answer("failed")
  /\ UNCHANGED <<storeVars, loadVars, docVars, spare, embedded, faultVars>>

(* Mutant: the transaction is not awaited. *)
SetAnswered == dbAck # "none" /\ redisAck = "ok"

BothAnswered == dbAck = "committed" /\ redisAck = "ok"

(* Mutant: the vector is computed after the writes. *)
RecordLateVector ==
  lastSaved' = Vector(doc) /\ dirtyForEmbed' = FALSE /\ UNCHANGED saveTimer

(* Mutant: the debounce timer is cleared after the writes, not before the capture. *)
RecordAndClearTimer ==
  lastSaved' = Vector(snap) /\ dirtyForEmbed' = FALSE /\ saveTimer' = FALSE

RecordSave ==
  lastSaved' = Vector(snap) /\ dirtyForEmbed' = FALSE /\ UNCHANGED saveTimer

(* enqueueEmbedJob of state; a rejected RPUSH is only logged, and the job is lost. *)
EnqueueEmbed(state) ==
  \/ embedded' = embedded \cup state /\ UNCHANGED failures
  \/ RedisMayFail /\ Fail /\ UNCHANGED embedded

(* Record the vector on the ManagedDoc the task holds, enqueue an embed job if
   one is due, answer the caller. *)
FlushDone ==
  /\ BothAnswered
  /\ IF dropped = "no" THEN RecordSave ELSE UNCHANGED <<lastSaved, dirtyForEmbed, saveTimer>>
  /\ IF dropped = "dirty" \/ (dropped = "no" /\ dirtyForEmbed)
     THEN EnqueueEmbed(snap) ELSE UNCHANGED <<embedded, failures>>
  /\ EndTask /\ Answer("done")
  /\ UNCHANGED <<storeVars, loadVars, loaded, doc, clients, idleTimer, tracked, spare, stray,
                 crashes>>

SkipDone ==
  /\ phase = "skip" /\ redisAck = "ok"
  /\ EndTask
  /\ UNCHANGED <<storeVars, loadVars, docVars, spare, rest>>

StrayCommits ==
  \E tx \in stray :
    /\ row # "gone"
    /\ db' = tx.snap /\ stray' = stray \ {tx}
    /\ UNCHANGED <<redis, row, loadVars, docVars, spare, queue, flightVars, ghostVars, faultVars>>

StrayAborts ==
  \E tx \in stray :
    /\ DbMayFail \/ row = "gone"
    /\ stray' = stray \ {tx}
    /\ UNCHANGED <<storeVars, loadVars, docVars, spare, queue, flightVars, ghostVars, faultVars>>

------------------------------------------------------------------------------
(* The outside: key expiry, deletion of the node, the process. *)

(* EX 86400: every flush of a loaded doc renews it, and no transaction lasts a day. *)
RedisExpires ==
  /\ redis # Null /\ ~loaded /\ dbAck # "pending" /\ stray = {}
  /\ redis' = Null
  /\ UNCHANGED <<db, row, loadVars, docVars, spare, queue, flightVars, rest>>

(* The API server deletes the node; its NODE_DELETE may come much later, or never. *)
DeleteNode ==
  /\ row = "live" /\ row' \in {"soft", "gone"}
  /\ UNCHANGED <<redis, db, loadVars, docVars, spare, queue, flightVars, rest>>

(* cleanupNode. *)
NodeDeleteEvent ==
  /\ row # "live"
  /\ DropDoc /\ DeleteCached
  /\ UNCHANGED <<db, row, loadVars, spare, queue, phase, snap, redisAck, dbAck, rest>>

(* The process dies and restarts; a transaction it had open commits or rolls back. *)
Crash ==
  /\ crashes < MaxCrashes /\ crashes' = crashes + 1
  /\ db' \in {db} \cup (IF row = "gone" THEN {} ELSE {tx.snap : tx \in stray}
                         \cup (IF dbAck = "pending" THEN {snap} ELSE {}))
  /\ ForgetDoc /\ EndLoad /\ spare' = 0 /\ stray' = {}
  /\ queue' = <<>> /\ phase' = "none" /\ snap' = {} /\ redisAck' = "none" /\ dbAck' = "none"
  /\ dropped' = "no"
  /\ call' = [op \in AppendOp |-> IF call[op] = "open" THEN "failed" ELSE call[op]]
  /\ UNCHANGED <<redis, row, embedded, failures>>

------------------------------------------------------------------------------
SocketStep ==
  \/ \E c \in Client : JoinLoaded(c) \/ JoinLoading(c) \/ JoinStartsLoad(c) \/ Leave(c)
  \/ \E op \in Op : Update(op) \/ ViewerUpdate(op) \/ SyncStep2(op)
LoadStep == LoadFromDb \/ InstallDoc \/ InstallDocForAppend
TimerStep == DebounceFires \/ IdleRipens \/ IdleFires \/ SpareFires
TaskStart == FlushNotLoaded \/ FlushSkips \/ FlushSaves \/ AppendApplies \/ AppendLoads
TaskStep == DbCommits \/ NodeGone \/ RedisRejects \/ FlushDone \/ SkipDone
Outside == LoadFails \/ DbRejects \/ StrayCommits \/ StrayAborts \/ RedisExpires
           \/ DeleteNode \/ NodeDeleteEvent
ManagerStep ==
  SocketStep \/ LoadStep \/ TimerStep \/ SafetyFlush \/ TaskStart \/ TaskStep \/ Outside

Next == ManagerStep \/ (\E op \in AppendOp : AppendRequested(op)) \/ Crash

Spec == Init /\ [][Next]_vars

(* Promises the runtime settles and timers it fires; sockets owe nothing. *)
Fairness ==
  /\ WF_vars(LoadStep) /\ WF_vars(TaskStart) /\ WF_vars(TaskStep)
  /\ WF_vars(DebounceFires) /\ WF_vars(SafetyFlush)
  /\ SF_vars(IdleRipens) /\ WF_vars(IdleFires)

FairSpec == Spec /\ Fairness
------------------------------------------------------------------------------
(* Safety.  "Live" is the row before anyone deletes it. *)

(* A save never loses what an earlier save stored: the row only gains operations. *)
DbNeverRegresses == [][row = "live" => db \subseteq db']_vars

(* A cached copy is never behind the row, so loading it first loses nothing. *)
CacheCoversRow == row = "live" /\ redis # Null => db \subseteq redis

(* lastSavedStateVector: what it lists is in the row, or skipping the next save
   would leave it out. *)
RecordedVectorIsDurable == row = "live" /\ lastSaved # Null => lastSaved \subseteq db

(* An appendMarkdown call that was answered has its text in the row. *)
AnsweredAppendIsDurable ==
  row = "live" => \A op \in AppendOp : call[op] = "done" => op \in db

(* An embed job is enqueued only for content the row already has. *)
EmbedJobsAreDurable == row = "live" => embedded \subseteq db

(* While a socket is registered on a node that exists, only a crash of the
   process takes the document, and no step takes an operation out of it. *)
OpenDocStays ==
  [][loaded /\ clients # {} /\ row = "live" /\ crashes' = crashes
       => loaded' /\ doc \subseteq doc']_vars

(* Debounced, queued or captured: an edit scheduleSave covered is on its way. *)
FlushIsQueued == \E i \in 1..Len(queue) : i > 1 \/ phase \in {"none", "load"}
ScheduledEditIsPending ==
  loaded /\ row = "live" /\ failures = 0 =>
    \A op \in tracked \ Deletion : op \in db \/ saveTimer \/ FlushIsQueued \/ op \in snap

(* evictDoc does not flush: unless a save failed, whatever it drops, deletions
   too, is in the cached copy, and what is not a deletion is in the row. *)
Cached == IF redis = Null THEN {} ELSE redis
EvictedDocWasFlushed ==
  [][loaded /\ ~loaded' /\ row = "live" /\ crashes' = crashes /\ failures = 0
       => doc \subseteq Cached /\ Vector(doc) \subseteq db]_vars

(* A save is skipped only when the row has everything the document has. *)
SkipOnlyWhenStored == phase = "skip" /\ dropped = "no" /\ row = "live" => snap \subseteq db

(* What a viewer sends is never stored. *)
ViewerEditsNeverStored == ViewerOp \cap (db \cup Cached) = {}

------------------------------------------------------------------------------
(* Liveness. *)

(* An edit in memory reaches the row, unless the document or the node goes away;
   recorded as saved is as good (RecordedVectorIsDurable). *)
Recorded(op) == lastSaved # Null /\ op \in lastSaved
InsertsReachDb ==
  \A op \in Op \ Deletion :
    (op \in doc /\ row = "live") ~> (op \in db \/ Recorded(op) \/ ~loaded \/ row # "live")

(* Every append call is answered. *)
AppendsAreAnswered == \A op \in AppendOp : (call[op] = "open") ~> (call[op] # "open")

(* Only sockets use the document. *)
AppendFree == \A op \in AppendOp : call[op] = "new"

(* A document nobody comes back to or appends to leaves the memory, provided the
   queue drains now and then: a transaction has 5 s, safety flushes are 30 s apart. *)
EmptyDocIsEvicted ==
  []AppendFree /\ []<>(queue = <<>>)
    => ((loaded /\ clients = {}) ~> (~loaded \/ clients # {}))

(* A document whose row is gone is dropped by the next flush that has work. *)
GoneDocIsDropped == (row = "gone" /\ loaded /\ phase = "none" /\ ~NothingToSave) ~> ~loaded
------------------------------------------------------------------------------
(* The manager implements DurableDoc as long as Redis does not fail. *)

Durable == INSTANCE DurableDoc WITH
  content <- IF loaded THEN doc ELSE Null, saved <- db, deleted <- row # "live"

(* Opening shows everything saved, editing only adds, saving loses nothing. *)
ImplementsDurableDoc == Durable!Spec
=============================================================================
