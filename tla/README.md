# A specification of the Aideep realtime server

TLA+ modules, TLC configurations and TLAPS proofs for the server under `src/`: a
NestJS process that keeps Yjs documents in memory for Socket.IO clients, saves
them in Redis and in Postgres, and takes events from an API server over a Redis
channel. Line numbers refer to `src/src/...`.

Contents: 1 the system, 2 the modules, 3 how state and actions correspond to
the code, 4 the runs, 5 bounds, 6 fairness, 7 the proofs, 8 what the runs found,
9 what is abstracted or left out, 10 the plan.

## 1. The system

```
 browser ── Socket.IO ──▶ WsGateway ──▶ YjsDocManager ──▶ YjsCrdtService ──▶ Redis  yjs-doc:<node>
                             │   ▲            ▲                   │
                             │   │            │                   └──▶ Postgres nodes row
                             ▼   │            │                              then FileAttachmentService
                       Presence  │            │                              (file_attachments, files)
                       (Redis)   │            │
 API server ── Redis pub/sub ─▶ EventBusSubscriber ─▶ NodeContentService ◀── HTTP POST
                                                       (claims in Redis)
```

One process, one thread. What is concurrent is the runs of JavaScript between two
awaits: handlers of different sockets, timers, the flushes of the queue and the
answers of the stores interleave at every `await`.

| part | state | operations | correct means |
|---|---|---|---|
| **YjsDocManager** `global/yjs/yjs-doc-manager.ts` | `docs` (per node: Y.Doc, client ids, debounce and idle timer, `dirtyForEmbed`, `lastSavedStateVector`, `lastPersisted`), `loading`, `operations` | `getOrCreateDoc`, `addClient`, `removeClient`, `scheduleSave`, `appendMarkdown`, `flushDoc`, `flushAll`, `evictDoc`, `cleanupNode` | nothing saved is ever lost; an edit is saved in the end; a document in use is never taken away; one nobody uses goes away; flushes of one node do not overlap |
| **runExclusive** (same file, :190) | a chain of promises per node | chain, run, settle, forget | one task at a time, in order, no entry left behind |
| **flushAll** (same file, :305) | a list, a cursor, `FLUSH_CONCURRENCY` workers per round | list, take the next, come back | every listed document is flushed once; the number of flushes is bounded; a round ends |
| **YjsCrdtService** `global/yjs/yjs-crdt.service.ts` | none; the `yjs-doc` key (24 h), the `nodes` row, the workspace sync cache | load from and save to either store; read-modify-write of `content`; bootstrap from `markdownBody`; DEL of the sync cache | the cached copy is never behind the row; nothing another writer stored is lost; the cache does not show old rows; a body is built once |
| **FileAttachmentService** `domain/file-attachment` | none; `file_attachments`, `files.status` | `syncNodeAttachments`, six statements outside any transaction | a node's rows are the files in its document; statuses agree with the rows |
| **WsGateway** `domain/ws/controller/ws.gateway.ts` | `client.data` (user, workspace, membership cache, `yjsReadOnly`), `yjsRooms` | connect, `join_workspace`, `yjs:join`, `yjs:sync`, `yjs:leave`, disconnect, relays | what the manager has registered is what a disconnect will remove; a socket in the room has its document; browsers and server converge |
| **PresenceService** | a Redis hash per workspace, one field per *user*, 24 h | HSET, HDEL, HGETALL | who is listed is connected, who is connected is listed |
| **NodeContentService** `domain/node-content` | none; claims and responses in Redis (60 s, a day) | `executeContentOperation` (HTTP), `applyNodeBodyPatch` (event) | a command is applied once, however often it is sent; success means stored |
| **EventBusSubscriber** `domain/event-bus` | none | WORKSPACE_EVENT (with NODE_DELETE), YJS_UPDATE, NODE_BODY_PATCH | an event is applied, or relayed, at once; never awaited |
| YjsWsAwarenessService | a Redis key per workspace, 30 s | cache and read a snapshot for late joiners | best effort |
| EmbedQueueService | a Redis list | RPUSH, errors swallowed | a job is enqueued for what is already stored |
| markdown-yjs, Prisma, Redis client, auth, membership, logging, metrics, errors, responses | no state the others depend on | conversions, connections, checks | see section 9 |

What is hard here: a flush captures the document, awaits two writes, and edits
keep coming (:255-:298); the two writes go to two stores, either may reject, and
`Promise.all` does not wait for the other one; the process may die between them,
and the *cache* is loaded first; a debounce timer, an idle timer, a safety
interval and the last `yjs:leave` all want to flush or to evict; a join awaits a
membership and a load during which its socket may go; a retry races the request
it retries, and a claim in Redis is all that decides; two nodes' syncs share
files without a transaction; a browser's copy, the document and what was
saved are brought together again by two messages after connections and processes
were lost. `PROJECT.json` lists each such place under
`hazards`, with the properties that watch it.

## 2. The modules

| module | models | extends, composes |
|---|---|---|
| `YjsDocManager` | the manager and the two stores behind it, for one node | |
| `DurableDoc` | what the manager promises: abstract specification | implemented by `YjsDocManager` |
| `NodeQueue` | the promise chains of `runExclusive`, one per node | |
| `FlushPool` | `flushAll`: overlapping rounds, their cursors and workers | extends `NodeQueue`: a worker waits for a call of it |
| `TaskLine` | a first-in-first-out line with one server | implemented by each chain of `NodeQueue` and, with `Pass` and `Restart` (a task that starts and ends in one turn, the end of the process), by the queue of `YjsDocManager` |
| `FileAttachments` | `syncNodeAttachments`, for several nodes, and which flushes bring one | |
| `SaveToDb` | `saveToDb`: the transaction on `content`, the sync, the sync cache; the API server beside it | extends `FileAttachments`: its statements are those of the sync |
| `Replicas` | the document, the copies in the browsers and the messages between them | its document is a `DurableDoc`, which `YjsDocManager` implements |
| `ContentOperation` | requests and deliveries with their claims | extends `YjsDocManager` |
| `Gateway` | sockets, `yjsRooms`, presence | extends `YjsDocManager` |
| `MC*` | model values and instances for TLC | |
| `*_proofs` | theorems and their proofs | extend the module they are about |

The manager is the core: every other stateful part calls it, and the maps in it
are keyed by node with no step that reads two entries. One node is therefore the
whole class, and the modules that compose extend it and use its own actions: a
`yjs:join` of `Gateway` *is* `JoinLoaded`, `JoinLoading` or `JoinStartsLoad` of
`YjsDocManager` together with the gateway's own assignments, and a request of
`ContentOperation` *is* `AppendRequested` once its claim is taken. What messages
carry is another question than which handlers interleave: `Replicas` asks it over
the promise the manager is shown to keep (`DurableDoc`), and not over the manager.

Some modules hold definitions whose comment begins with "Mutant:". They are
wrong variants of the definition that follows them (a dropped guard, a missing
reset, a swapped order). No specification uses them; each property of a passing
run is violated when one of them replaces the definition it varies, and
`PROJECT.json` lists the pairs.

## 3. State and actions against the code

### YjsDocManager

A Y.Doc is the **set of operations** merged into it. `Y.applyUpdate` is
idempotent and commutative, so merging is union. `Y.encodeStateVector` is
modelled by what it does: it lists inserted structs only, so
`Vector(state) == state \ Deletion`. That is the one conversion the properties
depend on.

| variable | code |
|---|---|
| `redis`, `db`, `row` | the `yjs-doc` key; `nodes.yjs_state`; the row itself: live, soft-deleted or gone |
| `loading`, `loadState`, `waiting` | the promise in `loading`, how far `loadDoc` is, and the `handleYjsJoin` calls that await it |
| `loaded`, `doc`, `clients`, `saveTimer`, `idleTimer`, `dirtyForEmbed`, `lastSaved` | the `ManagedDoc` |
| `spare` | idle timers whose handle `removeClient` overwrote (:146): armed, and out of reach of `clearTimeout` |
| `queue`, `phase`, `snap`, `redisAck`, `dbAck`, `dropped` | the node's chain, and the task at its head: what it captured, what the stores did and answered, and whether the `ManagedDoc` it holds left the map |
| `stray` | transactions that go on after their flush rejected |
| `embedded`, `call`, `tracked` | what embed jobs were enqueued for; the answer of each append; what `scheduleSave` covered (ghosts) |

A step is a run of JavaScript up to an `await` whose answer comes from outside,
*with* the microtasks it settles: `InstallDoc` ends a load and lets every join
that awaited it register its socket; `InstallDocForAppend` lets the append that
awaited it merge, capture and issue its writes in the same turn, as the code
does. A Redis command takes effect when it is issued (one connection, in order);
its answer is a later step. A rejected SET may or may not have been applied.
`FlushSkips`/`FlushSaves` are the two branches of :260; `FlushDone` is all of
:285-:297; `NodeGone` is `NodeGoneError` with `handleFlushError` and
`cleanupNode` after it; `EnqueueEmbed` is a job, or one lost to a rejected RPUSH;
`WithAppend` is `appendMarkdownToYjsDoc`; `RedisRejects` is the rejection of `Promise.all` that
leaves the transaction behind. `SafetyFlush` is `flushAll` for one node.

### NodeQueue and FlushPool

A call is its `current` promise; `tail` is `operations`. A task starts in a
microtask after its predecessor settled and the predecessor's `finally` is
another one: `Start` and `Finally` interleave freely, and calls of
`runExclusive` come in between. `Chain` takes the set of calls that one turn
makes, one per node at most: `flushAll` makes several.

In `FlushPool` a round is one call of `flushAll`. `listed` is `nodeIds`, `cursor`
the variable of that name, and `at` the nodes whose `await flushDoc(..)` a worker
is in. `FlushAll` is the synchronous part up to the first `await` of every
worker; `TakeNext` and `WorkerEnds` are a worker that comes back, whether its
flush resolved or rejected (:312-:314). Rounds may overlap, as the interval does
not wait.

### FileAttachments

One action per statement, in the order of the code, for the syncs of several
nodes at once. A sync has a name (`Sync`, `Of` its node), since a node may have
more than one under way: `Promise.all` (:274) ends the flush as soon as the SET
rejects (`SetRejects`), its sync goes on with nobody waiting (`left`), and the
node's next flush may begin beside it. Among themselves the flushes of a node wait
for one another (`Running(n) \subseteq left`; `NodeQueue` is about that).

| variable | code |
|---|---|
| `refs` | the files the document shows (`extractReferencedFileIds`, `yjsDocToAttachmentContent`) |
| `stale` | the document's vector is neither `lastSavedStateVector` nor that of the flush at work: the test of :260 |
| `attached`, `status` | `file_attachments`, `files.status` |
| `pc`, `want`, `toAdd`, `toRemove`, `orphanIds` | the statement a sync is about to run, and its local values |
| `erased`, `overlapped` | ghosts: the files a document lost since it was last captured; the node's last sync began beside one left behind |

`Edit` sets `stale` when something is inserted, or the document is loaded anew
(`lastPersisted` is then null), and leaves it alone when something is only removed:
a deletion does not change the vector, so `Extract` is not enabled by it and the
rows stay as they are until something is inserted (:260-:267). A statement that
rejects ends the sync and with it the flush, which records no vector: a later
flush saves and syncs again (`RetryLater`). So does a SET that rejects. A sync left
behind that rejects changes nothing for the flushes.

### SaveToDb

`save` is how far each `saveToDb` is; a save has the name of its sync and may be
left behind with it (`FlushRejects`). `field` is everything in `content`
but `markdownBody`, counted by the API server's writes to it; `ReadRow` keeps
what it saw in `seen`, and `CommitRow` writes it back. Reading and writing are
two steps because the transaction is READ COMMITTED and its read takes no lock.
`SyncStatement` is a statement of `FileAttachments`; `Invalidate` is the DEL at
the end. `SaveRejects` is a rejection at any await before it: what was done
stays, a transaction whose commit rejects may have been applied, and the flush
that called it, if it still waits, records no vector, so that the save is made
again. `SaveEnds` is the end of a save with the record of its vector. `snapshot` is
the workspace sync cache: the API server fills it from the rows (`ApiFillsCache`)
and deletes it when it writes (`ApiWrites`); it is `"forsaken"` when it shows an
older row and the DEL that would have removed it was rejected, or was never sent by
a save left behind.

### Replicas

| variable | code |
|---|---|
| `content`, `saved` | the `Y.Doc` in memory; what a load finds, where `{}` is a row with `markdownBody` and no `yjs_state` |
| `appending` | the `appendMarkdown` under way, merged and not yet saved |
| `room` | the sockets in `yjs:<node>` |
| `up`, `down` | messages on their way from and to a socket, in order, lost when it goes |
| `mode`, `replica` | the browser: whether it has the node open, and its copy |
| `withheld` | ghost: what was merged beside a socket in the room without a relay to it |

One action per message: `HandleJoin` (room, then the server's SyncStep1),
`HandleStep1` (answered with what the sender lacks: `Missing`), `HandleStep2`
(merged, and neither relayed nor scheduled), `HandleUpdate` (merged, and relayed
unless the sender is a viewer), `HandleLeave`. `Vector` leaves deletions out, as
in `YjsDocManager`, and `Missing` always sends them, as `Y.encodeStateAsUpdate`
does. `AppendMerges`, `AppendSaved` and `AppendRejected` are the three moments of
an append that the room can tell apart; `RelayBusUpdate` is a YJS_UPDATE event.
`Built` is a tree made from `markdownBody`, with ids of its own each time.
`Flush`, `Evict` and `Crash` are `DurableDoc`'s; `EvictUnsaved` is the eviction
after saves that all failed. A `yjs:sync` for a node without a document is
dropped (:336), which cannot happen to a socket in the room (`RepTypeOK`).

The browser is external: y-protocols over Socket.IO, as `ws.gateway.ts` expects
it. It answers the server's SyncStep1 with a SyncStep2 and sends a SyncStep1 of
its own. The comment at ws.gateway.ts:317 has the client's SyncStep2 bring forth
the server's; `readSyncMessage` answers a SyncStep1 only, so that a browser that
sent none would never get the document.

### ContentOperation

An attempt is one HTTP request or one delivery; its append is the operation of
the same name, so that "appended twice" is two operations of one key in the
document. `LookUp` is the GET with its three answers (:81-:96) and the refusal
of a stale `expectedVersion`; `ClaimAndAppend`/`ClaimTaken` are SET NX;
`Remember` replaces the claim of a request by the response; `Withdraw` is the
DEL after an append that rejected, whoever holds the key by then;
`CommandRejects` any Redis command of the handler that rejects. A crash takes
the handlers and leaves the keys.

### Gateway

Each handler is cut at its awaits and goes on after them even if its socket has
gone: `AskMembership`/`AcceptMember` and `waiting`/`Installed` for `yjs:join`,
`AskWorkspace`/`EnterWorkspace`/`Announce`/`Greet` for `join_workspace`,
`Disconnect`/`Farewell` for `handleDisconnect` (HDEL, HGETALL, then the
documents). `CheckRejects` is `checkWorkspace` rejecting in either handler, which
keeps nothing and may be asked again. `HashExpires` is the end of the day after
the last `EXPIRE`, which only `upsertPresence` renews. `hasty` and `lapsed` are
ghosts: the sockets that went while a handler of theirs had yet to act, and the
users the expiry took from the hash.

## 4. The runs

Passing runs:

| run | question | distinct states |
|---|---|---|
| `YjsDoc_safety` | A socket, an edit, a deletion, an append; the database may reject once, the process may die once, the node may be deleted, Redis answers. Is anything saved ever lost, is a promise made before it is kept, does every scheduled edit have a flush ahead of it, does eviction drop only what is stored? | 1.3 M |
| `YjsDoc_live` | Sockets that also send without having joined, overwritten timers, a store that rejects once. Does a document in use stay, and under fair scheduling: are edits saved, appends answered, documents of removed nodes dropped, unused ones evicted? | 240 k |
| `NodeQueue` | Two rounds of `flushAll` over three nodes with two workers each, and another call; a flush and the other call may reject. One task of a node at a time, no entry left, each chain the line that `YjsDocManager` assumes; does a round flush all it listed, within its bound, and end? | 160 k |
| `Files` | `saveToDb` of two nodes that share two files; insertions, deletions that bring no save, one rejection (also of a SET, whose save goes on beside the node's next), one write of the API server. Which rows has a node whose save is over, do statuses lag behind, is the sync cache left showing old rows, which writes of the API server may a save take back, and do the rows catch up? | 900 k |
| `Appends` | A request, its retry, and the same key with another body; one rejection of either store, one crash. One success per key, success means stored, no text twice until something fails, no claim in progress for ever. | 400 k |
| `Gateway` | Two sockets of one user; joins, leaves and disconnects at any await; a presence command or the database rejects once, the hash expires, one crash, deletion of the node. Do the gateway's books agree with the manager's, is a socket in the room served, does presence follow the sockets? | 2.12 M, up to symmetry |
| `Replicas` | An editor and a viewer that open, close, lose the connection and type offline; a deletion, an append, an event of the bus, eviction, crashes, a body to be built from Markdown. Does a browser whose messages have arrived show the document, does the document have what is shown, is the body there once? | 2.26 M |

The properties and what each would catch:

* `DbNeverRegresses`, `CacheCoversRow`, `ImplementsDurableDoc`: saving writes
  the whole state over the row, and loading prefers the cache. A save therefore
  loses operations exactly if a document was opened from a state behind the row.
  These three say that this cannot happen, across crashes between the two writes.
* `RecordedVectorIsDurable`: what makes skipping a save right. Violated if the
  vector is taken after the writes instead of with the capture.
* `AnsweredAppendIsDurable`: "done" is said only for what the row has.
* `ScheduledEditIsPending`: from `scheduleSave` on, an edit is in the row,
  debounced, covered by a queued flush or in the capture under way. Violated if
  the debounce timer is cleared after the writes.
* `EvictedDocWasFlushed`: `evictDoc` does not flush; the flush the last leave
  queued must have been done by then.
* `OpenDocStays`: a document with sockets is dropped by no timer, and loses
  nothing, even when an overwritten idle timer fires.
* `EmptyDocIsEvicted`: a document nobody comes back to leaves the memory.
* `InsertsReachDb`, `AppendsAreAnswered`, `GoneDocIsDropped`: no edit forgotten,
  no caller left waiting (a failed load must reject the append that awaits it),
  and a lost NODE_DELETE is made good by the next flush. `InsertsReachDb` counts
  an edit that is recorded as saved: what is recorded is in the row as long as
  Redis answers (`RecordedVectorIsDurable`), and is not where it does not
  (`YjsDoc_stray`).
* `MutualExclusion`, `EntryIsRemoved`, `ImplementsTaskLine`: the queue, with the
  `finally` of one call racing the chaining of the next, and rejected tasks.
* `RoundCovers`, `PoolIsBounded`, `RoundsEnd`: the pool, with a flush that
  rejects, a node both rounds have listed, and other calls in its chain.
  `RoundsEnd` fails if a rejection ends the worker, and with it, for a worker
  that was the last, the round.
* `RowsFollowContent`: the six statements of two nodes interleave, and any of them
  may be the last that was applied. With no sync running or due, a node's rows are
  the files its document shows and those it lost since its last save began
  (`erased`), unless that save began beside one left behind (`overlapped`). Both
  exemptions are the code's: TLC finds a violation without either of them, the
  first without any failure.
* `RowsCatchUp`: such a node ends up with these rows for good, whatever rejected
  before. Violated if a flush whose save failed counts as saved.
* `NoStatusLagsBehind`: until something rejects, no file is ACTIVE or PENDING that
  should no longer be, whatever nodes share.
* `SnapshotIsCurrent`: the DEL is the last step of a save that may end at any
  earlier one. Violated if it is made to depend on what the sync had to do.
* `OlderApiWritesSurvive`: the read-modify-write takes back what was written
  between its two halves, and nothing older. Violated if the save writes its own
  field over the whole of `content`.
* `OneSuccessPerKey`, `SuccessIsStored`, `NeverAppendedTwice`, `ClaimsEnd`: the
  claim in Redis is all that decides between a request and its retry.
* `RegisteredIsTracked`, `RoomIsServed`, `ClosedHasLeft`, `ListedIsConnected`,
  `JoinedIsListed`, `RoomSeesPresence`: the gateway's two books (`clients` of the
  manager, `yjsRooms`) agree, and presence follows the sockets up to the races
  of section 8.
* `RoomShowsDocument`, `DocumentHasWhatIsShown`: the two directions of the
  handshake, with messages lost with their sockets, edits made offline, appends
  broadcast after their save and documents that were evicted or lost in between.
  What the code leaves out is in the statements: what was merged beside a browser
  without a relay (`withheld`), and what the bus relayed without a merge (`Bus`).
* `BodyIsBuiltOnce`: two builds of `markdownBody` have different ids, and a merge
  of both shows the text twice.

Runs that end in a violation state what a comment, a test or a document of the
repository says; TLC shows the code does something else (section 8):
`YjsDoc_stray`, `YjsDoc_erase`, `YjsDoc_viewer`, `Files_race`, `Appends_twice`.

Every action and every disjunct of the specifications is fired in some passing
run; `CHECK_DEADLOCK FALSE` is set where clients may simply have nothing left to
do (all runs but those of `YjsDocManager`, whose safety interval never stops).

## 5. Bounds, and why they are enough

* `MaxQueue` (1 or 2): a flush captures the state when it *starts*, so a third
  task in the chain behaves as the second. Two are needed for "a flush queued
  behind one that is under way", the case behind the debounce and the leave.
* `MaxFailures`, `MaxCrashes` (0 or 1): the properties relate a capture to at
  most one later load or save; one fault between two tasks is where they break.
  The theorems have no such bound.
* `MaxSpare` (1): a second overwritten timer only repeats `evictDoc`.
* Operations: one of each kind that the code tells apart (inserted by a socket,
  deleted, sent by a viewer, appended), as a Y.Doc is a set and no step compares
  two of a kind. In `YjsDoc_live` the operation `viewed` stands for anything
  that is merged and not scheduled; there is no debounced edit, so that nothing
  but the safety flush can save it.
* `YjsDoc_safety` has one socket: the manager uses `clients` only to ask whether
  it is empty. `Gateway` has two sockets of one user, the case where presence,
  keyed by user, and sockets differ; symmetry is used there because no temporal
  property is checked and the sockets are interchangeable.
* `Gateway` has no operations on the document, and there only the presence
  commands of Redis reject (`PresenceMayFail`): the `YjsDoc_*` runs cover the
  rest, the gateway's state does not depend on the content, and the theorems of
  section 7 hold with everything that may reject rejecting.
* `Files`: one document is loaded with a file, the other without; with `MaxEdits` 2
  a node gains or loses files before, during and after a save, alone or while the
  other node syncs. One node has two names for its syncs, so that a save can begin
  beside one left behind, and `MaxRunning` 2 saves run at once: two of one node or
  one of each. `MaxFailures` 1 does not reach a save left behind that rejects in its
  turn, which takes two; the theorems about `Files` have no such bound, and
  `FileAttachments` alone was also explored with three edits and two failures
  (1.5 M states). `Files_race` has one file and a sync per node. `MaxApiWrites` 1: a write is before, between or after the halves of
  each save, and a second one to the same field only repeats that.
* `NodeQueue`: three nodes and two workers, so that a worker goes on to a node
  that was not taken at the start; the second round has the nodes in another
  order, or none. Two calls may reject (`MCMayReject`): one whose worker has a node
  left to take, and the one outside the pool.
* `Replicas`: `MaxEvents` 4 bounds what happens from outside (opening, closing,
  losing a connection, an append, an event, a fault); messages, flushes and
  handlers are not counted, and typing is bounded by the operations. Four events
  are the least for an editor and a viewer that meet, and for one that types
  offline and returns after a loss. `Boot` has two trees, the number that shows
  a body built twice.

## 6. Fairness

* Promises settle and reactions run: `WF` on `LoadStep`, `TaskStart`,
  `TaskStep`, and in `FlushPool` on the reactions of the chains, as one action
  (`Progress`), and on the workers of each round. Prisma and the Redis client
  answer or reject; a transaction has 5 s.
* Timers fire: `WF` on `DebounceFires`, `SafetyFlush`, `IdleFires`.
* `SF` on `IdleRipens`. The timer of 300 s runs out whatever happens in between.
  The model lets it ripen only while the queue is empty, which is how the time
  bounds enter it: a flush is done, or has rejected, long before 300 s are over.
  As the safety flush empties and fills the queue over and over, the action is
  enabled again and again but not for ever, hence strong fairness.
* `EmptyDocIsEvicted` assumes in its statement that the queue is empty now and
  then (transactions of 5 s at most, safety flushes 30 s apart), and that nobody
  appends (section 8 says why).
* `ClaimsEnd`: the handler goes on when its append is answered, and Redis
  expires a claim.
* Sockets, users, the API server and faults owe nothing.
* `SaveToDb`: weak fairness of one action, "some save takes a step, or some flush
  begins one". Commands are answered or reject, and the safety flush comes back
  every 30 s to a document in memory whose vector is not the recorded one: something
  was inserted, or the last flush failed. Of a document that only lost something
  nothing is assumed, as each of its flushes is skipped (:260-:267): `Capture` is
  not enabled for it. A flush held up by another command's answer is held up
  finitely long, which is why one `WF` for all saves is enough: edits and failures
  are bounded, so that every save ends.
* `Replicas` and `Gateway` state no fairness: their properties are about what is
  so when messages have arrived, not that they arrive.

## 7. The proofs

Checked by TLAPS for all values of the constants: any sockets, operations,
nodes, files, calls, attempts, and no bound on queue, failures or crashes.

**YjsDocManager_proofs.** `TypeCorrect` from `TypeInv`, the types with what head
of queue, phase and acknowledgements have to do with each other. `OpenDocKept`
(`OpenDocStays`) needs only this: no step takes a document with clients away,
whatever the stores do. What is said of the row needs a Redis that does not reject
(`RedisMayFail = FALSE`): `YjsDoc_stray` is the counterexample otherwise. Its inductive invariant
`DInv` says in addition to the properties that no transaction is left behind
(`Reliable`); that *every* copy a document may be opened from (the document in
memory, the cache, the state a load holds) covers not only the row but the
transaction under way, as it may commit later (`CopiesCover`,
`CopiesCoverPending`); and that the operation of the append at the head of the
queue is in the capture. Without the middle part a crash between SET and commit
would leave nothing to argue from. From it: `PromisesKept`
(`RecordedVectorIsDurable`, `AnsweredAppendIsDurable`, `EmbedJobsAreDurable`),
`CacheNeverBehind`, `RowNeverRegresses`, and `Refinement`: `Spec` implies
`DurableDoc!Spec` under `content <- IF loaded THEN doc ELSE Null`,
`saved <- db`, `deleted <- row # "live"`.

Two more properties rest on `EditInv`, which follows an edit from the debounce to
the row: an edit that is neither stored nor under a timer is `Behind` (in the
queue, or in a task that has not captured) or in the capture. While the idle timer
runs nobody is registered, and the flush queued with it is ahead of it, under way
or over; as the timer ripens only on an empty queue, what it drops is `Stored`.
This gives `EditsStayPending` and `EvictionsLoseNothing`. The last one needs
`StrayMessages = FALSE`: a leave without a join can arm a second timer that
nothing cancels. `SkipsLeaveOnlyDeletions` is the other side of `YjsDoc_erase`: what a
skipped save leaves out of the row is deletions, never an insertion.

Where Redis may reject, `PromisesUntilRejected`, `EditsStayPending` and
`EvictionsLoseNothing` hold until something is rejected (`failures = 0`), provided
`StrayMessages = FALSE`. A GET that rejects counts as a miss and as no failure, so
this is not the theorems above with a shorter horizon: a document may then be opened
from the row although the cache is ahead of it. That is harmless unless a
transaction for the same row is still open. `KeptInv` says that none is: until the
first rejection a save under way is of the document in memory, which therefore was
not evicted and opened anew. With stray messages it fails, as an edit of a document
nobody has joined can be evicted in the middle of its save (TLC finds the run in 16
steps). `ServedInv` carries `DInv` and `EditInv` along.

`QueueIsALine`: what the manager makes of its queue is what `NodeQueue_proofs` shows
of every promise chain. `NobodyForgotten` is the safety half of `AppendsAreAnswered`:
the task of an unanswered call is in the queue, whoever awaits a load has one under
way, and the writes of the head are answered or will be; `AnsweredOnce` adds that an
answer is final.

`SharedSpec` is the manager among others: its own steps, or a command of somebody
else that is rejected, which uses up a failure and touches nothing of the manager
(`OnlyFails`). `SharedPromises`, `SharedRefinement` and `SharedService` say of it what
the theorems above say of `Spec`. The modules that extend the manager show that they
imply `SharedSpec` (`SocketsShare`, `AttemptsShare`) and have its theorems from there.

`CallInv` ties the calls of appendMarkdown to the queue: an append is queued once
and its call is open, and the text of a call that was not made is in no copy, no
capture and no transaction. `ManagerMoves` says that the manager answers a call
with an error only where something failed. ContentOperation_proofs uses both.

**NodeQueue_proofs.** `ExclusionHolds`, `OrderHolds` (`StartsInOrder`: tasks start
in the order of the calls), `EntryRemoved`. A call waits for its predecessor only,
so `IInv` says nothing can be between: the map's entry is the youngest link of its
node and is forgotten only when nobody of it is active, a call and its predecessor
are neighbours in the order of arrival, and whatever started found everything
older settled.

`ChainsAreLines` is the step simulation behind `ImplementsTaskLine`: the chain of any
node is a line served in order, one at a time. No variable holds the line. Tickets
are dense (`TicketsAreHeld`: every ticket given out has a call) and the settled calls
of a node are those below some ticket (`SettledAreFirst`), so that `Served`, the first
ticket that has not settled, has one value and nobody after it has settled. Chaining
a call adds the next ticket; settling can only be of the lowest (`RunnerIsFirst`); a
`finally` and a call of another node move nothing. `ChainsNeverBlock`: the head of a
line that is not empty can always go on.

**FlushPool_proofs.** `PoolUsesQueue`: every behaviour of the pool is one of
`NodeQueue`, whose theorems therefore hold of it. `RInv` says where each flush of
a round is: asked for exactly if its node is taken (`CursorIsRight`), and, while
it is under way, awaited by a worker. As workers and the nodes they are at are
counted together, `RoundIsBounded` is a statement about cardinalities that every
`TakeNext` preserves (one node leaves, one comes, and they differ because a list
names each node once); `RoundIsComplete` is what is left when nobody is at a node.
`PoolChainsAreLines` takes the simulation over; `WorkersNeverBlock` is the safety half
of `RoundsEnd`: whoever awaits a flush awaits a chain in which somebody can go on, and
whoever came back has a node nobody of its round has called a flush for.

**FileAttachments_proofs.** A sync is a plan made at `Diff` and carried out over
several statements. `Outcome` is what the rows of its node will be if it is carried
out from where it stands. `RowsInv` has three parts besides the types: if a node's
last sync began alone, no two of its syncs run (`SoleUntilOverlap`); a node with a
sync left behind is stale or had one begin beside it (`LeftIsNoticed`); and where
neither is so, the
outcome is the files that were captured, `refs` and `erased` together
(`OutcomeIsCaptured`). It is inductive whatever is rejected and however often, and
gives `RowsAreRight`. What it does not give is in the statement: after a save beside
one left behind the rows may be anything that two plans carried out in any order
make of them, until the next save that has the node for itself. For
`StatusKeepsUp` the invariant names, for every file whose status is not right
yet, the sync that is about to mark it. `UnsharedIsExact` delimits `Files_race`: as long
as every file is shown by one document only (`Unshared`, for any assignment of files to
nodes) and no statement or SET rejects, exactly the attached files are ACTIVE once no
sync runs or is due. A file in two documents is what the race needs.

**SaveToDb_proofs.** `SaveUsesSync` maps every step of a save to a step of the sync
or to none, so that `SavedRowsAreRight` and `SavedStatusKeepsUp` need no argument of
their own. `CacheIsCurrent`: an outdated cache that is not forsaken has a save under way whose
DEL is to come, or a node that is stale. `OlderWritesSurvive`: what a save has seen is
the field, unless it was overtaken, by the API server or by another save of the node
that had seen more.

**Replicas_proofs.** All four properties, and `Refinement`: the document behind the
browsers is a `DurableDoc`. The invariant `RepInv` has three parts: the types of
what is on its way; that a document is never empty and has one tree (`Body`); and
for every socket what relates the two ends of its link (`Linked`). After the
server's last SyncStep1 no message brings the browser anything the document lacks
(`FromDocument`); after the browser's last leave no message brings the server
anything the browser does not show (`FromReplica`); what the browser shows and the
document lacks was sent since that SyncStep1 (`Offered`); and what the document
has and the browser lacks is on its way, withheld, or missing from a vector that
is on its way up (`Reaches`). The conditions on the last SyncStep1 and the last
leave are needed because a browser may close and open a node before the
messages of the first time have arrived. `BrowsersAgree` puts the two directions
together: what one browser shows and another does not was withheld from that one,
relayed past the document by the bus, or is an append being saved.

**ContentOperation_proofs.** `OneSuccess`: the claim alone does not show it. Who
appends holds its key, who succeeded left one that never lapses, and no two
attempts of a command are past SET NX. It holds whatever Redis, the database and
the process do, as long as no claim lapses under its append. `AppendsOnce` adds
the manager's invariants: what is in the document comes from a call, and while
nothing fails who called is admitted, of whom a key has one. `SuccessStored`
follows a "duplicate" back through the response in Redis to the attempt that
succeeded, and from there to the row (`AnswersAreBacked`, `ServedInv`); with
`StrayMessages = FALSE`, as in `Appends.cfg`, it holds of a Redis that may reject,
until it does. `OpTypeCorrect` is on the way to both. `OperationsKeepPromises`: under any
number of callers and retries the manager is still one `DurableDoc` that keeps its
promises. `ClaimsNeverStuck`, the safety half of `ClaimsEnd`: a claim in progress may
lapse, or an attempt holds it whose append is queued or answered.

**Gateway_proofs.** The gateway's own steps change `clients` and `rooms` in the
same turn; `InternalSteady` shows what the manager may do to the sockets by
itself (only take them all away, and only where the node is gone or nobody has
the document open). `GwInv` follows for any sockets and users:
`RegistrationsTracked`, `RoomsServed`, `ClosedLeft`. Presence is apart from the
manager, whose steps leave it alone; `PresenceInv` says that a handler which goes
on after its socket has gone is one that Disconnect found hasty, that from HSET on
a user is listed or expired and never both, and that whoever is listed without
being shown has a handler under way. From it `ListedConnected`, `JoinedListed` and
`PresenceSeen`. `SocketsKeepPromises` and `JoinsGoOn` are the manager's promises behind
these handlers, whichever presence command or membership query rejects; `RoomsKeepDoc`
joins the two books: while a socket is in the room of an existing node, only a crash
takes the document, and nothing the room has seen is taken back.

Assumptions on constants are named in the modules (`OpAssumption`: appends are
not sent by sockets; `NullAssumption`; `AttemptAssumption`: requests and
deliveries have different keys, as user ids and actors differ; ...).

**Only model-checked**: everything under fairness (`InsertsReachDb`,
`AppendsAreAnswered`, `GoneDocIsDropped`, `EmptyDocIsEvicted`, `RoundsEnd`,
`RowsCatchUp`, `ClaimsEnd`, and the fairness of `ImplementsTaskLine`: beyond the
prover). Of most of these the part that is safety is proved, that nothing is ever in a
state from which fairness could not bring it on: `NobodyForgotten`, `WorkersNeverBlock`,
`ClaimsNeverStuck`, `ChainsAreLines`. Every invariant and every other action property of
a passing run has its theorem.

## 8. What the runs found

Each of these is a run that ends in a counterexample, and a finding in
`PROJECT.json` with the line it contradicts.

* `YjsDoc_stray` (:274). `Promise.all` rejects as soon as the SET does; the task
  ends, the next flush starts, and the first one's transaction is still open.
  It may commit after the newer one and put its older state over it, while
  `lastSavedStateVector` is the newer one's, so that the next flush is skipped.
  The attachment sync of that save is left behind in the same way, see below.
* `YjsDoc_erase` (:262). A deletion does not change the state vector. A flush
  after a deletion is skipped: only Redis gets it, for 24 h, and a file that was
  removed keeps its attachment until something is inserted (`erased`).
* `YjsDoc_viewer` (ws.gateway.ts:346). A viewer's update is merged before the
  role is looked at, and stored by the next flush of anybody's edit.
* `Files_race`. The count and the mark are two statements; a file another node
  attaches in between ends ORPHAN while it is referenced.
* `Appends_twice`. When an append's save rejects, the text stays in the document
  and the key is given back: the same command sent again appends it twice.

Met while modelling, and visible in the conditions of passing properties rather
than in a run of their own:

* `appendMarkdown` cancels the idle timer through `getOrCreateDoc` (:62) and
  only a leaving socket arms one: a document opened by an append alone stays in
  memory. Hence `AppendFree` in `EmptyDocIsEvicted`.
* An edit that arrives while a save is under way sets `dirtyForEmbed`, and the
  end of that save clears it (:290): if that is the last edit, its text is
  stored but not re-embedded until the next one. `EmbedJobsAreDurable`, which
  `PromisesKept` proves, says only the converse.
* A socket that goes while its `yjs:join` awaits the load is registered after
  `handleDisconnect` ran: nobody will remove it, and the document is never evicted
  (`hasty` in `ClosedHasLeft`).
* Rounds of `flushAll` overlap when one takes longer than the interval, and each
  brings `FLUSH_CONCURRENCY` workers. The comment at yjs.constants.ts:23-28 reckons
  with that many transactions at once; `PoolIsBounded` holds per round.
* A save that a rejected SET left behind carries out its diff beside the node's next
  save, or after it: an older `createAttachments` or `deleteAttachments` may be the
  last, and the vector of the newer save is recorded, so that the rows stay wrong
  until something is inserted (`overlapped` in `RowsFollowContent` and `RowsCatchUp`).
* A field of `content` that the API server writes between the read and the write
  of a save is overwritten (`overtaken` in `OlderApiWritesSurvive`).
* A DEL of the sync cache that rejects, and a commit whose sync rejects, leave the
  cache showing the old row: the first until the next save or write of the API
  server, the second until the flush that is due again is through, or likewise until
  the next save if a rejected SET had left it behind (`"forsaken"` in
  `SnapshotIsCurrent`).
  A process that dies between commit and DEL leaves it until the cache expires.
* A YJS_UPDATE event reaches the browsers and not the document (`Bus` in
  `DocumentHasWhatIsShown`): the browsers send it back with the handshake after
  the next join, if they still have it.
* What a browser did offline comes as a SyncStep2, which is not relayed: the
  others see it with their next handshake (`withheld` in `RoomShowsDocument`). The
  same goes for a viewer's updates, and for an append whose save was rejected.
* A node that has only `markdownBody` gets a document with new ids. If a browser
  has one and the process dies, or the document is evicted unsaved, before the
  first save, the next load builds another and the handshake merges both: the
  text is there twice (`faults = 0` in `BodyIsBuiltOnce`).
* A skipped flush clears `dirtyForEmbed` too (:264), and so does one whose RPUSH
  rejects: the job is lost (embed-queue.service.ts:22).
* A sync whose `markFilesActive` rejects leaves an attached file PENDING, and one
  whose count or last mark rejects after the delete leaves a file without
  references ACTIVE: the next sync finds nothing to do. Hence `failures = 0` in
  `NoStatusLagsBehind`, and nothing of the kind in `RowsFollowContent`: the rows
  themselves are made right by the next save that runs alone.
* Presence is a field per user: closing one of two tabs removes a member who is
  still connected (the condition on the other sockets in `JoinedIsListed`); HDEL
  may be issued before the HSET of the same socket, and the user then stays
  listed (`hasty` in `ListedIsConnected`); a crash leaves its users listed; and
  only a join renews the expiry, so that a workspace nobody joins for a day loses
  its members without a message (`lapsed` in `JoinedIsListed`, `RoomSeesPresence`).
* A presence command that rejects on disconnect ends `handleDisconnect` before
  the documents are left (`failures = 0` in `ClosedHasLeft`).
* After NODE_DELETE the sockets stay in the room of a document that is gone
  (`row = "live"` in `RoomIsServed`).

## 9. Abstractions, and what is not modelled

* Redis commands of the one connection take effect in the order they are issued
  and are answered in that order; what an answer carries is read when it comes
  back. A rejected command may have been applied. HSET and EXPIRE of a join are
  one step, so that a hash without expiry is not seen.
* In `YjsDocManager` `updateNodeRow` is one step: with one writer of `yjs_state`
  its read and its write are not told apart; `SaveToDb` tells them apart for
  `content`. The two see `NodeGoneError` (the manager) and the statements of the
  sync (`SaveToDb`) each by itself.
* `version` is not modelled: it is incremented by the row's own lock and only
  copied into answers. What `expectedVersion` promises is therefore not stated
  either; the refusal is a free choice of `LookUp`. The version it is compared with
  was read before the append is queued (node-content.service.ts:97), so that
  another append may be saved in between.
* `yjs-doc` keys do not expire under a document that is loaded (every flush
  renews them); `RedisExpires` covers the rest. Keys that live a day in
  `ContentOperation` are not seen to expire; claims of 60 s lapse, under a running
  append only if `ClaimsMayLapse`.
* A socket joins its workspace once, memberships and roles do not change (the
  membership is kept for the life of a socket, ws.gateway.ts:284, and no text says
  for how long it may be trusted), and there is one workspace and one process.
* Messages of a socket keep their order in `Replicas`, and its browser never sends
  an update whose operations follow others the document lacks: causally pending
  structs, which Yjs keeps aside, do not come up, and a document is a set.
* `SaveToDb` has no crash and no eviction: a new load appears as an `Edit` that makes
  the node stale, with the files the load shows. What a crash in the middle of a sync
  leaves is what a rejected statement leaves, and the first flush after a load saves.
* The API server's cache fill is one step in `SaveToDb`: a fill that reads the rows
  before a save commits and writes the key after its DEL is the API server's race.
* A rejected RPUSH loses the embed job (`EnqueueEmbed`) and nothing else; errors of
  the sync cache have no effect. `EventBusSubscriber` swallows those of a delivery.
* `onModuleDestroy` runs only when Nest closes the application, and nothing
  enables its shutdown hooks: the process ends by `Crash`.
* `applyUpdate` of the manager and `releaseNodeAttachments`, `markFilesDeleted`,
  `findStaleFiles` have no caller under `src/src`.
* An append is one operation. The code converts the document to Markdown and
  imports the longer text (markdown-yjs.ts:245-:256), which puts a new tree in
  place of the old one. The set of operations only grows, as the model says, but
  what Markdown does not express (images and files, :18) leaves the visible
  document, their attachments become ORPHAN with the next sync, and what a client
  types into the old tree before it hears of the append is merged and not seen.
  The test at test/yjs/markdown-yjs.spec.ts:248 only asks for text to survive.
  Which operations are visible depends on Lexical and is not modelled.
* Of the Markdown conversion (markdown-yjs.ts) the models have its effect on the
  set of operations. The node classes, the headless editor and its binding are
  library plumbing.
* The awareness snapshot (yjs-ws-awareness.service.ts) is a best-effort key of 30 s
  whose errors are dropped; relays (`node_position_live`, `yjs:awareness`, workspace
  events with their echo suppression) keep no state.
* Prisma and Redis clients, authentication, logging, metrics and HTTP plumbing keep
  no state the properties are about.

## 10. The plan

Done: the manager, its queue and pool, its promise, the save with its
attachments and its cache, the claims, the gateway, and the browsers' copies,
each with its runs before its proofs.

What could be modelled next:

1. **Membership over time**: roles that change and memberships that end, under the
   per-socket cache. It needs a statement of how long an answer may be trusted,
   which the repository does not make.
2. **Versions**: `version` as a counter of commits, and what a request with an
   `expectedVersion` may rely on.
3. **Several processes** sharing Redis and Postgres, each with its own document of
   a node, as two instances of `DurableDoc` over one row.
4. **The tree an append replaces**: which operations a tree makes visible, so that
   "typed beside an append and not seen" can be stated.

Proofs wanted: a counterpart of `NobodyForgotten` for `GoneDocIsDropped` and
`EmptyDocIsEvicted` (which timer or flush is due while a document should go), and
`PromisesUntilRejected` with stray messages under the weaker condition that no
rejected GET met an open transaction.
