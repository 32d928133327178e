------------------------------- MODULE Replicas -------------------------------
(***************************************************************************)
(* One node's document and the copies of it in the browsers: the sync      *)
(* handshake and the relays of src/src/domain/ws/controller/ws.gateway.ts, *)
(* with the appends and YJS_UPDATE events that reach the room.  The        *)
(* server's document and what a load finds are those of DurableDoc, which  *)
(* YjsDocManager implements.  Messages of one socket keep their order and  *)
(* are lost when it disconnects; the browser keeps its copy and its edits. *)
(* The client is modelled from what the server expects of it.              *)
(***************************************************************************)
EXTENDS Integers, Sequences, FiniteSets

CONSTANTS
  Client, Viewer,           \* sockets, and those whose membership is VIEWER
  Typed, Deletion,          \* operations made in browsers; those that only delete
  Appended,                 \* by NodeContentService
  Bus,                      \* in YJS_UPDATE events
  Boot,                     \* trees built from markdownBody, with new ids each time
  Null,
  MaxEvents                 \* bound of the exploration: what happens from outside

Op == Typed \cup Appended \cup Bus \cup Boot

ASSUME ClientAssumption == Viewer \subseteq Client
ASSUME RepOpAssumption ==
  /\ Deletion \subseteq Typed /\ Bus \cap (Typed \cup Appended \cup Boot) = {}
  /\ Boot \cap (Typed \cup Appended) = {} /\ Typed \cap Appended = {}
  /\ Null \notin Op /\ \A state \in SUBSET Op : Null # state
ASSUME RepBoundAssumption == MaxEvents \in Nat

VARIABLES
  content,   \* the document in memory, or Null
  saved,     \* what a load of the document finds; {} while there is only markdownBody
  appending, \* the operation of the append whose save is under way, or Null
  room,      \* the sockets in yjs:<node>
  mode,      \* of the browser: "away", "joining" or "open"
  replica,   \* its copy of the document
  up, down,  \* messages on their way from and to it
  born,      \* operations that were made
  withheld,  \* what was merged beside a socket in the room and not sent to it (ghost)
  events, faults

serverVars == <<content, saved, appending>>
bounds == <<events, faults>>
vars == <<serverVars, room, mode, replica, up, down, born, withheld, bounds>>

Message ==
  [type : {"join", "leave"}] \cup
  [type : {"step1"}, vector : SUBSET Op] \cup
  [type : {"step2", "update"}, ops : SUBSET Op]

(* Values; a socket in the room has a document, and nothing exists unmade. *)
RepTypeOK ==
  /\ content \in {Null} \cup SUBSET Op /\ saved \in SUBSET Op
  /\ appending \in {Null} \cup Appended
  /\ room \in SUBSET Client /\ mode \in [Client -> {"away", "joining", "open"}]
  /\ replica \in [Client -> SUBSET born] /\ born \in SUBSET Op
  /\ up \in [Client -> Seq(Message)] /\ down \in [Client -> Seq(Message)]
  /\ withheld \in [Client -> SUBSET Op]
  /\ events \in Nat /\ faults \in Nat
  /\ room # {} => content # Null
  /\ appending # Null => content # Null /\ appending \in content

RepInit ==
  /\ content = Null /\ saved = {} /\ appending = Null
  /\ room = {} /\ mode = [c \in Client |-> "away"]
  /\ replica = [c \in Client |-> {}] /\ withheld = replica
  /\ up = [c \in Client |-> <<>>] /\ down = up
  /\ born = {} /\ events = 0 /\ faults = 0

------------------------------------------------------------------------------
(* What the messages carry. *)

(* Y.encodeStateVector: insertions only. *)
Vector(ops) == ops \ Deletion

(* Y.encodeStateAsUpdate against a vector: what it lacks, and every deletion. *)
Missing(ops, vector) == ops \ vector

Join == [type |-> "join"]
Leave == [type |-> "leave"]
Step1(ops) == [type |-> "step1", vector |-> Vector(ops)]
Step2(ops, vector) == [type |-> "step2", ops |-> Missing(ops, vector)]
Update(op) == [type |-> "update", ops |-> {op}]

Emit(sockets, message) ==
  down' = [c \in Client |-> IF c \in sockets THEN Append(down[c], message) ELSE down[c]]

(* Merged, and not sent to these sockets. *)
Withhold(sockets, ops) ==
  withheld' = [c \in Client |->
                 IF c \in sockets THEN withheld[c] \cup (ops \ content) ELSE withheld[c]]

Settle(c) == withheld' = [withheld EXCEPT ![c] = {}]

------------------------------------------------------------------------------
(* The document. *)

(* markdownToYjsUpdate: a tree with ids that no other document has. *)
Built == {{b} : b \in Boot \ born}

(* loadFromDb: the state, or a tree built from markdownBody if there is none. *)
Loadable == IF saved = {} THEN Built ELSE {saved}

(* getOrCreateDoc, with the operations the caller then merges. *)
Open(added) ==
  \/ /\ content # Null /\ content' = content \cup added
     /\ born' = born \cup added
  \/ /\ content = Null
     /\ \E state \in Loadable :
          /\ content' = state \cup added
          /\ born' = born \cup state \cup added

Event == events < MaxEvents /\ events' = events + 1

(* A flush; what it captures when is the business of YjsDocManager. *)
Flush ==
  /\ content # Null /\ saved' = saved \cup content
  /\ UNCHANGED <<content, appending, room, mode, replica, up, down, born, withheld, bounds>>

(* Mutant: eviction does not wait for the flush of the last leave. *)
EvictAtOnce == TRUE

Flushed == content \subseteq saved

(* Mutant: sockets that came back are not looked for. *)
NoAppend == appending = Null

Unused == room = {} /\ appending = Null

(* The idle timer, long after the flush that the last leave queued. *)
Evict ==
  /\ content # Null /\ Unused /\ Flushed
  /\ content' = Null /\ UNCHANGED saved
  /\ UNCHANGED <<appending, room, mode, replica, up, down, born, withheld, bounds>>

Fault == Event /\ faults' = faults + 1

(* The same when no save has gone through in the meantime. *)
EvictUnsaved ==
  /\ Fault
  /\ content # Null /\ Unused /\ ~Flushed
  /\ content' = Null /\ UNCHANGED saved
  /\ UNCHANGED <<appending, room, mode, replica, up, down, born, withheld>>

(* The process ends, and with it the sockets and what was on its way. *)
Crash ==
  /\ Fault
  /\ content' = Null /\ appending' = Null
  /\ room' = {} /\ mode' = [c \in Client |-> "away"]
  /\ up' = [c \in Client |-> <<>>] /\ down' = up'
  /\ withheld' = [c \in Client |-> {}]
  /\ UNCHANGED <<saved, replica, born>>

------------------------------------------------------------------------------
(* The gateway's handlers, one message of a socket each. *)

Handles(c, type) ==
  /\ up[c] # <<>> /\ Head(up[c]).type = type
  /\ up' = [up EXCEPT ![c] = Tail(@)]

clientVars == <<mode, replica>>

(* handleYjsJoin, once the membership is known and the document loaded: room, then
   SyncStep1. *)
HandleJoin(c) ==
  /\ Handles(c, "join")
  /\ Open({})
  /\ room' = room \cup {c}
  /\ Emit({c}, Step1(content'))
  /\ UNCHANGED <<saved, appending, clientVars, withheld, bounds>>

HandleLeave(c) ==
  /\ Handles(c, "leave")
  /\ room' = room \ {c} /\ Settle(c)
  /\ UNCHANGED <<serverVars, clientVars, down, born, bounds>>

(* Mutant: only what is saved is sent. *)
AnswerWithSaved(vector) == Step2(saved, vector)

Answer(vector) == Step2(content, vector)

(* A SyncStep1 is answered with what its sender lacks. *)
HandleStep1(c) ==
  /\ content # Null /\ Handles(c, "step1")
  /\ Emit({c}, Answer(Head(up[c]).vector)) /\ Settle(c)
  /\ UNCHANGED <<serverVars, room, clientVars, born, bounds>>

(* A SyncStep2 is merged: no relay and no scheduleSave. *)
HandleStep2(c) ==
  /\ content # Null /\ Handles(c, "step2")
  /\ content' = content \cup Head(up[c]).ops
  /\ Withhold(room \ {c}, Head(up[c]).ops)
  /\ UNCHANGED <<saved, appending, room, clientVars, down, born, bounds>>

(* Mutant: the update is applied by the save, which a viewer does not reach. *)
MergeNothing(ops) == content

Merge(ops) == content \cup ops

(* An update is merged, and relayed unless the join of its sender found it a viewer. *)
HandleUpdate(c) ==
  /\ content # Null /\ Handles(c, "update")
  /\ content' = Merge(Head(up[c]).ops)
  /\ IF c \in Viewer
       THEN Withhold(room \ {c}, Head(up[c]).ops) /\ UNCHANGED down
       ELSE Emit(room \ {c}, Head(up[c])) /\ UNCHANGED withheld
  /\ UNCHANGED <<saved, appending, room, clientVars, born, bounds>>

------------------------------------------------------------------------------
(* What reaches the room without a socket. *)

(* appendMarkdown merges and captures in one turn; the answer is awaited. *)
AppendMerges(op) ==
  /\ appending = Null /\ op \notin born /\ appending' = op
  /\ Open({op})
  /\ Event /\ UNCHANGED <<saved, room, clientVars, up, down, withheld, faults>>

(* Saved: the update is broadcast to the whole room. *)
AppendSaved ==
  /\ appending # Null /\ appending' = Null
  /\ saved' = saved \cup content
  /\ Emit(room, Update(appending))
  /\ UNCHANGED <<content, room, clientVars, up, born, withheld, bounds>>

(* Not saved: the text stays in the document and nobody is told. *)
AppendRejected ==
  /\ Fault
  /\ appending # Null /\ appending' = Null
  /\ withheld' = [c \in Client |->
                    IF c \in room THEN withheld[c] \cup {appending} ELSE withheld[c]]
  /\ UNCHANGED <<content, saved, room, clientVars, up, down, born>>

(* A YJS_UPDATE event is relayed and not merged. *)
RelayBusUpdate(op) ==
  /\ op \notin born /\ born' = born \cup {op}
  /\ Emit(room, Update(op))
  /\ Event /\ UNCHANGED <<serverVars, room, clientVars, up, withheld, faults>>

------------------------------------------------------------------------------
(* External: the browsers. *)

OpenNode(c) ==
  /\ mode[c] = "away" /\ mode' = [mode EXCEPT ![c] = "joining"]
  /\ Event
  /\ up' = [up EXCEPT ![c] = Append(@, Join)]
  /\ UNCHANGED <<serverVars, room, replica, down, born, withheld, faults>>

(* The editor is closed and its copy with it. *)
CloseNode(c) ==
  /\ Event
  /\ mode[c] # "away" /\ mode' = [mode EXCEPT ![c] = "away"]
  /\ replica' = [replica EXCEPT ![c] = {}]
  /\ up' = [up EXCEPT ![c] = Append(@, Leave)]
  /\ UNCHANGED <<serverVars, room, down, born, withheld, faults>>

(* The socket goes, what was under way is lost, and the editor stays open. *)
Disconnect(c) ==
  /\ Event
  /\ mode[c] # "away" /\ mode' = [mode EXCEPT ![c] = "away"]
  /\ up' = [up EXCEPT ![c] = <<>>] /\ down' = [down EXCEPT ![c] = <<>>]
  /\ room' = room \ {c} /\ Settle(c)
  /\ UNCHANGED <<serverVars, replica, born, faults>>

(* An edit; offline or before the handshake it goes with the next SyncStep2. *)
Type(c, op) ==
  /\ op \notin born /\ born' = born \cup {op}
  /\ mode[c] # "away" \/ replica[c] # {}
  /\ replica' = [replica EXCEPT ![c] = @ \cup {op}]
  /\ up' = IF mode[c] = "open" THEN [up EXCEPT ![c] = Append(@, Update(op))] ELSE up
  /\ UNCHANGED <<serverVars, room, mode, down, withheld, bounds>>

Receives(c) == down[c] # <<>> /\ down' = [down EXCEPT ![c] = Tail(@)]

(* The server's SyncStep1 is answered, and the client sends its own. *)
ReceiveStep1(c) ==
  /\ Receives(c) /\ mode[c] # "away" /\ Head(down[c]).type = "step1"
  /\ mode' = [mode EXCEPT ![c] = "open"]
  /\ up' = [up EXCEPT ![c] =
              @ \o <<Step2(replica[c], Head(down[c]).vector), Step1(replica[c])>>]
  /\ UNCHANGED <<serverVars, room, replica, born, withheld, bounds>>

ReceiveOps(c) ==
  /\ Receives(c) /\ mode[c] # "away" /\ Head(down[c]).type # "step1"
  /\ replica' = [replica EXCEPT ![c] = @ \cup Head(down[c]).ops]
  /\ UNCHANGED <<serverVars, room, mode, up, born, withheld, bounds>>

ReceiveClosed(c) ==
  /\ Receives(c) /\ mode[c] = "away"
  /\ UNCHANGED <<serverVars, room, mode, replica, up, born, withheld, bounds>>

------------------------------------------------------------------------------
RepNext ==
  \/ Flush \/ Evict \/ EvictUnsaved \/ Crash \/ AppendSaved \/ AppendRejected
  \/ \E op \in Appended : AppendMerges(op)
  \/ \E op \in Bus : RelayBusUpdate(op)
  \/ \E c \in Client :
       \/ HandleJoin(c) \/ HandleLeave(c)
       \/ HandleStep1(c) \/ HandleStep2(c) \/ HandleUpdate(c)
       \/ OpenNode(c) \/ CloseNode(c) \/ Disconnect(c)
       \/ ReceiveStep1(c) \/ ReceiveOps(c) \/ ReceiveClosed(c)
       \/ \E op \in Typed : Type(c, op)

RepSpec == RepInit /\ [][RepNext]_vars

------------------------------------------------------------------------------
(* A browser in the room whose messages have all arrived. *)
Synced(c) == c \in room /\ mode[c] = "open" /\ up[c] = <<>> /\ down[c] = <<>>

(* A browser shows what the document has, except for what was merged beside it
   without a relay since its handshake (a SyncStep2, a viewer's update, an append
   whose save failed) and the append whose save is under way. *)
RoomShowsDocument ==
  \A c \in Client : Synced(c) => content \ replica[c] \subseteq withheld[c] \cup {appending}

(* What a browser shows is in the document, and so in the next save, whatever was lost
   with earlier connections and processes; only what the event bus relayed may not be. *)
DocumentHasWhatIsShown == \A c \in Client : Synced(c) => replica[c] \subseteq content \cup Bus

(* The text of markdownBody is in the document once, as long as no process ends and no
   document leaves the memory before its first save. *)
BodyIsBuiltOnce ==
  faults = 0 => /\ content # Null => Cardinality(content \cap Boot) <= 1
                /\ Cardinality(saved \cap Boot) <= 1
=============================================================================
