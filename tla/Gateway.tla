------------------------------- MODULE Gateway -------------------------------
(***************************************************************************)
(* The sockets of src/src/domain/ws/controller/ws.gateway.ts and presence  *)
(* (presence.service.ts), for one workspace with one node, on top of the   *)
(* document manager.  Each handler is cut where it awaits; what it does    *)
(* afterwards it does even if its socket is gone by then.  A socket joins  *)
(* the workspace once.                                                     *)
(* Commands are answered in order, so a broadcast shows the hash as it is  *)
(* when HGETALL is answered.                                               *)
(***************************************************************************)
EXTENDS YjsDocManager

CONSTANTS
  User, UserOf,     \* client.data.userId
  PresenceMayFail   \* Redis may reject a presence command

ASSUME UserAssumption == UserOf \in [Client -> User]
ASSUME PresenceAssumption == PresenceMayFail \in BOOLEAN

VARIABLES
  link,        \* "off", "on", "leaving" (handleDisconnect awaits) or "closed"
  hello,       \* join_workspace: "no", "asking", "greeting", "adding", "done"
  membership,  \* membershipCache: "unknown", "asking", "member", "refused"
  rooms,       \* the sockets whose yjsRooms entry has the node
  presence,    \* the users in the Redis hash
  lapsed,      \* ghost: who was in the hash when it expired and has not been set since
  shown,       \* the members of the last presence_state
  hasty        \* ghost: sockets that went while a handler of theirs had yet to act

hashVars == <<presence, lapsed>>
presenceVars == <<hashVars, shown>>
socketVars == <<link, hello, membership, rooms, hasty>>
gwVars == <<vars, socketVars, presenceVars>>

(* Values; only members are in the node's room or wait for its document. *)
GwTypeOK ==
  /\ link \in [Client -> {"off", "on", "leaving", "closed"}]
  /\ hello \in [Client -> {"no", "asking", "greeting", "adding", "done"}]
  /\ membership \in [Client -> {"unknown", "asking", "member", "refused"}]
  /\ rooms \in SUBSET Client /\ hasty \in SUBSET Client
  /\ presence \in SUBSET User /\ lapsed \in SUBSET User /\ shown \in SUBSET User
  /\ \A c \in rooms \cup waiting : membership[c] = "member"

GwInit ==
  /\ Init
  /\ link = [c \in Client |-> "off"] /\ hello = [c \in Client |-> "no"]
  /\ membership = [c \in Client |-> "unknown"]
  /\ rooms = {} /\ hasty = {} /\ presence = {} /\ lapsed = {} /\ shown = {}

(* client.data.workspaceId is set. *)
InWorkspace(c) == hello[c] \in {"greeting", "adding", "done"}

LinkGoes(c, to) == link' = [link EXCEPT ![c] = to]
HelloGoes(c, to) == hello' = [hello EXCEPT ![c] = to]
MembershipGoes(c, to) == membership' = [membership EXCEPT ![c] = to]

(* Mutant: nobody is told that a member left. *)
ShowNewcomer(c) == IF link[c] = "leaving" THEN UNCHANGED shown ELSE shown' = presence

(* broadcastPresence. *)
Show(c) == shown' = presence

------------------------------------------------------------------------------
(* handleConnection and join_workspace. *)

Connect(c) ==
  /\ link[c] = "off" /\ LinkGoes(c, "on")
  /\ UNCHANGED <<vars, hello, membership, rooms, hasty, presenceVars>>

AskWorkspace(c) ==
  /\ link[c] = "on" /\ hello[c] = "no" /\ HelloGoes(c, "asking")
  /\ UNCHANGED <<vars, link, membership, rooms, hasty, presenceVars>>

(* checkWorkspace: refused, or in the workspace and waiting for the awareness cache. *)
EnterWorkspace(c) ==
  /\ hello[c] = "asking" /\ \E to \in {"no", "greeting"} : HelloGoes(c, to)
  /\ UNCHANGED <<vars, link, membership, rooms, hasty, presenceVars>>

(* Mutant: HSET is left to the next event of the socket. *)
EnlistNobody(c) == UNCHANGED hashVars

Enlist(c) ==
  presence' = presence \cup {UserOf[c]} /\ lapsed' = lapsed \ {UserOf[c]}

(* HSET, then EXPIRE. *)
Announce(c) ==
  /\ hello[c] = "greeting" /\ HelloGoes(c, "adding") /\ Enlist(c)
  /\ UNCHANGED <<vars, link, membership, rooms, hasty, shown>>

Greet(c) ==
  /\ hello[c] = "adding" /\ HelloGoes(c, "done") /\ Show(c)
  /\ UNCHANGED <<vars, link, membership, rooms, hasty, hashVars>>

(* HSET, applied or not, or what follows it rejects: nothing is broadcast. *)
HelloRejects(c) ==
  /\ PresenceMayFail /\ Fail
  /\ \/ hello[c] = "greeting" /\ (UNCHANGED hashVars \/ Enlist(c))
     \/ hello[c] = "adding" /\ UNCHANGED hashVars
  /\ HelloGoes(c, "done")
  /\ UNCHANGED <<storeVars, loadVars, docVars, spare, queue, flightVars, stray, ghostVars, crashes,
                 link, membership, rooms, hasty, shown>>

------------------------------------------------------------------------------
(* yjs:join and yjs:leave. *)

(* Mutant: the node is not added to yjsRooms. *)
TrackNone(members) == UNCHANGED rooms

(* With addClient, in the same turn. *)
Track(members) == rooms' = rooms \cup members

(* getOrCreateDoc, and the registration if the document is there. *)
JoinDoc(c) ==
  \/ JoinLoaded(c) /\ Track({c})
  \/ (JoinLoading(c) \/ JoinStartsLoad(c)) /\ UNCHANGED rooms

(* Mutant: the answer is not kept. *)
CacheNothing(c, answer) == UNCHANGED membership

(* client.data.membershipCache, for the life of the socket. *)
CacheAnswer(c, answer) == MembershipGoes(c, answer)

AskMembership(c) ==
  /\ link[c] = "on" /\ InWorkspace(c)
  /\ membership[c] = "unknown" /\ MembershipGoes(c, "asking")
  /\ UNCHANGED <<vars, link, hello, rooms, hasty, presenceVars>>

RefuseMember(c) ==
  /\ membership[c] = "asking" /\ CacheAnswer(c, "refused")
  /\ UNCHANGED <<vars, link, hello, rooms, hasty, presenceVars>>

AcceptMember(c) ==
  /\ membership[c] = "asking" /\ CacheAnswer(c, "member")
  /\ JoinDoc(c)
  /\ UNCHANGED <<link, hello, hasty, presenceVars>>

(* A later yjs:join finds the membership in client.data. *)
JoinAgain(c) ==
  /\ link[c] = "on" /\ membership[c] = "member" /\ c \notin waiting
  /\ JoinDoc(c)
  /\ UNCHANGED <<link, hello, membership, hasty, presenceVars>>

(* The joins that awaited the load go on. *)
Installed ==
  /\ InstallDoc \/ InstallDocForAppend
  /\ Track(waiting)
  /\ UNCHANGED <<link, hello, membership, hasty, presenceVars>>

(* Mutant: the node stays in yjsRooms. *)
UntrackNone(c) == UNCHANGED rooms

Untrack(c) == rooms' = rooms \ {c}

(* removeClient does nothing where no document is loaded. *)
RemoveClient(c) == IF loaded THEN Leave(c) ELSE UNCHANGED vars

YjsLeave(c) ==
  /\ link[c] = "on" /\ (c \in rooms \/ StrayMessages)
  /\ RemoveClient(c) /\ Untrack(c)
  /\ UNCHANGED <<link, hello, membership, hasty, presenceVars>>

(* checkWorkspace rejects, and the handler that awaits it: nothing is kept, and
   a later message may ask again. *)
CheckRejects(c) ==
  /\ DbMayFail /\ Fail
  /\ \/ hello[c] = "asking" /\ HelloGoes(c, "no") /\ UNCHANGED membership
     \/ membership[c] = "asking" /\ MembershipGoes(c, "unknown") /\ UNCHANGED hello
  /\ UNCHANGED <<storeVars, loadVars, docVars, spare, queue, flightVars, stray, ghostVars, crashes,
                 link, rooms, hasty, presenceVars>>

------------------------------------------------------------------------------
(* handleDisconnect. *)

(* Mutant: the hash is left alone. *)
StrikeNobody(c) == UNCHANGED hashVars

(* HDEL of the user, whichever of their sockets it is. *)
Strike(c) ==
  presence' = presence \ {UserOf[c]} /\ lapsed' = lapsed \ {UserOf[c]}

Hurry(c) ==
  hasty' = IF hello[c] \in {"asking", "greeting"} \/ membership[c] = "asking" \/ c \in waiting
           THEN hasty \cup {c} ELSE hasty

Disconnect(c) ==
  /\ link[c] = "on" /\ Hurry(c)
  /\ IF InWorkspace(c) THEN LinkGoes(c, "leaving") /\ Strike(c)
     ELSE LinkGoes(c, "closed") /\ UNCHANGED hashVars
  /\ UNCHANGED <<vars, hello, membership, rooms, shown>>

(* Mutant: the documents are not left. *)
KeepDocs(c) == UNCHANGED <<vars, rooms>>

LeaveDocs(c) ==
  IF c \in rooms THEN RemoveClient(c) /\ Untrack(c) ELSE UNCHANGED <<vars, rooms>>

Farewell(c) ==
  /\ link[c] = "leaving" /\ LinkGoes(c, "closed")
  /\ Show(c) /\ LeaveDocs(c)
  /\ UNCHANGED <<hello, membership, hasty, hashVars>>

(* HDEL, applied or not, or HGETALL rejects: the documents are not left. *)
FarewellRejects(c) ==
  /\ PresenceMayFail /\ Fail
  /\ \/ link[c] = "on" /\ InWorkspace(c) /\ Hurry(c) /\ (UNCHANGED hashVars \/ Strike(c))
     \/ link[c] = "leaving" /\ UNCHANGED <<hasty, hashVars>>
  /\ LinkGoes(c, "closed")
  /\ UNCHANGED <<storeVars, loadVars, docVars, spare, queue, flightVars, stray, ghostVars, crashes,
                 hello, membership, rooms, shown>>

------------------------------------------------------------------------------
(* A day has passed since the last EXPIRE: only upsertPresence, a join, renews it. *)
HashExpires ==
  /\ presence # {} /\ presence' = {} /\ lapsed' = lapsed \cup presence
  /\ UNCHANGED <<vars, socketVars, shown>>

(* A yjs:sync message of any socket, and what the manager does by itself. *)
Message ==
  /\ \E c \in Client : link[c] = "on"
  /\ \E op \in Op : Update(op) \/ ViewerUpdate(op) \/ SyncStep2(op)

Internal ==
  \/ Message \/ LoadFromDb \/ TimerStep \/ SafetyFlush \/ TaskStart \/ TaskStep \/ Outside
  \/ \E op \in AppendOp : AppendRequested(op)

(* The sockets and their handlers go with the process, the hash does not. *)
GwCrash ==
  /\ Crash
  /\ link' = [c \in Client |-> IF link[c] = "off" THEN "off" ELSE "closed"]
  /\ hello' = [c \in Client |-> "no"] /\ membership' = [c \in Client |-> "unknown"]
  /\ rooms' = {} /\ hasty' = {} /\ shown' = {}
  /\ UNCHANGED hashVars

WorkspaceStep(c) ==
  Connect(c) \/ AskWorkspace(c) \/ EnterWorkspace(c) \/ Announce(c) \/ Greet(c) \/ HelloRejects(c)
YjsStep(c) ==
  AskMembership(c) \/ RefuseMember(c) \/ AcceptMember(c) \/ JoinAgain(c) \/ YjsLeave(c)
DisconnectStep(c) == Disconnect(c) \/ Farewell(c) \/ FarewellRejects(c)

GwNext ==
  \/ \E c \in Client : WorkspaceStep(c) \/ YjsStep(c) \/ CheckRejects(c) \/ DisconnectStep(c)
  \/ Installed \/ HashExpires
  \/ Internal /\ UNCHANGED <<socketVars, presenceVars>>
  \/ GwCrash

GwSpec == GwInit /\ [][GwNext]_gwVars
------------------------------------------------------------------------------
(* What handleDisconnect leaves is yjsRooms: a socket the manager has registered
   and yjsRooms does not know would keep the document for good. *)
RegisteredIsTracked == clients \subseteq rooms

(* As long as the node exists, no timer and no failed load takes the document
   from a socket in its room. *)
RoomIsServed == row = "live" /\ rooms # {} => loaded /\ rooms \subseteq clients

(* Unless Redis rejects, or it went in the middle of a join, a closed socket has
   left the document. *)
ClosedHasLeft == failures = 0 => \A c \in clients \ hasty : link[c] # "closed"

(* Nobody stays listed without a socket, but for those who went in the middle of
   join_workspace, failures and crashes. *)
ListedIsConnected ==
  failures = 0 /\ crashes = 0 =>
    \A u \in presence : \E c \in Client : UserOf[c] = u /\ (link[c] = "on" \/ c \in hasty)

(* A member whose join was answered is listed, as long as none of their other
   sockets has gone and the hash has not expired since somebody last joined for them. *)
JoinedIsListed ==
  failures = 0 =>
    \A c \in Client :
      /\ link[c] = "on" /\ hello[c] = "done"
      /\ \A other \in Client :
           UserOf[other] = UserOf[c] => link[other] \notin {"leaving", "closed"}
      => UserOf[c] \in presence \cup lapsed

(* presence_state: once no handler is under way, the room has seen the hash as it is,
   but for members whom the expiry took from it without a message. *)
Calm == \A c \in Client : link[c] # "leaving" /\ hello[c] # "adding"
RoomSeesPresence == Calm /\ failures = 0 /\ crashes = 0 => shown \ lapsed = presence
=============================================================================
