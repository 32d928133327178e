---------------------------- MODULE Gateway_proofs ----------------------------
(***************************************************************************)
(* What the manager has registered and what yjsRooms knows.  The argument  *)
(* is that both change in the same turn, that the manager alone only takes *)
(* sockets away, and does so only from a document of a node that is gone   *)
(* or that nobody has open.  Then presence, of which the manager knows     *)
(* nothing: its steps leave it alone.                                      *)
(***************************************************************************)
EXTENDS Gateway, YjsDocManager_proofs

(* What the gateway relies on: a document being loaded is not there yet, and one
   that is not there has no clients. *)
DocInv ==
  /\ clients \subseteq Client /\ waiting \subseteq Client /\ failures \in Nat
  /\ loading # "no" => ~loaded
  /\ ~loaded => clients = {}

(* What a step of the manager alone may do to the sockets of the document. *)
Steady ==
  /\ \/ clients' = clients /\ loaded' = loaded
     \/ ~loaded' /\ clients' = {} /\ (clients = {} \/ row # "live")
  /\ waiting' \subseteq waiting
  /\ loading' # "no" => ~loaded'
  /\ row' = "live" => row = "live"
  /\ failures' \in Nat /\ (failures' = 0 => failures = 0) /\ crashes' = crashes

(* Every step the manager takes by itself, and every message, is of that kind. *)
LEMMA InternalSteady ==
  ASSUME DocInv, Internal
  PROVE  Steady
<1> USE DEF DocInv, Steady, storeVars, loadVars, docVars, flightVars, ghostVars, faultVars, rest
<1>1. ASSUME NEW op \in Op, Update(op) PROVE Steady
  BY <1>1 DEF Update, Merge
<1>2. ASSUME NEW op \in Op, ViewerUpdate(op) PROVE Steady
  BY <1>2 DEF ViewerUpdate, Merge
<1>3. ASSUME NEW op \in Op, SyncStep2(op) PROVE Steady
  BY <1>3 DEF SyncStep2, Merge
<1>4. ASSUME NEW op \in AppendOp, AppendRequested(op) PROVE Steady
  BY <1>4 DEF AppendRequested
<1>5. CASE LoadFromDb
  BY <1>5 DEF LoadFromDb
<1>6. CASE TimerStep
  <2>1. CASE DebounceFires
    BY <2>1 DEF DebounceFires
  <2>2. CASE IdleRipens
    BY <2>2 DEF IdleRipens
  <2>3. CASE IdleFires
    BY <2>3 DEF IdleFires, EvictDoc, DropDoc, ForgetDoc
  <2>4. CASE SpareFires
    BY <2>4 DEF SpareFires, EvictDoc, DropDoc, ForgetDoc
  <2>5. QED
    BY <1>6, <2>1, <2>2, <2>3, <2>4 DEF TimerStep
<1>7. CASE SafetyFlush
  BY <1>7 DEF SafetyFlush
<1>8. CASE TaskStart
  <2>1. CASE FlushNotLoaded
    BY <2>1 DEF FlushNotLoaded
  <2>2. CASE FlushSkips
    BY <2>2 DEF FlushSkips, IssueSet, Fail
  <2>3. CASE FlushSaves
    BY <2>3 DEF FlushSaves, BeginSave, IssueSet, Fail
  <2>4. CASE AppendApplies
    BY <2>4 DEF AppendApplies, BeginSave, IssueSet, Fail
  <2>5. CASE AppendLoads
    BY <2>5 DEF AppendLoads, StartLoad
  <2>6. QED
    BY <1>8, <2>1, <2>2, <2>3, <2>4, <2>5 DEF TaskStart
<1>9. CASE TaskStep
  <2>1. CASE DbCommits
    BY <2>1 DEF DbCommits
  <2>2. CASE NodeGone
    BY <2>2 DEF NodeGone, CleanUpGone, ForgetDoc
  <2>3. CASE RedisRejects
    BY <2>3 DEF RedisRejects
  <2>4. CASE FlushDone
    BY <2>4 DEF FlushDone, EnqueueEmbed, Fail
  <2>5. CASE SkipDone
    BY <2>5 DEF SkipDone
  <2>6. QED
    BY <1>9, <2>1, <2>2, <2>3, <2>4, <2>5 DEF TaskStep
<1>10. CASE Outside
  <2>1. CASE LoadFails
    BY <2>1 DEF LoadFails, EndLoad, Fail
  <2>2. CASE DbRejects
    BY <2>2 DEF DbRejects, Fail
  <2>3. CASE StrayCommits
    BY <2>3 DEF StrayCommits
  <2>4. CASE StrayAborts
    BY <2>4 DEF StrayAborts
  <2>5. CASE RedisExpires
    BY <2>5 DEF RedisExpires
  <2>6. CASE DeleteNode
    BY <2>6 DEF DeleteNode
  <2>7. CASE NodeDeleteEvent
    BY <2>7 DEF NodeDeleteEvent, DropDoc, ForgetDoc
  <2>8. QED
    BY <1>10, <2>1, <2>2, <2>3, <2>4, <2>5, <2>6, <2>7 DEF Outside
<1>11. QED
  BY <1>1, <1>2, <1>3, <1>4, <1>5, <1>6, <1>7, <1>8, <1>9, <1>10 DEF Internal, Message

------------------------------------------------------------------------------
(* A socket that has left, in good time, is not waiting for anything. *)
GoneSockets ==
  failures = 0 =>
    \A c \in Client :
      /\ c \in clients \cup waiting \/ membership[c] # "unknown" => InWorkspace(c)
      /\ c \notin hasty /\ link[c] \in {"leaving", "closed"} =>
           c \notin waiting /\ membership[c] # "asking"
      /\ c \notin hasty /\ link[c] = "closed" => c \notin clients

(* The inductive invariant. *)
GwInv == DocInv /\ GwTypeOK /\ RegisteredIsTracked /\ RoomIsServed /\ GoneSockets

(* The initial states satisfy it. *)
LEMMA InitGw == GwInit => GwInv
<1>1. GwInit => DocInv /\ GwTypeOK
  BY DEF GwInit, Init, DocInv, GwTypeOK
<1>2. GwInit => RegisteredIsTracked /\ RoomIsServed /\ GoneSockets
  BY DEF GwInit, Init, RegisteredIsTracked, RoomIsServed, GoneSockets
<1>3. QED
  BY <1>1, <1>2 DEF GwInv

(* getOrCreateDoc for a member whose handler is under way. *)
LEMMA JoinKeeps ==
  ASSUME GwInv, NEW c \in Client, JoinDoc(c),
         link' = link, hello' = hello, hasty' = hasty, UNCHANGED presenceVars,
         membership' = [membership EXCEPT ![c] = "member"],
         link[c] = "on" \/ membership[c] = "asking", failures = 0 => InWorkspace(c)
  PROVE  GwInv'
<1> USE DEF storeVars, loadVars, docVars, flightVars, ghostVars, faultVars, rest
<1>1. \/ /\ loaded /\ clients' = clients \cup {c} /\ rooms' = rooms \cup {c}
         /\ waiting' = waiting /\ loading' = loading
      \/ /\ ~loaded /\ clients' = clients /\ rooms' = rooms
         /\ waiting' \in {waiting \cup {c}, {c}}
  BY DEF JoinDoc, JoinLoaded, JoinLoading, JoinStartsLoad, Track
<1>2. loaded' = loaded /\ row' = row /\ failures' = failures
  BY DEF JoinDoc, JoinLoaded, JoinLoading, JoinStartsLoad
<1>3. DocInv'
  BY <1>1, <1>2 DEF GwInv, DocInv
<1>4. GwTypeOK'
  BY <1>1 DEF GwInv, GwTypeOK, presenceVars, hashVars
<1>5. RegisteredIsTracked' /\ RoomIsServed'
  BY <1>1, <1>2 DEF GwInv, DocInv, RegisteredIsTracked, RoomIsServed
<1>6. GoneSockets'
  BY <1>1, <1>2 DEF GwInv, DocInv, GwTypeOK, GoneSockets, InWorkspace
<1>7. QED
  BY <1>3, <1>4, <1>5, <1>6 DEF GwInv

(* The load that ends registers and tracks exactly the sockets that wait. *)
LEMMA InstallKeeps ==
  ASSUME GwInv, Installed
  PROVE  GwInv'
<1> USE DEF storeVars, loadVars, docVars, flightVars, ghostVars, faultVars, rest
<1>1. /\ ~loaded /\ loaded' /\ loading' = "no"
      /\ clients' = waiting /\ waiting' = {} /\ rooms' = rooms \cup waiting /\ row' = row
      /\ failures' \in Nat /\ (failures' = 0 => failures = 0)
  BY DEF Installed, InstallDoc, InstallDocForAppend, NewDoc, EndLoad, BeginSave, IssueSet, Fail,
         Track, GwInv, DocInv
<1>2. UNCHANGED <<link, hello, membership, hasty, presenceVars>>
  BY DEF Installed
<1>3. DocInv' /\ GwTypeOK'
  BY <1>1, <1>2 DEF GwInv, DocInv, GwTypeOK, presenceVars, hashVars
<1>4. RegisteredIsTracked' /\ RoomIsServed'
  BY <1>1 DEF GwInv, DocInv, RegisteredIsTracked, RoomIsServed
<1>5. GoneSockets'
  BY <1>1, <1>2 DEF GwInv, DocInv, GoneSockets, InWorkspace
<1>6. QED
  BY <1>3, <1>4, <1>5 DEF GwInv

(* A socket that leaves the document leaves yjsRooms too, and nobody else does. *)
LEMMA RemoveKeeps ==
  ASSUME GwInv, NEW c \in Client, RemoveClient(c), Untrack(c), link' = [link EXCEPT ![c] = link'[c]],
         link'[c] \in {"on", "closed"}, link[c] \in {"on", "leaving"},
         link'[c] = "on" => link[c] = "on", link'[c] = "closed" => link[c] = "leaving",
         UNCHANGED <<hello, membership, hasty, hashVars>>, shown' \in {shown, presence}
  PROVE  GwInv'
<1> USE DEF storeVars, loadVars, docVars, flightVars, ghostVars, faultVars, rest, vars
<1>1. /\ loaded' = loaded /\ clients' = clients \ {c} /\ rooms' = rooms \ {c}
      /\ UNCHANGED <<waiting, loading, row, failures>>
  BY DEF RemoveClient, Leave, Untrack, GwInv, DocInv
<1>2. DocInv' /\ GwTypeOK'
  BY <1>1 DEF GwInv, DocInv, GwTypeOK, hashVars
<1>3. RegisteredIsTracked' /\ RoomIsServed'
  BY <1>1 DEF GwInv, DocInv, RegisteredIsTracked, RoomIsServed
<1>4. GoneSockets'
  BY <1>1 DEF GwInv, DocInv, GwTypeOK, GoneSockets, InWorkspace
<1>5. QED
  BY <1>2, <1>3, <1>4 DEF GwInv

(* What the manager does by itself keeps the invariant: it is steady. *)
LEMMA InternalKeeps ==
  ASSUME GwInv, Internal, UNCHANGED <<socketVars, presenceVars>>
  PROVE  GwInv'
<1>1. Steady
  BY InternalSteady DEF GwInv
<1>2. DocInv' /\ GwTypeOK'
  BY <1>1 DEF Steady, GwInv, DocInv, GwTypeOK, socketVars, presenceVars, hashVars
<1>3. RegisteredIsTracked' /\ RoomIsServed'
  BY <1>1 DEF Steady, GwInv, DocInv, RegisteredIsTracked, RoomIsServed, socketVars
<1>4. GoneSockets'
  BY <1>1 DEF Steady, GwInv, DocInv, GoneSockets, InWorkspace, socketVars
<1>5. QED
  BY <1>2, <1>3, <1>4 DEF GwInv

(* The steps of connection and presence, and of memberships that are asked for:
   the document is not touched. *)
LEMMA SocketKeeps ==
  ASSUME GwInv, NEW c \in Client, UNCHANGED <<loaded, clients, waiting, loading, row, rooms>>,
         failures' \in Nat, failures' = 0 => failures = 0,
         hello' \in [Client -> {"no", "asking", "greeting", "adding", "done"}],
         \A d \in Client : InWorkspace(d) => InWorkspace(d)',
         \/ link' = link /\ hasty' = hasty
         \/ /\ link[c] \in {"off", "on"} /\ link' = [link EXCEPT ![c] = "on"] /\ hasty' = hasty
         \/ /\ link' \in {[link EXCEPT ![c] = "leaving"], [link EXCEPT ![c] = "closed"]}
            /\ hasty' \in {hasty, hasty \cup {c}}
            /\ failures' = 0 /\ c \notin hasty' => c \notin waiting /\ membership[c] # "asking"
            /\ failures' = 0 /\ link'[c] = "closed" => c \notin clients,
         \/ membership' = membership
         \/ membership[c] = "unknown" /\ link[c] = "on" /\ link' = link /\ InWorkspace(c)
              /\ membership' = [membership EXCEPT ![c] = "asking"]
         \/ membership[c] = "asking" /\ membership' = [membership EXCEPT ![c] = "refused"]
         \/ /\ membership[c] = "asking" /\ membership' = [membership EXCEPT ![c] = "unknown"]
            /\ failures' # 0,
         presence' \in SUBSET User, lapsed' \in SUBSET User, shown' \in SUBSET User
  PROVE  GwInv'
<1>1. DocInv'
  BY DEF GwInv, DocInv
<1>2. GwTypeOK'
  <2>1. link' \in [Client -> {"off", "on", "leaving", "closed"}] /\ hasty' \in SUBSET Client
    BY DEF GwInv, GwTypeOK
  <2>2. membership' \in [Client -> {"unknown", "asking", "member", "refused"}]
    BY DEF GwInv, GwTypeOK
  <2>3. \A d \in rooms' \cup waiting' : membership'[d] = "member"
    <3>1. SUFFICES ASSUME NEW d \in rooms \cup waiting PROVE membership'[d] = "member"
      OBVIOUS
    <3>2. d \in Client /\ membership[d] = "member"
      BY DEF GwInv, GwTypeOK, DocInv
    <3>3. QED
      BY <3>2 DEF GwInv, GwTypeOK
  <2>4. QED
    BY <2>1, <2>2, <2>3 DEF GwInv, GwTypeOK
<1>3. RegisteredIsTracked' /\ RoomIsServed'
  BY DEF GwInv, RegisteredIsTracked, RoomIsServed
<1>4. GoneSockets'
  BY DEF GwInv, GwTypeOK, GoneSockets
<1>5. QED
  BY <1>1, <1>2, <1>3, <1>4 DEF GwInv

(* Every step keeps it: one case per action. *)
LEMMA GwInductive == GwInv /\ [GwNext]_gwVars => GwInv'
<1>1. SUFFICES ASSUME GwInv, [GwNext]_gwVars PROVE GwInv'
  OBVIOUS
<1> USE DEF vars, storeVars, loadVars, docVars, flightVars, ghostVars, faultVars, rest,
            presenceVars, hashVars, InWorkspace, LinkGoes, HelloGoes, MembershipGoes
<1>2. CASE UNCHANGED gwVars
  BY <1>1, <1>2 DEF gwVars, socketVars, GwInv, DocInv, GwTypeOK, RegisteredIsTracked, RoomIsServed,
                    GoneSockets
<1>3. ASSUME NEW c \in Client, WorkspaceStep(c) PROVE GwInv'
  <2> USE DEF GwInv, DocInv, GwTypeOK
  <2>1. CASE Connect(c)
    BY <1>1, <2>1, SocketKeeps DEF Connect
  <2>2. CASE AskWorkspace(c)
    BY <1>1, <2>2, SocketKeeps DEF AskWorkspace
  <2>3. CASE EnterWorkspace(c)
    BY <1>1, <2>3, SocketKeeps DEF EnterWorkspace
  <2>4. CASE Announce(c)
    BY <1>1, <2>4, SocketKeeps, UserAssumption DEF Announce, Enlist
  <2>5. CASE Greet(c)
    BY <1>1, <2>5, SocketKeeps DEF Greet, Show
  <2>6. CASE HelloRejects(c)
    <3>1. failures' = failures + 1 /\ failures' \in Nat /\ failures' # 0
      BY <1>1, <2>6 DEF HelloRejects, Fail
    <3>2. /\ presence' \in SUBSET User /\ lapsed' \in SUBSET User
          /\ UNCHANGED <<link, membership, rooms, hasty, shown>>
      BY <1>1, <2>6, UserAssumption DEF HelloRejects, Enlist
    <3>3. hello[c] \in {"greeting", "adding"} /\ HelloGoes(c, "done")
      BY <2>6 DEF HelloRejects
    <3>4. UNCHANGED <<loaded, clients, waiting, loading, row>>
      BY <2>6 DEF HelloRejects
    <3>5. QED
      BY <1>1, <3>1, <3>2, <3>3, <3>4, SocketKeeps
  <2>7. QED
    BY <1>3, <2>1, <2>2, <2>3, <2>4, <2>5, <2>6 DEF WorkspaceStep
<1>4. ASSUME NEW c \in Client, YjsStep(c) PROVE GwInv'
  <2>1. CASE AskMembership(c)
    BY <1>1, <2>1, SocketKeeps DEF AskMembership, GwInv, DocInv, GwTypeOK
  <2>2. CASE RefuseMember(c)
    BY <1>1, <2>2, SocketKeeps DEF RefuseMember, CacheAnswer, GwInv, DocInv, GwTypeOK
  <2>3. CASE AcceptMember(c)
    BY <1>1, <2>3, JoinKeeps DEF AcceptMember, CacheAnswer, GwInv, GoneSockets
  <2>4. CASE JoinAgain(c)
    <3>1. membership' = [membership EXCEPT ![c] = "member"]
      BY <1>1, <2>4 DEF JoinAgain, GwInv, GwTypeOK
    <3>2. failures = 0 => InWorkspace(c)
      BY <1>1, <2>4 DEF JoinAgain, GwInv, GoneSockets
    <3>3. QED
      BY <1>1, <2>4, <3>1, <3>2, JoinKeeps DEF JoinAgain
  <2>5. CASE YjsLeave(c)
    BY <1>1, <2>5, RemoveKeeps DEF YjsLeave, GwInv, GwTypeOK
  <2>6. QED
    BY <1>4, <2>1, <2>2, <2>3, <2>4, <2>5 DEF YjsStep
<1>5. ASSUME NEW c \in Client, DisconnectStep(c) PROVE GwInv'
  <2>1. CASE Disconnect(c)
    BY <1>1, <2>1, SocketKeeps DEF Disconnect, Strike, Hurry, GwInv, DocInv, GwTypeOK, GoneSockets
  <2>2. CASE Farewell(c)
    <3>1. /\ link[c] = "leaving" /\ link' = [link EXCEPT ![c] = "closed"] /\ link'[c] = "closed"
          /\ shown' = presence /\ UNCHANGED <<hello, membership, hasty, presence, lapsed>>
      BY <1>1, <2>2 DEF Farewell, Show, GwInv, GwTypeOK
    <3>2. CASE c \in rooms
      BY <1>1, <2>2, <3>1, <3>2, RemoveKeeps DEF Farewell, LeaveDocs
    <3>3. CASE c \notin rooms
      <4>1. c \notin clients
        BY <1>1, <3>3 DEF GwInv, RegisteredIsTracked
      <4>2. failures = 0 /\ c \notin hasty => c \notin waiting /\ membership[c] # "asking"
        BY <1>1, <3>1 DEF GwInv, GoneSockets
      <4>3. UNCHANGED <<loaded, clients, waiting, loading, row, rooms, failures>>
        BY <2>2, <3>3 DEF Farewell, LeaveDocs
      <4>4. QED
        BY <1>1, <3>1, <4>1, <4>2, <4>3, SocketKeeps DEF GwInv, DocInv, GwTypeOK
    <3>4. QED
      BY <3>2, <3>3
  <2>3. CASE FarewellRejects(c)
    <3>1. failures' \in Nat /\ failures' # 0
      BY <1>1, <2>3 DEF FarewellRejects, Fail, GwInv, DocInv
    <3>2. /\ UNCHANGED <<loaded, clients, waiting, loading, row, rooms, hello, membership, shown>>
          /\ presence' \in SUBSET User /\ lapsed' \in SUBSET User /\ link' = [link EXCEPT ![c] = "closed"]
          /\ hasty' \in {hasty, hasty \cup {c}}
      BY <1>1, <2>3 DEF FarewellRejects, Strike, Hurry, GwInv, GwTypeOK
    <3>3. QED
      BY <1>1, <3>1, <3>2, SocketKeeps DEF GwInv, GwTypeOK
  <2>4. QED
    BY <1>5, <2>1, <2>2, <2>3 DEF DisconnectStep
<1>6. ASSUME NEW c \in Client, CheckRejects(c) PROVE GwInv'
  <2>1. failures' \in Nat /\ failures' # 0
    BY <1>1, <1>6 DEF CheckRejects, Fail, GwInv, DocInv
  <2>2. /\ UNCHANGED <<loaded, clients, waiting, loading, row, rooms, link, hasty, presenceVars>>
        /\ \/ hello[c] = "asking" /\ HelloGoes(c, "no") /\ membership' = membership
           \/ membership[c] = "asking" /\ MembershipGoes(c, "unknown") /\ hello' = hello
    BY <1>6 DEF CheckRejects
  <2>3. QED
    BY <1>1, <2>1, <2>2, SocketKeeps DEF GwInv, GwTypeOK
<1>7. CASE Installed
  BY <1>1, <1>7, InstallKeeps
<1>8. CASE Internal /\ UNCHANGED <<socketVars, presenceVars>>
  BY <1>1, <1>8, InternalKeeps
<1>9. CASE GwCrash
  BY <1>1, <1>9 DEF GwCrash, Crash, ForgetDoc, EndLoad, GwInv, DocInv, GwTypeOK,
                    RegisteredIsTracked, RoomIsServed, GoneSockets
<1>10. CASE HashExpires
  BY <1>1, <1>10 DEF HashExpires, socketVars, GwInv, DocInv, GwTypeOK, RegisteredIsTracked,
                     RoomIsServed, GoneSockets
<1>11. QED
  BY <1>1, <1>2, <1>3, <1>4, <1>5, <1>6, <1>7, <1>8, <1>9, <1>10 DEF GwNext

------------------------------------------------------------------------------
(* The invariant holds in every state of every behaviour. *)
LEMMA GwHolds == GwSpec => []GwInv
  BY InitGw, GwInductive, PTL DEF GwSpec

(* The handlers of the gateway keep their values, and only members are in the room. *)
THEOREM GwTypeCorrect == GwSpec => []GwTypeOK
<1>1. GwInv => GwTypeOK
  BY DEF GwInv
<1>2. QED
  BY <1>1, GwHolds, PTL

(* handleYjsJoin, handleYjsLeave and handleDisconnect: whatever is interleaved,
   a socket the manager has registered is one that a disconnect would find. *)
THEOREM RegistrationsTracked == GwSpec => []RegisteredIsTracked
<1>1. GwInv => RegisteredIsTracked
  BY DEF GwInv
<1>2. QED
  BY <1>1, GwHolds, PTL

(* getOrCreateDoc and evictDoc: no timer, load or failure takes the document of
   an existing node from a socket in its room. *)
THEOREM RoomsServed == GwSpec => []RoomIsServed
<1>1. GwInv => RoomIsServed
  BY DEF GwInv
<1>2. QED
  BY <1>1, GwHolds, PTL

(* handleDisconnect: until Redis rejects, a closed socket that has left the
   document late is one that went in the middle of a join. *)
THEOREM ClosedLeft == GwSpec => []ClosedHasLeft
<1>1. GwInv => ClosedHasLeft
  BY DEF GwInv, DocInv, GoneSockets, ClosedHasLeft
<1>2. QED
  BY <1>1, GwHolds, PTL

------------------------------------------------------------------------------
(* Presence.  A user the hash has lost to its expiry is not in it. *)
HashIsSplit == presence \cap lapsed = {}

(* A handler that goes on for a socket that is gone is one that Disconnect found. *)
LateIsHasty ==
  /\ \A c \in Client : link[c] = "off" => hello[c] = "no"
  /\ failures = 0 =>
       \A c \in Client :
         hello[c] \in {"asking", "greeting"} /\ link[c] \in {"leaving", "closed"} => c \in hasty

(* Who is listed has a socket that was added and is still there, or a late one. *)
Present(u) ==
  \E c \in Client : UserOf[c] = u /\ (c \in hasty \/ (link[c] = "on" /\ hello[c] \in {"adding", "done"}))
ListedIsPresent == failures = 0 /\ crashes = 0 => \A u \in presence : Present(u)

(* From HSET on, before the answer. *)
AllThere(c) ==
  \A other \in Client : UserOf[other] = UserOf[c] => link[other] \notin {"leaving", "closed"}
AddedIsListed ==
  failures = 0 =>
    \A c \in Client :
      link[c] = "on" /\ hello[c] \in {"adding", "done"} /\ AllThere(c)
        => UserOf[c] \in presence \cup lapsed

(* The inductive invariant of presence. *)
PresenceInv ==
  /\ crashes \in Nat /\ HashIsSplit /\ LateIsHasty /\ ListedIsPresent /\ AddedIsListed
  /\ RoomSeesPresence

(* It holds at the start. *)
LEMMA InitPresence == GwInit => PresenceInv
BY DEF GwInit, Init, PresenceInv, HashIsSplit, LateIsHasty, ListedIsPresent, AddedIsListed,
       RoomSeesPresence

(* A step that leaves the sockets and the hash alone keeps it. *)
LEMMA PresenceKeeps ==
  ASSUME PresenceInv, UNCHANGED <<link, hello, hasty, presence, lapsed, shown, crashes>>,
         failures' = 0 => failures = 0
  PROVE  PresenceInv'
BY DEF PresenceInv, HashIsSplit, LateIsHasty, Present, ListedIsPresent, AddedIsListed, AllThere,
       RoomSeesPresence, Calm

(* So do the steps of the manager, alone or as part of a handler. *)
LEMMA ManagerKeeps ==
  ASSUME GwInv, PresenceInv, UNCHANGED <<link, hello, hasty, presenceVars>>,
         \/ Internal \/ Installed
         \/ \E c \in Client : JoinDoc(c) \/ RemoveClient(c) \/ UNCHANGED vars
  PROVE  PresenceInv'
<1> USE DEF storeVars, loadVars, docVars, flightVars, ghostVars, faultVars, rest, vars
<1>1. UNCHANGED <<presence, lapsed, shown>>
  BY DEF presenceVars, hashVars
<1>2. crashes' = crashes /\ (failures' = 0 => failures = 0)
  <2>1. CASE Internal
    BY <2>1, InternalSteady DEF GwInv, Steady
  <2>2. CASE Installed
    BY <2>2 DEF Installed, InstallDoc, InstallDocForAppend, BeginSave, IssueSet, Fail, GwInv, DocInv
  <2>3. ASSUME NEW c \in Client, JoinDoc(c) PROVE UNCHANGED <<failures, crashes>>
    BY <2>3 DEF JoinDoc, JoinLoaded, JoinLoading, JoinStartsLoad
  <2>4. ASSUME NEW c \in Client, RemoveClient(c) PROVE UNCHANGED <<failures, crashes>>
    BY <2>4 DEF RemoveClient, Leave
  <2>5. QED
    BY <2>1, <2>2, <2>3, <2>4
<1>3. QED
  BY <1>1, <1>2, PresenceKeeps

(* handleJoin, up to and with its answer. *)
LEMMA HelloKeeps ==
  ASSUME GwInv, PresenceInv, NEW c \in Client, WorkspaceStep(c)
  PROVE  PresenceInv'
<1> USE DEF GwInv, GwTypeOK, PresenceInv, presenceVars, hashVars, vars, rest, faultVars,
            LinkGoes, HelloGoes
<1>1. CASE Connect(c)
  <2>1. /\ link[c] = "off" /\ hello[c] = "no" /\ link' = [link EXCEPT ![c] = "on"]
        /\ UNCHANGED <<hello, hasty, presence, lapsed, shown, failures, crashes>>
    BY <1>1 DEF Connect, LateIsHasty
  <2>2. HashIsSplit' /\ LateIsHasty'
    BY <2>1 DEF HashIsSplit, LateIsHasty
  <2>3. ListedIsPresent'
    BY <2>1 DEF ListedIsPresent, Present
  <2>4. AddedIsListed'
    BY <2>1 DEF AddedIsListed, AllThere
  <2>5. RoomSeesPresence'
    BY <2>1 DEF RoomSeesPresence, Calm
  <2>6. QED
    BY <2>1, <2>2, <2>3, <2>4, <2>5
<1>2. CASE AskWorkspace(c) \/ EnterWorkspace(c)
  <2>1. /\ hello[c] \in {"no", "asking"}
        /\ \E to \in {"no", "asking", "greeting"} : hello' = [hello EXCEPT ![c] = to]
        /\ hello[c] = "no" => link[c] = "on"
        /\ UNCHANGED <<link, hasty, presence, lapsed, shown, failures, crashes>>
    BY <1>2 DEF AskWorkspace, EnterWorkspace
  <2>2. HashIsSplit' /\ LateIsHasty'
    BY <2>1 DEF HashIsSplit, LateIsHasty
  <2>3. ListedIsPresent'
    BY <2>1 DEF ListedIsPresent, Present
  <2>4. AddedIsListed'
    BY <2>1 DEF AddedIsListed, AllThere
  <2>5. RoomSeesPresence'
    BY <2>1 DEF RoomSeesPresence, Calm
  <2>6. QED
    BY <2>1, <2>2, <2>3, <2>4, <2>5
<1>3. CASE Announce(c)
  <2>1. /\ hello[c] = "greeting" /\ hello' = [hello EXCEPT ![c] = "adding"]
        /\ presence' = presence \cup {UserOf[c]} /\ lapsed' = lapsed \ {UserOf[c]}
        /\ UNCHANGED <<link, hasty, shown, failures, crashes>>
    BY <1>3 DEF Announce, Enlist
  <2>2. HashIsSplit' /\ LateIsHasty'
    BY <2>1 DEF HashIsSplit, LateIsHasty
  <2>3. ListedIsPresent'
    <3>1. failures = 0 => c \in hasty \/ link[c] = "on"
      BY <2>1 DEF LateIsHasty
    <3>2. failures = 0 => Present(UserOf[c])'
      BY <2>1, <3>1 DEF Present
    <3>3. \A u : Present(u) => Present(u)'
      BY <2>1 DEF Present
    <3>4. QED
      BY <2>1, <3>2, <3>3 DEF ListedIsPresent
  <2>4. AddedIsListed'
    BY <2>1 DEF AddedIsListed, AllThere
  <2>5. RoomSeesPresence'
    BY <2>1 DEF RoomSeesPresence, Calm
  <2>6. QED
    BY <2>1, <2>2, <2>3, <2>4, <2>5
<1>4. CASE Greet(c)
  <2>1. /\ hello[c] = "adding" /\ hello' = [hello EXCEPT ![c] = "done"] /\ shown' = presence
        /\ UNCHANGED <<link, hasty, presence, lapsed, failures, crashes>>
    BY <1>4 DEF Greet, Show
  <2>2. HashIsSplit' /\ LateIsHasty'
    BY <2>1 DEF HashIsSplit, LateIsHasty
  <2>3. ListedIsPresent'
    BY <2>1 DEF ListedIsPresent, Present
  <2>4. AddedIsListed'
    BY <2>1 DEF AddedIsListed, AllThere
  <2>5. RoomSeesPresence'
    BY <2>1 DEF RoomSeesPresence, HashIsSplit
  <2>6. QED
    BY <2>1, <2>2, <2>3, <2>4, <2>5
<1>5. CASE HelloRejects(c)
  <2>1. /\ failures' # 0 /\ UNCHANGED <<link, crashes>>
        /\ hello[c] \in {"greeting", "adding"} /\ hello' = [hello EXCEPT ![c] = "done"]
        /\ \/ UNCHANGED <<presence, lapsed>>
           \/ presence' = presence \cup {UserOf[c]} /\ lapsed' = lapsed \ {UserOf[c]}
    BY <1>5 DEF HelloRejects, Fail, Enlist, DocInv
  <2>2. HashIsSplit' /\ LateIsHasty'
    BY <2>1 DEF HashIsSplit, LateIsHasty
  <2>3. QED
    BY <2>1, <2>2 DEF ListedIsPresent, AddedIsListed, RoomSeesPresence
<1>6. QED
  BY <1>1, <1>2, <1>3, <1>4, <1>5 DEF WorkspaceStep

(* handleDisconnect, before and after its awaits. *)
LEMMA DisconnectKeeps ==
  ASSUME GwInv, PresenceInv, NEW c \in Client, DisconnectStep(c)
  PROVE  PresenceInv'
<1> USE DEF GwInv, GwTypeOK, PresenceInv, presenceVars, hashVars, vars, rest, faultVars, LinkGoes
<1>1. CASE Disconnect(c)
  <2>1. /\ link[c] = "on" /\ UNCHANGED <<hello, shown, failures, crashes>>
        /\ hasty \subseteq hasty' /\ (hello[c] \in {"asking", "greeting"} => c \in hasty')
        /\ \/ /\ InWorkspace(c) /\ link' = [link EXCEPT ![c] = "leaving"]
              /\ presence' = presence \ {UserOf[c]} /\ lapsed' = lapsed \ {UserOf[c]}
           \/ /\ ~InWorkspace(c) /\ link' = [link EXCEPT ![c] = "closed"]
              /\ presence' = presence /\ lapsed' = lapsed
    BY <1>1 DEF Disconnect, Hurry, Strike
  <2>2. link'[c] \in {"leaving", "closed"} /\ \A d \in Client : d # c => link'[d] = link[d]
    BY <2>1
  <2>3. HashIsSplit' /\ LateIsHasty'
    BY <2>1, <2>2 DEF HashIsSplit, LateIsHasty
  <2>4. ListedIsPresent'
    <3>1. \A u \in presence' : Present(u) => Present(u)'
      BY <2>1, <2>2 DEF Present, InWorkspace
    <3>2. QED
      BY <2>1, <3>1 DEF ListedIsPresent
  <2>5. AddedIsListed'
    <3>1. SUFFICES ASSUME failures = 0, NEW d \in Client, link'[d] = "on",
                          hello[d] \in {"adding", "done"}, AllThere(d)'
                   PROVE  UserOf[d] \in presence' \cup lapsed'
      BY <2>1 DEF AddedIsListed
    <3>2. d # c /\ UserOf[d] # UserOf[c]
      BY <2>2, <3>1 DEF AllThere
    <3>3. AllThere(d)
      BY <2>2, <3>1, <3>2 DEF AllThere
    <3>4. QED
      BY <2>1, <2>2, <3>1, <3>2, <3>3 DEF AddedIsListed
  <2>6. RoomSeesPresence'
    <3>1. CASE InWorkspace(c)
      BY <2>1, <3>1 DEF RoomSeesPresence, Calm
    <3>2. CASE ~InWorkspace(c)
      BY <2>1, <2>2, <3>2 DEF RoomSeesPresence, Calm
    <3>3. QED
      BY <3>1, <3>2
  <2>7. QED
    BY <2>1, <2>3, <2>4, <2>5, <2>6
<1>2. CASE Farewell(c)
  <2>1. /\ link[c] = "leaving" /\ link' = [link EXCEPT ![c] = "closed"] /\ shown' = presence
        /\ UNCHANGED <<hello, hasty, presence, lapsed, failures, crashes>>
    BY <1>2 DEF Farewell, Show, LeaveDocs, RemoveClient, Leave, rest
  <2>2. HashIsSplit' /\ LateIsHasty'
    BY <2>1 DEF HashIsSplit, LateIsHasty
  <2>3. ListedIsPresent'
    BY <2>1 DEF ListedIsPresent, Present
  <2>4. AddedIsListed'
    BY <2>1 DEF AddedIsListed, AllThere
  <2>5. RoomSeesPresence'
    BY <2>1 DEF RoomSeesPresence, HashIsSplit
  <2>6. QED
    BY <2>1, <2>2, <2>3, <2>4, <2>5
<1>3. CASE FarewellRejects(c)
  <2>1. /\ failures' # 0 /\ UNCHANGED <<hello, crashes>>
        /\ link[c] \in {"on", "leaving"} /\ link' = [link EXCEPT ![c] = "closed"]
        /\ \/ UNCHANGED <<presence, lapsed>>
           \/ presence' = presence \ {UserOf[c]} /\ lapsed' = lapsed \ {UserOf[c]}
    BY <1>3 DEF FarewellRejects, Fail, Strike, DocInv
  <2>2. HashIsSplit' /\ LateIsHasty'
    BY <2>1 DEF HashIsSplit, LateIsHasty
  <2>3. QED
    BY <2>1, <2>2 DEF ListedIsPresent, AddedIsListed, RoomSeesPresence
<1>4. QED
  BY <1>1, <1>2, <1>3 DEF DisconnectStep

(* Every step keeps it. *)
LEMMA PresenceInductive == GwInv /\ PresenceInv /\ [GwNext]_gwVars => PresenceInv'
<1>1. SUFFICES ASSUME GwInv, PresenceInv, [GwNext]_gwVars PROVE PresenceInv'
  OBVIOUS
<1>2. CASE UNCHANGED gwVars
  BY <1>1, <1>2, PresenceKeeps DEF gwVars, vars, rest, faultVars, socketVars, presenceVars, hashVars
<1>3. ASSUME NEW c \in Client, WorkspaceStep(c) PROVE PresenceInv'
  BY <1>1, <1>3, HelloKeeps
<1>4. ASSUME NEW c \in Client, YjsStep(c) PROVE PresenceInv'
  <2>1. UNCHANGED <<link, hello, hasty, presenceVars>>
    BY <1>4 DEF YjsStep, AskMembership, RefuseMember, AcceptMember, JoinAgain, YjsLeave
  <2>2. JoinDoc(c) \/ RemoveClient(c) \/ UNCHANGED vars
    BY <1>4 DEF YjsStep, AskMembership, RefuseMember, AcceptMember, JoinAgain, YjsLeave
  <2>3. QED
    BY <1>1, <2>1, <2>2, ManagerKeeps
<1>5. ASSUME NEW c \in Client, DisconnectStep(c) PROVE PresenceInv'
  BY <1>1, <1>5, DisconnectKeeps
<1>6. ASSUME NEW c \in Client, CheckRejects(c) PROVE PresenceInv'
  <2>1. /\ failures' # 0 /\ UNCHANGED <<link, presence, lapsed, crashes>>
        /\ \/ hello' = hello
           \/ hello' = [hello EXCEPT ![c] = "no"]
    BY <1>1, <1>6 DEF CheckRejects, Fail, HelloGoes, presenceVars, hashVars, GwInv, DocInv
  <2>2. HashIsSplit' /\ LateIsHasty'
    BY <1>1, <2>1 DEF PresenceInv, HashIsSplit, LateIsHasty, GwInv, GwTypeOK
  <2>3. QED
    BY <1>1, <2>1, <2>2 DEF PresenceInv, ListedIsPresent, AddedIsListed, RoomSeesPresence
<1>7. CASE Installed
  BY <1>1, <1>7, ManagerKeeps DEF Installed
<1>8. CASE Internal /\ UNCHANGED <<socketVars, presenceVars>>
  BY <1>1, <1>8, ManagerKeeps DEF socketVars
<1>9. CASE GwCrash
  <2>1. /\ crashes' = crashes + 1 /\ crashes' \in Nat /\ crashes' # 0
        /\ UNCHANGED <<presence, lapsed>>
        /\ \A c \in Client : link'[c] \in {"off", "closed"} /\ hello'[c] = "no"
    BY <1>1, <1>9 DEF GwCrash, Crash, hashVars, PresenceInv
  <2>2. HashIsSplit' /\ LateIsHasty' /\ AddedIsListed'
    BY <1>1, <2>1 DEF PresenceInv, HashIsSplit, LateIsHasty, AddedIsListed
  <2>3. QED
    BY <2>1, <2>2 DEF PresenceInv, ListedIsPresent, RoomSeesPresence
<1>10. CASE HashExpires
  <2>1. /\ presence' = {} /\ lapsed' = lapsed \cup presence
        /\ UNCHANGED <<link, hello, hasty, shown, failures, crashes>>
    BY <1>10 DEF HashExpires, vars, rest, faultVars, socketVars
  <2>2. HashIsSplit' /\ LateIsHasty' /\ ListedIsPresent'
    BY <1>1, <2>1 DEF PresenceInv, HashIsSplit, LateIsHasty, ListedIsPresent
  <2>3. AddedIsListed'
    BY <1>1, <2>1 DEF PresenceInv, AddedIsListed, AllThere
  <2>4. RoomSeesPresence'
    BY <1>1, <2>1 DEF PresenceInv, RoomSeesPresence, Calm
  <2>5. QED
    BY <1>1, <2>1, <2>2, <2>3, <2>4 DEF PresenceInv
<1>11. QED
  BY <1>1, <1>2, <1>3, <1>4, <1>5, <1>6, <1>7, <1>8, <1>9, <1>10 DEF GwNext

(* It holds in every state of every behaviour. *)
LEMMA PresenceHolds == GwSpec => []PresenceInv
  BY InitGw, GwInductive, InitPresence, PresenceInductive, PTL DEF GwSpec

(* removePresence of handleDisconnect: for any sockets and users, who is listed is
   connected, or went in the middle of join_workspace. *)
THEOREM ListedConnected == GwSpec => []ListedIsConnected
<1>1. PresenceInv => ListedIsConnected
  BY DEF PresenceInv, ListedIsPresent, Present, ListedIsConnected
<1>2. QED
  BY <1>1, PresenceHolds, PTL

(* upsertPresence of handleJoin: a member whose join was answered is listed until
   another socket of theirs goes, or the hash expires. *)
THEOREM JoinedListed == GwSpec => []JoinedIsListed
<1>1. PresenceInv => JoinedIsListed
  BY DEF PresenceInv, AddedIsListed, AllThere, JoinedIsListed
<1>2. QED
  BY <1>1, PresenceHolds, PTL

(* broadcastPresence: once no handler is under way, the room has seen the hash. *)
THEOREM PresenceSeen == GwSpec => []RoomSeesPresence
<1>1. PresenceInv => RoomSeesPresence
  BY DEF PresenceInv
<1>2. QED
  BY <1>1, PresenceHolds, PTL

------------------------------------------------------------------------------
(* What the sockets see of the manager. *)

(* Every handler does to the manager what a socket may do to it, or nothing, or
   fails for itself. *)
LEMMA HandlersShare == ASSUME [GwNext]_gwVars PROVE [Next \/ OnlyFails]_vars
<1>1. CASE UNCHANGED gwVars
  BY <1>1 DEF gwVars
<1>2. ASSUME NEW c \in Client, WorkspaceStep(c) PROVE OnlyFails \/ UNCHANGED vars
  BY <1>2 DEF WorkspaceStep, Connect, AskWorkspace, EnterWorkspace, Announce, Greet, HelloRejects,
              OnlyFails, Fail
<1>3. ASSUME NEW c \in Client, YjsStep(c) PROVE [Next]_vars
  <2>1. JoinDoc(c) \/ RemoveClient(c) \/ UNCHANGED vars
    BY <1>3 DEF YjsStep, AskMembership, RefuseMember, AcceptMember, JoinAgain, YjsLeave
  <2> QED BY <2>1 DEF JoinDoc, RemoveClient, Next, ManagerStep, SocketStep
<1>4. ASSUME NEW c \in Client, CheckRejects(c) PROVE OnlyFails
  BY <1>4 DEF CheckRejects, OnlyFails, Fail
<1>5. ASSUME NEW c \in Client, DisconnectStep(c) PROVE [Next \/ OnlyFails]_vars
  <2>1. RemoveClient(c) \/ OnlyFails \/ UNCHANGED vars
    BY <1>5 DEF DisconnectStep, Disconnect, Farewell, LeaveDocs, FarewellRejects, OnlyFails, Fail
  <2> QED BY <2>1 DEF RemoveClient, Next, ManagerStep, SocketStep
<1>6. CASE Installed
  BY <1>6 DEF Installed, Next, ManagerStep, LoadStep
<1>7. CASE HashExpires
  BY <1>7 DEF HashExpires
<1>8. CASE Internal
  BY <1>8 DEF Internal, Message, Next, ManagerStep, SocketStep, LoadStep
<1>9. CASE GwCrash
  BY <1>9 DEF GwCrash, Next
<1> QED BY <1>1, <1>2, <1>3, <1>4, <1>5, <1>6, <1>7, <1>8, <1>9 DEF GwNext

LEMMA SocketsShare == GwSpec => SharedSpec
<1>1. GwInit => Init
  BY DEF GwInit
<1> QED BY <1>1, HandlersShare, PTL DEF GwSpec, SharedSpec

(* Behind any number of sockets, whatever their handlers interleave and whichever
   presence or membership query rejects, the manager is one durable document and
   keeps what it promises, as long as Redis rejects nothing of the manager. *)
THEOREM SocketsKeepPromises ==
  ASSUME RedisMayFail = FALSE
  PROVE  GwSpec => /\ ImplementsDurableDoc
                   /\ [](/\ RecordedVectorIsDurable /\ AnsweredAppendIsDurable
                         /\ EmbedJobsAreDurable /\ ScheduledEditIsPending)
BY SocketsShare, SharedRefinement, SharedPromises, PTL

(* While somebody is in the room of an existing node, only a crash takes the
   document, and nothing of what they were shown is taken back. *)
RoomKeepsDoc ==
  [][row = "live" /\ rooms # {} /\ crashes' = crashes => loaded' /\ doc \subseteq doc']_gwVars

(* handleYjsJoin, handleYjsSync, evictDoc: joins, leaves, timers, loads and failures
   in any order keep the document the room has seen. *)
THEOREM RoomsKeepDoc == GwSpec => RoomKeepsDoc
<1>1. ASSUME OnlyFails PROVE DocStays
  BY <1>1 DEF OnlyFails, docVars, DocStays
<1>2. TypeInv /\ [GwNext]_gwVars => DocStays
  BY <1>1, HandlersShare, NextKeepsDoc
<1>3. GwInv /\ DocStays
        => (row = "live" /\ rooms # {} /\ crashes' = crashes => loaded' /\ doc \subseteq doc')
  BY DEF GwInv, RoomIsServed, DocStays
<1>4. GwInv /\ TypeInv /\ [GwNext]_gwVars
        => [row = "live" /\ rooms # {} /\ crashes' = crashes => loaded' /\ doc \subseteq doc']_gwVars
  BY <1>2, <1>3
<1> QED BY <1>4, GwHolds, SocketsShare, SharedType, PTL DEF GwSpec, RoomKeepsDoc

(* A join that awaits the document has a load under way, and a call of the manager
   its place in the queue, whichever sockets have gone meanwhile. *)
THEOREM JoinsGoOn == GwSpec => []NobodyIsForgotten
BY SocketsShare, SharedService, PTL
=============================================================================
