------------------------------ MODULE NodeQueue ------------------------------
(***************************************************************************)
(* runExclusive of src/src/global/yjs/yjs-doc-manager.ts: one chain of     *)
(* promises per node, kept by its last link.                               *)
(*                                                                         *)
(*   previous = operations.get(nodeId) ?? Promise.resolve()                *)
(*   current  = previous.catch(..).then(task)                              *)
(*   operations.set(nodeId, current)                                       *)
(*   finally: if operations.get(nodeId) === current, operations.delete     *)
(*                                                                         *)
(* A call is its "current" promise.  Its task starts in a microtask after  *)
(* the previous link settled; its finally is another one, and the two may  *)
(* run in either order and with calls of runExclusive in between.          *)
(***************************************************************************)
EXTENDS Integers

CONSTANTS
  Call, None,
  Node, NodeOf,  \* the nodeId a call is made for
  MayReject      \* the calls whose task may reject

ASSUME NoneAssumption == None \notin Call
ASSUME NodeAssumption == NodeOf \in [Call -> Node] /\ MayReject \subseteq Call

VARIABLES
  tail,     \* operations: the last link of each node, or None
  previous, \* the link each call was chained to, or None
  st,       \* "new", "waiting", "running", "resolved", "rejected", "done", "failed"
  ticket,   \* ghost: when each call chained itself to its node
  next      \* ghost: each node's next ticket

queueVars == <<tail, previous, st, ticket, next>>

Returned(c) == st[c] \in {"done", "failed"}
Settled(c) == st[c] \in {"resolved", "rejected"} \/ Returned(c)
SameNode(c, d) == NodeOf[c] = NodeOf[d]

(* Values, and the last link is the call that chained itself last. *)
TypeOK ==
  /\ tail \in [Node -> Call \cup {None}]
  /\ previous \in [Call -> Call \cup {None}]
  /\ st \in [Call -> {"new", "waiting", "running", "resolved", "rejected", "done", "failed"}]
  /\ ticket \in [Call -> Nat] /\ next \in [Node -> Nat]
  /\ \A n \in Node :
       tail[n] # None =>
         NodeOf[tail[n]] = n /\ st[tail[n]] # "new" /\ ticket[tail[n]] = next[n] - 1

Init ==
  /\ tail = [n \in Node |-> None] /\ previous = [c \in Call |-> None]
  /\ st = [c \in Call |-> "new"]
  /\ ticket = [c \in Call |-> 0] /\ next = [n \in Node |-> 0]

(* The call that one turn makes for a node, or else the link before it. *)
LastOf(calls, n) ==
  IF \E c \in calls : NodeOf[c] = n THEN CHOOSE c \in calls : NodeOf[c] = n ELSE tail[n]

(* operations.set. *)
SetTail(calls) == tail' = [n \in Node |-> LastOf(calls, n)]

(* The synchronous part of runExclusive, for the calls of one turn. *)
Chain(calls) ==
  /\ \A c \in calls : st[c] = "new" /\ \A d \in calls : SameNode(c, d) => c = d
  /\ previous' = [c \in Call |-> IF c \in calls THEN tail[NodeOf[c]] ELSE previous[c]]
  /\ SetTail(calls)
  /\ st' = [c \in Call |-> IF c \in calls THEN "waiting" ELSE st[c]]
  /\ ticket' = [c \in Call |-> IF c \in calls THEN next[NodeOf[c]] ELSE ticket[c]]
  /\ next' = [n \in Node |-> IF \E c \in calls : NodeOf[c] = n THEN next[n] + 1 ELSE next[n]]

(* Mutant: the call is not chained to the link before it. *)
ReadyAtOnce(c) == TRUE

(* The link before has settled, either way: catch swallows a rejection. *)
Ready(c) == previous[c] # None => Settled(previous[c])

Start(c) ==
  /\ st[c] = "waiting" /\ Ready(c)
  /\ st' = [st EXCEPT ![c] = "running"]
  /\ UNCHANGED <<tail, previous, ticket, next>>

Outcomes(c) == {"resolved"} \cup (IF c \in MayReject THEN {"rejected"} ELSE {})

Settle(c) ==
  /\ st[c] = "running"
  /\ \E outcome \in Outcomes(c) : st' = [st EXCEPT ![c] = outcome]
  /\ UNCHANGED <<tail, previous, ticket, next>>

(* Mutant: finally deletes the entry whoever it belongs to. *)
ReleaseAny(c) == tail' = [tail EXCEPT ![NodeOf[c]] = None]

(* Mutant: no finally. *)
ReleaseNever(c) == UNCHANGED tail

(* Only the last link removes the node's entry. *)
Release(c) ==
  tail' = IF tail[NodeOf[c]] = c THEN [tail EXCEPT ![NodeOf[c]] = None] ELSE tail

Finally(c) ==
  /\ st[c] \in {"resolved", "rejected"}
  /\ Release(c)
  /\ st' = [st EXCEPT ![c] = IF @ = "rejected" THEN "failed" ELSE "done"]
  /\ UNCHANGED <<previous, ticket, next>>

(* The microtasks of a call, and the end of its task. *)
Progress(c) == Start(c) \/ Settle(c) \/ Finally(c)

Next == (\E calls \in SUBSET Call : Chain(calls)) \/ (\E c \in Call : Progress(c))

Spec == Init /\ [][Next]_queueVars

------------------------------------------------------------------------------
(* Tasks of one node never run at the same time. *)
MutualExclusion ==
  \A c, d \in Call : st[c] = "running" /\ st[d] = "running" /\ SameNode(c, d) => c = d

(* A task starts only when every call that chained itself to its node earlier
   has settled. *)
StartsInOrder ==
  [][\A c, d \in Call :
       /\ st[c] = "waiting" /\ st'[c] = "running"
       /\ st[d] # "new" /\ SameNode(c, d) /\ ticket[d] < ticket[c]
       => Settled(d)]_queueVars

(* The map does not keep an entry for a node without calls. *)
EntryIsRemoved ==
  \A n \in Node :
    (\A c \in Call : NodeOf[c] = n => st[c] = "new" \/ Returned(c)) => tail[n] = None
------------------------------------------------------------------------------
(* A node's chain as a line: its calls from the first ticket that has not settled. *)
CallsOf(n) == {c \in Call : NodeOf[c] = n}
FirstOpen(n, k) ==
  \A c \in CallsOf(n) : st[c] # "new" =>
    (ticket[c] < k => Settled(c)) /\ (ticket[c] = k => ~Settled(c))
Served(n) == CHOOSE k \in 0..next[n] : FirstOpen(n, k)
Holder(n, k) == CHOOSE c \in CallsOf(n) : st[c] # "new" /\ ticket[c] = k

LineOf(n) == [i \in 1..(next[n] - Served(n)) |-> Holder(n, Served(n) + i - 1)]
Busy(n) == \E c \in CallsOf(n) : st[c] = "running"
=============================================================================
