------------------------------- MODULE FlushPool -------------------------------
(***************************************************************************)
(* flushAll of src/src/global/yjs/yjs-doc-manager.ts: a list of the nodes  *)
(* in memory, a cursor into it, and a few workers that take the next node, *)
(* flush it through its queue and come back.  The interval that calls it   *)
(* does not wait for it, so that rounds may overlap; the same nodes have   *)
(* other flushes and appends in between.                                   *)
(***************************************************************************)
EXTENDS NodeQueue, Sequences, FiniteSets

CONSTANTS
  Round,         \* calls of flushAll; round r flushes node n by the call <<r, n>>
  Lists,         \* what [...docs.keys()] may be in a round: nodes, each once
  Concurrency    \* FLUSH_CONCURRENCY

ASSUME RoundAssumption ==
  \A r \in Round, n \in Node : <<r, n>> \in Call /\ NodeOf[<<r, n>>] = n
ASSUME ListsAssumption ==
  /\ Lists \in [Round -> SUBSET Seq(Node)]
  /\ \A r \in Round : \A nodeIds \in Lists[r] : \A i, j \in 1..Len(nodeIds) : nodeIds[i] = nodeIds[j] => i = j
ASSUME ConcurrencyAssumption == Concurrency \in Nat \ {0}

VARIABLES
  started,   \* the rounds that began
  listed,    \* nodeIds of each round
  cursor,    \* how many of them its workers have taken
  at         \* the nodes whose flush a worker of the round awaits

roundVars == <<started, listed, cursor, at>>
vars == <<queueVars, roundVars>>

Taken(r) == {listed[r][i] : i \in 1..cursor[r]}
FlushesOf(r, nodes) == {<<r, n>> : n \in nodes}
RoundCalls == Round \X Node

(* Values, and workers are at nodes their round has taken. *)
PoolTypeOK ==
  /\ TypeOK
  /\ started \in SUBSET Round
  /\ listed \in [Round -> Seq(Node)] /\ cursor \in [Round -> Nat]
  /\ at \in [Round -> SUBSET Node]
  /\ \A r \in Round : cursor[r] <= Len(listed[r]) /\ at[r] \subseteq Taken(r)

PoolInit ==
  /\ Init
  /\ started = {} /\ listed = [r \in Round |-> <<>>] /\ cursor = [r \in Round |-> 0]
  /\ at = [r \in Round |-> {}]

(* Mutant: one worker per node. *)
AllAtOnce(count) == count

(* Math.min(FLUSH_CONCURRENCY, nodeIds.length). *)
Workers(count) == IF count < Concurrency THEN count ELSE Concurrency

(* The interval fires, or the module is destroyed: every worker takes its first
   node in the same turn. *)
FlushAll(r) ==
  /\ r \notin started /\ started' = started \cup {r}
  /\ \E nodeIds \in Lists[r] :
       LET first == {nodeIds[i] : i \in 1..Workers(Len(nodeIds))} IN
       /\ listed' = [listed EXCEPT ![r] = nodeIds]
       /\ cursor' = [cursor EXCEPT ![r] = Workers(Len(nodeIds))]
       /\ at' = [at EXCEPT ![r] = first]
       /\ Chain(FlushesOf(r, first))

(* Mutant: the cursor is moved after the flush, as by two workers that read it at once. *)
CursorStays(r) == cursor' = cursor

MoveCursor(r) == cursor' = [cursor EXCEPT ![r] = @ + 1]

(* Mutant: the rejection of a flush is not caught, and ends its worker. *)
BackIfResolved(c) == st[c] = "done"

(* await flushDoc(..).catch(..) is over, either way. *)
Back(c) == Returned(c)

(* Mutant: cursor < nodeIds.length - 1. *)
MoreButLast(r) == cursor[r] + 1 < Len(listed[r])

(* while (cursor < nodeIds.length). *)
More(r) == cursor[r] < Len(listed[r])

(* The worker that was at node n takes the next one. *)
TakeNext(r, n) ==
  /\ n \in at[r] /\ Back(<<r, n>>) /\ More(r)
  /\ LET nodeId == listed[r][cursor[r] + 1] IN
       /\ MoveCursor(r)
       /\ at' = [at EXCEPT ![r] = (@ \ {n}) \cup {nodeId}]
       /\ Chain({<<r, nodeId>>})
  /\ UNCHANGED <<started, listed>>

(* Nothing is left: the worker ends, and with the last one Promise.all resolves. *)
WorkerEnds(r, n) ==
  /\ n \in at[r] /\ Back(<<r, n>>) /\ ~More(r)
  /\ at' = [at EXCEPT ![r] = @ \ {n}]
  /\ UNCHANGED <<queueVars, started, listed, cursor>>

WorkerStep(r) == \E n \in Node : TakeNext(r, n) \/ WorkerEnds(r, n)

(* A debounced flush, the flush of a last leave, or an append. *)
OtherCall(c) == c \notin RoundCalls /\ Chain({c}) /\ UNCHANGED roundVars

PoolNext ==
  \/ \E r \in Round : FlushAll(r) \/ WorkerStep(r)
  \/ \E c \in Call : OtherCall(c) \/ (Progress(c) /\ UNCHANGED roundVars)

PoolSpec == PoolInit /\ [][PoolNext]_vars

(* Promise reactions run, and a task's promise settles. *)
PoolFairSpec ==
  /\ PoolSpec
  /\ WF_vars(\E c \in Call : Progress(c) /\ UNCHANGED roundVars)
  /\ \A r \in Round : WF_vars(WorkerStep(r))
------------------------------------------------------------------------------
Running(r) == r \in started /\ at[r] # {}
Over(r) == r \in started /\ at[r] = {}

(* When flushAll resolves, every document that was in memory when it began had
   its flush, whichever of them rejected and whatever the other rounds did. *)
RoundCovers ==
  \A r \in Round : Over(r) => \A i \in 1..Len(listed[r]) : Returned(<<r, listed[r][i]>>)

(* No node is taken twice or out of turn: the flushes a round has asked for are
   those of the first nodes of its list, and the others wait for a worker. *)
TakenOnce ==
  \A r \in Round : \A n \in Node : st[<<r, n>>] = "new" <=> n \notin Taken(r)

(* Rounds may overlap, and each brings its workers: a round has FLUSH_CONCURRENCY
   flushes under way at most, each a transaction, and none once it is over. *)
UnderWay(r) == {n \in Node : st[<<r, n>>] # "new" /\ ~Returned(<<r, n>>)}
PoolIsBounded ==
  \A r \in Round :
    Cardinality(UnderWay(r)) <= Concurrency /\ (UnderWay(r) # {} => Running(r))

(* A round ends, whatever its flushes wait for. *)
RoundsEnd == \A r \in Round : (r \in started) ~> Over(r)
=============================================================================
