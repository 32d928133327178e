--------------------------- MODULE FlushPool_proofs ---------------------------
(***************************************************************************)
(* The rounds of flushAll, for any nodes, lists, rounds and concurrency.   *)
(*                                                                         *)
(* The pool only makes calls and waits for them, so it implements the      *)
(* specification of the queue and has its theorems.  The invariant of the  *)
(* rounds is about the cursor: the nodes before it have been asked for and *)
(* the others have not; of the former, a worker is at each that has not    *)
(* returned; and as long as there are others, a worker is left for them.   *)
(***************************************************************************)
EXTENDS FlushPool, NodeQueue_proofs, FiniteSetTheorems

NotBegun == \A r \in Round : r \notin started => listed[r] = <<>> /\ cursor[r] = 0 /\ at[r] = {}
EachOnce ==
  \A r \in Round : \A i, j \in 1..Len(listed[r]) : listed[r][i] = listed[r][j] => i = j
WorkersWait == \A r \in Round : \A n \in Taken(r) \ at[r] : Returned(<<r, n>>)
WorkersAreFew ==
  \A r \in Round : IsFiniteSet(at[r]) /\ Cardinality(at[r]) <= Concurrency
WorkerIsLeft == \A r \in Round : at[r] = {} => cursor[r] = Len(listed[r])

RInv ==
  /\ PoolTypeOK /\ NotBegun /\ EachOnce /\ TakenOnce /\ WorkersWait /\ WorkersAreFew
  /\ WorkerIsLeft
------------------------------------------------------------------------------
(* A call of a round, and only that one, is at its node. *)
LEMMA RoundCall ==
  ASSUME NEW r \in Round, NEW n \in Node
  PROVE <<r, n>> \in Call /\ NodeOf[<<r, n>>] = n /\ <<r, n>> \in RoundCalls
BY RoundAssumption DEF RoundCalls

(* A set listed by an interval is no larger than the interval. *)
LEMMA ListedCardinality ==
  ASSUME NEW s \in Seq(Node), NEW k \in Nat, k <= Len(s)
  PROVE LET T == {s[i] : i \in 1..k} IN IsFiniteSet(T) /\ Cardinality(T) <= k
<1> DEFINE T == {s[i] : i \in 1..k}
           f == [i \in 1..k |-> s[i]]
<1>1. f \in Surjection(1..k, T)
  BY DEF Surjection
<1>2. IsFiniteSet(1..k)
  BY FS_Interval
<1>3. IsFiniteSet(T)
  BY <1>1, <1>2, FS_Surjection
<1>4. ExistsSurjection(1..k, T)
  BY <1>1 DEF ExistsSurjection
<1>5. Cardinality(T) <= k
  BY <1>4, FS_SurjCardinalityBound
<1> QED BY <1>3, <1>5

(* What a turn of a round does to the calls: those it makes wait, the others stay. *)
LEMMA RoundChain ==
  ASSUME PoolTypeOK, NEW r \in Round, NEW nodes \in SUBSET Node, Chain(FlushesOf(r, nodes))
  PROVE /\ TypeOK'
        /\ \A n \in nodes : st[<<r, n>>] = "new" /\ st'[<<r, n>>] = "waiting"
        /\ \A q \in Round, n \in Node : q # r \/ n \notin nodes => st'[<<q, n>>] = st[<<q, n>>]
<1>1. FlushesOf(r, nodes) \in SUBSET Call
  BY RoundCall DEF FlushesOf
<1>2. TypeOK
  BY DEF PoolTypeOK
<1>3. \A n \in nodes : <<r, n>> \in FlushesOf(r, nodes)
  BY DEF FlushesOf
<1>4. \A q \in Round, n \in Node :
        q # r \/ n \notin nodes => <<q, n>> \in Call \ FlushesOf(r, nodes)
  BY RoundCall DEF FlushesOf
<1> QED BY <1>1, <1>2, <1>3, <1>4, ChainType, ChainEffect

LEMMA InitRounds == PoolInit => RInv
<1> SUFFICES ASSUME PoolInit PROVE RInv
  OBVIOUS
<1>1. PoolTypeOK
  BY InitType DEF PoolInit, PoolTypeOK, Taken
<1>2. NotBegun /\ EachOnce /\ WorkersWait /\ WorkerIsLeft
  BY DEF PoolInit, NotBegun, EachOnce, WorkersWait, WorkerIsLeft, Taken
<1>3. TakenOnce
  <2>1. \A r \in Round : cursor[r] = 0
    BY DEF PoolInit
  <2>2. \A r \in Round : Taken(r) = {}
    BY <2>1 DEF Taken
  <2>3. \A r \in Round, n \in Node : st[<<r, n>>] = "new"
    BY RoundCall DEF PoolInit, Init
  <2> QED BY <2>2, <2>3 DEF TakenOnce
<1>4. WorkersAreFew
  BY FS_EmptySet, ConcurrencyAssumption DEF PoolInit, WorkersAreFew
<1> QED BY <1>1, <1>2, <1>3, <1>4 DEF RInv

LEMMA FlushAllKeeps == ASSUME RInv, NEW r \in Round, FlushAll(r) PROVE RInv'
<1>0. PoolTypeOK /\ NotBegun /\ EachOnce /\ TakenOnce /\ WorkersWait /\ WorkersAreFew
      /\ WorkerIsLeft
  BY DEF RInv
<1>1. PICK nodeIds \in Lists[r] :
        /\ listed' = [listed EXCEPT ![r] = nodeIds]
        /\ cursor' = [cursor EXCEPT ![r] = Workers(Len(nodeIds))]
        /\ at' = [at EXCEPT ![r] = {nodeIds[i] : i \in 1..Workers(Len(nodeIds))}]
        /\ Chain(FlushesOf(r, {nodeIds[i] : i \in 1..Workers(Len(nodeIds))}))
  BY DEF FlushAll
<1> DEFINE k == Workers(Len(nodeIds))
           first == {nodeIds[i] : i \in 1..k}
<1>2. r \notin started /\ started' = started \cup {r}
  BY DEF FlushAll
<1>3. /\ nodeIds \in Seq(Node) /\ Len(nodeIds) \in Nat
      /\ \A i \in 1..Len(nodeIds) : nodeIds[i] \in Node
      /\ \A i, j \in 1..Len(nodeIds) : nodeIds[i] = nodeIds[j] => i = j
  BY ListsAssumption
<1>4. k \in Nat /\ k <= Len(nodeIds) /\ k <= Concurrency /\ (k = 0 => Len(nodeIds) = 0)
  BY <1>3, ConcurrencyAssumption DEF Workers
<1>5. first \in SUBSET Node
  BY <1>3, <1>4
<1>6. /\ listed'[r] = nodeIds /\ cursor'[r] = k /\ at'[r] = first /\ Taken(r)' = first
      /\ \A q \in Round : q # r => /\ listed'[q] = listed[q] /\ cursor'[q] = cursor[q]
                                   /\ at'[q] = at[q] /\ Taken(q)' = Taken(q)
  BY <1>0, <1>1, <1>3 DEF PoolTypeOK, Taken
<1>7. /\ TypeOK'
      /\ \A n \in first : st'[<<r, n>>] = "waiting"
      /\ \A q \in Round, n \in Node : q # r \/ n \notin first => st'[<<q, n>>] = st[<<q, n>>]
  BY <1>0, <1>1, <1>5, RoundChain
<1>8. PoolTypeOK'
  <2>1. /\ started' \in SUBSET Round
        /\ listed' \in [Round -> Seq(Node)] /\ cursor' \in [Round -> Nat]
        /\ at' \in [Round -> SUBSET Node]
    BY <1>0, <1>1, <1>2, <1>3, <1>4, <1>5 DEF PoolTypeOK
  <2>2. \A q \in Round : cursor'[q] <= Len(listed'[q]) /\ at'[q] \subseteq Taken(q)'
    BY <1>0, <1>4, <1>6 DEF PoolTypeOK
  <2> QED BY <2>1, <2>2, <1>7 DEF PoolTypeOK
<1>9. NotBegun' /\ EachOnce'
  BY <1>0, <1>2, <1>3, <1>6 DEF NotBegun, EachOnce
<1>10. TakenOnce'
  <2>1. Taken(r) = {}
    BY <1>0, <1>2 DEF NotBegun, Taken
  <2>2. \A n \in Node : st[<<r, n>>] = "new"
    BY <2>1, <1>0 DEF TakenOnce
  <2>3. ASSUME NEW n \in Node PROVE st'[<<r, n>>] = "new" <=> n \notin first
    BY <2>2, <1>7
  <2>4. ASSUME NEW q \in Round, NEW n \in Node, q # r
        PROVE st'[<<q, n>>] = "new" <=> n \notin Taken(q)'
    <3>1. st'[<<q, n>>] = st[<<q, n>>] /\ Taken(q)' = Taken(q)
      BY <2>4, <1>6, <1>7
    <3> QED BY <3>1, <1>0 DEF TakenOnce
  <2> QED BY <2>3, <2>4, <1>6 DEF TakenOnce
<1>11. WorkersWait'
  <2>1. \A q \in Round : Taken(q) \subseteq Node
    BY <1>0 DEF PoolTypeOK, Taken
  <2>2. ASSUME NEW q \in Round, NEW n \in Taken(q)' \ at'[q] PROVE Returned(<<q, n>>)'
    <3>1. q # r /\ n \in Taken(q) \ at[q] /\ n \in Node
      BY <2>1, <2>2, <1>6
    <3>2. st'[<<q, n>>] = st[<<q, n>>]
      BY <3>1, <1>7
    <3> QED BY <3>1, <3>2, <1>0 DEF WorkersWait, Returned
  <2> QED BY <2>2 DEF WorkersWait
<1>12. WorkersAreFew'
  <2>1. IsFiniteSet(first) /\ Cardinality(first) <= k
    BY <1>3, <1>4, ListedCardinality
  <2>2. Cardinality(first) \in Nat
    BY <2>1, FS_CardinalityType
  <2>3. IsFiniteSet(first) /\ Cardinality(first) <= Concurrency
    BY <2>1, <2>2, <1>4, ConcurrencyAssumption
  <2>4. ASSUME NEW q \in Round PROVE IsFiniteSet(at'[q]) /\ Cardinality(at'[q]) <= Concurrency
    BY <2>3, <1>0, <1>6 DEF WorkersAreFew
  <2> QED BY <2>4 DEF WorkersAreFew
<1>13. WorkerIsLeft'
  <2>1. first = {} => k = 0
    <3>1. k # 0 => nodeIds[1] \in first
      BY <1>4
    <3> QED BY <3>1
  <2> QED BY <2>1, <1>0, <1>4, <1>6 DEF WorkerIsLeft
<1> QED BY <1>8, <1>9, <1>10, <1>11, <1>12, <1>13 DEF RInv

LEMMA TakeNextKeeps ==
  ASSUME RInv, NEW r \in Round, NEW n \in Node, TakeNext(r, n)
  PROVE RInv' /\ \E m \in Node : Chain({<<r, m>>})
<1>0. PoolTypeOK /\ NotBegun /\ EachOnce /\ TakenOnce /\ WorkersWait /\ WorkersAreFew
      /\ WorkerIsLeft
  BY DEF RInv
<1> DEFINE m == listed[r][cursor[r] + 1]
<1>1. /\ n \in at[r] /\ Returned(<<r, n>>) /\ cursor[r] < Len(listed[r])
      /\ cursor' = [cursor EXCEPT ![r] = @ + 1]
      /\ at' = [at EXCEPT ![r] = (@ \ {n}) \cup {m}]
      /\ Chain({<<r, m>>})
      /\ UNCHANGED <<started, listed>>
  BY DEF TakeNext, Back, More, MoveCursor
<1>2. /\ listed[r] \in Seq(Node) /\ Len(listed[r]) \in Nat /\ cursor[r] \in Nat
      /\ cursor[r] + 1 \in 1..Len(listed[r])
      /\ \A i \in 1..Len(listed[r]) : listed[r][i] \in Node
  BY <1>0, <1>1 DEF PoolTypeOK
<1>3. m \in Node
  BY <1>2
<1>4. m \notin Taken(r)
  BY <1>0, <1>2 DEF EachOnce, Taken
<1>5. /\ cursor'[r] = cursor[r] + 1 /\ at'[r] = (at[r] \ {n}) \cup {m}
      /\ Taken(r)' = Taken(r) \cup {m}
      /\ \A q \in Round : q # r => /\ cursor'[q] = cursor[q]
                                   /\ at'[q] = at[q] /\ Taken(q)' = Taken(q)
  <2>1. /\ cursor'[r] = cursor[r] + 1 /\ at'[r] = (at[r] \ {n}) \cup {m}
        /\ \A q \in Round : q # r => cursor'[q] = cursor[q] /\ at'[q] = at[q]
    BY <1>0, <1>1 DEF PoolTypeOK
  <2>2. \A q \in Round : q # r => Taken(q)' = Taken(q)
    BY <2>1, <1>1 DEF Taken
  <2>3. Taken(r)' = Taken(r) \cup {m}
    <3>1. Taken(r)' = {listed[r][i] : i \in 1..(cursor[r] + 1)}
      BY <2>1, <1>1 DEF Taken
    <3>2. 1..(cursor[r] + 1) = (1..cursor[r]) \cup {cursor[r] + 1}
      BY <1>2
    <3> QED BY <3>1, <3>2 DEF Taken
  <2> QED BY <2>1, <2>2, <2>3
<1>6. /\ TypeOK'
      /\ st'[<<r, m>>] = "waiting"
      /\ \A q \in Round, e \in Node : q # r \/ e # m => st'[<<q, e>>] = st[<<q, e>>]
  <2>1. FlushesOf(r, {m}) = {<<r, m>>} /\ {m} \in SUBSET Node
    BY <1>3 DEF FlushesOf
  <2>2. Chain(FlushesOf(r, {m}))
    BY <2>1, <1>1
  <2> HIDE DEF m
  <2> QED BY <2>1, <2>2, <1>0, RoundChain
<1>7. PoolTypeOK'
  <2>1. /\ started' \in SUBSET Round
        /\ listed' \in [Round -> Seq(Node)] /\ cursor' \in [Round -> Nat]
        /\ at' \in [Round -> SUBSET Node]
    BY <1>0, <1>1, <1>2, <1>3 DEF PoolTypeOK
  <2>2. \A q \in Round : cursor'[q] <= Len(listed'[q]) /\ at'[q] \subseteq Taken(q)'
    BY <1>0, <1>1, <1>2, <1>5 DEF PoolTypeOK
  <2> QED BY <2>1, <2>2, <1>6 DEF PoolTypeOK
<1>8. NotBegun' /\ EachOnce' /\ WorkerIsLeft'
  <2>1. r \in started
    BY <1>0, <1>1 DEF NotBegun
  <2> QED BY <2>1, <1>0, <1>1, <1>5 DEF NotBegun, EachOnce, WorkerIsLeft
<1>9. TakenOnce'
  <2>1. ASSUME NEW q \in Round, NEW e \in Node
        PROVE st'[<<q, e>>] = "new" <=> e \notin Taken(q)'
    <3>1. CASE q = r /\ e = m
      <4>1. e \in Taken(q)' /\ st'[<<q, e>>] = "waiting"
        BY <3>1, <1>5, <1>6
      <4> QED BY <4>1
    <3>2. CASE q # r \/ e # m
      <4>1. st'[<<q, e>>] = st[<<q, e>>] /\ (e \in Taken(q)' <=> e \in Taken(q))
        BY <3>2, <1>5, <1>6
      <4> QED BY <4>1, <1>0 DEF TakenOnce
    <3> QED BY <3>1, <3>2
  <2> QED BY <2>1 DEF TakenOnce
<1>10. WorkersWait'
  <2>1. \A q \in Round : Taken(q) \subseteq Node
    BY <1>0 DEF PoolTypeOK, Taken
  <2>2. ASSUME NEW q \in Round, NEW e \in Taken(q)' \ at'[q] PROVE Returned(<<q, e>>)'
    <3>1. q # r \/ e # m
      BY <2>2, <1>5
    <3>2. e \in Taken(q) /\ e \in Node /\ (e \notin at[q] \/ (q = r /\ e = n))
      BY <2>1, <2>2, <3>1, <1>5
    <3>3. Returned(<<q, e>>)
      BY <3>2, <1>0, <1>1 DEF WorkersWait
    <3>4. st'[<<q, e>>] = st[<<q, e>>]
      BY <3>1, <3>2, <1>6
    <3> QED BY <3>3, <3>4 DEF Returned
  <2> QED BY <2>2 DEF WorkersWait
<1>11. WorkersAreFew'
  <2>1. IsFiniteSet(at[r]) /\ Cardinality(at[r]) \in Nat /\ Cardinality(at[r]) <= Concurrency
    BY <1>0, FS_CardinalityType DEF WorkersAreFew
  <2>2. IsFiniteSet(at[r] \ {n}) /\ Cardinality(at[r] \ {n}) = Cardinality(at[r]) - 1
    BY <2>1, <1>1, FS_RemoveElement
  <2> DEFINE others == at[r] \ {n}
  <2>3. /\ IsFiniteSet(others \cup {m})
        /\ Cardinality(others \cup {m}) = Cardinality(others) + (IF m \in others THEN 0 ELSE 1)
    <3> HIDE DEF others, m
    <3>1. IsFiniteSet(others) /\ Cardinality(others) \in Nat
      BY <2>1, <2>2, FS_CardinalityType DEF others
    <3> QED BY <3>1, FS_AddElement
  <2>4. IsFiniteSet(at'[r]) /\ Cardinality(at'[r]) <= Concurrency
    BY <2>1, <2>2, <2>3, <1>5, ConcurrencyAssumption
  <2>5. ASSUME NEW q \in Round PROVE IsFiniteSet(at'[q]) /\ Cardinality(at'[q]) <= Concurrency
    BY <2>4, <1>0, <1>5 DEF WorkersAreFew
  <2> QED BY <2>5 DEF WorkersAreFew
<1> QED BY <1>1, <1>3, <1>7, <1>8, <1>9, <1>10, <1>11 DEF RInv

LEMMA WorkerEndsKeeps ==
  ASSUME RInv, NEW r \in Round, NEW n \in Node, WorkerEnds(r, n) PROVE RInv'
<1>0. PoolTypeOK /\ NotBegun /\ EachOnce /\ TakenOnce /\ WorkersWait /\ WorkersAreFew
      /\ WorkerIsLeft
  BY DEF RInv
<1>1. /\ n \in at[r] /\ Returned(<<r, n>>) /\ ~(cursor[r] < Len(listed[r]))
      /\ at' = [at EXCEPT ![r] = @ \ {n}]
      /\ UNCHANGED <<tail, previous, st, ticket, next, started, listed, cursor>>
  BY DEF WorkerEnds, Back, More, queueVars
<1>2. /\ at'[r] = at[r] \ {n} /\ \A q \in Round : q # r => at'[q] = at[q]
      /\ \A q \in Round : Taken(q)' = Taken(q)
  BY <1>0, <1>1 DEF PoolTypeOK, Taken
<1>3. PoolTypeOK'
  BY <1>0, <1>1, <1>2 DEF PoolTypeOK, TypeOK
<1>4. NotBegun' /\ EachOnce' /\ TakenOnce'
  BY <1>0, <1>1, <1>2 DEF NotBegun, EachOnce, TakenOnce
<1>5. WorkersWait'
  BY <1>0, <1>1, <1>2 DEF WorkersWait, Returned
<1>6. WorkersAreFew'
  <2>1. IsFiniteSet(at[r]) /\ Cardinality(at[r]) \in Nat /\ Cardinality(at[r]) <= Concurrency
    BY <1>0, FS_CardinalityType DEF WorkersAreFew
  <2>2. IsFiniteSet(at[r] \ {n}) /\ Cardinality(at[r] \ {n}) = Cardinality(at[r]) - 1
    BY <2>1, <1>1, FS_RemoveElement
  <2>3. IsFiniteSet(at'[r]) /\ Cardinality(at'[r]) <= Concurrency
    BY <2>1, <2>2, <1>2, ConcurrencyAssumption
  <2>4. ASSUME NEW q \in Round PROVE IsFiniteSet(at'[q]) /\ Cardinality(at'[q]) <= Concurrency
    BY <2>3, <1>0, <1>2 DEF WorkersAreFew
  <2> QED BY <2>4 DEF WorkersAreFew
<1>7. WorkerIsLeft'
  BY <1>0, <1>1, <1>2 DEF WorkerIsLeft, PoolTypeOK
<1> QED BY <1>3, <1>4, <1>5, <1>6, <1>7 DEF RInv

(* Steps of the queue that are not a round's leave its calls new, and returned ones
   returned. *)
LEMMA QueueStepKeeps ==
  ASSUME RInv, [Next]_queueVars, UNCHANGED roundVars,
         \A c \in RoundCalls : st[c] = "new" <=> st'[c] = "new",
         \A c \in RoundCalls : Returned(c) => Returned(c)'
  PROVE RInv'
<1>0. PoolTypeOK /\ NotBegun /\ EachOnce /\ TakenOnce /\ WorkersWait /\ WorkersAreFew
      /\ WorkerIsLeft
  BY DEF RInv
<1>1. UNCHANGED <<started, listed, cursor, at>> /\ \A q \in Round : Taken(q)' = Taken(q)
  BY DEF roundVars, Taken
<1>2. TypeOK'
  BY <1>0, NextType DEF PoolTypeOK
<1>3. PoolTypeOK' /\ NotBegun' /\ EachOnce' /\ WorkersAreFew' /\ WorkerIsLeft'
  BY <1>0, <1>1, <1>2 DEF PoolTypeOK, NotBegun, EachOnce, WorkersAreFew, WorkerIsLeft
<1>4. TakenOnce'
  BY <1>0, <1>1, RoundCall DEF TakenOnce
<1>5. WorkersWait'
  <2>1. \A q \in Round : Taken(q) \subseteq Node
    BY <1>0 DEF PoolTypeOK, Taken
  <2> QED BY <2>1, <1>0, <1>1, RoundCall DEF WorkersWait
<1> QED BY <1>3, <1>4, <1>5 DEF RInv

LEMMA ProgressEffect ==
  ASSUME TypeOK, NEW c \in Call, Progress(c)
  PROVE \A d \in Call : (st[d] = "new" <=> st'[d] = "new") /\ (Returned(d) => Returned(d)')
<1>1. CASE Start(c)
  BY <1>1 DEF Start, TypeOK, Returned
<1>2. CASE Settle(c)
  BY <1>2 DEF Settle, Outcomes, TypeOK, Returned
<1>3. CASE Finally(c)
  BY <1>3 DEF Finally, TypeOK, Returned
<1> QED BY <1>1, <1>2, <1>3 DEF Progress

LEMMA RoundStep == RInv /\ [PoolNext]_vars => RInv' /\ [Next]_queueVars
<1> SUFFICES ASSUME RInv, [PoolNext]_vars PROVE RInv' /\ [Next]_queueVars
  OBVIOUS
<1>0. TypeOK
  BY DEF RInv, PoolTypeOK
<1>c. \A c \in RoundCalls : c \in Call
  BY RoundAssumption DEF RoundCalls
<1>1. ASSUME NEW r \in Round, FlushAll(r) PROVE RInv' /\ [Next]_queueVars
  <2>1. PICK nodeIds \in Lists[r] :
          Chain(FlushesOf(r, {nodeIds[i] : i \in 1..Workers(Len(nodeIds))}))
    BY <1>1 DEF FlushAll
  <2>2. \A i \in 1..Workers(Len(nodeIds)) : nodeIds[i] \in Node
    BY ListsAssumption, ConcurrencyAssumption DEF Workers
  <2>3. FlushesOf(r, {nodeIds[i] : i \in 1..Workers(Len(nodeIds))}) \in SUBSET Call
    BY <2>2, RoundAssumption DEF FlushesOf
  <2> QED BY <2>1, <2>3, <1>1, FlushAllKeeps DEF Next
<1>2. ASSUME NEW r \in Round, NEW n \in Node, TakeNext(r, n) PROVE RInv' /\ [Next]_queueVars
  <2>1. PICK m \in Node : Chain({<<r, m>>})
    BY <1>2, TakeNextKeeps
  <2>2. {<<r, m>>} \in SUBSET Call
    BY RoundCall
  <2> QED BY <2>1, <2>2, <1>2, TakeNextKeeps DEF Next
<1>3. ASSUME NEW r \in Round, NEW n \in Node, WorkerEnds(r, n) PROVE RInv' /\ [Next]_queueVars
  BY <1>3, WorkerEndsKeeps DEF WorkerEnds
<1>4. ASSUME NEW c \in Call, OtherCall(c) PROVE RInv' /\ [Next]_queueVars
  <2>1. Chain({c}) /\ {c} \in SUBSET Call /\ c \notin RoundCalls /\ UNCHANGED roundVars
    BY <1>4 DEF OtherCall
  <2>2. \A d \in RoundCalls : st'[d] = st[d]
    BY <2>1, <1>0, <1>c, ChainEffect
  <2>3. [Next]_queueVars
    BY <2>1 DEF Next
  <2> QED BY <2>1, <2>2, <2>3, QueueStepKeeps DEF Returned
<1>5. ASSUME NEW c \in Call, Progress(c), UNCHANGED roundVars PROVE RInv' /\ [Next]_queueVars
  <2>1. [Next]_queueVars
    BY <1>5 DEF Next
  <2> QED BY <2>1, <1>0, <1>c, <1>5, ProgressEffect, QueueStepKeeps
<1>6. CASE UNCHANGED vars
  <2>1. [Next]_queueVars /\ UNCHANGED roundVars /\ st' = st
    BY <1>6 DEF vars, queueVars
  <2> QED BY <2>1, QueueStepKeeps DEF Returned
<1> QED BY <1>1, <1>2, <1>3, <1>4, <1>5, <1>6 DEF PoolNext, WorkerStep

LEMMA RoundsInvariant == PoolSpec => []RInv
<1>1. QED BY InitRounds, RoundStep, PTL DEF PoolSpec
------------------------------------------------------------------------------
(* The calls of flushAll go through runExclusive like any others: the pool implements
   the queue, so that its theorems hold for every node while rounds overlap. *)
THEOREM PoolUsesQueue == PoolSpec => Spec
<1>1. PoolInit => Init
  BY DEF PoolInit
<1> QED BY <1>1, RoundsInvariant, RoundStep, PTL DEF PoolSpec, Spec

(* Type correctness of the pool: workers are only at nodes their round has taken. *)
THEOREM PoolTypeCorrect == PoolSpec => []PoolTypeOK
<1>1. RInv => PoolTypeOK
  BY DEF RInv
<1> QED BY <1>1, RoundsInvariant, PTL

(* The cursor hands every node out once, in the order of the list. *)
THEOREM CursorIsRight == PoolSpec => []TakenOnce
<1>1. RInv => TakenOnce
  BY DEF RInv
<1> QED BY <1>1, RoundsInvariant, PTL

LEMMA InvCovers == RInv => RoundCovers
<1> SUFFICES ASSUME RInv, NEW r \in Round, Over(r), NEW i \in 1..Len(listed[r])
             PROVE Returned(<<r, listed[r][i]>>)
  BY DEF RoundCovers
<1>1. at[r] = {} /\ cursor[r] = Len(listed[r])
  BY DEF RInv, WorkerIsLeft, Over
<1>2. listed[r][i] \in Taken(r) \ at[r]
  BY <1>1 DEF Taken
<1> QED BY <1>2 DEF RInv, WorkersWait

(* When flushAll resolves, every document that was in memory when it began was
   flushed, or its flush rejected: none is skipped. *)
THEOREM RoundIsComplete == PoolSpec => []RoundCovers
<1>1. QED BY RoundsInvariant, InvCovers, PTL

LEMMA InvBounds == RInv => PoolIsBounded
<1> SUFFICES ASSUME RInv, NEW r \in Round
             PROVE Cardinality(UnderWay(r)) <= Concurrency /\ (UnderWay(r) # {} => Running(r))
  BY DEF PoolIsBounded
<1>1. UnderWay(r) \subseteq at[r]
  BY DEF RInv, TakenOnce, WorkersWait, UnderWay
<1>2. IsFiniteSet(at[r]) /\ Cardinality(at[r]) <= Concurrency
  BY DEF RInv, WorkersAreFew
<1>3. UnderWay(r) \in SUBSET at[r]
  BY <1>1
<1>4. /\ Cardinality(UnderWay(r)) <= Cardinality(at[r]) /\ Cardinality(at[r]) \in Nat
      /\ Cardinality(UnderWay(r)) \in Nat
  BY <1>2, <1>3, FS_Subset, FS_CardinalityType
<1>5. Cardinality(UnderWay(r)) <= Concurrency
  BY <1>2, <1>4, ConcurrencyAssumption
<1>6. UnderWay(r) # {} => Running(r)
  BY <1>1 DEF RInv, NotBegun, Running
<1> QED BY <1>5, <1>6

(* At most FLUSH_CONCURRENCY flushes of a round are under way, as the comment of
   flushAll says, however many documents there are. *)
THEOREM RoundIsBounded == PoolSpec => []PoolIsBounded
<1>1. QED BY RoundsInvariant, InvBounds, PTL

------------------------------------------------------------------------------
(* With other rounds and other calls of its nodes, each chain is still a line. *)
THEOREM PoolChainsAreLines == ASSUME NEW n \in Node PROVE PoolSpec => Line(n)!SafeSpec
<1>1. Spec => Line(n)!SafeSpec
  BY ChainsAreLines
<1> QED BY <1>1, PoolUsesQueue, PTL

(* A worker whose flush has returned can go on, to a node nobody of its round has
   taken; one whose flush has not awaits a chain in which somebody can.  RoundsEnd
   needs this and fairness. *)
WorkersGoOn ==
  \A r \in Round : \A n \in at[r] :
    IF Back(<<r, n>>) THEN More(r) => st[<<r, listed[r][cursor[r] + 1]>>] = "new"
    ELSE \E c \in Call : NodeOf[c] = n /\ CanGoOn(c)

LEMMA WorkersCanGoOn == RInv /\ LInv => WorkersGoOn
<1> SUFFICES ASSUME RInv, LInv, NEW r \in Round, NEW n \in at[r]
             PROVE  IF Back(<<r, n>>) THEN More(r) => st[<<r, listed[r][cursor[r] + 1]>>] = "new"
                    ELSE \E c \in Call : NodeOf[c] = n /\ CanGoOn(c)
  BY DEF WorkersGoOn
<1>1. /\ n \in Node /\ n \in Taken(r) /\ listed[r] \in Seq(Node) /\ cursor[r] \in Nat
      /\ TakenOnce /\ EachOnce /\ TypeOK
  BY DEF RInv, PoolTypeOK
<1>2. <<r, n>> \in Call /\ NodeOf[<<r, n>>] = n
  BY <1>1, RoundCall
<1>3. ASSUME More(r) PROVE st[<<r, listed[r][cursor[r] + 1]>>] = "new"
  <2>1. Len(listed[r]) \in Nat /\ cursor[r] + 1 \in 1..Len(listed[r])
    BY <1>1, <1>3, LenProperties DEF More
  <2>2. listed[r][cursor[r] + 1] \in Node
    BY <1>1, <2>1, ElementOfSeq
  <2>3. \A i \in 1..cursor[r] : i \in 1..Len(listed[r]) /\ i # cursor[r] + 1
    BY <1>1, <2>1
  <2>4. listed[r][cursor[r] + 1] \notin Taken(r)
    BY <1>1, <2>1, <2>3 DEF Taken, EachOnce
  <2> QED BY <1>1, <2>2, <2>4 DEF TakenOnce
<1>4. ASSUME ~Back(<<r, n>>) PROVE \E c \in Call : NodeOf[c] = n /\ CanGoOn(c)
  <2>1. Chained(<<r, n>>) /\ ~Returned(<<r, n>>)
    BY <1>1, <1>4 DEF Back, TakenOnce, Chained
  <2>2. CASE Settled(<<r, n>>)
    <3>1. st[<<r, n>>] \in {"resolved", "rejected"}
      BY <2>1, <2>2 DEF Settled
    <3> QED BY <1>2, <3>1 DEF CanGoOn
  <2>3. CASE ~Settled(<<r, n>>)
    <3>1. LineOf(n) # <<>>
      BY <1>2, <2>1, <2>3, ActiveIsInLine
    <3>2. PICK k \in 0..next[n] : IsServed(n, k)
      BY <1>1 DEF LInv, LineInv, SettledAreFirst
    <3>3. Head(LineOf(n)) \in Call /\ NodeOf[Head(LineOf(n))] = n
      BY <1>1, <3>1, <3>2, HeadIsNext DEF HasTicket
    <3> QED BY <1>1, <3>1, <3>3, HeadIsReady DEF HeadGoesOn
  <2> QED BY <2>2, <2>3
<1> QED BY <1>3, <1>4

(* flushAll: however rounds overlap and whichever flushes reject, no worker is left
   waiting for something that will not happen, and none would flush a node twice. *)
THEOREM WorkersNeverBlock == PoolSpec => []WorkersGoOn
<1>1. QED BY RoundsInvariant, PoolUsesQueue, LInvariance, WorkersCanGoOn, PTL
=============================================================================
