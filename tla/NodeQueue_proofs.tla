------------------------- MODULE NodeQueue_proofs ---------------------------
(***************************************************************************)
(* Mutual exclusion and order of runExclusive, for any nodes and calls.    *)
(*                                                                         *)
(* What a call waits for is its predecessor only, so the invariant says    *)
(* that nothing else of its node can be between them: the entry of the map *)
(* is the youngest link, a link and its predecessor are neighbours in the  *)
(* order of tickets, and once a link started, all the older ones had       *)
(* settled.                                                                *)
(***************************************************************************)
EXTENDS NodeQueue, SequenceTheorems, TLAPS

Chained(c) == st[c] # "new"
Older(d, c) == Chained(d) /\ SameNode(d, c) /\ ticket[d] < ticket[c]

Tickets ==
  /\ \A c \in Call : Chained(c) => ticket[c] < next[NodeOf[c]]
  /\ \A c, d \in Call :
       Chained(c) /\ Chained(d) /\ SameNode(c, d) /\ c # d => ticket[c] # ticket[d]

(* The map holds the youngest link, and forgets it only when nobody is active. *)
TailIsYoungest ==
  \A c \in Call : Chained(c) =>
    /\ tail[NodeOf[c]] = None => Settled(c)
    /\ tail[NodeOf[c]] # None =>
         ~Returned(tail[NodeOf[c]]) /\ ticket[c] <= ticket[tail[NodeOf[c]]]

(* Whatever is older than a waiting call is its predecessor, older than that,
   or settled already. *)
PreviousIsNeighbour ==
  \A c \in Call : st[c] = "waiting" =>
    /\ previous[c] # None => Older(previous[c], c)
    /\ \A d \in Call : Older(d, c) =>
         \/ Settled(d)
         \/ previous[c] # None /\ ticket[d] <= ticket[previous[c]]

(* A call that started found everything older settled. *)
OlderSettled ==
  \A c, d \in Call : Chained(c) /\ st[c] # "waiting" /\ Older(d, c) => Settled(d)

IInv == TypeOK /\ Tickets /\ TailIsYoungest /\ PreviousIsNeighbour /\ OlderSettled
------------------------------------------------------------------------------
(* What one turn's calls do to the entries of the map. *)
LEMMA LastOfCalls ==
  ASSUME NEW calls \in SUBSET Call, \A c, d \in calls : SameNode(c, d) => c = d
  PROVE /\ \A c \in calls : LastOf(calls, NodeOf[c]) = c
        /\ \A n \in Node : (\A c \in calls : NodeOf[c] # n) => LastOf(calls, n) = tail[n]
<1>1. ASSUME NEW c \in calls PROVE LastOf(calls, NodeOf[c]) = c
  <2>1. PICK d : d = CHOOSE e \in calls : NodeOf[e] = NodeOf[c]
    OBVIOUS
  <2>2. d \in calls /\ NodeOf[d] = NodeOf[c]
    BY <2>1, <1>1
  <2> QED BY <2>1, <2>2, <1>1 DEF LastOf, SameNode
<1>2. ASSUME NEW n \in Node, \A c \in calls : NodeOf[c] # n PROVE LastOf(calls, n) = tail[n]
  BY <1>2 DEF LastOf
<1> QED BY <1>1, <1>2

(* The effect of a turn's calls, variable by variable. *)
LEMMA ChainEffect ==
  ASSUME TypeOK, NEW calls \in SUBSET Call, Chain(calls)
  PROVE /\ \A c \in calls : /\ st[c] = "new" /\ st'[c] = "waiting"
                            /\ previous'[c] = tail[NodeOf[c]] /\ tail'[NodeOf[c]] = c
                            /\ ticket'[c] = next[NodeOf[c]]
                            /\ next'[NodeOf[c]] = next[NodeOf[c]] + 1
        /\ \A c \in Call \ calls :
             st'[c] = st[c] /\ previous'[c] = previous[c] /\ ticket'[c] = ticket[c]
        /\ \A n \in Node : (\A c \in calls : NodeOf[c] # n) =>
                            tail'[n] = tail[n] /\ next'[n] = next[n]
        /\ \A c, d \in calls : SameNode(c, d) => c = d
<1>1. \A c, d \in calls : SameNode(c, d) => c = d
  BY DEF Chain
<1>2. \A c \in calls : NodeOf[c] \in Node
  BY NodeAssumption
<1>3. \A n \in Node : tail'[n] = LastOf(calls, n)
  BY DEF Chain, SetTail
<1>4. /\ \A c \in calls : tail'[NodeOf[c]] = c
      /\ \A n \in Node : (\A c \in calls : NodeOf[c] # n) => tail'[n] = tail[n]
  BY <1>1, <1>2, <1>3, LastOfCalls
<1> QED BY <1>1, <1>2, <1>4 DEF Chain, TypeOK

(* Type correctness is inductive on its own. *)
LEMMA InitType == Init => TypeOK
  BY DEF Init, TypeOK

LEMMA ChainType == ASSUME TypeOK, NEW calls \in SUBSET Call, Chain(calls) PROVE TypeOK'
<1>1. /\ tail' \in [Node -> Call \cup {None}] /\ previous' \in [Call -> Call \cup {None}]
      /\ st' \in [Call -> {"new", "waiting", "running", "resolved", "rejected", "done", "failed"}]
      /\ ticket' \in [Call -> Nat] /\ next' \in [Node -> Nat]
  <2>1. \A n \in Node : LastOf(calls, n) \in Call \cup {None}
    BY DEF LastOf, TypeOK
  <2> QED BY <2>1, NodeAssumption DEF Chain, SetTail, TypeOK
<1>2. ASSUME NEW n \in Node, tail'[n] # None
      PROVE (NodeOf[tail[n]] = n /\ st[tail[n]] # "new" /\ ticket[tail[n]] = next[n] - 1)'
  <2>1. CASE \E c \in calls : NodeOf[c] = n
    BY <2>1, <1>2, ChainEffect DEF TypeOK
  <2>2. CASE \A c \in calls : NodeOf[c] # n
    <3>1. tail'[n] = tail[n] /\ next'[n] = next[n] /\ tail[n] \in Call
      BY <2>2, <1>2, ChainEffect DEF TypeOK
    <3>2. NodeOf[tail[n]] = n /\ st[tail[n]] # "new" /\ ticket[tail[n]] = next[n] - 1
      BY <3>1, <1>2 DEF TypeOK
    <3>3. tail[n] \notin calls
      BY <2>2, <3>2
    <3>4. st'[tail[n]] = st[tail[n]] /\ ticket'[tail[n]] = ticket[tail[n]]
      BY <3>1, <3>3, ChainEffect
    <3> QED BY <3>1, <3>2, <3>4
  <2> QED BY <2>1, <2>2
<1> QED BY <1>1, <1>2 DEF TypeOK

LEMMA NextType == TypeOK /\ [Next]_queueVars => TypeOK'
<1> SUFFICES ASSUME TypeOK, [Next]_queueVars PROVE TypeOK'
  OBVIOUS
<1>1. ASSUME NEW calls \in SUBSET Call, Chain(calls) PROVE TypeOK'
  BY <1>1, ChainType
<1> USE DEF TypeOK
<1>2. ASSUME NEW c \in Call, Start(c) PROVE TypeOK'
  BY <1>2 DEF Start
<1>3. ASSUME NEW c \in Call, Settle(c) PROVE TypeOK'
  BY <1>3 DEF Settle, Outcomes
<1>4. ASSUME NEW c \in Call, Finally(c) PROVE TypeOK'
  <2>1. /\ st' = [st EXCEPT ![c] = IF @ = "rejected" THEN "failed" ELSE "done"]
        /\ tail' = IF tail[NodeOf[c]] = c THEN [tail EXCEPT ![NodeOf[c]] = None] ELSE tail
        /\ UNCHANGED <<previous, ticket, next>> /\ NodeOf[c] \in Node
    BY <1>4, NodeAssumption DEF Finally, Release
  <2>2. tail' \in [Node -> Call \cup {None}] /\ \A n \in Node : tail'[n] \in {None, tail[n]}
    BY <2>1
  <2>3. \A d \in Call : st[d] # "new" => st'[d] # "new"
    BY <2>1
  <2>4. st' \in [Call -> {"new", "waiting", "running", "resolved", "rejected", "done", "failed"}]
    BY <2>1
  <2> QED BY <2>1, <2>2, <2>3, <2>4
<1>5. CASE UNCHANGED queueVars
  BY <1>5 DEF queueVars
<1> QED BY <1>1, <1>2, <1>3, <1>4, <1>5 DEF Next, Progress

(* Every value of every variable of the promise chains is of its kind. *)
THEOREM TypeCorrect == Spec => []TypeOK
<1>1. QED BY InitType, NextType, PTL DEF Spec

------------------------------------------------------------------------------
(* The inductive invariant, one lemma per step. *)
LEMMA InitInv == Init => IInv
  BY NoneAssumption, NodeAssumption
     DEF Init, IInv, TypeOK, Tickets, TailIsYoungest, PreviousIsNeighbour, OlderSettled,
         Chained, Older, Settled, Returned

LEMMA ChainKeepsInv == ASSUME IInv, NEW calls \in SUBSET Call, Chain(calls) PROVE IInv'
<1> USE NoneAssumption, NodeAssumption DEF Chained, Older, Settled, Returned, SameNode
<1>0. TypeOK /\ TypeOK' /\ Tickets /\ TailIsYoungest /\ PreviousIsNeighbour /\ OlderSettled
  BY ChainType DEF IInv
<1>1. /\ \A c \in calls : /\ st[c] = "new" /\ st'[c] = "waiting"
                         /\ previous'[c] = tail[NodeOf[c]] /\ tail'[NodeOf[c]] = c
                         /\ ticket'[c] = next[NodeOf[c]]
                         /\ next'[NodeOf[c]] = next[NodeOf[c]] + 1
      /\ \A c \in Call \ calls :
           st'[c] = st[c] /\ previous'[c] = previous[c] /\ ticket'[c] = ticket[c]
      /\ \A n \in Node : (\A c \in calls : NodeOf[c] # n) =>
                          tail'[n] = tail[n] /\ next'[n] = next[n]
      /\ \A c, d \in calls : NodeOf[c] = NodeOf[d] => c = d
  BY <1>0, ChainEffect
<1>2. Tickets'
  BY <1>0, <1>1 DEF Tickets, TypeOK
<1>3. TailIsYoungest'
  BY <1>0, <1>1 DEF TailIsYoungest, Tickets, TypeOK
<1>4. PreviousIsNeighbour'
  <2> SUFFICES ASSUME NEW d \in Call, st'[d] = "waiting"
               PROVE (/\ previous[d] # None => Older(previous[d], d)
                      /\ \A e \in Call : Older(e, d) =>
                           \/ Settled(e)
                           \/ previous[d] # None /\ ticket[e] <= ticket[previous[d]])'
    BY DEF PreviousIsNeighbour
  <2>1. CASE d \in calls
    BY <2>1, <1>0, <1>1 DEF TailIsYoungest, Tickets, TypeOK
  <2>2. CASE d \notin calls
    BY <2>2, <1>0, <1>1 DEF PreviousIsNeighbour, Tickets, TypeOK
  <2> QED BY <2>1, <2>2
<1>5. OlderSettled'
  BY <1>0, <1>1 DEF OlderSettled, Tickets, TypeOK
<1> QED BY <1>0, <1>2, <1>3, <1>4, <1>5 DEF IInv

LEMMA StartKeepsInv == ASSUME IInv, NEW c \in Call, Start(c) PROVE IInv'
<1> USE NoneAssumption, NodeAssumption DEF Chained, Older, Settled, Returned, SameNode
<1>0. TypeOK /\ TypeOK' /\ Tickets /\ TailIsYoungest /\ PreviousIsNeighbour /\ OlderSettled
  BY NextType DEF IInv, Next, Progress
<1>1. /\ st' = [st EXCEPT ![c] = "running"] /\ st[c] = "waiting"
      /\ UNCHANGED <<tail, previous, ticket, next>>
      /\ previous[c] # None => Settled(previous[c])
  BY DEF Start, Ready
<1>2. Tickets' /\ TailIsYoungest'
  BY <1>0, <1>1 DEF Tickets, TailIsYoungest, TypeOK
<1>3. PreviousIsNeighbour'
  BY <1>0, <1>1 DEF PreviousIsNeighbour, TypeOK
<1>4. \A d \in Call : Older(d, c) => Settled(d)
  <2> SUFFICES ASSUME NEW d \in Call, Older(d, c), ~Settled(d) PROVE FALSE
    OBVIOUS
  <2>1. /\ previous[c] \in Call /\ ticket[d] <= ticket[previous[c]]
        /\ Settled(previous[c]) /\ Older(previous[c], c)
    BY <1>0, <1>1 DEF PreviousIsNeighbour, TypeOK
  <2>2. d # previous[c] /\ SameNode(d, previous[c]) /\ Chained(d) /\ Chained(previous[c])
    BY <2>1
  <2>3. ticket[d] # ticket[previous[c]] /\ ticket[d] \in Nat /\ ticket[previous[c]] \in Nat
    BY <2>1, <2>2, <1>0 DEF Tickets, TypeOK
  <2>4. Older(d, previous[c]) /\ st[previous[c]] # "waiting"
    BY <2>1, <2>2, <2>3
  <2> QED BY <2>1, <2>2, <2>4, <1>0 DEF OlderSettled
<1>5. OlderSettled'
  BY <1>0, <1>1, <1>4 DEF OlderSettled, TypeOK
<1> QED BY <1>0, <1>2, <1>3, <1>5 DEF IInv

LEMMA SettleKeepsInv == ASSUME IInv, NEW c \in Call, Settle(c) PROVE IInv'
<1> USE NoneAssumption, NodeAssumption DEF Chained, Older, Settled, Returned, SameNode
<1>0. TypeOK /\ TypeOK' /\ Tickets /\ TailIsYoungest /\ PreviousIsNeighbour /\ OlderSettled
  BY NextType DEF IInv, Next, Progress
<1>1. PICK outcome \in {"resolved", "rejected"} : st' = [st EXCEPT ![c] = outcome]
  BY DEF Settle, Outcomes
<1>2. st[c] = "running" /\ UNCHANGED <<tail, previous, ticket, next>>
  BY DEF Settle
<1>3. Tickets' /\ TailIsYoungest'
  BY <1>0, <1>1, <1>2 DEF Tickets, TailIsYoungest, TypeOK
<1>4. PreviousIsNeighbour'
  BY <1>0, <1>1, <1>2 DEF PreviousIsNeighbour, TypeOK
<1>5. OlderSettled'
  BY <1>0, <1>1, <1>2 DEF OlderSettled, TypeOK
<1> QED BY <1>0, <1>3, <1>4, <1>5 DEF IInv

LEMMA FinallyKeepsInv == ASSUME IInv, NEW c \in Call, Finally(c) PROVE IInv'
<1> USE NoneAssumption, NodeAssumption DEF Chained, Older, Settled, Returned, SameNode
<1>0. TypeOK /\ TypeOK' /\ Tickets /\ TailIsYoungest /\ PreviousIsNeighbour /\ OlderSettled
  BY NextType DEF IInv, Next, Progress
<1>1. /\ st[c] \in {"resolved", "rejected"} /\ st'[c] \in {"done", "failed"}
      /\ \A d \in Call : d # c => st'[d] = st[d]
      /\ tail'[NodeOf[c]] = IF tail[NodeOf[c]] = c THEN None ELSE tail[NodeOf[c]]
      /\ \A n \in Node : n # NodeOf[c] => tail'[n] = tail[n]
      /\ UNCHANGED <<previous, ticket, next>>
  BY <1>0 DEF Finally, Release, TypeOK
<1>2. Tickets'
  BY <1>0, <1>1 DEF Tickets, TypeOK
<1>3. TailIsYoungest'
  <2> SUFFICES ASSUME NEW d \in Call, Chained(d)'
               PROVE (/\ tail[NodeOf[d]] = None => Settled(d)
                      /\ tail[NodeOf[d]] # None =>
                           ~Returned(tail[NodeOf[d]]) /\ ticket[d] <= ticket[tail[NodeOf[d]]])'
    BY DEF TailIsYoungest
  <2>0. Chained(d) /\ NodeOf[d] \in Node
    BY <1>1
  <2>1. CASE NodeOf[d] = NodeOf[c] /\ tail[NodeOf[c]] = c
    <3>1. d = c \/ Older(d, c)
      BY <2>0, <2>1, <1>0, <1>1 DEF TailIsYoungest, Tickets, TypeOK
    <3>2. Settled(d)
      BY <3>1, <2>0, <1>0, <1>1 DEF OlderSettled
    <3> QED BY <3>2, <2>1, <1>1
  <2>2. CASE NodeOf[d] # NodeOf[c] \/ tail[NodeOf[c]] # c
    <3>1. tail'[NodeOf[d]] = tail[NodeOf[d]] /\ tail[NodeOf[d]] # c
      <4>1. tail[NodeOf[d]] # None => NodeOf[tail[NodeOf[d]]] = NodeOf[d]
        BY <2>0, <1>0 DEF TypeOK
      <4> QED BY <4>1, <2>0, <2>2, <1>1
    <3>2. tail[NodeOf[d]] # None =>
            tail[NodeOf[d]] \in Call /\ st'[tail[NodeOf[d]]] = st[tail[NodeOf[d]]]
      BY <3>1, <2>0, <1>0, <1>1 DEF TypeOK
    <3> QED BY <3>1, <3>2, <2>0, <1>0, <1>1 DEF TailIsYoungest
  <2> QED BY <2>1, <2>2
<1>4. PreviousIsNeighbour'
  BY <1>0, <1>1 DEF PreviousIsNeighbour, TypeOK
<1>5. OlderSettled'
  BY <1>0, <1>1 DEF OlderSettled, TypeOK
<1> QED BY <1>0, <1>2, <1>3, <1>4, <1>5 DEF IInv

LEMMA NextInv == IInv /\ [Next]_queueVars => IInv'
<1> SUFFICES ASSUME IInv, [Next]_queueVars PROVE IInv'
  OBVIOUS
<1>1. CASE UNCHANGED queueVars
  BY <1>1 DEF queueVars, IInv, TypeOK, Tickets, TailIsYoungest, PreviousIsNeighbour, OlderSettled,
              Chained, Older, Settled, Returned, SameNode
<1> QED BY <1>1, ChainKeepsInv, StartKeepsInv, SettleKeepsInv, FinallyKeepsInv
        DEF Next, Progress

LEMMA Invariance == Spec => []IInv
<1>1. QED BY InitInv, NextInv, PTL DEF Spec

------------------------------------------------------------------------------
LEMMA InvExcludes == IInv => MutualExclusion
<1> SUFFICES ASSUME IInv, NEW c \in Call, NEW d \in Call,
                    st[c] = "running", st[d] = "running", SameNode(c, d), c # d
             PROVE FALSE
  BY DEF MutualExclusion
<1>1. ticket[c] \in Nat /\ ticket[d] \in Nat /\ ticket[c] # ticket[d]
  BY DEF IInv, TypeOK, Tickets, Chained
<1>2. Older(c, d) \/ Older(d, c)
  BY <1>1 DEF Older, Chained, SameNode
<1> QED BY <1>2 DEF IInv, OlderSettled, Chained, Settled, Returned

(* Two tasks of one node never run at the same time: neither two flushes nor a
   flush and an append, as the comment of flushDoc says. *)
THEOREM ExclusionHolds == Spec => []MutualExclusion
<1>1. QED BY Invariance, InvExcludes, PTL

LEMMA InvRemovesEntry == IInv => EntryIsRemoved
  BY NoneAssumption DEF IInv, TypeOK, TailIsYoungest, EntryIsRemoved, Chained, Settled, Returned

(* operations does not grow: no entry is left once a node's calls are done. *)
THEOREM EntryRemoved == Spec => []EntryIsRemoved
<1>1. QED BY Invariance, InvRemovesEntry, PTL

StartsAfterOlder ==
  \A c, d \in Call :
    /\ st[c] = "waiting" /\ st'[c] = "running"
    /\ st[d] # "new" /\ SameNode(c, d) /\ ticket[d] < ticket[c]
    => Settled(d)

LEMMA StepKeepsOrder == IInv /\ IInv' /\ [Next]_queueVars => StartsAfterOlder
<1> SUFFICES ASSUME IInv, IInv', [Next]_queueVars, NEW c \in Call, NEW d \in Call,
                    st[c] = "waiting", st'[c] = "running", st[d] # "new", SameNode(c, d),
                    ticket[d] < ticket[c]
             PROVE Settled(d)
  BY DEF StartsAfterOlder
<1>1. Start(c)
  BY DEF Next, Progress, queueVars, Chain, Start, Settle, Finally, IInv, TypeOK
<1>2. c # d /\ ticket' = ticket /\ st' = [st EXCEPT ![c] = "running"]
  BY <1>1 DEF Start, IInv, TypeOK
<1>3. Older(d, c)' /\ Chained(c)' /\ st'[c] # "waiting"
  BY <1>2 DEF Older, Chained, SameNode, IInv, TypeOK
<1>4. Settled(d)'
  BY <1>3 DEF IInv, OlderSettled
<1> QED BY <1>2, <1>4 DEF Settled, Returned, IInv, TypeOK

(* Tasks start in the order their callers chained them. *)
THEOREM OrderHolds == Spec => StartsInOrder
<1>1. IInv /\ IInv' /\ [Next]_queueVars => [StartsAfterOlder]_queueVars
  BY StepKeepsOrder
<1>2. [][StartsAfterOlder]_queueVars => StartsInOrder
  BY PTL DEF StartsInOrder, StartsAfterOlder
<1> QED BY Invariance, <1>1, <1>2, PTL DEF Spec

------------------------------------------------------------------------------
(* Every chain is a first-in-first-out line.  The abstract line is made from the
   calls that have not settled; for it to be one, their tickets must be
   consecutive: every ticket given out is held, and who settled holds the lowest. *)
Line(n) == INSTANCE TaskLine WITH Call <- CallsOf(n), line <- LineOf(n), busy <- Busy(n)

HasTicket(c, n, k) == NodeOf[c] = n /\ Chained(c) /\ ticket[c] = k

(* Those that have settled have the tickets below k. *)
IsServed(n, k) ==
  \A c \in Call : NodeOf[c] = n /\ st[c] # "new" => (Settled(c) <=> ticket[c] < k)

TicketsAreHeld == \A n \in Node : \A k \in 0..(next[n] - 1) : \E c \in Call : HasTicket(c, n, k)
SettledAreFirst == \A n \in Node : \E k \in 0..next[n] : IsServed(n, k)

LineInv == TicketsAreHeld /\ SettledAreFirst

(* So the number of those that settled is well defined, and so is who comes next. *)
ServedIsUnique == \A n \in Node : \A k \in 0..next[n] : IsServed(n, k) => Served(n) = k
HolderIsUnique == \A c \in Call : Chained(c) => Holder(NodeOf[c], ticket[c]) = c

LEMMA LineIsDefined == IInv /\ LineInv => ServedIsUnique /\ HolderIsUnique
<1> SUFFICES ASSUME IInv, LineInv PROVE ServedIsUnique /\ HolderIsUnique
  OBVIOUS
<1>1. ASSUME NEW n \in Node, NEW k \in 0..next[n], NEW l \in 0..next[n],
             IsServed(n, k), FirstOpen(n, l)
      PROVE l = k
  <2>1. next[n] \in Nat /\ k \in Nat /\ l \in Nat
    BY <1>1 DEF IInv, TypeOK
  <2>2. ASSUME k < l PROVE FALSE
    <3>1. PICK c \in Call : HasTicket(c, n, k)
      BY <2>1, <2>2 DEF LineInv, TicketsAreHeld
    <3> QED BY <1>1, <2>1, <2>2, <3>1 DEF IsServed, FirstOpen, CallsOf, HasTicket, Chained
  <2>3. ASSUME l < k PROVE FALSE
    <3>1. PICK c \in Call : HasTicket(c, n, l)
      BY <2>1, <2>3 DEF LineInv, TicketsAreHeld
    <3> QED BY <1>1, <2>3, <3>1 DEF IsServed, FirstOpen, CallsOf, HasTicket, Chained
  <2> QED BY <2>1, <2>2, <2>3
<1>2. ServedIsUnique
  <2> SUFFICES ASSUME NEW n \in Node, NEW k \in 0..next[n], IsServed(n, k) PROVE Served(n) = k
    BY DEF ServedIsUnique
  <2>1. FirstOpen(n, k)
    <3>1. \A c \in Call : ticket[c] \in Nat
      BY DEF IInv, TypeOK
    <3> QED BY <3>1 DEF IsServed, FirstOpen, CallsOf, IInv, TypeOK
  <2>2. Served(n) \in 0..next[n] /\ FirstOpen(n, Served(n))
    BY <2>1 DEF Served
  <2> QED BY <1>1, <2>2
<1>3. HolderIsUnique
  <2> SUFFICES ASSUME NEW c \in Call, Chained(c) PROVE Holder(NodeOf[c], ticket[c]) = c
    BY DEF HolderIsUnique
  <2>1. \A d \in Call : NodeOf[d] = NodeOf[c] /\ st[d] # "new" /\ ticket[d] = ticket[c] <=> d = c
    BY DEF IInv, Tickets, Chained, SameNode
  <2> QED BY <2>1 DEF Holder, CallsOf
<1> QED BY <1>2, <1>3

LEMMA InitLine == Init => LineInv
<1> SUFFICES ASSUME Init PROVE LineInv
  OBVIOUS
<1>1. TicketsAreHeld
  BY DEF Init, TicketsAreHeld
<1>2. SettledAreFirst
  BY DEF Init, SettledAreFirst, IsServed
<1> QED BY <1>1, <1>2 DEF LineInv

(* A turn's call takes the next ticket of its node and settles nothing. *)
LEMMA ChainKeepsLine ==
  ASSUME IInv, LineInv, NEW calls \in SUBSET Call, Chain(calls)
  PROVE  LineInv' /\ \A n \in Node, k \in Nat : k <= next[n] /\ IsServed(n, k) => IsServed(n, k)'
<1> USE DEF Chained, Settled, Returned
<1>0. TypeOK /\ Tickets
  BY DEF IInv
<1>1. /\ \A c \in calls : /\ st[c] = "new" /\ st'[c] = "waiting"
                         /\ ticket'[c] = next[NodeOf[c]]
                         /\ next'[NodeOf[c]] = next[NodeOf[c]] + 1
      /\ \A c \in Call \ calls : st'[c] = st[c] /\ ticket'[c] = ticket[c]
      /\ \A n \in Node : (\A c \in calls : NodeOf[c] # n) => next'[n] = next[n]
  BY <1>0, ChainEffect
<1>2. \A n \in Node : next[n] \in Nat /\ next'[n] \in {next[n], next[n] + 1}
  BY <1>0, <1>1 DEF TypeOK
<1>3. TicketsAreHeld'
  <2> SUFFICES ASSUME NEW n \in Node, NEW k \in 0..(next'[n] - 1)
               PROVE \E c \in Call : HasTicket(c, n, k)'
    BY DEF TicketsAreHeld
  <2>1. CASE k \in 0..(next[n] - 1)
    <3>1. PICK c \in Call : HasTicket(c, n, k)
      BY <2>1 DEF LineInv, TicketsAreHeld
    <3>2. c \notin calls
      BY <3>1, <1>1 DEF HasTicket
    <3> QED BY <3>1, <3>2, <1>1 DEF HasTicket
  <2>2. CASE k \notin 0..(next[n] - 1)
    <3>1. k = next[n] /\ next'[n] = next[n] + 1
      BY <2>2, <1>2
    <3>2. PICK c \in calls : NodeOf[c] = n
      BY <3>1, <1>1, <1>2
    <3> QED BY <3>1, <3>2, <1>1 DEF HasTicket
  <2> QED BY <2>1, <2>2
<1>4. ASSUME NEW n \in Node, NEW k \in Nat, k <= next[n], IsServed(n, k) PROVE IsServed(n, k)'
  BY <1>4, <1>0, <1>1, <1>2 DEF IsServed, TypeOK
<1>5. SettledAreFirst'
  <2> SUFFICES ASSUME NEW n \in Node PROVE \E k \in 0..next'[n] : IsServed(n, k)'
    BY DEF SettledAreFirst
  <2>1. PICK k \in 0..next[n] : IsServed(n, k)
    BY DEF LineInv, SettledAreFirst
  <2>2. k \in Nat /\ k <= next[n] /\ k \in 0..next'[n]
    BY <2>1, <1>2
  <2> QED BY <2>1, <2>2, <1>4
<1> QED BY <1>3, <1>4, <1>5 DEF LineInv

(* Start and Finally do not change who has settled. *)
LEMMA QuietKeepsLine ==
  ASSUME IInv, LineInv, UNCHANGED <<ticket, next>>,
         \A c \in Call : (Chained(c)' <=> Chained(c)) /\ (Settled(c)' <=> Settled(c))
  PROVE  LineInv' /\ \A n \in Node, k \in Nat : IsServed(n, k) => IsServed(n, k)'
<1>1. TicketsAreHeld'
  BY DEF LineInv, TicketsAreHeld, HasTicket
<1>2. \A n \in Node, k \in Nat : IsServed(n, k) <=> IsServed(n, k)'
  BY DEF IsServed, Chained
<1>3. SettledAreFirst'
  BY <1>2 DEF LineInv, SettledAreFirst, IInv, TypeOK
<1> QED BY <1>1, <1>2, <1>3 DEF LineInv

(* Who runs has the lowest ticket of those that have not settled. *)
LEMMA RunnerIsFirst ==
  ASSUME IInv, LineInv, NEW c \in Call, st[c] \in {"running"},
         NEW k \in 0..next[NodeOf[c]], IsServed(NodeOf[c], k)
  PROVE  ticket[c] = k
<1> USE NodeAssumption DEF Chained, Settled, Returned
<1>0. TypeOK /\ Tickets /\ OlderSettled
  BY DEF IInv
<1>1. ticket[c] \in Nat /\ ticket[c] < next[NodeOf[c]] /\ next[NodeOf[c]] \in Nat /\ ~(ticket[c] < k)
  BY <1>0 DEF TypeOK, Tickets, IsServed
<1>2. ASSUME k < ticket[c] PROVE FALSE
  <2>1. k \in 0..(next[NodeOf[c]] - 1) /\ NodeOf[c] \in Node
    BY <1>1, <1>2
  <2>2. PICK d \in Call : HasTicket(d, NodeOf[c], k)
    BY <2>1 DEF LineInv, TicketsAreHeld
  <2>3. ~Settled(d)
    BY <2>1, <2>2 DEF IsServed, HasTicket
  <2>4. Older(d, c)
    BY <1>2, <2>2 DEF Older, HasTicket, SameNode
  <2> QED BY <1>0, <2>3, <2>4 DEF OlderSettled
<1> QED BY <1>1, <1>2

LEMMA SettleKeepsLine ==
  ASSUME IInv, LineInv, NEW c \in Call, Settle(c)
  PROVE  /\ LineInv'
         /\ \A k \in 0..next[NodeOf[c]] : IsServed(NodeOf[c], k) =>
               k + 1 \in 0..next[NodeOf[c]] /\ IsServed(NodeOf[c], k + 1)'
         /\ \A n \in Node \ {NodeOf[c]}, k \in Nat : IsServed(n, k) => IsServed(n, k)'
<1> USE NodeAssumption DEF Chained, Settled, Returned
<1>0. TypeOK /\ Tickets
  BY DEF IInv
<1>1. /\ st[c] = "running" /\ UNCHANGED <<ticket, next>> /\ Chained(c) /\ Chained(c)'
      /\ Settled(c)' /\ ~Settled(c)
      /\ \A d \in Call : d # c => st'[d] = st[d]
  BY <1>0 DEF Settle, Outcomes, TypeOK
<1>2. TicketsAreHeld'
  BY <1>1 DEF LineInv, TicketsAreHeld, HasTicket
<1>3. ASSUME NEW k \in 0..next[NodeOf[c]], IsServed(NodeOf[c], k)
      PROVE  k + 1 \in 0..next[NodeOf[c]] /\ IsServed(NodeOf[c], k + 1)'
  <2>1. ticket[c] = k
    BY <1>1, <1>3, RunnerIsFirst
  <2>2. /\ k \in Nat /\ k < next[NodeOf[c]] /\ next[NodeOf[c]] \in Nat
        /\ \A d \in Call : NodeOf[d] = NodeOf[c] /\ Chained(d) /\ d # c =>
              ticket[d] \in Nat /\ ticket[d] # k
    BY <2>1, <1>0, <1>1 DEF Tickets, TypeOK, SameNode
  <2>3. ASSUME NEW d \in Call, NodeOf[d] = NodeOf[c], st'[d] # "new"
        PROVE Settled(d)' <=> ticket'[d] < k + 1
    BY <2>1, <2>2, <2>3, <1>1, <1>3 DEF IsServed
  <2>4. IsServed(NodeOf[c], k + 1)'
    BY <2>3 DEF IsServed
  <2> QED BY <2>2, <2>4
<1>4. ASSUME NEW n \in Node \ {NodeOf[c]}, NEW k \in Nat, IsServed(n, k) PROVE IsServed(n, k)'
  BY <1>1, <1>4 DEF IsServed
<1>5. SettledAreFirst'
  <2> SUFFICES ASSUME NEW n \in Node PROVE \E k \in 0..next'[n] : IsServed(n, k)'
    BY DEF SettledAreFirst
  <2>1. PICK k \in 0..next[n] : IsServed(n, k)
    BY DEF LineInv, SettledAreFirst
  <2>2. next'[n] = next[n] /\ next[n] \in Nat /\ k \in Nat
    BY <1>0, <1>1 DEF TypeOK
  <2>3. CASE n = NodeOf[c]
    BY <2>1, <2>2, <2>3, <1>3
  <2>4. CASE n # NodeOf[c]
    BY <2>1, <2>2, <2>4, <1>4
  <2> QED BY <2>3, <2>4
<1> QED BY <1>2, <1>3, <1>4, <1>5 DEF LineInv

LEMMA NextLine == IInv /\ LineInv /\ [Next]_queueVars => LineInv'
<1> SUFFICES ASSUME IInv, LineInv, [Next]_queueVars PROVE LineInv'
  OBVIOUS
<1> USE DEF Chained, Settled, Returned
<1>1. ASSUME NEW c \in Call, Start(c) PROVE LineInv'
  BY <1>1, QuietKeepsLine DEF Start, IInv, TypeOK
<1>2. ASSUME NEW c \in Call, Finally(c) PROVE LineInv'
  BY <1>2, QuietKeepsLine DEF Finally, IInv, TypeOK
<1>3. CASE UNCHANGED queueVars
  BY <1>3, QuietKeepsLine DEF queueVars
<1> QED BY <1>1, <1>2, <1>3, ChainKeepsLine, SettleKeepsLine DEF Next, Progress

LEMMA LineInvariance == Spec => []LineInv
<1>1. QED BY InitLine, NextLine, Invariance, PTL DEF Spec

(* Sequences given by their elements. *)
LEMMA OneMore ==
  ASSUME NEW S, NEW m \in Nat, NEW f \in [1..m -> S], NEW e \in S,
         NEW g \in [1..(m + 1) -> S], \A i \in 1..m : g[i] = f[i], g[m + 1] = e
  PROVE  g = Append(f, e)
<1>1. f \in Seq(S) /\ g \in Seq(S) /\ Len(f) = m /\ Len(g) = m + 1
  <2>1. f \in Seq(S) /\ g \in Seq(S)
    BY SeqDef
  <2> QED BY <2>1, LenProperties
<1>2. /\ Append(f, e) \in Seq(S) /\ Len(Append(f, e)) = m + 1
      /\ \A i \in 1..m : Append(f, e)[i] = f[i]
      /\ Append(f, e)[m + 1] = e
  BY <1>1, AppendProperties
<1>3. \A i \in 1..Len(g) : g[i] = Append(f, e)[i]
  BY <1>1, <1>2
<1> QED BY <1>1, <1>2, <1>3, SeqEqual

LEMMA OneLess ==
  ASSUME NEW S, NEW m \in Nat, m # 0, NEW f \in [1..m -> S],
         NEW g \in [1..(m - 1) -> S], \A i \in 1..(m - 1) : g[i] = f[i + 1]
  PROVE  g = Tail(f)
<1>1. f \in Seq(S) /\ g \in Seq(S) /\ Len(f) = m /\ Len(g) = m - 1
  <2>1. f \in Seq(S) /\ g \in Seq(S)
    BY SeqDef
  <2> QED BY <2>1, LenProperties
<1>2. f # <<>>
  BY <1>1, EmptySeq
<1>3. /\ Tail(f) \in Seq(S) /\ Len(Tail(f)) = m - 1
      /\ \A i \in 1..(m - 1) : Tail(f)[i] = f[i + 1]
  BY <1>1, <1>2, HeadTailProperties
<1>4. \A i \in 1..Len(g) : g[i] = Tail(f)[i]
  BY <1>1, <1>3
<1> QED BY <1>1, <1>3, <1>4, SeqEqual

(* The line, with the number of those that settled for what it is. *)
LineShape ==
  \A n \in Node : \A k \in 0..next[n] : IsServed(n, k) =>
    /\ LineOf(n) \in [1..(next[n] - k) -> Call]
    /\ \A i \in 1..(next[n] - k) : HasTicket(LineOf(n)[i], n, k + i - 1)

LEMMA LineIs == IInv /\ LineInv => LineShape
<1> SUFFICES ASSUME IInv, LineInv, NEW n \in Node, NEW k \in 0..next[n], IsServed(n, k)
             PROVE  /\ LineOf(n) \in [1..(next[n] - k) -> Call]
                    /\ \A i \in 1..(next[n] - k) : HasTicket(LineOf(n)[i], n, k + i - 1)
  BY DEF LineShape
<1>1. next[n] \in Nat /\ next[n] - k \in Nat /\ k \in Nat
  BY DEF IInv, TypeOK
<1>2. Served(n) = k
  BY LineIsDefined DEF ServedIsUnique
<1>3. \A j \in 0..(next[n] - 1) : Holder(n, j) \in Call /\ HasTicket(Holder(n, j), n, j)
  <2> SUFFICES ASSUME NEW j \in 0..(next[n] - 1)
               PROVE Holder(n, j) \in Call /\ HasTicket(Holder(n, j), n, j)
    OBVIOUS
  <2>1. PICK c \in Call : HasTicket(c, n, j)
    BY DEF LineInv, TicketsAreHeld
  <2>2. Holder(n, j) = c
    BY <2>1, LineIsDefined DEF HolderIsUnique, HasTicket
  <2> QED BY <2>1, <2>2
<1>4. \A i \in 1..(next[n] - k) : k + i - 1 \in 0..(next[n] - 1)
  BY <1>1
<1> QED BY <1>1, <1>2, <1>3, <1>4 DEF LineOf

LInv == IInv /\ LineInv /\ HolderIsUnique /\ LineShape

(* A ticket has one holder, who keeps it. *)
LEMMA HolderStays ==
  ASSUME LInv, LInv', NEW n \in Node, NEW c \in Call, NEW d \in Call, NEW j,
         HasTicket(c, n, j), HasTicket(c, n, j)', HasTicket(d, n, j)'
  PROVE  c = d
<1>1. Holder(n, j)' = c
  BY DEF LInv, HolderIsUnique, HasTicket
<1>2. Holder(n, j)' = d
  BY DEF LInv, HolderIsUnique, HasTicket
<1> QED BY <1>1, <1>2

(* Where nothing of the node settles or comes, its line stays as it is. *)
LEMMA LineStays ==
  ASSUME LInv, LInv', NEW n \in Node, next'[n] = next[n],
         \A k \in Nat : k <= next[n] /\ IsServed(n, k) => IsServed(n, k)',
         \A c \in Call : NodeOf[c] = n /\ Chained(c) => Chained(c)' /\ ticket'[c] = ticket[c]
  PROVE  LineOf(n)' = LineOf(n)
<1>1. PICK k \in 0..next[n] : IsServed(n, k)
  BY DEF LInv, LineInv, SettledAreFirst
<1>2. next[n] \in Nat /\ k \in 0..next'[n] /\ IsServed(n, k)'
  BY <1>1 DEF LInv, IInv, TypeOK
<1>3. /\ LineOf(n) \in [1..(next[n] - k) -> Call]
      /\ \A i \in 1..(next[n] - k) : HasTicket(LineOf(n)[i], n, k + i - 1)
  BY <1>1 DEF LInv, LineShape
<1>4. /\ LineOf(n)' \in [1..(next[n] - k) -> Call]
      /\ \A i \in 1..(next[n] - k) : HasTicket(LineOf(n)[i], n, k + i - 1)'
  BY <1>2 DEF LInv, LineShape
<1>5. \A i \in 1..(next[n] - k) : LineOf(n)'[i] = LineOf(n)[i]
  <2> SUFFICES ASSUME NEW i \in 1..(next[n] - k) PROVE LineOf(n)'[i] = LineOf(n)[i]
    OBVIOUS
  <2>0. PICK c \in Call, d \in Call : c = LineOf(n)[i] /\ d = LineOf(n)'[i]
    BY <1>3, <1>4
  <2>1. HasTicket(c, n, k + i - 1) /\ HasTicket(d, n, k + i - 1)'
    BY <1>3, <1>4, <2>0 DEF HasTicket
  <2>2. HasTicket(c, n, k + i - 1)'
    BY <2>1 DEF HasTicket
  <2> QED BY <2>0, <2>1, <2>2, HolderStays
<1>6. PICK f \in [1..(next[n] - k) -> Call], g \in [1..(next[n] - k) -> Call] :
        f = LineOf(n) /\ g = LineOf(n)'
  BY <1>3, <1>4
<1>7. g = f
  <2>1. \A i \in 1..(next[n] - k) : g[i] = f[i]
    BY <1>5, <1>6
  <2>2. DOMAIN g = 1..(next[n] - k) /\ DOMAIN f = 1..(next[n] - k)
    OBVIOUS
  <2>3. f = [i \in DOMAIN f |-> f[i]] /\ g = [i \in DOMAIN g |-> g[i]]
    OBVIOUS
  <2> QED BY <2>1, <2>2, <2>3
<1> QED BY <1>6, <1>7

(* A call of the node's goes to the end of its line. *)
LEMMA ChainEnters ==
  ASSUME LInv, LInv', NEW calls \in SUBSET Call, Chain(calls), NEW c \in calls
  PROVE  LineOf(NodeOf[c])' = Append(LineOf(NodeOf[c]), c)
<1> DEFINE n == NodeOf[c]
<1>1. n \in Node /\ c \in Call
  BY NodeAssumption
<1>2. PICK k \in 0..next[n] : IsServed(n, k)
  BY <1>1 DEF LInv, LineInv, SettledAreFirst
<1>3. /\ next[n] \in Nat /\ k \in Nat /\ next'[n] = next[n] + 1
      /\ st'[c] = "waiting" /\ ticket'[c] = next[n]
      /\ \A d \in Call : NodeOf[d] = n /\ Chained(d) => Chained(d)' /\ ticket'[d] = ticket[d]
  <2>1. TypeOK
    BY DEF LInv, IInv
  <2> QED BY <2>1, <1>1, <1>2, ChainEffect DEF TypeOK, Chained
<1>4. k \in 0..next'[n] /\ IsServed(n, k)'
  BY <1>1, <1>2, <1>3, ChainKeepsLine DEF LInv
<1>5. PICK m \in Nat : m = next[n] - k /\ m + 1 = next'[n] - k
  BY <1>3, <1>2
<1>6. /\ LineOf(n) \in [1..m -> Call]
      /\ \A i \in 1..m : HasTicket(LineOf(n)[i], n, k + i - 1)
  BY <1>1, <1>2, <1>5 DEF LInv, LineShape
<1>7. /\ LineOf(n)' \in [1..(m + 1) -> Call]
      /\ \A i \in 1..(m + 1) : HasTicket(LineOf(n)[i], n, k + i - 1)'
  BY <1>1, <1>4, <1>5 DEF LInv, LineShape
<1>8. \A i \in 1..m : LineOf(n)'[i] = LineOf(n)[i]
  <2> SUFFICES ASSUME NEW i \in 1..m PROVE LineOf(n)'[i] = LineOf(n)[i]
    OBVIOUS
  <2>1. PICK d \in Call, e \in Call : d = LineOf(n)[i] /\ e = LineOf(n)'[i]
    BY <1>6, <1>7
  <2>2. HasTicket(d, n, k + i - 1) /\ HasTicket(e, n, k + i - 1)'
    BY <1>6, <1>7, <2>1 DEF HasTicket
  <2>3. HasTicket(d, n, k + i - 1)'
    BY <1>3, <2>2 DEF HasTicket
  <2> QED BY <1>1, <2>1, <2>2, <2>3, HolderStays
<1>9. LineOf(n)'[m + 1] = c
  <2>0. m + 1 \in 1..(m + 1) /\ k + (m + 1) - 1 = next[n]
    BY <1>3, <1>5
  <2>1. PICK d \in Call, j \in Nat : d = LineOf(n)'[m + 1] /\ j = k + (m + 1) - 1
    BY <1>3, <1>7, <2>0
  <2>2. HasTicket(d, n, j)'
    BY <1>7, <2>0, <2>1 DEF HasTicket
  <2>3. SameNode(c, d) /\ Chained(c)' /\ Chained(d)' /\ ticket'[c] = ticket'[d]
    BY <1>3, <2>0, <2>1, <2>2 DEF HasTicket, SameNode, Chained
  <2>4. Tickets'
    BY DEF LInv, IInv
  <2> QED BY <1>1, <2>1, <2>3, <2>4 DEF Tickets, SameNode
<1> HIDE DEF n
<1>10. LineOf(n)' = Append(LineOf(n), c)
  BY <1>1, <1>5, <1>6, <1>7, <1>8, <1>9, OneMore
<1> QED BY <1>10 DEF n

(* Who settles was at the head of the line, and leaves it. *)
LEMMA SettleFinishes ==
  ASSUME LInv, LInv', NEW c \in Call, Settle(c)
  PROVE  /\ LineOf(NodeOf[c])' = Tail(LineOf(NodeOf[c]))
         /\ LineOf(NodeOf[c]) # <<>> /\ Head(LineOf(NodeOf[c])) = c
<1> DEFINE n == NodeOf[c]
<1>1. n \in Node
  BY NodeAssumption
<1>2. PICK k \in 0..next[n] : IsServed(n, k)
  BY <1>1 DEF LInv, LineInv, SettledAreFirst
<1>3. /\ next[n] \in Nat /\ k \in Nat /\ next'[n] = next[n] /\ ticket' = ticket
      /\ st[c] = "running" /\ Chained(c)
      /\ \A d \in Call : Chained(d) => Chained(d)'
  BY <1>1, <1>2 DEF LInv, IInv, TypeOK, Settle, Outcomes, Chained
<1>4. k + 1 \in 0..next'[n] /\ IsServed(n, k + 1)'
  BY <1>2, <1>3, SettleKeepsLine DEF LInv
<1>5. PICK m \in Nat : m = next[n] - k /\ m - 1 = next'[n] - (k + 1) /\ m # 0 /\ m - 1 \in Nat
  BY <1>2, <1>3, <1>4
<1>6. /\ LineOf(n) \in [1..m -> Call]
      /\ \A i \in 1..m : HasTicket(LineOf(n)[i], n, k + i - 1)
  BY <1>1, <1>2, <1>5 DEF LInv, LineShape
<1>7. /\ LineOf(n)' \in [1..(m - 1) -> Call]
      /\ \A i \in 1..(m - 1) : HasTicket(LineOf(n)[i], n, (k + 1) + i - 1)'
  BY <1>1, <1>4, <1>5 DEF LInv, LineShape
<1>8. \A i \in 1..(m - 1) : LineOf(n)'[i] = LineOf(n)[i + 1]
  <2> SUFFICES ASSUME NEW i \in 1..(m - 1) PROVE LineOf(n)'[i] = LineOf(n)[i + 1]
    OBVIOUS
  <2>0. i + 1 \in 1..m /\ k + (i + 1) - 1 = (k + 1) + i - 1
    BY <1>3, <1>5
  <2>1. PICK d \in Call, e \in Call : d = LineOf(n)[i + 1] /\ e = LineOf(n)'[i]
    BY <1>6, <1>7, <2>0
  <2>2. HasTicket(d, n, (k + 1) + i - 1) /\ HasTicket(e, n, (k + 1) + i - 1)'
    BY <1>6, <1>7, <2>0, <2>1 DEF HasTicket
  <2>3. HasTicket(d, n, (k + 1) + i - 1)'
    BY <1>3, <2>2 DEF HasTicket
  <2> QED BY <1>1, <2>1, <2>2, <2>3, HolderStays
<1>9. LineOf(n)[1] = c
  <2>1. 1 \in 1..m /\ k + 1 - 1 = k
    BY <1>3, <1>5
  <2>2. PICK d \in Call : d = LineOf(n)[1]
    BY <1>6, <2>1
  <2>3. HasTicket(d, n, k)
    BY <1>6, <2>1, <2>2
  <2>4. ticket[c] = k
    BY <1>2, <1>3, RunnerIsFirst DEF LInv
  <2>5. SameNode(c, d) /\ Chained(d) /\ ticket[c] = ticket[d]
    BY <2>3, <2>4 DEF HasTicket, SameNode
  <2> QED BY <2>2, <2>5, <1>3 DEF LInv, IInv, Tickets, SameNode
<1> HIDE DEF n
<1>10. LineOf(n)' = Tail(LineOf(n))
  BY <1>5, <1>6, <1>7, <1>8, OneLess
<1>11. LineOf(n) # <<>> /\ Head(LineOf(n)) = LineOf(n)[1]
  <2>1. LineOf(n) \in Seq(Call)
    BY <1>6, SeqDef
  <2>2. Len(LineOf(n)) = m
    BY <1>5, <1>6, <2>1, LenProperties
  <2> QED BY <2>1, <2>2, <1>5, EmptySeq, HeadTailProperties
<1> QED BY <1>9, <1>10, <1>11 DEF n

LEMMA StartServes ==
  ASSUME LInv, NEW c \in Call, Start(c)
  PROVE  LineOf(NodeOf[c]) # <<>> /\ ~Busy(NodeOf[c])
<1> USE DEF Chained, Settled, Returned
<1> DEFINE n == NodeOf[c]
<1>1. n \in Node
  BY NodeAssumption
<1>2. PICK k \in 0..next[n] : IsServed(n, k)
  BY <1>1 DEF LInv, LineInv, SettledAreFirst
<1>3. TypeOK /\ Tickets /\ OlderSettled /\ st[c] = "waiting"
  BY DEF LInv, IInv, Start
<1>4. ticket[c] \in Nat /\ ticket[c] < next[n] /\ ~(ticket[c] < k) /\ next[n] \in Nat /\ k \in Nat
  BY <1>1, <1>2, <1>3 DEF TypeOK, Tickets, IsServed
<1>5. LineOf(n) # <<>>
  <2>1. LineOf(n) \in [1..(next[n] - k) -> Call]
    BY <1>1, <1>2 DEF LInv, LineShape
  <2>2. 1 \in 1..(next[n] - k) /\ next[n] - k \in Nat
    BY <1>4
  <2>3. LineOf(n) \in Seq(Call)
    BY <2>1, <2>2, SeqDef
  <2>4. Len(LineOf(n)) = next[n] - k
    BY <2>1, <2>2, <2>3, LenProperties
  <2> QED BY <2>2, <2>3, <2>4, EmptySeq
<1>6. ASSUME NEW d \in Call, NodeOf[d] = n, st[d] = "running" PROVE FALSE
  <2>1. d # c /\ IInv /\ IInv'
    BY <1>3, <1>6, NextInv DEF LInv, Next, Progress
  <2>2. st'[d] = "running" /\ st'[c] = "running" /\ SameNode(c, d)
    BY <1>3, <1>6, <2>1 DEF Start, SameNode, TypeOK
  <2>3. ticket[c] # ticket[d] /\ ticket[d] \in Nat
    BY <1>3, <1>6, <2>1 DEF Tickets, TypeOK, SameNode
  <2>4. Older(c, d) \/ Older(d, c)'
    BY <1>3, <1>4, <1>6, <2>2, <2>3 DEF Older, SameNode, Start
  <2>5. OlderSettled'
    BY <2>1 DEF IInv
  <2> QED BY <1>3, <1>6, <2>2, <2>4, <2>5 DEF OlderSettled
<1> QED BY <1>5, <1>6 DEF Busy, CallsOf

(* Every step of the chains is one of the line, for each node, or none. *)
LEMMA LineStep ==
  ASSUME LInv, LInv', [Next]_queueVars, NEW n \in Node
  PROVE  [Line(n)!Next]_(Line(n)!vars)
<1> USE DEF Line!Next, Line!vars
<1>0. TypeOK
  BY DEF LInv, IInv
<1>1. ASSUME NEW calls \in SUBSET Call, Chain(calls) PROVE [Line(n)!Next]_(Line(n)!vars)
  <2>1. /\ \A c \in calls : st[c] = "new" /\ st'[c] = "waiting"
        /\ \A c \in Call \ calls : st'[c] = st[c] /\ ticket'[c] = ticket[c]
        /\ (\A c \in calls : NodeOf[c] # n) => next'[n] = next[n]
    BY <1>0, <1>1, ChainEffect
  <2>2. Busy(n)' <=> Busy(n)
    BY <2>1 DEF Busy, CallsOf
  <2>3. ASSUME NEW c \in calls, NodeOf[c] = n PROVE Line(n)!Enter(c)
    BY <1>1, <2>2, <2>3, ChainEnters DEF Line!Enter, Busy, CallsOf
  <2>4. ASSUME \A c \in calls : NodeOf[c] # n PROVE LineOf(n)' = LineOf(n)
    <3>1. \A k \in Nat : k <= next[n] /\ IsServed(n, k) => IsServed(n, k)'
      BY <1>1, ChainKeepsLine DEF LInv
    <3>2. \A c \in Call : NodeOf[c] = n /\ Chained(c) => Chained(c)' /\ ticket'[c] = ticket[c]
      BY <2>1, <2>4 DEF Chained
    <3> QED BY <2>1, <2>4, <3>1, <3>2, LineStays
  <2> QED BY <2>2, <2>3, <2>4 DEF Busy, CallsOf
<1>2. ASSUME UNCHANGED <<ticket, next>>,
             \A c \in Call : (Chained(c)' <=> Chained(c)) /\ (Settled(c)' <=> Settled(c))
      PROVE  LineOf(n)' = LineOf(n)
  BY <1>2, QuietKeepsLine, LineStays DEF LInv
<1>3. ASSUME NEW c \in Call, Start(c) PROVE [Line(n)!Next]_(Line(n)!vars)
  <2>1. /\ UNCHANGED <<ticket, next>> /\ st'[c] = "running" /\ st[c] = "waiting"
        /\ \A d \in Call : d # c => st'[d] = st[d]
    BY <1>0, <1>3 DEF Start, TypeOK
  <2>2. LineOf(n)' = LineOf(n)
    BY <1>2, <2>1 DEF Chained, Settled, Returned
  <2>3. CASE NodeOf[c] = n
    <3>1. Busy(n)'
      BY <2>1, <2>3 DEF Busy, CallsOf
    <3>2. LineOf(n) # <<>> /\ ~Busy(n)
      BY <1>3, <2>3, StartServes
    <3> QED BY <2>2, <3>1, <3>2 DEF Line!Serve, Busy, CallsOf
  <2>4. CASE NodeOf[c] # n
    BY <2>1, <2>2, <2>4 DEF Busy, CallsOf
  <2> QED BY <2>3, <2>4
<1>4. ASSUME NEW c \in Call, Settle(c) PROVE [Line(n)!Next]_(Line(n)!vars)
  <2>1. /\ UNCHANGED <<ticket, next>> /\ st[c] = "running" /\ st'[c] \in {"resolved", "rejected"}
        /\ \A d \in Call : d # c => st'[d] = st[d]
    BY <1>0, <1>4 DEF Settle, Outcomes, TypeOK
  <2>2. CASE NodeOf[c] = n
    <3>1. LineOf(n)' = Tail(LineOf(n))
      BY <1>4, <2>2, SettleFinishes
    <3>2. Busy(n)
      BY <2>1, <2>2 DEF Busy, CallsOf
    <3>3. ~Busy(n)'
      <4>1. MutualExclusion
        BY InvExcludes DEF LInv
      <4> QED BY <2>1, <2>2, <4>1 DEF Busy, CallsOf, MutualExclusion, SameNode
    <3> QED BY <3>1, <3>2, <3>3 DEF Line!Finish, Busy, CallsOf
  <2>3. CASE NodeOf[c] # n
    <3>1. \A k \in Nat : IsServed(n, k) => IsServed(n, k)'
      BY <1>4, <2>3, SettleKeepsLine DEF LInv
    <3>2. LineOf(n)' = LineOf(n)
      BY <2>1, <3>1, LineStays DEF Chained
    <3> QED BY <2>1, <2>3, <3>2 DEF Busy, CallsOf
  <2> QED BY <2>2, <2>3
<1>5. ASSUME NEW c \in Call, Finally(c) PROVE [Line(n)!Next]_(Line(n)!vars)
  <2>1. /\ UNCHANGED <<ticket, next>> /\ st[c] \in {"resolved", "rejected"}
        /\ st'[c] \in {"done", "failed"} /\ \A d \in Call : d # c => st'[d] = st[d]
    BY <1>0, <1>5 DEF Finally, TypeOK
  <2>2. LineOf(n)' = LineOf(n)
    BY <1>2, <2>1 DEF Chained, Settled, Returned
  <2> QED BY <2>1, <2>2 DEF Busy, CallsOf
<1>6. CASE UNCHANGED queueVars
  BY <1>6 DEF queueVars, LineOf, Served, FirstOpen, Holder, Busy, CallsOf, Settled, Returned
<1> QED BY <1>1, <1>3, <1>4, <1>5, <1>6 DEF Next, Progress

LEMMA InitLineEmpty == ASSUME NEW n \in Node PROVE Init /\ LInv => Line(n)!Init
<1> SUFFICES ASSUME Init, LInv PROVE LineOf(n) = <<>> /\ ~Busy(n)
  BY DEF Line!Init, Busy, CallsOf
<1>1. next[n] = 0 /\ \A c \in Call : st[c] = "new"
  BY DEF Init
<1>2. IsServed(n, 0) /\ 0 \in 0..next[n]
  BY <1>1 DEF IsServed
<1>3. LineOf(n) \in [1..0 -> Call]
  BY <1>1, <1>2 DEF LInv, LineShape
<1>4. LineOf(n) \in Seq(Call) /\ Len(LineOf(n)) = 0
  <2>1. LineOf(n) \in Seq(Call)
    BY <1>3, SeqDef
  <2> QED BY <1>3, <2>1, LenProperties
<1> QED BY <1>1, <1>4, EmptySeq DEF Busy, CallsOf

LEMMA LInvariance == Spec => []LInv
<1>1. IInv /\ LineInv => LInv
  BY LineIsDefined, LineIs DEF LInv
<1> QED BY <1>1, Invariance, LineInvariance, PTL

(* The promise chain of every node is a line that is served first come, first
   served, one task at a time: runExclusive of yjs-doc-manager.ts does what TaskLine
   says, whichever tasks reject and however the finally of one call falls between
   the others. *)
THEOREM ChainsAreLines == ASSUME NEW n \in Node PROVE Spec => Line(n)!SafeSpec
<1>1. Init /\ LInv => Line(n)!Init
  BY InitLineEmpty
<1>2. LInv /\ LInv' /\ [Next]_queueVars => [Line(n)!Next]_(Line(n)!vars)
  BY LineStep
<1> QED BY <1>1, <1>2, LInvariance, PTL DEF Spec, Line!SafeSpec

------------------------------------------------------------------------------
(* Nobody is blocked: as long as a node has calls that are not over, one of them can
   go on, the one at the head of the line if there is one. *)
CanGoOn(c) ==
  (st[c] = "waiting" /\ Ready(c)) \/ st[c] \in {"running", "resolved", "rejected"}

HeadGoesOn == \A n \in Node : LineOf(n) # <<>> => CanGoOn(Head(LineOf(n)))

LEMMA HeadIsNext ==
  ASSUME LInv, NEW n \in Node, NEW k \in 0..next[n], IsServed(n, k)
  PROVE  /\ LineOf(n) # <<>> <=> k < next[n]
         /\ LineOf(n) # <<>> => Head(LineOf(n)) \in Call /\ HasTicket(Head(LineOf(n)), n, k)
<1>1. next[n] \in Nat /\ k \in Nat /\ next[n] - k \in Nat
  BY DEF LInv, IInv, TypeOK
<1>2. /\ LineOf(n) \in [1..(next[n] - k) -> Call]
      /\ \A i \in 1..(next[n] - k) : HasTicket(LineOf(n)[i], n, k + i - 1)
  BY DEF LInv, LineShape
<1>3. LineOf(n) \in Seq(Call)
  BY <1>1, <1>2, SeqDef
<1>4. Len(LineOf(n)) = next[n] - k
  BY <1>1, <1>2, <1>3, LenProperties
<1>5. LineOf(n) # <<>> <=> k < next[n]
  BY <1>1, <1>3, <1>4, EmptySeq
<1>6. ASSUME LineOf(n) # <<>>
      PROVE Head(LineOf(n)) \in Call /\ HasTicket(Head(LineOf(n)), n, k)
  <2>1. 1 \in 1..(next[n] - k) /\ k + 1 - 1 = k
    BY <1>1, <1>5, <1>6
  <2>2. Head(LineOf(n)) = LineOf(n)[1]
    BY <1>3, <1>6, HeadTailProperties
  <2> QED BY <1>2, <2>1, <2>2
<1> QED BY <1>5, <1>6

LEMMA HeadIsReady == LInv => HeadGoesOn
<1> SUFFICES ASSUME LInv, NEW n \in Node, LineOf(n) # <<>> PROVE CanGoOn(Head(LineOf(n)))
  BY DEF HeadGoesOn
<1>1. PICK k \in 0..next[n] : IsServed(n, k)
  BY DEF LInv, LineInv, SettledAreFirst
<1>2. PICK c \in Call : c = Head(LineOf(n)) /\ HasTicket(c, n, k)
  BY <1>1, HeadIsNext
<1>3. ~Settled(c) /\ Chained(c) /\ TypeOK
  BY <1>1, <1>2 DEF IsServed, HasTicket, Chained, LInv, IInv, TypeOK
<1>4. st[c] \in {"waiting", "running"}
  BY <1>3 DEF TypeOK, Settled, Returned, Chained
<1>5. ASSUME st[c] = "waiting", previous[c] # None PROVE Settled(previous[c])
  <2>1. previous[c] \in Call /\ Older(previous[c], c)
    BY <1>3, <1>5 DEF LInv, IInv, PreviousIsNeighbour, TypeOK
  <2>2. NodeOf[previous[c]] = n /\ st[previous[c]] # "new" /\ ticket[previous[c]] < k
    BY <1>2, <2>1 DEF Older, HasTicket, SameNode, Chained
  <2> QED BY <1>1, <2>1, <2>2 DEF IsServed
<1> QED BY <1>2, <1>4, <1>5 DEF CanGoOn, Ready

(* A call is in the line of its node until it settles. *)
LEMMA ActiveIsInLine ==
  ASSUME LInv, NEW c \in Call, Chained(c), ~Settled(c) PROVE LineOf(NodeOf[c]) # <<>>
<1>1. NodeOf[c] \in Node
  BY NodeAssumption
<1>2. PICK k \in 0..next[NodeOf[c]] : IsServed(NodeOf[c], k)
  BY <1>1 DEF LInv, LineInv, SettledAreFirst
<1>3. /\ ~(ticket[c] < k) /\ ticket[c] < next[NodeOf[c]] /\ ticket[c] \in Nat
      /\ next[NodeOf[c]] \in Nat
  BY <1>1, <1>2 DEF IsServed, Chained, LInv, IInv, Tickets, TypeOK
<1> QED BY <1>1, <1>2, <1>3, HeadIsNext

(* A task that rejected, or a finally that has yet to run, never leaves the calls
   behind it waiting for something that will not happen. *)
THEOREM ChainsNeverBlock == Spec => []HeadGoesOn
<1>1. QED BY LInvariance, HeadIsReady, PTL
=============================================================================
