--------------------------- MODULE Replicas_proofs ---------------------------
(***************************************************************************)
(* The copies in the browsers and the document of the server, for any      *)
(* sockets and operations and any number of messages, losses and crashes.  *)
(* The argument is about what is on its way: a message that follows the    *)
(* server's last SyncStep1 carries nothing the document lacks, what a      *)
(* browser sent since then it still shows, and an operation a browser      *)
(* lacks is on its way to it, withheld, or about to be asked for.          *)
(***************************************************************************)
EXTENDS Replicas, FiniteSetTheorems, TLAPS

Doc == INSTANCE DurableDoc WITH deleted <- FALSE

AnswerOver(S) ==
  [type : {"step1"}, vector : SUBSET S] \cup
  [type : {"step2", "update"}, ops : SUBSET S]
MessageOver(S) == [type : {"join", "leave"}] \cup AnswerOver(S)

(* The types, with what is on its way made of what exists. *)
Types ==
  /\ content \in {Null} \cup SUBSET born /\ saved \in SUBSET born
  /\ appending \in {Null} \cup Appended
  /\ room \in SUBSET Client /\ mode \in [Client -> {"away", "joining", "open"}]
  /\ replica \in [Client -> SUBSET born] /\ born \in SUBSET Op
  /\ up \in [Client -> Seq(MessageOver(born))] /\ down \in [Client -> Seq(AnswerOver(born))]
  /\ withheld \in [Client -> SUBSET Op]
  /\ events \in Nat /\ faults \in Nat
  /\ room # {} => content # Null
  /\ appending # Null => content # Null /\ appending \in content

Carries(m) == m.type \in {"step2", "update"}

(* Queues of messages: one of a kind, an operation on its way, a vector without it,
   and what nothing of a kind follows. *)
Has(q, type) == \E i \in 1..Len(q) : q[i].type = type
Carried(q, op) == \E i \in 1..Len(q) : Carries(q[i]) /\ op \in q[i].ops
Asked(q, op) == \E i \in 1..Len(q) : q[i].type = "step1" /\ op \notin q[i].vector
NoneAfter(q, i, type) == \A j \in 1..Len(q) : j > i => q[j].type # type

(* What the document may send, and what a browser with this copy may. *)
FitsDocument(m, ops) ==
  /\ m.type = "step1" => m.vector \subseteq ops
  /\ Carries(m) => m.ops \subseteq ops \cup Bus
FitsReplica(m, ops) ==
  /\ m.type = "step1" => m.vector \subseteq ops
  /\ Carries(m) => m.ops \subseteq ops
FromDocument(q, ops) ==
  \A i \in 1..Len(q) : NoneAfter(q, i, "step1") => FitsDocument(q[i], ops)
FromReplica(q, ops) ==
  \A i \in 1..Len(q) : NoneAfter(q, i, "leave") => FitsReplica(q[i], ops)
JoinsAreLeft(q) == \A i \in 1..Len(q) : q[i].type = "join" => ~NoneAfter(q, i, "leave")

(* What a browser shows is in the document, or was sent since its last SyncStep1. *)
Offered(c) ==
  mode[c] = "open" /\ ~Has(down[c], "step1") =>
    \A op \in replica[c] \ (content \cup Bus) : Carried(up[c], op)

Leaving(c) ==
  mode[c] = "away" => (c \in room => Has(up[c], "leave")) /\ JoinsAreLeft(up[c])

OnItsWay(c, op) ==
  \/ op \in replica[c] \cup withheld[c] \cup {appending}
  \/ Has(down[c], "step1") \/ Carried(down[c], op) \/ Asked(up[c], op)

Reaches(c) ==
  c \in room /\ ~Has(up[c], "leave") => \A op \in content : OnItsWay(c, op)

Linked(c) ==
  /\ c \in room => FromDocument(down[c], content) /\ Offered(c)
  /\ FromReplica(up[c], replica[c]) /\ Leaving(c) /\ Reaches(c)

(* Without a fault one tree is built from markdownBody at most. *)
Body ==
  /\ content # Null => content # {}
  /\ faults = 0 =>
       /\ \A a, b \in born \cap Boot : a = b
       /\ content = Null /\ saved = {} => born \cap Boot = {}

(* The inductive invariant. *)
RepInv == Types /\ Body /\ \A c \in Client : Linked(c)

------------------------------------------------------------------------------
(* Queues: a message is added, or the first one taken. *)

LEMMA Push ==
  ASSUME NEW S, NEW q \in Seq(S), NEW m \in S
  PROVE  /\ Append(q, m) \in Seq(S)
         /\ \A type : Has(Append(q, m), type) <=> Has(q, type) \/ m.type = type
         /\ \A op : Carried(Append(q, m), op) <=> Carried(q, op) \/ (Carries(m) /\ op \in m.ops)
         /\ \A op : Asked(Append(q, m), op) <=>
                      Asked(q, op) \/ (m.type = "step1" /\ op \notin m.vector)
<1>1. /\ Append(q, m) \in Seq(S) /\ Len(q) \in Nat /\ Len(Append(q, m)) = Len(q) + 1
      /\ Append(q, m)[Len(q) + 1] = m
      /\ \A i \in 1..Len(q) : Append(q, m)[i] = q[i]
  OBVIOUS
<1>2. \A i : i \in 1..(Len(q) + 1) <=> i \in 1..Len(q) \/ i = Len(q) + 1
  BY <1>1
<1>3. ASSUME NEW type PROVE Has(Append(q, m), type) <=> Has(q, type) \/ m.type = type
  BY <1>1, <1>2 DEF Has
<1>4. ASSUME NEW op
      PROVE  Carried(Append(q, m), op) <=> Carried(q, op) \/ (Carries(m) /\ op \in m.ops)
  BY <1>1, <1>2 DEF Carried
<1>5. ASSUME NEW op
      PROVE  Asked(Append(q, m), op) <=> Asked(q, op) \/ (m.type = "step1" /\ op \notin m.vector)
  BY <1>1, <1>2 DEF Asked
<1>6. QED
  BY <1>1, <1>3, <1>4, <1>5

LEMMA Pop ==
  ASSUME NEW S, NEW q \in Seq(S), q # <<>>
  PROVE  /\ Tail(q) \in Seq(S) /\ Head(q) \in S
         /\ \A type : Has(q, type) <=> Has(Tail(q), type) \/ Head(q).type = type
         /\ \A op : Carried(q, op) <=>
                      Carried(Tail(q), op) \/ (Carries(Head(q)) /\ op \in Head(q).ops)
         /\ \A op : Asked(q, op) <=>
                      Asked(Tail(q), op) \/ (Head(q).type = "step1" /\ op \notin Head(q).vector)
<1>1. /\ Tail(q) \in Seq(S) /\ Len(q) \in Nat \ {0} /\ Len(Tail(q)) = Len(q) - 1
      /\ Head(q) = q[1] /\ Head(q) \in S
      /\ \A i \in 1..(Len(q) - 1) : Tail(q)[i] = q[i + 1]
  OBVIOUS
<1>2. \A i : i \in 1..Len(q) <=> i = 1 \/ (\E j \in 1..(Len(q) - 1) : i = j + 1)
  <2>1. ASSUME NEW i, i \in 1..Len(q), i # 1 PROVE \E j \in 1..(Len(q) - 1) : i = j + 1
    <3>1. i - 1 \in 1..(Len(q) - 1) /\ i = (i - 1) + 1
      BY <1>1, <2>1
    <3>2. QED
      BY <3>1
  <2>2. QED
    BY <1>1, <2>1
<1>3. ASSUME NEW type PROVE Has(q, type) <=> Has(Tail(q), type) \/ Head(q).type = type
  BY <1>1, <1>2 DEF Has
<1>4. ASSUME NEW op
      PROVE  Carried(q, op) <=> Carried(Tail(q), op) \/ (Carries(Head(q)) /\ op \in Head(q).ops)
  BY <1>1, <1>2 DEF Carried
<1>5. ASSUME NEW op
      PROVE  Asked(q, op) <=>
               Asked(Tail(q), op) \/ (Head(q).type = "step1" /\ op \notin Head(q).vector)
  BY <1>1, <1>2 DEF Asked
<1>6. QED
  BY <1>1, <1>3, <1>4, <1>5

(* What follows what, when a message is added. *)
LEMMA PushKeeps ==
  ASSUME NEW S, NEW q \in Seq(S), NEW m \in S, NEW ops
  PROVE  /\ FromDocument(q, ops) \/ m.type = "step1" =>
              (FitsDocument(m, ops) => FromDocument(Append(q, m), ops))
         /\ FromReplica(q, ops) \/ m.type = "leave" =>
              (FitsReplica(m, ops) => FromReplica(Append(q, m), ops))
         /\ (JoinsAreLeft(q) /\ m.type # "join") \/ m.type = "leave" => JoinsAreLeft(Append(q, m))
<1> DEFINE p == Append(q, m)  n == Len(q) + 1
<1>1. /\ Len(q) \in Nat /\ Len(p) = n /\ p[n] = m /\ \A i \in 1..Len(q) : p[i] = q[i]
  OBVIOUS
<1>2. \A i : i \in 1..n <=> i \in 1..Len(q) \/ i = n
  BY <1>1
<1>3. \A type : \A i \in 1..Len(q) : NoneAfter(p, i, type) <=> NoneAfter(q, i, type) /\ m.type # type
  BY <1>1, <1>2 DEF NoneAfter
<1> HIDE DEF p, n
<1>4. ASSUME FromDocument(q, ops) \/ m.type = "step1", FitsDocument(m, ops)
      PROVE  FromDocument(p, ops)
  BY <1>1, <1>2, <1>3, <1>4 DEF FromDocument
<1>5. ASSUME FromReplica(q, ops) \/ m.type = "leave", FitsReplica(m, ops)
      PROVE  FromReplica(p, ops)
  BY <1>1, <1>2, <1>3, <1>5 DEF FromReplica
<1>6. ASSUME (JoinsAreLeft(q) /\ m.type # "join") \/ m.type = "leave"
      PROVE  JoinsAreLeft(p)
  BY <1>1, <1>2, <1>3, <1>6 DEF JoinsAreLeft
<1>7. QED
  BY <1>4, <1>5, <1>6 DEF p

(* What follows what, when the first message is taken. *)
LEMMA PopKeeps ==
  ASSUME NEW S, NEW q \in Seq(S), q # <<>>, NEW ops
  PROVE  /\ FromDocument(q, ops) => FromDocument(Tail(q), ops)
         /\ FromDocument(q, ops) /\ ~Has(Tail(q), "step1") => FitsDocument(Head(q), ops)
         /\ FromReplica(q, ops) => FromReplica(Tail(q), ops)
         /\ FromReplica(q, ops) /\ ~Has(Tail(q), "leave") => FitsReplica(Head(q), ops)
         /\ JoinsAreLeft(q) => JoinsAreLeft(Tail(q))
         /\ JoinsAreLeft(q) /\ Head(q).type = "join" => Has(Tail(q), "leave")
<1> DEFINE t == Tail(q)
<1>1. /\ Len(q) \in Nat \ {0} /\ Len(t) = Len(q) - 1 /\ Head(q) = q[1]
      /\ \A i \in 1..Len(t) : t[i] = q[i + 1] /\ i + 1 \in 1..Len(q)
      /\ 1 \in 1..Len(q)
  OBVIOUS
<1>2. \A j \in 1..Len(q) : j > 1 => j - 1 \in 1..Len(t) /\ q[j] = t[j - 1]
  BY <1>1
<1>3. \A type : \A i \in 1..Len(t) : NoneAfter(t, i, type) <=> NoneAfter(q, i + 1, type)
  <2>1. SUFFICES ASSUME NEW type, NEW i \in 1..Len(t)
                 PROVE  NoneAfter(t, i, type) <=> NoneAfter(q, i + 1, type)
    OBVIOUS
  <2>2. ASSUME NoneAfter(t, i, type), NEW j \in 1..Len(q), j > i + 1 PROVE q[j].type # type
    <3>1. j > 1 /\ j - 1 > i
      BY <1>1, <2>2
    <3>2. QED
      BY <1>2, <2>2, <3>1 DEF NoneAfter
  <2>3. ASSUME NoneAfter(q, i + 1, type), NEW j \in 1..Len(t), j > i PROVE t[j].type # type
    <3>1. j + 1 > i + 1
      BY <1>1, <2>3
    <3>2. QED
      BY <1>1, <2>3, <3>1 DEF NoneAfter
  <2>4. QED
    BY <2>2, <2>3 DEF NoneAfter
<1>4. \A type : ~Has(t, type) <=> NoneAfter(q, 1, type)
  <2>1. ASSUME NEW type, ~Has(t, type) PROVE NoneAfter(q, 1, type)
    BY <1>2, <2>1 DEF Has, NoneAfter
  <2>2. ASSUME NEW type, NoneAfter(q, 1, type), NEW i \in 1..Len(t) PROVE t[i].type # type
    <3>1. i + 1 > 1
      BY <1>1
    <3>2. QED
      BY <1>1, <2>2, <3>1 DEF NoneAfter
  <2>3. QED
    BY <2>1, <2>2 DEF Has
<1> HIDE DEF t
<1>5. FromDocument(q, ops) => FromDocument(t, ops)
  BY <1>1, <1>3 DEF FromDocument
<1>6. FromReplica(q, ops) => FromReplica(t, ops)
  BY <1>1, <1>3 DEF FromReplica
<1>7. JoinsAreLeft(q) => JoinsAreLeft(t)
  BY <1>1, <1>3 DEF JoinsAreLeft
<1>8. /\ FromDocument(q, ops) /\ ~Has(t, "step1") => FitsDocument(Head(q), ops)
      /\ FromReplica(q, ops) /\ ~Has(t, "leave") => FitsReplica(Head(q), ops)
      /\ JoinsAreLeft(q) /\ Head(q).type = "join" => Has(t, "leave")
  BY <1>1, <1>4 DEF FromDocument, FromReplica, JoinsAreLeft
<1>9. QED
  BY <1>5, <1>6, <1>7, <1>8 DEF t

(* A document or a copy that grows. *)
LEMMA Grows ==
  ASSUME NEW q, NEW ops, NEW more, ops \subseteq more
  PROVE  /\ FromDocument(q, ops) => FromDocument(q, more)
         /\ FromReplica(q, ops) => FromReplica(q, more)
  BY DEF FromDocument, FromReplica, FitsDocument, FitsReplica

(* An empty queue holds nothing. *)
LEMMA Empty ==
  /\ \A type : ~Has(<<>>, type)
  /\ \A op : ~Carried(<<>>, op) /\ ~Asked(<<>>, op)
  /\ \A ops : FromReplica(<<>>, ops)
  /\ JoinsAreLeft(<<>>)
  BY DEF Has, Carried, Asked, FromReplica, JoinsAreLeft

------------------------------------------------------------------------------
(* Messages. *)

LEMMA MessageIs ==
  ASSUME NEW S, NEW m \in MessageOver(S)
  PROVE  /\ m.type = "step1" => m.vector \in SUBSET S
         /\ Carries(m) => m.ops \in SUBSET S
         /\ m \in AnswerOver(S) => m.type = "step1" \/ Carries(m)
  BY DEF MessageOver, AnswerOver, Carries

LEMMA EndsMade ==
  ASSUME NEW S
  PROVE  /\ Join \in MessageOver(S) /\ Join.type = "join"
         /\ Leave \in MessageOver(S) /\ Leave.type = "leave"
         /\ AnswerOver(S) \subseteq MessageOver(S)
  BY DEF MessageOver, AnswerOver, Join, Leave

LEMMA Step1Made ==
  ASSUME NEW S, NEW ops \in SUBSET S
  PROVE  /\ Step1(ops) \in AnswerOver(S) /\ Step1(ops).type = "step1"
         /\ Step1(ops).vector = ops \ Deletion
  BY DEF AnswerOver, Step1, Vector

LEMMA Step2Made ==
  ASSUME NEW S, NEW ops \in SUBSET S, NEW vector
  PROVE  /\ Step2(ops, vector) \in AnswerOver(S) /\ Carries(Step2(ops, vector))
         /\ Step2(ops, vector).type = "step2" /\ Step2(ops, vector).ops = ops \ vector
  BY DEF AnswerOver, Step2, Missing, Carries

LEMMA UpdateMade ==
  ASSUME NEW S, NEW op \in S
  PROVE  /\ Update(op) \in AnswerOver(S) /\ Carries(Update(op))
         /\ Update(op).type = "update" /\ Update(op).ops = {op}
  BY DEF AnswerOver, Update, Carries

LEMMA Wider ==
  ASSUME NEW S, NEW T, S \subseteq T
  PROVE  /\ [Client -> Seq(MessageOver(S))] \subseteq [Client -> Seq(MessageOver(T))]
         /\ [Client -> Seq(AnswerOver(S))] \subseteq [Client -> Seq(AnswerOver(T))]
<1>1. MessageOver(S) \subseteq MessageOver(T) /\ AnswerOver(S) \subseteq AnswerOver(T)
  BY DEF MessageOver, AnswerOver
<1>2. QED
  BY <1>1

LEMMA Emitted ==
  ASSUME NEW S, down \in [Client -> Seq(S)], NEW R, NEW m \in S, Emit(R, m)
  PROVE  /\ down' \in [Client -> Seq(S)]
         /\ \A c \in Client : down'[c] = IF c \in R THEN Append(down[c], m) ELSE down[c]
  BY DEF Emit

(* The document that is found or built, with what is added. *)
LEMMA Opened ==
  ASSUME Types, NEW added \in SUBSET Op, Open(added)
  PROVE  /\ born' \in SUBSET Op /\ born \subseteq born' /\ added \subseteq born'
         /\ content' \in SUBSET born' /\ content' # Null
         /\ \/ content # Null /\ content' = content \cup added /\ born' = born \cup added
            \/ /\ content = Null /\ saved # {}
               /\ content' = saved \cup added /\ born' = born \cup added
            \/ /\ content = Null /\ saved = {}
               /\ \E b \in Boot \ born : /\ content' = {b} \cup added
                                         /\ born' = born \cup {b} \cup added
<1>1. \/ content # Null /\ content' = content \cup added /\ born' = born \cup added
      \/ /\ content = Null /\ saved # {}
         /\ content' = saved \cup added /\ born' = born \cup saved \cup added
      \/ /\ content = Null /\ saved = {}
         /\ \E b \in Boot \ born : /\ content' = {b} \cup added
                                   /\ born' = born \cup {b} \cup added
  BY DEF Open, Loadable, Built
<1>2. Boot \subseteq Op /\ saved \subseteq born
  BY DEF Op, Types
<1>3. born' \in SUBSET Op /\ born \subseteq born' /\ added \subseteq born' /\ content' \in SUBSET born'
  BY <1>1, <1>2 DEF Types
<1>4. content' # Null
  BY <1>3, RepOpAssumption
<1>5. QED
  BY <1>1, <1>2, <1>3, <1>4

------------------------------------------------------------------------------
(* The types are inductive. *)

LEMMA TypesInductive == Types /\ [RepNext]_vars => Types'
<1>1. SUFFICES ASSUME Types, [RepNext]_vars PROVE Types'
  OBVIOUS
<1> USE DEF serverVars, bounds, clientVars
<1> DEFINE M == MessageOver(born)  A == AnswerOver(born)
<1>2. /\ \A c \in Client : up[c] \in Seq(M) /\ down[c] \in Seq(A)
      /\ \A state \in SUBSET Op : state # Null
  BY <1>1, RepOpAssumption DEF Types
<1>3. \A state \in SUBSET born : state # Null
  BY <1>1, <1>2 DEF Types
<1>4. CASE UNCHANGED vars
  BY <1>1, <1>4 DEF vars, Types
<1>5. CASE Flush
  BY <1>1, <1>5 DEF Flush, Types
<1>6. CASE Evict
  BY <1>1, <1>6 DEF Evict, Unused, Types
<1>7. CASE EvictUnsaved
  BY <1>1, <1>7 DEF EvictUnsaved, Fault, Event, Unused, Types
<1>8. CASE Crash
  BY <1>1, <1>8 DEF Crash, Fault, Event, Types
<1>9. CASE AppendSaved
  <2>1. appending \in born /\ content \in SUBSET born
    BY <1>1, <1>9 DEF AppendSaved, Types
  <2>2. Update(appending) \in A
    BY <2>1, UpdateMade
  <2>3. down' \in [Client -> Seq(A)]
    BY <1>1, <1>9, <2>2, Emitted DEF AppendSaved, Types
  <2>4. QED
    BY <1>1, <1>9, <2>1, <2>3 DEF AppendSaved, Types
<1>10. CASE AppendRejected
  <2>1. appending \in Op
    BY <1>1, <1>10 DEF AppendRejected, Types, Op
  <2>2. withheld' \in [Client -> SUBSET Op]
    BY <1>1, <1>10, <2>1 DEF AppendRejected, Types
  <2>3. QED
    BY <1>1, <1>10, <2>2 DEF AppendRejected, Fault, Event, Types
<1>11. ASSUME NEW op \in Appended, AppendMerges(op) PROVE Types'
  <2>1. {op} \in SUBSET Op /\ op # Null
    BY RepOpAssumption DEF Op
  <2>2. /\ born' \in SUBSET Op /\ born \subseteq born' /\ op \in content'
        /\ content' \in SUBSET born' /\ content' # Null
    BY <1>1, <1>11, <2>1, Opened DEF AppendMerges
  <2>3. up' \in [Client -> Seq(MessageOver(born'))] /\ down' \in [Client -> Seq(AnswerOver(born'))]
    BY <1>1, <1>11, <2>2, Wider DEF AppendMerges, Types
  <2>4. QED
    BY <1>1, <1>11, <2>2, <2>3 DEF AppendMerges, Event, Types
<1>12. ASSUME NEW op \in Bus, RelayBusUpdate(op) PROVE Types'
  <2>1. op \in Op /\ born' = born \cup {op}
    BY <1>12 DEF RelayBusUpdate, Op
  <2>2. /\ born \subseteq born' /\ op \in born'
        /\ up \in [Client -> Seq(MessageOver(born'))] /\ down \in [Client -> Seq(AnswerOver(born'))]
    BY <1>1, <2>1, Wider DEF Types
  <2>3. Update(op) \in AnswerOver(born')
    BY <2>2, UpdateMade
  <2>4. down' \in [Client -> Seq(AnswerOver(born'))]
    BY <1>12, <2>2, <2>3, Emitted DEF RelayBusUpdate
  <2>5. /\ content' \in {Null} \cup SUBSET born' /\ saved' \in SUBSET born' /\ born' \in SUBSET Op
        /\ replica' \in [Client -> SUBSET born']
    BY <1>1, <1>12, <2>1, <2>2 DEF RelayBusUpdate, Types
  <2>6. events' \in Nat /\ faults' \in Nat
    BY <1>1, <1>12 DEF RelayBusUpdate, Event, Types
  <2>7. QED
    BY <1>1, <1>12, <2>2, <2>4, <2>5, <2>6 DEF RelayBusUpdate, Types
<1>13. ASSUME NEW c \in Client, up[c] # <<>>
       PROVE  /\ Head(up[c]) \in M /\ [up EXCEPT ![c] = Tail(@)] \in [Client -> Seq(M)]
              /\ Carries(Head(up[c])) => Head(up[c]).ops \in SUBSET born
              /\ Head(up[c]).type = "step1" => Head(up[c]).vector \in SUBSET born
  <2>1. Head(up[c]) \in M /\ Tail(up[c]) \in Seq(M)
    BY <1>2, <1>13, Pop
  <2>2. QED
    BY <1>1, <2>1, MessageIs DEF Types
<1>14. ASSUME NEW c \in Client, down[c] # <<>>
       PROVE  /\ Head(down[c]) \in A /\ [down EXCEPT ![c] = Tail(@)] \in [Client -> Seq(A)]
              /\ Head(down[c]).type # "step1" => Head(down[c]).ops \in SUBSET born
  <2>1. Head(down[c]) \in A /\ Tail(down[c]) \in Seq(A) /\ A \subseteq M
    BY <1>2, <1>14, Pop, EndsMade
  <2>2. QED
    BY <1>1, <2>1, MessageIs DEF Types
<1>15. ASSUME NEW c \in Client, HandleJoin(c) PROVE Types'
  <2>1. /\ born' \in SUBSET Op /\ born \subseteq born'
        /\ content' \in SUBSET born' /\ content' # Null
        /\ appending # Null => appending \in content'
    BY <1>1, <1>15, Opened DEF HandleJoin, Types
  <2>2. /\ up' \in [Client -> Seq(MessageOver(born'))]
        /\ down \in [Client -> Seq(AnswerOver(born'))]
    <3>1. up' \in [Client -> Seq(M)]
      BY <1>13, <1>15 DEF HandleJoin, Handles
    <3>2. QED
      BY <1>1, <2>1, <3>1, Wider DEF Types
  <2>3. Step1(content') \in AnswerOver(born')
    BY <2>1, Step1Made
  <2>4. down' \in [Client -> Seq(AnswerOver(born'))]
    BY <1>15, <2>2, <2>3, Emitted DEF HandleJoin
  <2>5. QED
    BY <1>1, <1>15, <2>1, <2>2, <2>4 DEF HandleJoin, Types
<1>16. ASSUME NEW c \in Client, HandleLeave(c) PROVE Types'
  BY <1>1, <1>13, <1>16 DEF HandleLeave, Handles, Settle, Types
<1>17. ASSUME NEW c \in Client, HandleStep1(c) PROVE Types'
  <2>1. Answer(Head(up[c]).vector) \in A
    BY <1>1, <1>17, Step2Made DEF HandleStep1, Answer, Types
  <2>2. down' \in [Client -> Seq(A)]
    BY <1>1, <1>17, <2>1, Emitted DEF HandleStep1, Types
  <2>3. QED
    BY <1>1, <1>13, <1>17, <2>2 DEF HandleStep1, Handles, Settle, Types
<1>18. ASSUME NEW c \in Client, HandleStep2(c) PROVE Types'
  <2>1. Head(up[c]).ops \in SUBSET born
    BY <1>13, <1>18 DEF HandleStep2, Handles, Carries
  <2>2. content' \in SUBSET born /\ withheld' \in [Client -> SUBSET Op]
    BY <1>1, <1>18, <2>1 DEF HandleStep2, Withhold, Types
  <2>3. QED
    BY <1>1, <1>3, <1>13, <1>18, <2>2 DEF HandleStep2, Handles, Types
<1>19. ASSUME NEW c \in Client, HandleUpdate(c) PROVE Types'
  <2>1. Head(up[c]).ops \in SUBSET born /\ Head(up[c]) \in A
    BY <1>13, <1>19 DEF HandleUpdate, Handles, Carries, MessageOver
  <2>2. content' = content \cup Head(up[c]).ops /\ content' \in SUBSET born
    BY <1>1, <1>19, <2>1 DEF HandleUpdate, Merge, Types
  <2>3. withheld' \in [Client -> SUBSET Op] /\ down' \in [Client -> Seq(A)]
    <3>1. CASE c \in Viewer
      BY <1>1, <1>19, <2>1, <3>1 DEF HandleUpdate, Withhold, Types
    <3>2. CASE c \notin Viewer
      BY <1>1, <1>19, <2>1, <3>2, Emitted DEF HandleUpdate, Types
    <3>3. QED
      BY <3>1, <3>2
  <2>4. QED
    BY <1>1, <1>3, <1>13, <1>19, <2>2, <2>3 DEF HandleUpdate, Handles, Types
<1>20. ASSUME NEW c \in Client, OpenNode(c) PROVE Types'
  <2>1. Append(up[c], Join) \in Seq(M)
    BY <1>2, EndsMade, Push
  <2>2. QED
    BY <1>1, <1>20, <2>1 DEF OpenNode, Event, Types
<1>21. ASSUME NEW c \in Client, CloseNode(c) PROVE Types'
  <2>1. Append(up[c], Leave) \in Seq(M)
    BY <1>2, EndsMade, Push
  <2>2. QED
    BY <1>1, <1>21, <2>1 DEF CloseNode, Event, Types
<1>22. ASSUME NEW c \in Client, Disconnect(c) PROVE Types'
  BY <1>1, <1>22 DEF Disconnect, Event, Settle, Types
<1>23. ASSUME NEW c \in Client, NEW op \in Typed, Type(c, op) PROVE Types'
  <2>1. op \in Op /\ born' = born \cup {op}
    BY <1>23 DEF Type, Op
  <2>2. /\ born \subseteq born' /\ op \in born'
        /\ up \in [Client -> Seq(MessageOver(born'))] /\ down \in [Client -> Seq(AnswerOver(born'))]
    BY <1>1, <2>1, Wider DEF Types
  <2>3. Append(up[c], Update(op)) \in Seq(MessageOver(born'))
    <3>1. Update(op) \in MessageOver(born')
      BY <2>2, UpdateMade, EndsMade
    <3>2. QED
      BY <2>2, <3>1, Push
  <2>4. up' \in [Client -> Seq(MessageOver(born'))]
    BY <1>23, <2>2, <2>3 DEF Type
  <2>5. QED
    BY <1>1, <1>23, <2>1, <2>2, <2>4 DEF Type, Types
<1>24. ASSUME NEW c \in Client, ReceiveStep1(c) PROVE Types'
  <2>1. Step2(replica[c], Head(down[c]).vector) \in M /\ Step1(replica[c]) \in M
    BY <1>1, Step1Made, Step2Made, EndsMade DEF Types
  <2>2. up[c] \o <<Step2(replica[c], Head(down[c]).vector), Step1(replica[c])>> \in Seq(M)
    BY <1>2, <2>1
  <2>3. QED
    BY <1>1, <1>14, <1>24, <2>2 DEF ReceiveStep1, Receives, Types
<1>25. ASSUME NEW c \in Client, ReceiveOps(c) PROVE Types'
  BY <1>1, <1>14, <1>25 DEF ReceiveOps, Receives, Types
<1>26. ASSUME NEW c \in Client, ReceiveClosed(c) PROVE Types'
  BY <1>1, <1>14, <1>26 DEF ReceiveClosed, Receives, Types
<1>27. QED
  BY <1>1, <1>4, <1>5, <1>6, <1>7, <1>8, <1>9, <1>10, <1>11, <1>12, <1>15, <1>16, <1>17, <1>18,
     <1>19, <1>20, <1>21, <1>22, <1>23, <1>24, <1>25, <1>26 DEF RepNext

(* What the facts about queues say of this socket's. *)
LEMMA Queues ==
  ASSUME Types, NEW c \in Client
  PROVE  up[c] \in Seq(MessageOver(born)) /\ down[c] \in Seq(AnswerOver(born))
  BY DEF Types

(* One tree at most: what a first load builds stays, in memory or in the row. *)
LEMMA BodyInductive == Types /\ Body /\ [RepNext]_vars => Body'
<1>1. SUFFICES ASSUME Types, Body, [RepNext]_vars PROVE Body'
  OBVIOUS
<1> USE DEF serverVars, bounds, clientVars
<1>2. faults \in Nat /\ (content # Null => content \in SUBSET born)
  BY <1>1 DEF Types
<1>3. Boot \cap (Typed \cup Appended \cup Bus) = {}
  BY RepOpAssumption
<1>4. CASE UNCHANGED vars
  BY <1>1, <1>4 DEF vars, Body
<1>5. CASE EvictUnsaved \/ Crash
  BY <1>2, <1>5 DEF EvictUnsaved, Crash, Fault, Body
<1>6. CASE Flush \/ AppendSaved
  BY <1>1, <1>6 DEF Flush, AppendSaved, Types, Body
<1>7. CASE Evict
  BY <1>1, <1>7 DEF Evict, Flushed, Body
<1>8. CASE AppendRejected
  BY <1>2, <1>1, <1>8 DEF AppendRejected, Fault, Body
<1>9. ASSUME NEW added \in SUBSET Op, Open(added), added \cap Boot = {},
             saved' = saved, faults' = faults
      PROVE  Body'
  BY <1>1, <1>9, Opened DEF Body
<1>10. ASSUME NEW op \in Appended, AppendMerges(op) PROVE Body'
  <2>1. {op} \in SUBSET Op /\ {op} \cap Boot = {}
    BY <1>3 DEF Op
  <2>2. QED
    BY <1>9, <1>10, <2>1 DEF AppendMerges
<1>11. ASSUME NEW op \in Bus, RelayBusUpdate(op) PROVE Body'
  BY <1>1, <1>3, <1>11 DEF RelayBusUpdate, Body
<1>12. ASSUME NEW c \in Client, HandleJoin(c) PROVE Body'
  BY <1>9, <1>12 DEF HandleJoin
<1>13. ASSUME NEW c \in Client, HandleStep2(c) \/ HandleUpdate(c) PROVE Body'
  <2>1. /\ up[c] \in Seq(MessageOver(born)) /\ up[c] # <<>> /\ Carries(Head(up[c]))
        /\ content # Null /\ content' = content \cup Head(up[c]).ops
        /\ UNCHANGED <<saved, born, faults>>
    BY <1>1, <1>13, Queues DEF HandleStep2, HandleUpdate, Merge, Handles, Carries
  <2>2. Head(up[c]).ops \in SUBSET born
    BY <2>1, Pop, MessageIs
  <2>3. content' # Null /\ content' # {}
    <3>1. content' \in SUBSET Op /\ content \subseteq content' /\ content # {}
      BY <1>1, <1>2, <2>1, <2>2 DEF Types, Body
    <3>2. QED
      BY <3>1, RepOpAssumption
  <2>4. QED
    BY <1>1, <2>1, <2>3 DEF Body
<1>14. ASSUME NEW c \in Client, NEW op \in Typed, Type(c, op) PROVE Body'
  BY <1>1, <1>3, <1>14 DEF Type, Body
<1>15. ASSUME NEW c \in Client,
              HandleLeave(c) \/ HandleStep1(c) \/ OpenNode(c) \/ CloseNode(c) \/ Disconnect(c)
       PROVE  Body'
  BY <1>1, <1>15 DEF HandleLeave, HandleStep1, OpenNode, CloseNode, Disconnect, Body
<1>16. ASSUME NEW c \in Client, ReceiveStep1(c) \/ ReceiveOps(c) \/ ReceiveClosed(c) PROVE Body'
  BY <1>1, <1>16 DEF ReceiveStep1, ReceiveOps, ReceiveClosed, Body
<1>17. QED
  BY <1>1, <1>4, <1>5, <1>6, <1>7, <1>8, <1>10, <1>11, <1>12, <1>13, <1>14, <1>15, <1>16 DEF RepNext

------------------------------------------------------------------------------
(* The links between a browser and the document. *)

(* A step that leaves a browser alone: what it adds to the document is sent to it,
   or withheld. *)
LEMMA LinkKeeps ==
  ASSUME RepInv, NEW d \in Client, born \subseteq born',
         up'[d] = up[d], replica'[d] = replica[d], mode'[d] = mode[d], d \in room' => d \in room,
         d \in room' =>
           /\ content \subseteq content'
           /\ \/ down'[d] = down[d]
              \/ \E m \in AnswerOver(born') :
                   /\ down'[d] = Append(down[d], m) /\ Carries(m)
                   /\ m.ops \subseteq content' \cup Bus
           /\ \A op \in content' :
                \/ op \in content /\ op \notin withheld[d] \cup {appending}
                \/ op \in withheld'[d] \cup {appending'}
                \/ Carried(down'[d], op)
  PROVE  Linked(d)'
<1>1. Linked(d) /\ down[d] \in Seq(AnswerOver(born))
  BY Queues DEF RepInv
<1>2. FromReplica(up[d], replica[d])' /\ Leaving(d)'
  BY <1>1 DEF Linked, Leaving
<1>3. CASE d \notin room'
  BY <1>2, <1>3 DEF Linked, Reaches
<1>4. CASE d \in room'
  <2>1. FromDocument(down[d], content')
    BY <1>1, <1>4, Grows DEF Linked
  <2>2. CASE down'[d] = down[d]
    BY <1>1, <1>2, <1>4, <2>1, <2>2 DEF Linked, Offered, Reaches, OnItsWay
  <2>3. ASSUME NEW m \in AnswerOver(born'), down'[d] = Append(down[d], m), Carries(m),
               m.ops \subseteq content' \cup Bus
        PROVE  Linked(d)'
    <3>1. down[d] \in Seq(AnswerOver(born')) /\ m.type # "step1"
      BY <1>1, <2>3 DEF AnswerOver, Carries
    <3>2. FromDocument(down[d], content)'
      BY <2>1, <2>3, <3>1, PushKeeps DEF FitsDocument
    <3>3. /\ Has(down'[d], "step1") <=> Has(down[d], "step1")
          /\ \A op : Carried(down[d], op) => Carried(down'[d], op)
      BY <2>3, <3>1, Push
    <3>4. Offered(d)'
      BY <1>1, <1>4, <3>3 DEF Linked, Offered
    <3>5. Reaches(d)'
      BY <1>1, <1>4, <3>3 DEF Linked, Reaches, OnItsWay
    <3>6. QED
      BY <1>2, <3>2, <3>4, <3>5 DEF Linked
  <2>4. QED
    BY <1>4, <2>2, <2>3
<1>5. QED
  BY <1>3, <1>4

(* The join of a browser: a SyncStep1 is on its way to it. *)
LEMMA JoinLinks ==
  ASSUME RepInv, NEW c \in Client, HandleJoin(c), content' \in SUBSET born', born \subseteq born'
  PROVE  Linked(c)'
<1> DEFINE q == up[c]  p == down[c]
<1>1. /\ Linked(c) /\ q \in Seq(MessageOver(born)) /\ p \in Seq(AnswerOver(born'))
      /\ q # <<>> /\ Head(q).type = "join"
      /\ up'[c] = Tail(q) /\ replica' = replica /\ mode' = mode
  <2>1. down \in [Client -> Seq(AnswerOver(born'))]
    BY Wider DEF RepInv, Types
  <2>2. QED
    BY <2>1 DEF RepInv, Types, HandleJoin, Handles, clientVars
<1>2. /\ Step1(content') \in AnswerOver(born') /\ Step1(content').type = "step1"
      /\ Step1(content').vector \subseteq content'
  BY Step1Made
<1>3. down'[c] = Append(p, Step1(content'))
  BY DEF HandleJoin, Emit
<1>4. FromDocument(down'[c], content') /\ Has(down'[c], "step1")
  BY <1>1, <1>2, <1>3, Push, PushKeeps DEF FitsDocument, Carries
<1>5. FromReplica(Tail(q), replica[c])
  BY <1>1, PopKeeps DEF Linked
<1>6. mode[c] = "away" => JoinsAreLeft(Tail(q)) /\ Has(Tail(q), "leave")
  BY <1>1, PopKeeps DEF Linked, Leaving
<1>7. QED
  BY <1>1, <1>4, <1>5, <1>6 DEF Linked, Offered, Leaving, Reaches, OnItsWay

(* An answered SyncStep1: whatever the browser lacked is now on its way. *)
LEMMA AnswerLinks ==
  ASSUME RepInv, NEW c \in Client, HandleStep1(c)
  PROVE  Linked(c)'
<1> DEFINE q == up[c]  p == down[c]  v == Head(q).vector  m == Step2(content, v)
<1>1. /\ Linked(c) /\ q \in Seq(MessageOver(born)) /\ p \in Seq(AnswerOver(born))
      /\ q # <<>> /\ Head(q).type = "step1" /\ content \in SUBSET born
      /\ up'[c] = Tail(q) /\ down'[c] = Append(p, m)
      /\ UNCHANGED <<content, room, mode, replica, appending>>
  BY Queues DEF RepInv, Types, HandleStep1, Handles, Answer, Emit, serverVars, clientVars
<1>2. m \in AnswerOver(born) /\ m.type = "step2" /\ m.ops = content \ v
  <2>1. content \in SUBSET born
    BY <1>1
  <2>2. \A vector : /\ Step2(content, vector) \in AnswerOver(born)
                     /\ Step2(content, vector).type = "step2"
                     /\ Step2(content, vector).ops = content \ vector
    BY <2>1 DEF AnswerOver, Step2, Missing
  <2>3. QED
    BY <2>2
<1>3. FromReplica(Tail(q), replica[c]) /\ (JoinsAreLeft(q) => JoinsAreLeft(Tail(q)))
  BY <1>1, PopKeeps DEF Linked
<1>4. /\ \A type : Has(q, type) <=> Has(Tail(q), type) \/ Head(q).type = type
      /\ \A op : Carried(q, op) => Carried(Tail(q), op)
  BY <1>1, Pop DEF Carries
<1>5. /\ Has(down'[c], "step1") <=> Has(p, "step1")
      /\ \A op : Carried(down'[c], op) <=> Carried(p, op) \/ op \in content \ v
  BY <1>1, <1>2, Push DEF Carries
<1>6. FromDocument(p, content) => FromDocument(down'[c], content)
  BY <1>1, <1>2, PushKeeps DEF FitsDocument, Carries
<1>7. Leaving(c)'
  BY <1>1, <1>3, <1>4 DEF Linked, Leaving
<1>8. Offered(c) => Offered(c)'
  BY <1>1, <1>4, <1>5 DEF Offered
<1>9. Reaches(c)'
  <2>1. SUFFICES ASSUME c \in room, ~Has(Tail(q), "leave"), NEW op \in content
                 PROVE  op \in replica[c] \/ Carried(down'[c], op)
    BY <1>1 DEF Reaches, OnItsWay
  <2>2. v \subseteq replica[c]
    BY <1>1, <2>1, PopKeeps DEF Linked, FitsReplica
  <2>3. QED
    BY <1>5, <2>1, <2>2
<1>10. QED
  BY <1>1, <1>3, <1>6, <1>7, <1>8, <1>9 DEF Linked

(* Operations of the browser that the document takes over. *)
LEMMA MergeLinks ==
  ASSUME RepInv, NEW c \in Client, up[c] # <<>>, Carries(Head(up[c])),
         up'[c] = Tail(up[c]), content # Null, content' = content \cup Head(up[c]).ops,
         down'[c] = down[c], withheld'[c] = withheld[c],
         UNCHANGED <<room, mode, replica, appending>>
  PROVE  Linked(c)'
<1> DEFINE q == up[c]  ops == Head(q).ops
<1>1. Linked(c) /\ q \in Seq(MessageOver(born))
  BY Queues DEF RepInv
<1>2. FromReplica(Tail(q), replica[c]) /\ (JoinsAreLeft(q) => JoinsAreLeft(Tail(q)))
  BY <1>1, PopKeeps DEF Linked
<1>3. /\ Has(q, "leave") <=> Has(Tail(q), "leave")
      /\ \A op : Carried(q, op) <=> Carried(Tail(q), op) \/ op \in ops
      /\ \A op : Asked(q, op) <=> Asked(Tail(q), op)
  BY <1>1, Pop DEF Carries
<1>4. FromDocument(down[c], content) => FromDocument(down[c], content')
  BY Grows
<1>5. Leaving(c)'
  BY <1>1, <1>2, <1>3 DEF Linked, Leaving
<1>6. Offered(c) => Offered(c)'
  BY <1>3 DEF Offered
<1>7. Reaches(c)'
  <2>1. SUFFICES ASSUME c \in room, ~Has(Tail(q), "leave"), NEW op \in content'
                 PROVE  OnItsWay(c, op)'
    BY DEF Reaches
  <2>2. ops \subseteq replica[c]
    BY <1>1, <2>1, PopKeeps DEF Linked, FitsReplica
  <2>3. CASE op \in content
    BY <1>1, <1>3, <2>1, <2>3 DEF Linked, Reaches, OnItsWay
  <2>4. CASE op \in ops
    BY <2>2, <2>4 DEF OnItsWay
  <2>5. QED
    BY <2>1, <2>3, <2>4
<1>8. QED
  BY <1>1, <1>2, <1>4, <1>5, <1>6, <1>7 DEF Linked

------------------------------------------------------------------------------
(* Every step keeps the invariant: one case per action, the socket that acts and
   the others. *)

LEMMA LinksInductive ==
  ASSUME RepInv, [RepNext]_vars, Types'
  PROVE  \A d \in Client : Linked(d)'
<1> USE DEF serverVars, bounds, clientVars
<1>1. /\ Types /\ \A d \in Client : Linked(d)
      /\ \A d \in Client : up[d] \in Seq(MessageOver(born)) /\ down[d] \in Seq(AnswerOver(born))
  BY Queues DEF RepInv
<1>2. born \subseteq born'
  <2>1. ASSUME NEW added \in SUBSET Op, Open(added) PROVE born \subseteq born'
    BY <1>1, <2>1, Opened
  <2>2. ASSUME NEW op \in Appended, AppendMerges(op) PROVE born \subseteq born'
    <3>1. {op} \in SUBSET Op
      BY DEF Op
    <3>2. QED
      BY <2>1, <2>2, <3>1 DEF AppendMerges
  <2>3. ASSUME NEW c \in Client, HandleJoin(c) PROVE born \subseteq born'
    BY <2>1, <2>3 DEF HandleJoin
  <2>4. CASE Flush \/ Evict \/ EvictUnsaved \/ Crash \/ AppendSaved \/ AppendRejected
    BY <2>4 DEF Flush, Evict, EvictUnsaved, Crash, AppendSaved, AppendRejected
  <2>5. ASSUME NEW op \in Bus, RelayBusUpdate(op) PROVE born \subseteq born'
    BY <2>5 DEF RelayBusUpdate
  <2>6. ASSUME NEW c \in Client, NEW op \in Typed, Type(c, op) PROVE born \subseteq born'
    BY <2>6 DEF Type
  <2>7. ASSUME NEW c \in Client,
               HandleLeave(c) \/ HandleStep1(c) \/ HandleStep2(c) \/ HandleUpdate(c)
        PROVE  born \subseteq born'
    BY <2>7 DEF HandleLeave, HandleStep1, HandleStep2, HandleUpdate
  <2>8. ASSUME NEW c \in Client,
               \/ OpenNode(c) \/ CloseNode(c) \/ Disconnect(c)
               \/ ReceiveStep1(c) \/ ReceiveOps(c) \/ ReceiveClosed(c)
        PROVE  born \subseteq born'
    BY <2>8 DEF OpenNode, CloseNode, Disconnect, ReceiveStep1, ReceiveOps, ReceiveClosed
  <2>9. CASE UNCHANGED vars
    BY <2>9 DEF vars
  <2>10. QED
    BY <2>2, <2>3, <2>4, <2>5, <2>6, <2>7, <2>8, <2>9 DEF RepNext
<1>3. CASE UNCHANGED vars
  BY <1>1, <1>3 DEF vars, Linked, Offered, Leaving, Reaches, OnItsWay
<1>4. CASE Flush \/ Evict \/ EvictUnsaved
  <2>1. ASSUME NEW d \in Client PROVE Linked(d)'
    BY <1>2, <1>4, LinkKeeps DEF Flush, Evict, EvictUnsaved, Unused, Fault
  <2>2. QED
    BY <2>1
<1>5. CASE Crash
  BY <1>5, Empty DEF Crash, Linked, Leaving, Reaches
<1>6. CASE AppendSaved
  <2>1. appending \in content /\ appending \in born /\ born' = born
    BY <1>1, <1>6 DEF AppendSaved, Types
  <2>2. /\ Update(appending) \in AnswerOver(born) /\ Carries(Update(appending))
        /\ Update(appending).ops = {appending}
    BY <2>1, UpdateMade
  <2>3. ASSUME NEW d \in Client PROVE Linked(d)'
    <3>1. d \in room => Append(down[d], Update(appending)) = down'[d]
      BY <1>6, <2>3 DEF AppendSaved, Emit
    <3>2. Carried(Append(down[d], Update(appending)), appending)
      <4>1. down[d] \in Seq(AnswerOver(born))
        BY <1>1, <2>3
      <4>2. QED
        BY <2>2, <4>1, Push
    <3>3. QED
      BY <1>2, <1>6, <2>1, <2>2, <2>3, <3>1, <3>2, LinkKeeps DEF AppendSaved
  <2>4. QED
    BY <2>3
<1>7. CASE AppendRejected
  <2>1. ASSUME NEW d \in Client PROVE Linked(d)'
    BY <1>1, <1>2, <1>7, <2>1, LinkKeeps DEF AppendRejected, Fault, Types
  <2>2. QED
    BY <2>1
<1>8. ASSUME NEW op \in Appended, AppendMerges(op) PROVE \A d \in Client : Linked(d)'
  <2>1. {op} \in SUBSET Op
    BY DEF Op
  <2>2. room # {} => content' = content \cup {op}
    BY <1>1, <1>8, <2>1, Opened DEF AppendMerges, Types
  <2>3. ASSUME NEW d \in Client PROVE Linked(d)'
    <3>1. op # Null /\ Null \notin content'
      BY <1>1, <1>8, <2>1, Opened, RepOpAssumption DEF AppendMerges, Types
    <3>2. d \in room' => content' = content \cup {op} /\ d \in room
      BY <1>8, <2>2 DEF AppendMerges
    <3>3. QED
      BY <1>2, <1>8, <2>3, <3>1, <3>2, LinkKeeps DEF AppendMerges
  <2>4. QED
    BY <2>3
<1>9. ASSUME NEW op \in Bus, RelayBusUpdate(op) PROVE \A d \in Client : Linked(d)'
  <2>1. /\ Update(op) \in AnswerOver(born') /\ Carries(Update(op)) /\ Update(op).ops \subseteq Bus
    <3>1. op \in born'
      BY <1>9 DEF RelayBusUpdate
    <3>2. QED
      BY <3>1, UpdateMade
  <2>2. ASSUME NEW d \in Client PROVE Linked(d)'
    <3>1. down[d] \in Seq(AnswerOver(born'))
      <4>1. down \in [Client -> Seq(AnswerOver(born'))]
        BY <1>1, <1>2, Wider DEF Types
      <4>2. QED
        BY <4>1
    <3>2. \/ down'[d] = down[d]
          \/ down'[d] = Append(down[d], Update(op))
      BY <1>9, <2>2 DEF RelayBusUpdate, Emit
    <3>3. ASSUME NEW o, Carried(down[d], o) PROVE Carried(down'[d], o)
      <4>1. Carried(Append(down[d], Update(op)), o)
        BY <2>1, <3>1, <3>3, Push
      <4>2. QED
        BY <3>2, <3>3, <4>1
    <3>4. QED
      BY <1>1, <1>2, <1>9, <2>1, <2>2, <3>2, <3>3, LinkKeeps DEF RelayBusUpdate
  <2>3. QED
    BY <2>2
<1>10. ASSUME NEW c \in Client, HandleJoin(c) PROVE \A d \in Client : Linked(d)'
  <2>1. /\ content' \in SUBSET born'
        /\ room # {} => content' = content
    <3>1. {} \in SUBSET Op /\ Open({})
      BY <1>10 DEF HandleJoin
    <3>2. /\ content' \in SUBSET born'
          /\ content # Null => content' = content \cup {}
      BY <1>1, <3>1, Opened
    <3>3. QED
      BY <1>1, <3>2 DEF Types
  <2>2. Linked(c)'
    BY <1>2, <1>10, <2>1, JoinLinks
  <2>3. ASSUME NEW d \in Client, d # c PROVE Linked(d)'
    <3>1. d \in room' => d \in room /\ content' = content
      BY <1>10, <2>1, <2>3 DEF HandleJoin
    <3>2. up'[d] = up[d] /\ down'[d] = down[d]
      BY <1>1, <1>10, <2>3 DEF HandleJoin, Handles, Emit, Types
    <3>3. QED
      BY <1>2, <1>10, <2>3, <3>1, <3>2, LinkKeeps DEF HandleJoin
  <2>4. QED
    BY <2>2, <2>3
<1>11. ASSUME NEW c \in Client, HandleLeave(c) PROVE \A d \in Client : Linked(d)'
  <2>1. Linked(c)'
    <3>1. /\ up[c] # <<>> /\ up'[c] = Tail(up[c]) /\ c \notin room'
          /\ UNCHANGED <<mode, replica>>
      BY <1>1, <1>11 DEF HandleLeave, Handles, Types
    <3>2. /\ FromReplica(Tail(up[c]), replica[c])
          /\ JoinsAreLeft(up[c]) => JoinsAreLeft(Tail(up[c]))
      BY <1>1, <3>1, PopKeeps DEF Linked
    <3>3. QED
      BY <1>1, <3>1, <3>2 DEF Linked, Leaving, Reaches
  <2>2. ASSUME NEW d \in Client, d # c PROVE Linked(d)'
    <3>1. up'[d] = up[d] /\ withheld'[d] = withheld[d] /\ (d \in room' => d \in room)
      BY <1>1, <1>11, <2>2 DEF HandleLeave, Handles, Settle, Types
    <3>2. QED
      BY <1>2, <1>11, <2>2, <3>1, LinkKeeps DEF HandleLeave
  <2>3. QED
    BY <2>1, <2>2
<1>12. ASSUME NEW c \in Client, HandleStep1(c) PROVE \A d \in Client : Linked(d)'
  <2>1. Linked(c)'
    BY <1>12, AnswerLinks
  <2>2. ASSUME NEW d \in Client, d # c PROVE Linked(d)'
    <3>1. up'[d] = up[d] /\ withheld'[d] = withheld[d] /\ down'[d] = down[d]
      BY <1>1, <1>12, <2>2 DEF HandleStep1, Handles, Settle, Emit, Types
    <3>2. QED
      BY <1>2, <1>12, <2>2, <3>1, LinkKeeps DEF HandleStep1
  <2>3. QED
    BY <2>1, <2>2
<1>13. ASSUME NEW c \in Client, HandleStep2(c) PROVE \A d \in Client : Linked(d)'
  <2>1. /\ up[c] # <<>> /\ Carries(Head(up[c])) /\ up'[c] = Tail(up[c])
        /\ withheld'[c] = withheld[c] /\ down' = down
        /\ content # Null /\ content' = content \cup Head(up[c]).ops
        /\ UNCHANGED <<room, mode, replica, appending, born>>
    BY <1>1, <1>13 DEF HandleStep2, Handles, Withhold, Carries, Types
  <2>2. Linked(c)'
    BY <2>1, MergeLinks
  <2>3. ASSUME NEW d \in Client, d # c PROVE Linked(d)'
    <3>1. /\ up'[d] = up[d]
          /\ d \in room => withheld'[d] = withheld[d] \cup (Head(up[c]).ops \ content)
      BY <1>1, <1>13, <2>3 DEF HandleStep2, Handles, Withhold, Types
    <3>2. QED
      BY <2>1, <2>3, <3>1, LinkKeeps
  <2>4. QED
    BY <2>2, <2>3
<1>14. ASSUME NEW c \in Client, HandleUpdate(c) PROVE \A d \in Client : Linked(d)'
  <2>1. /\ up[c] # <<>> /\ Carries(Head(up[c])) /\ up'[c] = Tail(up[c])
        /\ withheld'[c] = withheld[c] /\ down'[c] = down[c]
        /\ content # Null /\ content' = content \cup Head(up[c]).ops
        /\ UNCHANGED <<room, mode, replica, appending, born>>
    BY <1>1, <1>14 DEF HandleUpdate, Handles, Withhold, Merge, Emit, Carries, Types
  <2>2. Linked(c)'
    BY <2>1, MergeLinks
  <2>3. Head(up[c]) \in AnswerOver(born)
    <3>1. Head(up[c]) \in MessageOver(born)
      BY <1>1, <2>1, Pop
    <3>2. QED
      BY <2>1, <3>1 DEF MessageOver, AnswerOver, Carries
  <2>4. ASSUME NEW d \in Client, d # c PROVE Linked(d)'
    <3>1. up'[d] = up[d]
      BY <1>1, <1>14, <2>4 DEF HandleUpdate, Handles, Types
    <3>2. CASE c \in Viewer
      <4>1. /\ down'[d] = down[d]
            /\ d \in room => withheld'[d] = withheld[d] \cup (Head(up[c]).ops \ content)
        BY <1>14, <2>4, <3>2 DEF HandleUpdate, Withhold
      <4>2. QED
        BY <2>1, <2>4, <3>1, <4>1, LinkKeeps
    <3>3. CASE c \notin Viewer
      <4>1. /\ withheld' = withheld
            /\ d \in room => down'[d] = Append(down[d], Head(up[c]))
        BY <1>14, <2>4, <3>3 DEF HandleUpdate, Emit
      <4>2. \A op \in Head(up[c]).ops : Carried(Append(down[d], Head(up[c])), op)
        <5>1. down[d] \in Seq(AnswerOver(born))
          BY <1>1, <2>4
        <5>2. QED
          BY <2>1, <2>3, <5>1, Push
      <4>3. QED
        BY <2>1, <2>3, <2>4, <3>1, <4>1, <4>2, LinkKeeps
    <3>4. QED
      BY <3>2, <3>3
  <2>5. QED
    BY <2>2, <2>4
<1>15. ASSUME NEW c \in Client, NEW d \in Client, d # c,
              up'[d] = up[d], down'[d] = down[d], mode'[d] = mode[d], replica'[d] = replica[d],
              withheld'[d] = withheld[d], content' = content, appending' = appending,
              d \in room' => d \in room
       PROVE  Linked(d)'
  BY <1>2, <1>15, LinkKeeps
<1>16. ASSUME NEW c \in Client, OpenNode(c) PROVE \A d \in Client : Linked(d)'
  <2>1. Linked(c)'
    <3>1. /\ up'[c] = Append(up[c], Join) /\ mode'[c] = "joining" /\ mode[c] = "away"
          /\ UNCHANGED <<room, replica, down, content, appending, withheld>>
      BY <1>1, <1>16 DEF OpenNode, Types
    <3>2. Join \in MessageOver(born) /\ FitsReplica(Join, replica[c])
      BY EndsMade DEF FitsReplica, Carries, Join
    <3>3. /\ FromReplica(up'[c], replica[c])
          /\ Has(up[c], "leave") => Has(up'[c], "leave")
      BY <1>1, <3>1, <3>2, Push, PushKeeps DEF Linked
    <3>4. QED
      BY <1>1, <3>1, <3>3 DEF Linked, Offered, Leaving, Reaches
  <2>2. ASSUME NEW d \in Client, d # c PROVE Linked(d)'
    BY <1>1, <1>15, <1>16, <2>2 DEF OpenNode, Types
  <2>3. QED
    BY <2>1, <2>2
<1>17. ASSUME NEW c \in Client, CloseNode(c) PROVE \A d \in Client : Linked(d)'
  <2>1. Linked(c)'
    <3>1. /\ up'[c] = Append(up[c], Leave) /\ mode'[c] = "away"
          /\ UNCHANGED <<room, down, content>>
      BY <1>1, <1>17 DEF CloseNode, Types
    <3>2. /\ Leave \in MessageOver(born) /\ Leave.type = "leave"
          /\ FitsReplica(Leave, replica'[c])
      BY EndsMade DEF FitsReplica, Carries, Leave
    <3>3. /\ FromReplica(up'[c], replica'[c])
          /\ Has(up'[c], "leave") /\ JoinsAreLeft(up'[c])
      BY <1>1, <3>1, <3>2, Push, PushKeeps
    <3>4. QED
      BY <1>1, <3>1, <3>3 DEF Linked, Offered, Leaving, Reaches
  <2>2. ASSUME NEW d \in Client, d # c PROVE Linked(d)'
    BY <1>1, <1>15, <1>17, <2>2 DEF CloseNode, Types
  <2>3. QED
    BY <2>1, <2>2
<1>18. ASSUME NEW c \in Client, Disconnect(c) PROVE \A d \in Client : Linked(d)'
  <2>1. Linked(c)'
    <3>1. up'[c] = <<>> /\ c \notin room'
      BY <1>1, <1>18 DEF Disconnect, Types
    <3>2. QED
      BY <3>1, Empty DEF Linked, Leaving, Reaches
  <2>2. ASSUME NEW d \in Client, d # c PROVE Linked(d)'
    BY <1>1, <1>15, <1>18, <2>2 DEF Disconnect, Settle, Types
  <2>3. QED
    BY <2>1, <2>2
<1>19. ASSUME NEW c \in Client, NEW op \in Typed, Type(c, op) PROVE \A d \in Client : Linked(d)'
  <2> DEFINE m == Update(op)
  <2>1. /\ replica'[c] = replica[c] \cup {op}
        /\ UNCHANGED <<room, mode, down, content, appending, withheld>>
        /\ IF mode[c] = "open" THEN up'[c] = Append(up[c], m) ELSE up'[c] = up[c]
    BY <1>1, <1>19 DEF Type, Types
  <2>2. FromReplica(up[c], replica'[c])
    BY <1>1, <2>1, Grows DEF Linked
  <2>3. Linked(c)'
    <3>1. CASE mode[c] = "open"
      <4>1. /\ m \in MessageOver(born') /\ m.type = "update" /\ Carries(m) /\ m.ops = {op}
            /\ up[c] \in Seq(MessageOver(born'))
        <5>1. op \in born'
          BY <1>19 DEF Type
        <5>2. up \in [Client -> Seq(MessageOver(born'))]
          BY <1>1, <1>2, Wider DEF Types
        <5>3. m \in AnswerOver(born') /\ m.type = "update" /\ Carries(m) /\ m.ops = {op}
          BY <5>1, UpdateMade
        <5>4. QED
          BY <5>2, <5>3, EndsMade
      <4> HIDE DEF m
      <4>2. FromReplica(up'[c], replica'[c])
        <5>1. FitsReplica(m, replica'[c])
          BY <2>1, <4>1 DEF FitsReplica
        <5>2. FromReplica(Append(up[c], m), replica'[c])
          BY <2>2, <4>1, <5>1, PushKeeps
        <5>3. QED
          BY <2>1, <3>1, <5>2
      <4>3. /\ Has(up'[c], "leave") <=> Has(up[c], "leave")
            /\ \A o : Carried(up'[c], o) <=> Carried(up[c], o) \/ o = op
            /\ \A o : Asked(up[c], o) => Asked(up'[c], o)
        <5>1. /\ Has(Append(up[c], m), "leave") <=> Has(up[c], "leave")
              /\ \A o : Carried(Append(up[c], m), o) <=> Carried(up[c], o) \/ o = op
              /\ \A o : Asked(up[c], o) => Asked(Append(up[c], m), o)
          BY <4>1, Push
        <5>2. QED
          BY <2>1, <3>1, <5>1
      <4>4. Offered(c) => Offered(c)'
        BY <2>1, <4>3 DEF Offered
      <4>5. Reaches(c)'
        BY <1>1, <2>1, <4>3 DEF Linked, Reaches, OnItsWay
      <4>6. QED
        BY <1>1, <2>1, <3>1, <4>2, <4>4, <4>5 DEF Linked, Leaving
    <3>2. CASE mode[c] # "open"
      BY <1>1, <2>1, <2>2, <3>2 DEF Linked, Offered, Leaving, Reaches, OnItsWay
    <3>3. QED
      BY <3>1, <3>2
  <2>4. ASSUME NEW d \in Client, d # c PROVE Linked(d)'
    BY <1>1, <1>15, <1>19, <2>4 DEF Type, Types
  <2>5. QED
    BY <2>3, <2>4
<1>20. ASSUME NEW c \in Client, ReceiveStep1(c) PROVE \A d \in Client : Linked(d)'
  <2> DEFINE v == Head(down[c]).vector
             m == Step2(replica[c], v)  n == Step1(replica[c])
             q == Append(up[c], m)
  <2>1. /\ down[c] # <<>> /\ Head(down[c]).type = "step1" /\ down'[c] = Tail(down[c])
        /\ up'[c] = up[c] \o <<m, n>> /\ mode'[c] = "open"
        /\ UNCHANGED <<room, replica, content, appending, withheld>>
    BY <1>1, <1>20 DEF ReceiveStep1, Receives, Types
  <2>2. /\ m \in MessageOver(born) /\ m.type = "step2" /\ m.ops = replica[c] \ v
        /\ n \in MessageOver(born) /\ n.type = "step1" /\ n.vector = replica[c] \ Deletion
    <3>1. replica[c] \in SUBSET born
      BY <1>1 DEF Types
    <3>2. \A vector : /\ Step2(replica[c], vector) \in MessageOver(born)
                      /\ Step2(replica[c], vector).type = "step2"
                      /\ Step2(replica[c], vector).ops = replica[c] \ vector
      BY <3>1 DEF MessageOver, AnswerOver, Step2, Missing
    <3>3. QED
      BY <3>1, <3>2, Step1Made, EndsMade
  <2>3. up'[c] = Append(q, n) /\ q \in Seq(MessageOver(born))
    BY <1>1, <2>1, <2>2
  <2>4. Linked(c)'
    <3> HIDE DEF m, n, v
    <3>1. FromReplica(q, replica[c])
      BY <1>1, <2>2, PushKeeps DEF Linked, FitsReplica, Carries
    <3>2. /\ Has(q, "leave") <=> Has(up[c], "leave")
          /\ \A op : Carried(q, op) <=> Carried(up[c], op) \/ op \in replica[c] \ v
      BY <1>1, <2>2, Push DEF Carries
    <3> HIDE DEF q
    <3>3. FromReplica(up'[c], replica[c])
      BY <2>2, <2>3, <3>1, PushKeeps DEF FitsReplica, Carries
    <3>4. /\ Has(up'[c], "leave") <=> Has(up[c], "leave")
          /\ \A op : Carried(q, op) => Carried(up'[c], op)
          /\ \A op : op \notin replica[c] => Asked(up'[c], op)
      BY <2>2, <2>3, <3>2, Push
    <3>5. Reaches(c)'
      BY <2>1, <3>4 DEF Reaches, OnItsWay
    <3>6. c \in room => Offered(c)'
      <4>1. SUFFICES ASSUME c \in room, ~Has(Tail(down[c]), "step1"),
                            NEW op \in replica[c] \ (content \cup Bus)
                     PROVE  Carried(up'[c], op)
        BY <2>1 DEF Offered
      <4>2. v \subseteq content
        BY <1>1, <2>1, <4>1, PopKeeps DEF Linked, FitsDocument, v
      <4>3. QED
        BY <3>2, <3>4, <4>1, <4>2
    <3>7. FromDocument(down[c], content) => FromDocument(down'[c], content)
      BY <1>1, <2>1, PopKeeps
    <3>8. QED
      BY <1>1, <2>1, <3>3, <3>5, <3>6, <3>7 DEF Linked, Leaving
  <2>5. ASSUME NEW d \in Client, d # c PROVE Linked(d)'
    BY <1>1, <1>15, <1>20, <2>5 DEF ReceiveStep1, Receives, Types
  <2>6. QED
    BY <2>4, <2>5
<1>21. ASSUME NEW c \in Client, ReceiveOps(c) PROVE \A d \in Client : Linked(d)'
  <2> DEFINE m == Head(down[c])
  <2>1. /\ down[c] # <<>> /\ m.type # "step1" /\ down'[c] = Tail(down[c])
        /\ replica'[c] = replica[c] \cup m.ops /\ mode[c] # "away"
        /\ UNCHANGED <<room, mode, up, content, appending, withheld>>
    BY <1>1, <1>21 DEF ReceiveOps, Receives, Types
  <2>2. Carries(m)
    BY <1>1, <2>1, Pop, MessageIs, EndsMade DEF AnswerOver, Carries
  <2>3. Linked(c)'
    <3>1. /\ Has(down[c], "step1") <=> Has(Tail(down[c]), "step1")
          /\ \A op : Carried(down[c], op) => Carried(Tail(down[c]), op) \/ op \in m.ops
      BY <1>1, <2>1, Pop
    <3>2. /\ FromDocument(down[c], content) => FromDocument(Tail(down[c]), content)
          /\ FromDocument(down[c], content) /\ ~Has(Tail(down[c]), "step1") =>
               m.ops \subseteq content \cup Bus
      BY <1>1, <2>1, <2>2, PopKeeps DEF FitsDocument
    <3>3. FromReplica(up[c], replica'[c])
      BY <1>1, <2>1, Grows DEF Linked
    <3> HIDE DEF m
    <3>4. Reaches(c)'
      BY <1>1, <2>1, <3>1 DEF Linked, Reaches, OnItsWay
    <3>5. c \in room => Offered(c)'
      BY <1>1, <2>1, <3>1, <3>2 DEF Linked, Offered
    <3>6. QED
      BY <1>1, <2>1, <3>2, <3>3, <3>4, <3>5 DEF Linked, Leaving
  <2>4. ASSUME NEW d \in Client, d # c PROVE Linked(d)'
    BY <1>1, <1>15, <1>21, <2>4 DEF ReceiveOps, Receives, Types
  <2>5. QED
    BY <2>3, <2>4
<1>22. ASSUME NEW c \in Client, ReceiveClosed(c) PROVE \A d \in Client : Linked(d)'
  <2>1. Linked(c)'
    <3>1. /\ down[c] # <<>> /\ down'[c] = Tail(down[c]) /\ mode[c] = "away"
          /\ UNCHANGED <<room, mode, up, replica, content, appending, withheld>>
      BY <1>1, <1>22 DEF ReceiveClosed, Receives, Types
    <3>2. FromDocument(down[c], content) => FromDocument(Tail(down[c]), content)
      BY <1>1, <3>1, PopKeeps
    <3>3. QED
      BY <1>1, <3>1, <3>2 DEF Linked, Offered, Leaving, Reaches
  <2>2. ASSUME NEW d \in Client, d # c PROVE Linked(d)'
    BY <1>1, <1>15, <1>22, <2>2 DEF ReceiveClosed, Receives, Types
  <2>3. QED
    BY <2>1, <2>2
<1>23. QED
  BY <1>3, <1>4, <1>5, <1>6, <1>7, <1>8, <1>9, <1>10, <1>11, <1>12, <1>13, <1>14, <1>16, <1>17,
     <1>18, <1>19, <1>20, <1>21, <1>22 DEF RepNext

(* The initial states satisfy it. *)
LEMMA RepInitial == RepInit => RepInv
<1>1. SUFFICES ASSUME RepInit PROVE RepInv
  OBVIOUS
<1>2. Types /\ Body
  BY <1>1 DEF RepInit, Types, Body
<1>3. ASSUME NEW c \in Client PROVE Linked(c)
  BY <1>1, <1>3, Empty DEF RepInit, Linked, Leaving, Reaches
<1>4. QED
  BY <1>2, <1>3 DEF RepInv

(* The invariant holds in every state of every behaviour. *)
LEMMA RepHolds == RepSpec => []RepInv
<1>1. RepInv /\ [RepNext]_vars => RepInv'
  BY TypesInductive, BodyInductive, LinksInductive DEF RepInv
<1>2. QED
  BY RepInitial, <1>1, PTL DEF RepSpec

------------------------------------------------------------------------------
(* The messages and documents of the gateway and the browsers keep their types,
   a socket in the room has its document and nothing exists that was not made. *)
THEOREM TypeCorrect == RepSpec => []RepTypeOK
<1>1. ASSUME RepInv PROVE RepTypeOK
  <2>1. /\ [Client -> Seq(MessageOver(Op))] \subseteq [Client -> Seq(Message)]
        /\ [Client -> Seq(AnswerOver(Op))] \subseteq [Client -> Seq(Message)]
    <3>1. MessageOver(Op) \subseteq Message /\ AnswerOver(Op) \subseteq Message
      BY DEF MessageOver, AnswerOver, Message
    <3>2. QED
      BY <3>1
  <2>2. up \in [Client -> Seq(Message)] /\ down \in [Client -> Seq(Message)]
    <3>1. born \subseteq Op /\ up \in [Client -> Seq(MessageOver(born))]
          /\ down \in [Client -> Seq(AnswerOver(born))]
      BY <1>1 DEF RepInv, Types
    <3>2. QED
      BY <2>1, <3>1, Wider
  <2>3. QED
    BY <1>1, <2>2 DEF RepInv, Types, RepTypeOK
<1>2. QED
  BY <1>1, RepHolds, PTL

(* handleYjsSync and the handshake: whatever was lost before, a browser that has
   nothing under way shows nothing the document does not have, but for what the
   event bus relayed past it. *)
THEOREM ShownIsKept == RepSpec => []DocumentHasWhatIsShown
<1>1. ASSUME RepInv PROVE DocumentHasWhatIsShown
  <2>1. SUFFICES ASSUME NEW c \in Client, Synced(c) PROVE replica[c] \subseteq content \cup Bus
    BY DEF DocumentHasWhatIsShown
  <2>2. Linked(c) /\ down[c] = <<>> /\ up[c] = <<>> /\ c \in room /\ mode[c] = "open"
    BY <1>1, <2>1 DEF RepInv, Synced
  <2>3. QED
    BY <2>2, Empty DEF Linked, Offered
<1>2. QED
  BY <1>1, RepHolds, PTL

(* The relays: it also shows everything the document has, but for what was merged
   beside it without one and the append whose save is under way. *)
THEOREM RoomConverges == RepSpec => []RoomShowsDocument
<1>1. ASSUME RepInv PROVE RoomShowsDocument
  <2>1. SUFFICES ASSUME NEW c \in Client, Synced(c), NEW op \in content \ replica[c]
                 PROVE  op \in withheld[c] \cup {appending}
    BY DEF RoomShowsDocument
  <2>2. Linked(c) /\ down[c] = <<>> /\ up[c] = <<>> /\ c \in room
    BY <1>1, <2>1 DEF RepInv, Synced
  <2>3. QED
    BY <2>1, <2>2, Empty DEF Linked, Reaches, OnItsWay
<1>2. QED
  BY <1>1, RepHolds, PTL

(* The room as its users see it: of two browsers with nothing under way, one shows
   what the other does not only if the event bus relayed it past the document, if it
   was merged beside the other without a relay, or while its append is being saved. *)
THEOREM BrowsersAgree ==
  RepSpec => [](\A c, d \in Client : Synced(c) /\ Synced(d) =>
                  replica[c] \ replica[d] \subseteq Bus \cup withheld[d] \cup {appending})
<1>1. DocumentHasWhatIsShown /\ RoomShowsDocument =>
        \A c, d \in Client : Synced(c) /\ Synced(d) =>
          replica[c] \ replica[d] \subseteq Bus \cup withheld[d] \cup {appending}
  BY DEF DocumentHasWhatIsShown, RoomShowsDocument
<1>2. QED
  BY <1>1, ShownIsKept, RoomConverges, PTL

(* loadFromDb: until a process ends or a document goes before its first save, the
   text of markdownBody is built into one tree. *)
THEOREM BodyBuiltOnce == RepSpec => []BodyIsBuiltOnce
<1>1. ASSUME NEW S, \A a, b \in S : a = b PROVE Cardinality(S) <= 1
  <2>1. CASE S = {}
    BY <2>1, FS_EmptySet
  <2>2. CASE S # {}
    <3>1. PICK a : S = {a}
      BY <1>1, <2>2
    <3>2. QED
      BY <3>1, FS_Singleton
  <2>3. QED
    BY <2>1, <2>2
<1>2. ASSUME RepInv PROVE BodyIsBuiltOnce
  <2>1. SUFFICES ASSUME faults = 0
                 PROVE  /\ content # Null => Cardinality(content \cap Boot) <= 1
                        /\ Cardinality(saved \cap Boot) <= 1
    BY DEF BodyIsBuiltOnce
  <2>2. /\ \A a, b \in born \cap Boot : a = b
        /\ saved \subseteq born /\ (content # Null => content \subseteq born)
    BY <1>2, <2>1 DEF RepInv, Types, Body
  <2>3. content # Null => Cardinality(content \cap Boot) <= 1
    BY <1>1, <2>2
  <2>4. Cardinality(saved \cap Boot) <= 1
    BY <1>1, <2>2
  <2>5. QED
    BY <2>3, <2>4
<1>3. QED
  BY <1>2, RepHolds, PTL

(* The document of this module is the one YjsDocManager promises: it is opened from
   what is saved, only grows while it is open, and nothing saved is lost. *)
THEOREM Refinement == RepSpec => Doc!Spec
<1> USE DEF serverVars, bounds, clientVars
<1>1. RepInit => Doc!Init
  BY DEF RepInit, Doc!Init
<1>2. ASSUME RepInv, RepInv', [RepNext]_vars PROVE [Doc!Next]_Doc!vars
  <2>1. Types /\ Types'
    BY <1>2 DEF RepInv
  <2>2. /\ born' \subseteq Op /\ born \subseteq Op /\ saved \subseteq Op /\ saved' \subseteq Op
        /\ content' # Null => content' \in SUBSET Op
    BY <2>1 DEF Types
  <2>3. CASE UNCHANGED <<content, saved>>
    BY <2>3 DEF Doc!vars
  <2>4. CASE UNCHANGED content /\ saved \subseteq saved'
    BY <2>2, <2>4 DEF Doc!Next, Doc!Save
  <2>5. CASE content' = Null /\ saved' = saved
    BY <2>2, <2>5 DEF Doc!Next, Doc!Close
  <2>6. CASE /\ content # Null /\ content' # Null /\ content \subseteq content'
             /\ saved' = saved
    BY <2>2, <2>6 DEF Doc!Next, Doc!Edit
  <2>7. CASE content = Null /\ content' # Null /\ saved \subseteq content' /\ saved' = saved
    BY <2>2, <2>7 DEF Doc!Next, Doc!Open
  <2>8. ASSUME NEW added \in SUBSET Op, Open(added), saved' = saved PROVE [Doc!Next]_Doc!vars
    BY <2>1, <2>6, <2>7, <2>8, Opened
  <2>9. CASE Flush \/ AppendSaved
    BY <2>4, <2>9 DEF Flush, AppendSaved
  <2>10. CASE Evict \/ EvictUnsaved \/ Crash
    BY <2>5, <2>10 DEF Evict, EvictUnsaved, Crash
  <2>11. ASSUME NEW op \in Appended, AppendMerges(op) PROVE [Doc!Next]_Doc!vars
    <3>1. {op} \in SUBSET Op
      BY DEF Op
    <3>2. QED
      BY <2>8, <2>11, <3>1 DEF AppendMerges
  <2>12. ASSUME NEW c \in Client, HandleJoin(c) PROVE [Doc!Next]_Doc!vars
    BY <2>8, <2>12 DEF HandleJoin
  <2>13. ASSUME NEW c \in Client, HandleStep2(c) \/ HandleUpdate(c) PROVE [Doc!Next]_Doc!vars
    <3>1. content # Null /\ content \subseteq content' /\ saved' = saved
      BY <2>13 DEF HandleStep2, HandleUpdate, Merge
    <3>2. content' # Null
      <4>1. up[c] \in Seq(MessageOver(born)) /\ up[c] # <<>> /\ Carries(Head(up[c]))
            /\ content' = content \cup Head(up[c]).ops
        BY <2>1, <2>13, Queues DEF HandleStep2, HandleUpdate, Merge, Handles, Carries
      <4>2. Head(up[c]).ops \in SUBSET born
        BY <4>1, Pop, MessageIs
      <4>3. content' \in SUBSET Op
        BY <2>1, <2>2, <3>1, <4>1, <4>2 DEF Types
      <4>4. QED
        BY <4>3, RepOpAssumption
    <3>3. QED
      BY <2>6, <3>1, <3>2
  <2>14. CASE UNCHANGED vars
    BY <2>3, <2>14 DEF vars
  <2>15. ASSUME NEW c \in Client,
                \/ HandleLeave(c) \/ HandleStep1(c) \/ OpenNode(c) \/ CloseNode(c) \/ Disconnect(c)
                \/ ReceiveStep1(c) \/ ReceiveOps(c) \/ ReceiveClosed(c)
                \/ \E op \in Typed : Type(c, op)
         PROVE  [Doc!Next]_Doc!vars
    BY <2>3, <2>15 DEF HandleLeave, HandleStep1, OpenNode, CloseNode, Disconnect, ReceiveStep1,
                       ReceiveOps, ReceiveClosed, Type
  <2>16. CASE AppendRejected \/ \E op \in Bus : RelayBusUpdate(op)
    BY <2>3, <2>16 DEF AppendRejected, RelayBusUpdate
  <2>17. QED
    BY <1>2, <2>9, <2>10, <2>11, <2>12, <2>13, <2>14, <2>15, <2>16 DEF RepNext
<1>3. QED
  BY <1>1, <1>2, RepHolds, PTL DEF RepSpec, Doc!Spec
=============================================================================
