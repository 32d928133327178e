------------------------- MODULE YjsDocManager_proofs -------------------------
(***************************************************************************)
(* The document manager, for any sockets, operations and appends, any      *)
(* length of the queue and any number of crashes.  Four invariants, each   *)
(* inductive given those before it: TypeInv says what the head of the      *)
(* queue, its writes and the load have to do with each other; DInv, that   *)
(* what was promised is covered by every copy a later load may start from; *)
(* EditInv, that an edit of an open document is stored, being stored or    *)
(* has a timer or a task ahead of it; CallInv, where the call of each      *)
(* append is.  KeptInv and ServedInv carry the second and the third to the *)
(* first rejection when Redis may reject.  SharedSpec is the manager among *)
(* others who may be rejected: the modules about the gateway and the       *)
(* appends take its theorems by showing that they imply it.                *)
(***************************************************************************)
EXTENDS YjsDocManager, SequenceTheorems, TLAPS

(* What the head of the queue, its writes and the load have to do with each other. *)
FlightOK ==
  /\ phase # "none" => queue # <<>>
  /\ phase = "load" => Head(queue) \in AppendOp
  /\ phase \in {"none", "load"} => dbAck = "none" /\ redisAck = "none"
  /\ phase = "skip" => dbAck = "none" /\ redisAck # "none"
  /\ phase = "save" => dbAck # "none" /\ redisAck # "none"
  /\ loading # "no" => ~loaded

TypeInv == TypeOK /\ FlightOK

LEMMA InitType == Init => TypeInv
<1> SUFFICES ASSUME Init PROVE TypeInv
  OBVIOUS
<1> USE OpAssumption DEF Init
<1>1. StoreTypes
  BY DEF StoreTypes
<1>2. LoadTypes /\ DocTypes
  BY DEF LoadTypes, DocTypes
<1>3. FlightTypes /\ GhostTypes
  BY DEF FlightTypes, GhostTypes
<1>4. FlightOK /\ queue \in Seq(AppendOp \cup {Null})
  BY DEF FlightOK
<1> QED BY <1>1, <1>2, <1>3, <1>4 DEF TypeInv, TypeOK

LEMMA NextType == TypeInv /\ [Next]_vars => TypeInv'
<1> SUFFICES ASSUME TypeInv, [Next]_vars PROVE TypeInv'
  OBVIOUS
<1> USE OpAssumption, NullAssumption
    DEF storeVars, loadVars, docVars, flightVars, ghostVars, faultVars, rest
<1>0. /\ StoreTypes /\ LoadTypes /\ DocTypes /\ FlightTypes /\ GhostTypes
      /\ FlightOK /\ queue \in Seq(AppendOp \cup {Null})
  BY DEF TypeInv, TypeOK
<1>q. /\ \A task \in AppendOp \cup {Null} :
           /\ Append(queue, task) \in Seq(AppendOp \cup {Null})
           /\ Append(queue, task) # <<>>
           /\ queue # <<>> => Head(Append(queue, task)) = Head(queue)
      /\ queue # <<>> => /\ Head(queue) \in AppendOp \cup {Null}
                         /\ Tail(queue) \in Seq(AppendOp \cup {Null})
  BY <1>0, AppendProperties, HeadTailAppend, HeadTailProperties
<1> USE DEF TypeInv, TypeOK, StoreTypes, LoadTypes, DocTypes, FlightTypes, GhostTypes, FlightOK,
            Vector
<1>1. ASSUME NEW c \in Client, JoinLoaded(c) PROVE TypeInv'
  BY <1>1, <1>q DEF JoinLoaded
<1>2. ASSUME NEW c \in Client, JoinLoading(c) PROVE TypeInv'
  BY <1>2, <1>q DEF JoinLoading
<1>3. ASSUME NEW c \in Client, JoinStartsLoad(c) PROVE TypeInv'
  BY <1>3, <1>q DEF JoinStartsLoad, StartLoad
<1>4. ASSUME NEW c \in Client, Leave(c) PROVE TypeInv'
  <2> USE <1>4 DEF Leave, FlushAndArmIdle, EnqueueFlush
  <2>1. StoreTypes' /\ LoadTypes' /\ GhostTypes'
    BY <1>0
  <2>2. DocTypes'
    BY <1>0, <1>q
  <2>3. FlightTypes' /\ FlightOK' /\ queue' \in Seq(AppendOp \cup {Null})
    BY <1>0, <1>q
  <2> QED BY <2>1, <2>2, <2>3
<1>5. ASSUME NEW op \in Op, Update(op) PROVE TypeInv'
  BY <1>5, <1>q DEF Update, Merge
<1>6. ASSUME NEW op \in Op, ViewerUpdate(op) PROVE TypeInv'
  BY <1>6, <1>q DEF ViewerUpdate, Merge
<1>7. ASSUME NEW op \in Op, SyncStep2(op) PROVE TypeInv'
  BY <1>7, <1>q DEF SyncStep2, Merge
<1>8. ASSUME NEW op \in AppendOp, AppendRequested(op) PROVE TypeInv'
  <2> USE <1>8 DEF AppendRequested
  <2>1. StoreTypes' /\ LoadTypes' /\ GhostTypes'
    BY <1>0
  <2>2. DocTypes'
    BY <1>0, <1>q
  <2>3. FlightTypes' /\ FlightOK' /\ queue' \in Seq(AppendOp \cup {Null})
    BY <1>0, <1>q
  <2> QED BY <2>1, <2>2, <2>3
<1>9. CASE LoadFromDb
  BY <1>9, <1>q DEF LoadFromDb, RowState
<1>10. CASE InstallDoc
  <2> USE <1>10 DEF InstallDoc, NewDoc, EndLoad
  <2>1. StoreTypes' /\ LoadTypes' /\ GhostTypes'
    BY <1>0
  <2>2. DocTypes'
    BY <1>0, <1>q
  <2>3. FlightTypes' /\ FlightOK' /\ queue' \in Seq(AppendOp \cup {Null})
    BY <1>0, <1>q
  <2> QED BY <2>1, <2>2, <2>3
<1>11. CASE InstallDocForAppend
  <2> USE <1>11 DEF InstallDocForAppend, WithAppend, NewDoc, EndLoad, BeginSave, IssueSet, Fail
  <2>0. Head(queue) \in Op /\ loadState \cup {Head(queue)} \in SUBSET Op
    BY <1>0
  <2>1. StoreTypes' /\ LoadTypes' /\ GhostTypes'
    BY <2>0, <1>0
  <2>2. DocTypes'
    BY <2>0, <1>0, <1>q
  <2>3. FlightTypes' /\ FlightOK' /\ queue' \in Seq(AppendOp \cup {Null})
    BY <2>0, <1>0, <1>q
  <2> QED BY <2>1, <2>2, <2>3
<1>12. CASE DebounceFires
  <2> USE <1>12 DEF DebounceFires, EnqueueFlush
  <2>1. StoreTypes' /\ LoadTypes' /\ GhostTypes'
    BY <1>0
  <2>2. DocTypes'
    BY <1>0, <1>q
  <2>3. FlightTypes' /\ FlightOK' /\ queue' \in Seq(AppendOp \cup {Null})
    BY <1>0, <1>q
  <2> QED BY <2>1, <2>2, <2>3
<1>13. CASE IdleRipens
  BY <1>13, <1>q DEF IdleRipens
<1>14. CASE IdleFires
  <2> USE <1>14 DEF IdleFires, EvictDoc, DropDoc, ForgetDoc
  <2>1. StoreTypes' /\ LoadTypes' /\ GhostTypes'
    BY <1>0
  <2>2. DocTypes'
    BY <1>0, <1>q
  <2>3. FlightTypes' /\ FlightOK' /\ queue' \in Seq(AppendOp \cup {Null})
    BY <1>0, <1>q
  <2> QED BY <2>1, <2>2, <2>3
<1>15. CASE SpareFires
  <2> USE <1>15 DEF SpareFires, EvictDoc, DropDoc, ForgetDoc
  <2>1. StoreTypes' /\ LoadTypes' /\ GhostTypes'
    BY <1>0
  <2>2. DocTypes'
    <3>1. spare' \in Nat
      BY <1>0
    <3>2. CASE loaded /\ clients = {}
      BY <1>0, <3>1, <3>2
    <3>3. CASE ~(loaded /\ clients = {})
      BY <1>0, <3>1, <3>3
    <3> QED BY <3>2, <3>3
  <2>3. FlightTypes' /\ FlightOK' /\ queue' \in Seq(AppendOp \cup {Null})
    BY <1>0, <1>q
  <2> QED BY <2>1, <2>2, <2>3
<1>16. CASE SafetyFlush
  <2> USE <1>16 DEF SafetyFlush, EnqueueFlush
  <2>1. StoreTypes' /\ LoadTypes' /\ GhostTypes'
    BY <1>0
  <2>2. DocTypes'
    BY <1>0, <1>q
  <2>3. FlightTypes' /\ FlightOK' /\ queue' \in Seq(AppendOp \cup {Null})
    BY <1>0, <1>q
  <2> QED BY <2>1, <2>2, <2>3
<1>17. CASE FlushNotLoaded
  BY <1>17, <1>q DEF FlushNotLoaded, FlushStarts, EndTask
<1>18. CASE FlushSkips
  <2> USE <1>18 DEF FlushSkips, FlushStarts, IssueSet, Fail
  <2>1. StoreTypes' /\ LoadTypes' /\ GhostTypes'
    BY <1>0
  <2>2. DocTypes'
    BY <1>0, <1>q
  <2>3. FlightTypes' /\ FlightOK' /\ queue' \in Seq(AppendOp \cup {Null})
    BY <1>0, <1>q
  <2> QED BY <2>1, <2>2, <2>3
<1>19. CASE FlushSaves
  <2> USE <1>19 DEF FlushSaves, FlushStarts, BeginSave, IssueSet, Fail
  <2>1. StoreTypes' /\ LoadTypes' /\ GhostTypes'
    BY <1>0
  <2>2. DocTypes'
    BY <1>0, <1>q
  <2>3. FlightTypes' /\ FlightOK' /\ queue' \in Seq(AppendOp \cup {Null})
    BY <1>0, <1>q
  <2> QED BY <2>1, <2>2, <2>3
<1>20. CASE AppendApplies
  <2> USE <1>20 DEF AppendApplies, WithAppend, AppendStarts, BeginSave, IssueSet, Fail
  <2>0. Head(queue) \in Op /\ doc \cup {Head(queue)} \in SUBSET Op
    BY <1>0, <1>q
  <2>1. StoreTypes' /\ LoadTypes' /\ GhostTypes'
    BY <2>0, <1>0
  <2>2. DocTypes'
    BY <2>0, <1>0, <1>q
  <2>3. FlightTypes' /\ FlightOK' /\ queue' \in Seq(AppendOp \cup {Null})
    BY <2>0, <1>0, <1>q
  <2> QED BY <2>1, <2>2, <2>3
<1>21. CASE AppendLoads
  BY <1>21, <1>q DEF AppendLoads, AppendStarts, StartLoad
<1>22. CASE DbCommits
  BY <1>22, <1>q DEF DbCommits
<1>23. CASE NodeGone
  <2> USE <1>23 DEF NodeGone, EndTask, Answer, CleanUpGone, ForgetDoc, DeleteCached
  <2>1. StoreTypes' /\ LoadTypes' /\ GhostTypes'
    BY <1>0
  <2>2. DocTypes'
    BY <1>0, <1>q
  <2>3. FlightTypes' /\ FlightOK' /\ queue' \in Seq(AppendOp \cup {Null})
    BY <1>0, <1>q
  <2> QED BY <2>1, <2>2, <2>3
<1>24. CASE RedisRejects
  BY <1>24, <1>q DEF RedisRejects, EndTask, Answer
<1>25. CASE FlushDone
  <2> USE <1>25 DEF FlushDone, EnqueueEmbed, Fail, BothAnswered, RecordSave, EndTask, Answer
  <2>1. StoreTypes' /\ LoadTypes' /\ GhostTypes'
    BY <1>0
  <2>2. DocTypes'
    BY <1>0, <1>q
  <2>3. FlightTypes' /\ FlightOK' /\ queue' \in Seq(AppendOp \cup {Null})
    BY <1>0, <1>q
  <2> QED BY <2>1, <2>2, <2>3
<1>26. CASE SkipDone
  BY <1>26, <1>q DEF SkipDone, EndTask
<1>27. CASE LoadFails
  <2> USE <1>27 DEF LoadFails, EndLoad, RejectAppend, EndTask, Answer, Fail
  <2>1. StoreTypes' /\ LoadTypes' /\ GhostTypes'
    BY <1>0
  <2>2. DocTypes'
    BY <1>0, <1>q
  <2>3. FlightTypes' /\ FlightOK' /\ queue' \in Seq(AppendOp \cup {Null})
    BY <1>0, <1>q
  <2> QED BY <2>1, <2>2, <2>3
<1>28. CASE DbRejects
  BY <1>28, <1>q DEF DbRejects, EndTask, Answer, Fail
<1>29. CASE StrayCommits
  BY <1>29, <1>q DEF StrayCommits
<1>30. CASE StrayAborts
  BY <1>30, <1>q DEF StrayAborts
<1>31. CASE RedisExpires
  BY <1>31, <1>q DEF RedisExpires
<1>32. CASE DeleteNode
  BY <1>32, <1>q DEF DeleteNode
<1>33. CASE NodeDeleteEvent
  <2> USE <1>33 DEF NodeDeleteEvent, DropDoc, ForgetDoc, DeleteCached
  <2>1. StoreTypes' /\ LoadTypes' /\ GhostTypes'
    BY <1>0
  <2>2. DocTypes'
    BY <1>0, <1>q
  <2>3. FlightTypes' /\ FlightOK' /\ queue' \in Seq(AppendOp \cup {Null})
    BY <1>0, <1>q
  <2> QED BY <2>1, <2>2, <2>3
<1>34. CASE Crash
  <2> USE <1>34 DEF Crash, ForgetDoc, EndLoad
  <2>1. StoreTypes' /\ LoadTypes' /\ GhostTypes'
    BY <1>0
  <2>2. DocTypes'
    BY <1>0, <1>q
  <2>3. FlightTypes' /\ FlightOK' /\ queue' \in Seq(AppendOp \cup {Null})
    BY <1>0, <1>q
  <2> QED BY <2>1, <2>2, <2>3
<1>35. CASE UNCHANGED vars
  BY <1>35 DEF vars
<1> QED
  BY <1>1, <1>2, <1>3, <1>4, <1>5, <1>6, <1>7, <1>8, <1>9, <1>10, <1>11, <1>12, <1>13, <1>14,
     <1>15, <1>16, <1>17, <1>18, <1>19, <1>20, <1>21, <1>22, <1>23, <1>24, <1>25, <1>26, <1>27,
        <1>28, <1>29, <1>30, <1>31, <1>32, <1>33, <1>34, <1>35
  DEF Next, ManagerStep, SocketStep, LoadStep, TimerStep, TaskStart, TaskStep, Outside
------------------------------------------------------------------------------
(* Durability.  It needs Redis not to reject: a rejected SET leaves its
   transaction running, and that one may commit over a later save; and a GET that
   is rejected, which counts as a miss, has the row read while a transaction of an
   evicted document is on its way to it. *)
RedisServes ==
  \/ RedisMayFail = FALSE
  \/ failures' = 0 /\ (row = "live" /\ dbAck = "pending" => loaded)

Reliable == stray = {} /\ redisAck # "fail"

(* Every copy of the document a later save can come from covers the row. *)
CopiesCover ==
  row = "live" =>
    /\ redis # Null => db \subseteq redis
    /\ loaded => db \subseteq doc
    /\ loading # "no" /\ loadState # Null => db \subseteq loadState
    /\ dbAck = "pending" => db \subseteq snap
    /\ dbAck = "committed" => snap \subseteq db

(* And covers what an open transaction is about to put in the row, even if the
   document was evicted and is loaded again meanwhile. *)
CopiesCoverPending ==
  row = "live" /\ dbAck = "pending" =>
    /\ redis = snap
    /\ loaded => snap \subseteq doc
    /\ loading # "no" => loadState # Null /\ snap \subseteq loadState

AppendIsCaptured == phase = "save" /\ Head(queue) # Null => Head(queue) \in snap

Promised == RecordedVectorIsDurable /\ AnsweredAppendIsDurable /\ EmbedJobsAreDurable

DInv == Reliable /\ CopiesCover /\ CopiesCoverPending /\ AppendIsCaptured /\ Promised

LEMMA InitDurable == Init => DInv
  BY NullAssumption
     DEF Init, DInv, Reliable, CopiesCover, CopiesCoverPending, AppendIsCaptured, Promised,
         RecordedVectorIsDurable, AnsweredAppendIsDurable, EmbedJobsAreDurable

LEMMA NextDurable ==
  ASSUME RedisServes, TypeInv, DInv, [Next]_vars
  PROVE  DInv'
<1> USE OpAssumption, NullAssumption
    DEF storeVars, loadVars, docVars, flightVars, ghostVars, faultVars, rest
<1>0. /\ Reliable /\ CopiesCover /\ CopiesCoverPending /\ AppendIsCaptured
      /\ RecordedVectorIsDurable /\ AnsweredAppendIsDurable /\ EmbedJobsAreDurable
  BY DEF DInv, Promised
<1>t. /\ doc \in SUBSET Op /\ snap \in SUBSET Op /\ db \in SUBSET Op
      /\ loadState \in {Null} \cup SUBSET Op
      /\ phase \in {"none", "load", "save", "skip"}
      /\ phase \in {"none", "load"} => dbAck = "none" /\ redisAck = "none"
      /\ phase = "skip" => dbAck = "none"
      /\ phase # "none" => queue # <<>>
      /\ loading # "no" => ~loaded
      /\ phase = "load" => Head(queue) \in AppendOp
      /\ failures \in Nat
      /\ RedisMayFail = FALSE \/ (failures' = 0 /\ (row = "live" /\ dbAck = "pending" => loaded))
  BY DEF TypeInv, TypeOK, StoreTypes, DocTypes, LoadTypes, FlightTypes, FlightOK, GhostTypes,
         RedisServes
<1>q. \A task \in AppendOp \cup {Null} : queue # <<>> => Head(Append(queue, task)) = Head(queue)
  BY HeadTailAppend DEF TypeInv, TypeOK
<1> USE DEF DInv, Reliable, CopiesCover, CopiesCoverPending, AppendIsCaptured, Promised,
            RecordedVectorIsDurable, AnsweredAppendIsDurable, EmbedJobsAreDurable
<1>1. ASSUME NEW c \in Client, JoinLoaded(c) PROVE DInv'
  BY <1>1, <1>0, <1>t, <1>q DEF JoinLoaded
<1>2. ASSUME NEW c \in Client, JoinLoading(c) PROVE DInv'
  BY <1>2, <1>0, <1>t, <1>q DEF JoinLoading
<1>3. ASSUME NEW c \in Client, JoinStartsLoad(c) PROVE DInv'
  BY <1>3, <1>0, <1>t, <1>q DEF JoinStartsLoad, StartLoad
<1>4. ASSUME NEW c \in Client, Leave(c) PROVE DInv'
  BY <1>4, <1>0, <1>t, <1>q DEF Leave, FlushAndArmIdle, EnqueueFlush
<1>5. ASSUME NEW op \in Op, Update(op) PROVE DInv'
  BY <1>5, <1>0, <1>t, <1>q DEF Update, Merge
<1>6. ASSUME NEW op \in Op, ViewerUpdate(op) PROVE DInv'
  BY <1>6, <1>0, <1>t, <1>q DEF ViewerUpdate, Merge
<1>7. ASSUME NEW op \in Op, SyncStep2(op) PROVE DInv'
  BY <1>7, <1>0, <1>t, <1>q DEF SyncStep2, Merge
<1>8. ASSUME NEW op \in AppendOp, AppendRequested(op) PROVE DInv'
  BY <1>8, <1>0, <1>t, <1>q DEF AppendRequested
<1>9. CASE LoadFromDb
  BY <1>9, <1>0, <1>t, <1>q DEF LoadFromDb, RowState
<1>10. CASE InstallDoc
  BY <1>10, <1>0, <1>t, <1>q DEF InstallDoc, NewDoc, EndLoad
<1>11. CASE InstallDocForAppend
  BY <1>11, <1>0, <1>t, <1>q DEF InstallDocForAppend, WithAppend, NewDoc, EndLoad, BeginSave,
                                 IssueSet, Fail
<1>12. CASE DebounceFires
  BY <1>12, <1>0, <1>t, <1>q DEF DebounceFires, EnqueueFlush
<1>13. CASE IdleRipens
  BY <1>13, <1>0, <1>t, <1>q DEF IdleRipens
<1>14. CASE IdleFires
  BY <1>14, <1>0, <1>t, <1>q DEF IdleFires, EvictDoc, DropDoc, ForgetDoc
<1>15. CASE SpareFires
  BY <1>15, <1>0, <1>t, <1>q DEF SpareFires, EvictDoc, DropDoc, ForgetDoc
<1>16. CASE SafetyFlush
  BY <1>16, <1>0, <1>t, <1>q DEF SafetyFlush, EnqueueFlush
<1>17. CASE FlushNotLoaded
  BY <1>17, <1>0, <1>t, <1>q DEF FlushNotLoaded, FlushStarts, EndTask
<1>18. CASE FlushSkips
  BY <1>18, <1>0, <1>t, <1>q DEF FlushSkips, FlushStarts, IssueSet, Fail
<1>19. CASE FlushSaves
  BY <1>19, <1>0, <1>t, <1>q DEF FlushSaves, FlushStarts, BeginSave, IssueSet, Fail
<1>20. CASE AppendApplies
  BY <1>20, <1>0, <1>t, <1>q DEF AppendApplies, WithAppend, AppendStarts, BeginSave, IssueSet, Fail
<1>21. CASE AppendLoads
  BY <1>21, <1>0, <1>t, <1>q DEF AppendLoads, AppendStarts, StartLoad
<1>22. CASE DbCommits
  BY <1>22, <1>0, <1>t, <1>q DEF DbCommits
<1>23. CASE NodeGone
  BY <1>23, <1>0, <1>t, <1>q DEF NodeGone, EndTask, Answer, CleanUpGone, ForgetDoc, DeleteCached
<1>24. CASE RedisRejects
  BY <1>24, <1>0, <1>t, <1>q DEF RedisRejects, EndTask, Answer
<1>25. CASE FlushDone
  <2>1. /\ dbAck = "committed" /\ phase = "save" /\ dbAck' = "none" /\ redisAck' = "none"
        /\ UNCHANGED <<redis, db, row, loading, loadState, loaded, doc, stray>>
        /\ phase' = "none"
    BY <1>25, <1>t DEF FlushDone, EnqueueEmbed, Fail, BothAnswered, EndTask
  <2>2. Reliable' /\ CopiesCover' /\ CopiesCoverPending' /\ AppendIsCaptured'
    BY <2>1, <1>0 DEF Reliable, CopiesCover, CopiesCoverPending, AppendIsCaptured
  <2>3. row = "live" => snap \subseteq db
    BY <2>1, <1>0 DEF CopiesCover
  <2>4. RecordedVectorIsDurable'
    BY <1>25, <1>0, <2>1, <2>3 DEF FlushDone, EnqueueEmbed, Fail, RecordSave, Vector,
                                   RecordedVectorIsDurable
  <2>5. EmbedJobsAreDurable'
    BY <1>25, <1>0, <2>1, <2>3 DEF FlushDone, EnqueueEmbed, Fail, EmbedJobsAreDurable
  <2>6. AnsweredAppendIsDurable'
    <3>1. \A op \in AppendOp : op = Head(queue) => op \in snap
      BY <2>1, <1>0 DEF AppendIsCaptured
    <3>2. call' = [op \in AppendOp |-> IF op = Head(queue) THEN "done" ELSE call[op]]
      BY <1>25 DEF FlushDone, Answer
    <3> QED BY <3>1, <3>2, <2>1, <2>3, <1>0 DEF AnsweredAppendIsDurable
  <2> QED BY <2>2, <2>4, <2>5, <2>6 DEF DInv, Promised
<1>26. CASE SkipDone
  BY <1>26, <1>0, <1>t, <1>q DEF SkipDone, EndTask
<1>27. CASE LoadFails
  BY <1>27, <1>0, <1>t, <1>q DEF LoadFails, EndLoad, RejectAppend, EndTask, Answer, Fail
<1>28. CASE DbRejects
  BY <1>28, <1>0, <1>t, <1>q DEF DbRejects, EndTask, Answer, Fail
<1>29. CASE StrayCommits
  BY <1>29, <1>0, <1>t, <1>q DEF StrayCommits
<1>30. CASE StrayAborts
  BY <1>30, <1>0, <1>t, <1>q DEF StrayAborts
<1>31. CASE RedisExpires
  BY <1>31, <1>0, <1>t, <1>q DEF RedisExpires
<1>32. CASE DeleteNode
  BY <1>32, <1>0, <1>t, <1>q DEF DeleteNode
<1>33. CASE NodeDeleteEvent
  BY <1>33, <1>0, <1>t, <1>q DEF NodeDeleteEvent, DropDoc, ForgetDoc, DeleteCached
<1>34. CASE Crash
  BY <1>34, <1>0, <1>t, <1>q DEF Crash, ForgetDoc, EndLoad
<1>35. CASE UNCHANGED vars
  BY <1>35, <1>0, <1>t DEF vars
<1> QED
  BY <1>1, <1>2, <1>3, <1>4, <1>5, <1>6, <1>7, <1>8, <1>9, <1>10, <1>11, <1>12, <1>13, <1>14,
     <1>15, <1>16, <1>17, <1>18, <1>19, <1>20, <1>21, <1>22, <1>23, <1>24, <1>25, <1>26, <1>27,
        <1>28, <1>29, <1>30, <1>31, <1>32, <1>33, <1>34, <1>35
  DEF Next, ManagerStep, SocketStep, LoadStep, TimerStep, TaskStart, TaskStep, Outside

------------------------------------------------------------------------------
(* What a step can do to the row and to the open document, while the node lives. *)
Effect ==
  /\ row # "live" => row' # "live"
  /\ row = "live" /\ row' # "live" => UNCHANGED <<loaded, doc, db>>
  /\ row = "live" => db \subseteq db'
  /\ row = "live" /\ loaded' => loaded \/ db' \subseteq doc'
  /\ row = "live" /\ loaded' => db' = db \/ UNCHANGED <<loaded, doc>>
  /\ row = "live" /\ loaded /\ loaded' => doc \subseteq doc'

LEMMA NextEffect ==
  ASSUME TypeInv, DInv, [Next]_vars
  PROVE  Effect
<1> USE DEF storeVars, loadVars, docVars, flightVars, ghostVars, faultVars, rest
<1>0. /\ stray = {}
      /\ row = "live" /\ loading # "no" /\ loadState # Null => db \subseteq loadState
      /\ row = "live" /\ dbAck = "pending" => db \subseteq snap
  BY DEF DInv, Reliable, CopiesCover
<1>t. loaded \in BOOLEAN /\ (loading # "no" => ~loaded)
  BY DEF TypeInv, TypeOK, DocTypes, FlightOK
<1>1. ASSUME NEW c \in Client, JoinLoaded(c) PROVE Effect
  BY <1>1, <1>0, <1>t DEF JoinLoaded, Effect
<1>2. ASSUME NEW c \in Client, JoinLoading(c) PROVE Effect
  BY <1>2, <1>0, <1>t DEF JoinLoading, Effect
<1>3. ASSUME NEW c \in Client, JoinStartsLoad(c) PROVE Effect
  BY <1>3, <1>0, <1>t DEF JoinStartsLoad, StartLoad, Effect
<1>4. ASSUME NEW c \in Client, Leave(c) PROVE Effect
  BY <1>4, <1>0, <1>t DEF Leave, FlushAndArmIdle, EnqueueFlush, Effect
<1>5. ASSUME NEW op \in Op, Update(op) PROVE Effect
  BY <1>5, <1>0, <1>t DEF Update, Merge, Effect
<1>6. ASSUME NEW op \in Op, ViewerUpdate(op) PROVE Effect
  BY <1>6, <1>0, <1>t DEF ViewerUpdate, Merge, Effect
<1>7. ASSUME NEW op \in Op, SyncStep2(op) PROVE Effect
  BY <1>7, <1>0, <1>t DEF SyncStep2, Merge, Effect
<1>8. ASSUME NEW op \in AppendOp, AppendRequested(op) PROVE Effect
  BY <1>8, <1>0, <1>t DEF AppendRequested, Effect
<1>9. CASE LoadFromDb
  BY <1>9, <1>0, <1>t DEF LoadFromDb, RowState, Effect
<1>10. CASE InstallDoc
  BY <1>10, <1>0, <1>t DEF InstallDoc, NewDoc, EndLoad, Effect
<1>11. CASE InstallDocForAppend
  BY <1>11, <1>0, <1>t DEF InstallDocForAppend, WithAppend, NewDoc, EndLoad, BeginSave, IssueSet,
                           Fail, Effect
<1>12. CASE DebounceFires
  BY <1>12, <1>0, <1>t DEF DebounceFires, EnqueueFlush, Effect
<1>13. CASE IdleRipens
  BY <1>13, <1>0, <1>t DEF IdleRipens, Effect
<1>14. CASE IdleFires
  BY <1>14, <1>0, <1>t DEF IdleFires, EvictDoc, DropDoc, ForgetDoc, Effect
<1>15. CASE SpareFires
  BY <1>15, <1>0, <1>t DEF SpareFires, EvictDoc, DropDoc, ForgetDoc, Effect
<1>16. CASE SafetyFlush
  BY <1>16, <1>0, <1>t DEF SafetyFlush, EnqueueFlush, Effect
<1>17. CASE FlushNotLoaded
  BY <1>17, <1>0, <1>t DEF FlushNotLoaded, FlushStarts, EndTask, Effect
<1>18. CASE FlushSkips
  BY <1>18, <1>0, <1>t DEF FlushSkips, FlushStarts, IssueSet, Fail, Effect
<1>19. CASE FlushSaves
  BY <1>19, <1>0, <1>t DEF FlushSaves, FlushStarts, BeginSave, IssueSet, Fail, Effect
<1>20. CASE AppendApplies
  BY <1>20, <1>0, <1>t DEF AppendApplies, WithAppend, AppendStarts, BeginSave, IssueSet, Fail,
                           Effect
<1>21. CASE AppendLoads
  BY <1>21, <1>0, <1>t DEF AppendLoads, AppendStarts, StartLoad, Effect
<1>22. CASE DbCommits
  BY <1>22, <1>0, <1>t DEF DbCommits, Effect
<1>23. CASE NodeGone
  BY <1>23, <1>0, <1>t DEF NodeGone, EndTask, Answer, CleanUpGone, ForgetDoc, DeleteCached, Effect
<1>24. CASE RedisRejects
  BY <1>24, <1>0, <1>t DEF RedisRejects, EndTask, Answer, Effect
<1>25. CASE FlushDone
  BY <1>25, <1>0, <1>t DEF FlushDone, EnqueueEmbed, Fail, BothAnswered, RecordSave, EndTask,
                           Answer, Effect
<1>26. CASE SkipDone
  BY <1>26, <1>0, <1>t DEF SkipDone, EndTask, Effect
<1>27. CASE LoadFails
  BY <1>27, <1>0, <1>t DEF LoadFails, EndLoad, RejectAppend, EndTask, Answer, Fail, Effect
<1>28. CASE DbRejects
  BY <1>28, <1>0, <1>t DEF DbRejects, EndTask, Answer, Fail, Effect
<1>29. CASE StrayCommits
  BY <1>29, <1>0, <1>t DEF StrayCommits, Effect
<1>30. CASE StrayAborts
  BY <1>30, <1>0, <1>t DEF StrayAborts, Effect
<1>31. CASE RedisExpires
  BY <1>31, <1>0, <1>t DEF RedisExpires, Effect
<1>32. CASE DeleteNode
  BY <1>32, <1>0, <1>t DEF DeleteNode, Effect
<1>33. CASE NodeDeleteEvent
  BY <1>33, <1>0, <1>t DEF NodeDeleteEvent, DropDoc, ForgetDoc, DeleteCached, Effect
<1>34. CASE Crash
  BY <1>34, <1>0, <1>t DEF Crash, ForgetDoc, EndLoad, Effect
<1>35. CASE UNCHANGED vars
  BY <1>35 DEF vars, Effect
<1> QED
  BY <1>1, <1>2, <1>3, <1>4, <1>5, <1>6, <1>7, <1>8, <1>9, <1>10, <1>11, <1>12, <1>13, <1>14,
     <1>15, <1>16, <1>17, <1>18, <1>19, <1>20, <1>21, <1>22, <1>23, <1>24, <1>25, <1>26, <1>27,
        <1>28, <1>29, <1>30, <1>31, <1>32, <1>33, <1>34, <1>35
  DEF Next, ManagerStep, SocketStep, LoadStep, TimerStep, TaskStart, TaskStep, Outside

(* Sockets keep their document: no fault, no stray message and no timer takes it. *)
DocStays ==
  loaded /\ clients # {} /\ row = "live" /\ crashes' = crashes => loaded' /\ doc \subseteq doc'

LEMMA NextKeepsDoc == ASSUME TypeInv, [Next]_vars PROVE DocStays
<1> USE DEF storeVars, loadVars, docVars, flightVars, ghostVars, faultVars, rest
<1>0. (loading # "no" => ~loaded) /\ crashes \in Nat
  BY DEF TypeInv, TypeOK, GhostTypes, FlightOK
<1>1. ASSUME NEW c \in Client, JoinLoaded(c) PROVE DocStays
  BY <1>1, <1>0 DEF JoinLoaded, DocStays
<1>2. ASSUME NEW c \in Client, JoinLoading(c) PROVE DocStays
  BY <1>2, <1>0 DEF JoinLoading, DocStays
<1>3. ASSUME NEW c \in Client, JoinStartsLoad(c) PROVE DocStays
  BY <1>3, <1>0 DEF JoinStartsLoad, StartLoad, DocStays
<1>4. ASSUME NEW c \in Client, Leave(c) PROVE DocStays
  BY <1>4, <1>0 DEF Leave, FlushAndArmIdle, EnqueueFlush, DocStays
<1>5. ASSUME NEW op \in Op, Update(op) PROVE DocStays
  BY <1>5, <1>0 DEF Update, Merge, DocStays
<1>6. ASSUME NEW op \in Op, ViewerUpdate(op) PROVE DocStays
  BY <1>6, <1>0 DEF ViewerUpdate, Merge, DocStays
<1>7. ASSUME NEW op \in Op, SyncStep2(op) PROVE DocStays
  BY <1>7, <1>0 DEF SyncStep2, Merge, DocStays
<1>8. ASSUME NEW op \in AppendOp, AppendRequested(op) PROVE DocStays
  BY <1>8, <1>0 DEF AppendRequested, DocStays
<1>9. CASE LoadFromDb
  BY <1>9, <1>0 DEF LoadFromDb, RowState, DocStays
<1>10. CASE InstallDoc
  BY <1>10, <1>0 DEF InstallDoc, NewDoc, EndLoad, DocStays
<1>11. CASE InstallDocForAppend
  BY <1>11, <1>0 DEF InstallDocForAppend, WithAppend, NewDoc, EndLoad, BeginSave, IssueSet, Fail,
                     DocStays
<1>12. CASE DebounceFires
  BY <1>12, <1>0 DEF DebounceFires, EnqueueFlush, DocStays
<1>13. CASE IdleRipens
  BY <1>13, <1>0 DEF IdleRipens, DocStays
<1>14. CASE IdleFires
  BY <1>14, <1>0 DEF IdleFires, EvictDoc, DropDoc, ForgetDoc, DocStays
<1>15. CASE SpareFires
  BY <1>15, <1>0 DEF SpareFires, EvictDoc, DropDoc, ForgetDoc, DocStays
<1>16. CASE SafetyFlush
  BY <1>16, <1>0 DEF SafetyFlush, EnqueueFlush, DocStays
<1>17. CASE FlushNotLoaded
  BY <1>17, <1>0 DEF FlushNotLoaded, FlushStarts, EndTask, DocStays
<1>18. CASE FlushSkips
  BY <1>18, <1>0 DEF FlushSkips, FlushStarts, IssueSet, Fail, DocStays
<1>19. CASE FlushSaves
  BY <1>19, <1>0 DEF FlushSaves, FlushStarts, BeginSave, IssueSet, Fail, DocStays
<1>20. CASE AppendApplies
  BY <1>20, <1>0 DEF AppendApplies, WithAppend, AppendStarts, BeginSave, IssueSet, Fail, DocStays
<1>21. CASE AppendLoads
  BY <1>21, <1>0 DEF AppendLoads, AppendStarts, StartLoad, DocStays
<1>22. CASE DbCommits
  BY <1>22, <1>0 DEF DbCommits, DocStays
<1>23. CASE NodeGone
  BY <1>23, <1>0 DEF NodeGone, EndTask, Answer, CleanUpGone, ForgetDoc, DeleteCached, DocStays
<1>24. CASE RedisRejects
  BY <1>24, <1>0 DEF RedisRejects, EndTask, Answer, DocStays
<1>25. CASE FlushDone
  BY <1>25, <1>0 DEF FlushDone, EnqueueEmbed, Fail, BothAnswered, RecordSave, EndTask, Answer,
                     DocStays
<1>26. CASE SkipDone
  BY <1>26, <1>0 DEF SkipDone, EndTask, DocStays
<1>27. CASE LoadFails
  BY <1>27, <1>0 DEF LoadFails, EndLoad, RejectAppend, EndTask, Answer, Fail, DocStays
<1>28. CASE DbRejects
  BY <1>28, <1>0 DEF DbRejects, EndTask, Answer, Fail, DocStays
<1>29. CASE StrayCommits
  BY <1>29, <1>0 DEF StrayCommits, DocStays
<1>30. CASE StrayAborts
  BY <1>30, <1>0 DEF StrayAborts, DocStays
<1>31. CASE RedisExpires
  BY <1>31, <1>0 DEF RedisExpires, DocStays
<1>32. CASE DeleteNode
  BY <1>32, <1>0 DEF DeleteNode, DocStays
<1>33. CASE NodeDeleteEvent
  BY <1>33, <1>0 DEF NodeDeleteEvent, DropDoc, ForgetDoc, DeleteCached, DocStays
<1>34. CASE Crash
  BY <1>34, <1>0 DEF Crash, ForgetDoc, EndLoad, DocStays
<1>35. CASE UNCHANGED vars
  BY <1>35 DEF vars, DocStays
<1> QED
  BY <1>1, <1>2, <1>3, <1>4, <1>5, <1>6, <1>7, <1>8, <1>9, <1>10, <1>11, <1>12, <1>13, <1>14,
     <1>15, <1>16, <1>17, <1>18, <1>19, <1>20, <1>21, <1>22, <1>23, <1>24, <1>25, <1>26, <1>27,
        <1>28, <1>29, <1>30, <1>31, <1>32, <1>33, <1>34, <1>35
  DEF Next, ManagerStep, SocketStep, LoadStep, TimerStep, TaskStart, TaskStep, Outside

------------------------------------------------------------------------------
(* Edits on their way, as long as nothing fails. *)

(* A task waits behind the head of the queue, or the head has not captured yet. *)
Behind == Len(queue) > 1 \/ (queue # <<>> /\ phase \in {"none", "load"})

SkipFindsAllStored == phase = "skip" /\ row = "live" => Vector(snap) \subseteq db

EditsPending ==
  /\ loaded => tracked \subseteq doc
  /\ loaded /\ row = "live" /\ failures = 0 =>
       \A op \in tracked \ Deletion : op \in db \/ saveTimer \/ Behind \/ op \in snap

(* What evictDoc may drop: in the cached copy, and in the row but for deletions. *)
Stored == doc \subseteq Cached /\ Vector(doc) \subseteq db

(* The head of the queue has captured the document, and its SET is out. *)
BeingStored ==
  /\ phase \in {"save", "skip"} /\ doc \subseteq Cached /\ doc \subseteq snap

(* While the idle timer runs nobody is registered, and the flush queued with it
   is ahead, under way or over. *)
LeftIsFlushed ==
  ~StrayMessages =>
    /\ spare = 0
    /\ idleTimer # "off" => loaded /\ clients = {}
    /\ idleTimer = "armed" /\ row = "live" /\ failures = 0 => Stored \/ Behind \/ BeingStored
    /\ idleTimer = "due" /\ row = "live" /\ failures = 0 => Stored

EditInv == SkipFindsAllStored /\ EditsPending /\ LeftIsFlushed

LEMMA InitEdits == Init => EditInv
  BY DEF Init, EditInv, SkipFindsAllStored, EditsPending, LeftIsFlushed

LEMMA NextEdits ==
  ASSUME RedisServes, TypeInv, DInv, EditInv, [Next]_vars
  PROVE  EditInv'
<1> USE OpAssumption, NullAssumption
    DEF storeVars, loadVars, docVars, flightVars, ghostVars, faultVars, rest
<1>0. /\ SkipFindsAllStored /\ EditsPending /\ LeftIsFlushed
      /\ stray = {} /\ redisAck # "fail" /\ RecordedVectorIsDurable
      /\ row = "live" /\ dbAck = "pending" => db \subseteq snap
      /\ row = "live" /\ dbAck = "committed" => snap \subseteq db
  BY DEF EditInv, DInv, Reliable, CopiesCover, Promised
<1>t. /\ doc \in SUBSET Op /\ snap \in SUBSET Op /\ db \in SUBSET Op /\ tracked \in SUBSET Op
      /\ loadState \in {Null} \cup SUBSET Op /\ redis \in {Null} \cup SUBSET Op
      /\ phase \in {"none", "load", "save", "skip"} /\ idleTimer \in {"off", "armed", "due"}
      /\ phase \in {"none", "load"} => dbAck = "none" /\ redisAck = "none"
      /\ phase = "skip" => dbAck = "none"
      /\ phase # "none" => queue # <<>>
      /\ loading # "no" => ~loaded
      /\ ~loaded => idleTimer = "off"
      /\ phase = "load" => Head(queue) \in AppendOp
      /\ failures \in Nat /\ spare \in Nat
      /\ RedisMayFail = FALSE \/ failures' = 0
  BY DEF TypeInv, TypeOK, StoreTypes, DocTypes, LoadTypes, FlightTypes, GhostTypes, FlightOK,
         RedisServes
<1>q. /\ Len(queue) \in Nat /\ (queue = <<>> <=> Len(queue) = 0)
      /\ \A task \in AppendOp \cup {Null} : /\ Len(Append(queue, task)) = Len(queue) + 1
                                            /\ Append(queue, task) # <<>>
      /\ queue # <<>> => /\ Len(Tail(queue)) = Len(queue) - 1
                         /\ Tail(queue) = <<>> <=> Len(queue) = 1
                         /\ Head(queue) \in AppendOp \cup {Null}
  <2>1. queue \in Seq(AppendOp \cup {Null})
    BY DEF TypeInv, TypeOK
  <2>2. Len(queue) \in Nat /\ (queue = <<>> <=> Len(queue) = 0)
    BY <2>1, EmptySeq, LenProperties
  <2>3. \A task \in AppendOp \cup {Null} :
          Len(Append(queue, task)) = Len(queue) + 1 /\ Append(queue, task) # <<>>
    BY <2>1, AppendProperties
  <2>4. ASSUME queue # <<>>
        PROVE  /\ Len(Tail(queue)) = Len(queue) - 1 /\ Head(queue) \in AppendOp \cup {Null}
               /\ Tail(queue) = <<>> <=> Len(queue) = 1
    <3>1. /\ Tail(queue) \in Seq(AppendOp \cup {Null}) /\ Len(Tail(queue)) = Len(queue) - 1
          /\ Head(queue) \in AppendOp \cup {Null}
      BY <2>1, <2>4, HeadTailProperties
    <3>2. Tail(queue) = <<>> <=> Len(Tail(queue)) = 0
      BY <3>1, EmptySeq
    <3> QED BY <3>1, <3>2, <2>2
  <2> QED BY <2>2, <2>3, <2>4
<1> USE DEF EditInv, SkipFindsAllStored, EditsPending, LeftIsFlushed, Behind, Stored, BeingStored,
            Cached, Vector, RecordedVectorIsDurable
<1>1. ASSUME NEW c \in Client, JoinLoaded(c) PROVE EditInv'
  BY <1>1, <1>0, <1>t, <1>q DEF JoinLoaded
<1>2. ASSUME NEW c \in Client, JoinLoading(c) PROVE EditInv'
  BY <1>2, <1>0, <1>t, <1>q DEF JoinLoading
<1>3. ASSUME NEW c \in Client, JoinStartsLoad(c) PROVE EditInv'
  BY <1>3, <1>0, <1>t, <1>q DEF JoinStartsLoad, StartLoad
<1>4. ASSUME NEW c \in Client, Leave(c) PROVE EditInv'
  BY <1>4, <1>0, <1>t, <1>q DEF Leave, FlushAndArmIdle, EnqueueFlush
<1>5. ASSUME NEW op \in Op, Update(op) PROVE EditInv'
  BY <1>5, <1>0, <1>t, <1>q DEF Update, Merge
<1>6. ASSUME NEW op \in Op, ViewerUpdate(op) PROVE EditInv'
  BY <1>6, <1>0, <1>t, <1>q DEF ViewerUpdate, Merge
<1>7. ASSUME NEW op \in Op, SyncStep2(op) PROVE EditInv'
  BY <1>7, <1>0, <1>t, <1>q DEF SyncStep2, Merge
<1>8. ASSUME NEW op \in AppendOp, AppendRequested(op) PROVE EditInv'
  BY <1>8, <1>0, <1>t, <1>q DEF AppendRequested
<1>9. CASE LoadFromDb
  BY <1>9, <1>0, <1>t, <1>q DEF LoadFromDb, RowState
<1>10. CASE InstallDoc
  BY <1>10, <1>0, <1>t, <1>q DEF InstallDoc, NewDoc, EndLoad
<1>11. CASE InstallDocForAppend
  BY <1>11, <1>0, <1>t, <1>q DEF InstallDocForAppend, WithAppend, NewDoc, EndLoad, BeginSave,
         IssueSet, Fail
<1>12. CASE DebounceFires
  BY <1>12, <1>0, <1>t, <1>q DEF DebounceFires, EnqueueFlush
<1>13. CASE IdleRipens
  BY <1>13, <1>0, <1>t, <1>q DEF IdleRipens
<1>14. CASE IdleFires
  BY <1>14, <1>0, <1>t, <1>q DEF IdleFires, EvictDoc, DropDoc, ForgetDoc
<1>15. CASE SpareFires
  BY <1>15, <1>0, <1>t, <1>q DEF SpareFires, EvictDoc, DropDoc, ForgetDoc
<1>16. CASE SafetyFlush
  BY <1>16, <1>0, <1>t, <1>q DEF SafetyFlush, EnqueueFlush
<1>17. CASE FlushNotLoaded
  BY <1>17, <1>0, <1>t, <1>q DEF FlushNotLoaded, FlushStarts, EndTask
<1>18. CASE FlushSkips
  BY <1>18, <1>0, <1>t, <1>q DEF FlushSkips, FlushStarts, NothingToSave, IssueSet, Fail
<1>19. CASE FlushSaves
  BY <1>19, <1>0, <1>t, <1>q DEF FlushSaves, FlushStarts, BeginSave, IssueSet, Fail
<1>20. CASE AppendApplies
  BY <1>20, <1>0, <1>t, <1>q DEF AppendApplies, WithAppend, AppendStarts, BeginSave, IssueSet, Fail
<1>21. CASE AppendLoads
  BY <1>21, <1>0, <1>t, <1>q DEF AppendLoads, AppendStarts, StartLoad
<1>22. CASE DbCommits
  BY <1>22, <1>0, <1>t, <1>q DEF DbCommits
<1>23. CASE NodeGone
  BY <1>23, <1>0, <1>t, <1>q DEF NodeGone, EndTask, Answer, CleanUpGone, ForgetDoc, DeleteCached
<1>24. CASE RedisRejects
  BY <1>24, <1>0, <1>t, <1>q DEF RedisRejects, EndTask, Answer
<1>25. CASE FlushDone
  <2>1. /\ dbAck = "committed" /\ phase = "save" /\ phase' = "none" /\ queue' = Tail(queue)
        /\ UNCHANGED <<redis, db, row, loaded, doc, clients, idleTimer, tracked, spare, saveTimer>>
        /\ failures' = failures
    BY <1>25, <1>0, <1>t DEF FlushDone, EnqueueEmbed, Fail, BothAnswered, RecordSave, EndTask
  <2>2. row = "live" => snap \subseteq db
    BY <2>1, <1>0
  <2>b. Behind => Behind'
    <3>1. Behind => Len(queue) > 1
      BY <2>1
    <3>2. Len(queue) > 1 => queue # <<>> /\ Tail(queue) # <<>>
      <4> HIDE DEF Behind, EditInv, RedisServes
      <4> QED BY <1>q
    <3>3. Tail(queue) # <<>> => Behind'
      BY <2>1
    <3> HIDE DEF Behind
    <3> QED BY <3>1, <3>2, <3>3
  <2>3. SkipFindsAllStored'
    BY <2>1
  <2>4. EditsPending'
    BY <2>1, <2>2, <2>b, <1>0, <1>t
  <2>5. LeftIsFlushed'
    BY <2>1, <2>2, <2>b, <1>0, <1>t
  <2> QED BY <2>3, <2>4, <2>5
<1>26. CASE SkipDone
  BY <1>26, <1>0, <1>t, <1>q DEF SkipDone, EndTask
<1>27. CASE LoadFails
  BY <1>27, <1>0, <1>t, <1>q DEF LoadFails, EndLoad, RejectAppend, EndTask, Answer, Fail
<1>28. CASE DbRejects
  BY <1>28, <1>0, <1>t, <1>q DEF DbRejects, EndTask, Answer, Fail
<1>29. CASE StrayCommits
  BY <1>29, <1>0, <1>t, <1>q DEF StrayCommits
<1>30. CASE StrayAborts
  BY <1>30, <1>0, <1>t, <1>q DEF StrayAborts
<1>31. CASE RedisExpires
  BY <1>31, <1>0, <1>t, <1>q DEF RedisExpires
<1>32. CASE DeleteNode
  BY <1>32, <1>0, <1>t, <1>q DEF DeleteNode
<1>33. CASE NodeDeleteEvent
  BY <1>33, <1>0, <1>t, <1>q DEF NodeDeleteEvent, DropDoc, ForgetDoc, DeleteCached
<1>34. CASE Crash
  BY <1>34, <1>0, <1>t, <1>q DEF Crash, ForgetDoc, EndLoad
<1>35. CASE UNCHANGED vars
  BY <1>35, <1>0, <1>t, <1>q DEF vars
<1> QED
  BY <1>1, <1>2, <1>3, <1>4, <1>5, <1>6, <1>7, <1>8, <1>9, <1>10, <1>11, <1>12, <1>13, <1>14,
     <1>15, <1>16, <1>17, <1>18, <1>19, <1>20, <1>21, <1>22, <1>23, <1>24, <1>25, <1>26, <1>27,
     <1>28, <1>29, <1>30, <1>31, <1>32, <1>33, <1>34, <1>35
  DEF Next, ManagerStep, SocketStep, LoadStep, TimerStep, TaskStart, TaskStep, Outside

(* Only the idle timer takes a document away from a live node, and it is stored. *)
LEMMA NextEvicts ==
  ASSUME StrayMessages = FALSE, TypeInv, EditInv, [Next]_vars,
         loaded, ~loaded', row = "live", crashes' = crashes, failures = 0
  PROVE  Stored
<1>0. LeftIsFlushed /\ (loading # "no" => ~loaded) /\ crashes \in Nat
  BY DEF EditInv, TypeInv, TypeOK, FlightOK, GhostTypes
<1> USE DEF storeVars, loadVars, docVars, flightVars, ghostVars, faultVars, rest, LeftIsFlushed
<1>1. ASSUME NEW c \in Client, JoinLoaded(c) PROVE Stored
  BY <1>1, <1>0 DEF JoinLoaded
<1>2. ASSUME NEW c \in Client, JoinLoading(c) PROVE Stored
  BY <1>2, <1>0 DEF JoinLoading
<1>3. ASSUME NEW c \in Client, JoinStartsLoad(c) PROVE Stored
  BY <1>3, <1>0 DEF JoinStartsLoad, StartLoad
<1>4. ASSUME NEW c \in Client, Leave(c) PROVE Stored
  BY <1>4, <1>0 DEF Leave, FlushAndArmIdle, EnqueueFlush
<1>5. ASSUME NEW op \in Op, Update(op) PROVE Stored
  BY <1>5, <1>0 DEF Update, Merge
<1>6. ASSUME NEW op \in Op, ViewerUpdate(op) PROVE Stored
  BY <1>6, <1>0 DEF ViewerUpdate, Merge
<1>7. ASSUME NEW op \in Op, SyncStep2(op) PROVE Stored
  BY <1>7, <1>0 DEF SyncStep2, Merge
<1>8. ASSUME NEW op \in AppendOp, AppendRequested(op) PROVE Stored
  BY <1>8, <1>0 DEF AppendRequested
<1>9. CASE LoadFromDb
  BY <1>9, <1>0 DEF LoadFromDb, RowState
<1>10. CASE InstallDoc
  BY <1>10, <1>0 DEF InstallDoc, NewDoc, EndLoad
<1>11. CASE InstallDocForAppend
  BY <1>11, <1>0 DEF InstallDocForAppend, WithAppend, NewDoc, EndLoad, BeginSave,
         IssueSet, Fail
<1>12. CASE DebounceFires
  BY <1>12, <1>0 DEF DebounceFires, EnqueueFlush
<1>13. CASE IdleRipens
  BY <1>13, <1>0 DEF IdleRipens
<1>14. CASE IdleFires
  BY <1>14, <1>0 DEF IdleFires, EvictDoc, DropDoc, ForgetDoc
<1>15. CASE SpareFires
  BY <1>15, <1>0 DEF SpareFires, EvictDoc, DropDoc, ForgetDoc
<1>16. CASE SafetyFlush
  BY <1>16, <1>0 DEF SafetyFlush, EnqueueFlush
<1>17. CASE FlushNotLoaded
  BY <1>17, <1>0 DEF FlushNotLoaded, FlushStarts, EndTask
<1>18. CASE FlushSkips
  BY <1>18, <1>0 DEF FlushSkips, FlushStarts, NothingToSave, IssueSet, Fail
<1>19. CASE FlushSaves
  BY <1>19, <1>0 DEF FlushSaves, FlushStarts, BeginSave, IssueSet, Fail
<1>20. CASE AppendApplies
  BY <1>20, <1>0 DEF AppendApplies, WithAppend, AppendStarts, BeginSave, IssueSet, Fail
<1>21. CASE AppendLoads
  BY <1>21, <1>0 DEF AppendLoads, AppendStarts, StartLoad
<1>22. CASE DbCommits
  BY <1>22, <1>0 DEF DbCommits
<1>23. CASE NodeGone
  BY <1>23, <1>0 DEF NodeGone, EndTask, Answer, CleanUpGone, ForgetDoc, DeleteCached
<1>24. CASE RedisRejects
  BY <1>24, <1>0 DEF RedisRejects, EndTask, Answer
<1>25. CASE FlushDone
  BY <1>25, <1>0 DEF FlushDone, EnqueueEmbed, Fail, BothAnswered, RecordSave, EndTask
<1>26. CASE SkipDone
  BY <1>26, <1>0 DEF SkipDone, EndTask
<1>27. CASE LoadFails
  BY <1>27, <1>0 DEF LoadFails, EndLoad, RejectAppend, EndTask, Answer, Fail
<1>28. CASE DbRejects
  BY <1>28, <1>0 DEF DbRejects, EndTask, Answer, Fail
<1>29. CASE StrayCommits
  BY <1>29, <1>0 DEF StrayCommits
<1>30. CASE StrayAborts
  BY <1>30, <1>0 DEF StrayAborts
<1>31. CASE RedisExpires
  BY <1>31, <1>0 DEF RedisExpires
<1>32. CASE DeleteNode
  BY <1>32, <1>0 DEF DeleteNode
<1>33. CASE NodeDeleteEvent
  BY <1>33, <1>0 DEF NodeDeleteEvent, DropDoc, ForgetDoc, DeleteCached
<1>34. CASE Crash
  BY <1>34, <1>0 DEF Crash, ForgetDoc, EndLoad
<1>35. CASE UNCHANGED vars
  BY <1>35, <1>0 DEF vars
<1> QED
  BY <1>1, <1>2, <1>3, <1>4, <1>5, <1>6, <1>7, <1>8, <1>9, <1>10, <1>11, <1>12, <1>13, <1>14,
     <1>15, <1>16, <1>17, <1>18, <1>19, <1>20, <1>21, <1>22, <1>23, <1>24, <1>25, <1>26, <1>27,
     <1>28, <1>29, <1>30, <1>31, <1>32, <1>33, <1>34, <1>35
  DEF Next, ManagerStep, SocketStep, LoadStep, TimerStep, TaskStart, TaskStep, Outside

------------------------------------------------------------------------------
(* Until the first rejected command: a save under way is one of the document in
   memory, and nothing is left to save when the idle timer runs out.  So no load
   reads the row while a transaction is on its way to it. *)
KeptInv ==
  ~StrayMessages =>
    /\ spare = 0
    /\ idleTimer # "off" => clients = {}
    /\ failures = 0 /\ row = "live" =>
         /\ redisAck # "fail"
         /\ phase = "save" => loaded /\ dropped = "no"
         /\ idleTimer = "armed" =>
              Behind \/ IF phase = "save" THEN Vector(snap) = Vector(doc) ELSE lastSaved = Vector(doc)
         /\ idleTimer = "due" => phase # "save" /\ lastSaved = Vector(doc)

LEMMA InitKept == Init => KeptInv
  BY DEF Init, KeptInv

LEMMA NextKept ==
  ASSUME TypeInv, KeptInv, [Next]_vars
  PROVE  KeptInv' /\ (failures' = 0 => failures = 0)
<1> USE DEF storeVars, loadVars, docVars, flightVars, ghostVars, faultVars, rest, KeptInv, Behind, Vector
<1>t. /\ KeptInv /\ failures \in Nat /\ spare \in Nat
      /\ doc \in SUBSET Op /\ snap \in SUBSET Op /\ lastSaved \in {Null} \cup SUBSET Op
      /\ phase \in {"none", "load", "save", "skip"} /\ idleTimer \in {"off", "armed", "due"}
      /\ phase \in {"none", "load"} => dbAck = "none" /\ redisAck = "none"
      /\ phase = "skip" => dbAck = "none"
      /\ phase # "none" => queue # <<>>
      /\ loading # "no" => ~loaded
      /\ ~loaded => idleTimer = "off"
      /\ Vector(doc) # Null
      /\ Len(queue) \in Nat /\ (queue = <<>> <=> Len(queue) = 0)
      /\ \A task \in AppendOp \cup {Null} : /\ Len(Append(queue, task)) = Len(queue) + 1
                                            /\ Append(queue, task) # <<>>
      /\ queue # <<>> => /\ Len(Tail(queue)) = Len(queue) - 1
                         /\ Tail(queue) = <<>> <=> Len(queue) = 1
  <2>1. queue \in Seq(AppendOp \cup {Null})
    BY DEF TypeInv, TypeOK
  <2>2. Len(queue) \in Nat /\ (queue = <<>> <=> Len(queue) = 0)
    BY <2>1, EmptySeq, LenProperties
  <2>3. \A task \in AppendOp \cup {Null} :
          Len(Append(queue, task)) = Len(queue) + 1 /\ Append(queue, task) # <<>>
    BY <2>1, AppendProperties
  <2>4. ASSUME queue # <<>>
        PROVE  Len(Tail(queue)) = Len(queue) - 1 /\ (Tail(queue) = <<>> <=> Len(queue) = 1)
    <3>1. Tail(queue) \in Seq(AppendOp \cup {Null}) /\ Len(Tail(queue)) = Len(queue) - 1
      BY <2>1, <2>4, HeadTailProperties
    <3>2. Tail(queue) = <<>> <=> Len(Tail(queue)) = 0
      BY <3>1, EmptySeq
    <3> QED BY <3>1, <3>2, <2>2
  <2>5. doc \in SUBSET Op /\ Vector(doc) \in SUBSET Op
    BY DEF TypeInv, TypeOK, DocTypes, Vector
  <2> QED BY <2>2, <2>3, <2>4, <2>5, NullAssumption
          DEF TypeInv, TypeOK, StoreTypes, DocTypes, LoadTypes, FlightTypes, GhostTypes, FlightOK
<1>1. ASSUME NEW c \in Client, JoinLoaded(c) PROVE KeptInv' /\ (failures' = 0 => failures = 0)
  BY <1>1, <1>t DEF JoinLoaded
<1>2. ASSUME NEW c \in Client, JoinLoading(c) PROVE KeptInv' /\ (failures' = 0 => failures = 0)
  BY <1>2, <1>t DEF JoinLoading
<1>3. ASSUME NEW c \in Client, JoinStartsLoad(c) PROVE KeptInv' /\ (failures' = 0 => failures = 0)
  BY <1>3, <1>t DEF JoinStartsLoad, StartLoad
<1>4. ASSUME NEW c \in Client, Leave(c) PROVE KeptInv' /\ (failures' = 0 => failures = 0)
  BY <1>4, <1>t DEF Leave, FlushAndArmIdle, EnqueueFlush
<1>5. ASSUME NEW op \in Op, Update(op) PROVE KeptInv' /\ (failures' = 0 => failures = 0)
  BY <1>5, <1>t DEF Update, Merge
<1>6. ASSUME NEW op \in Op, ViewerUpdate(op) PROVE KeptInv' /\ (failures' = 0 => failures = 0)
  BY <1>6, <1>t DEF ViewerUpdate, Merge
<1>7. ASSUME NEW op \in Op, SyncStep2(op) PROVE KeptInv' /\ (failures' = 0 => failures = 0)
  BY <1>7, <1>t DEF SyncStep2, Merge
<1>9. CASE LoadFromDb
  BY <1>9, <1>t DEF LoadFromDb, RowState
<1>10. CASE InstallDoc
  BY <1>10, <1>t DEF InstallDoc, NewDoc, EndLoad
<1>11. CASE InstallDocForAppend
  BY <1>11, <1>t DEF InstallDocForAppend, WithAppend, NewDoc, EndLoad, BeginSave, IssueSet, Fail
<1>12. CASE DebounceFires
  BY <1>12, <1>t DEF DebounceFires, EnqueueFlush
<1>13. CASE IdleRipens
  BY <1>13, <1>t DEF IdleRipens
<1>14. CASE IdleFires
  BY <1>14, <1>t DEF IdleFires, EvictDoc, DropDoc, ForgetDoc
<1>15. CASE SpareFires
  BY <1>15, <1>t DEF SpareFires, EvictDoc, DropDoc, ForgetDoc
<1>16. CASE SafetyFlush
  BY <1>16, <1>t DEF SafetyFlush, EnqueueFlush
<1>17. CASE FlushNotLoaded
  BY <1>17, <1>t DEF FlushNotLoaded, FlushStarts, EndTask
<1>18. CASE FlushSkips
  BY <1>18, <1>t DEF FlushSkips, FlushStarts, IssueSet, Fail, NothingToSave
<1>19. CASE FlushSaves
  BY <1>19, <1>t DEF FlushSaves, FlushStarts, BeginSave, IssueSet, Fail, NothingToSave
<1>20. CASE AppendApplies
  BY <1>20, <1>t DEF AppendApplies, WithAppend, AppendStarts, BeginSave, IssueSet, Fail
<1>21. CASE AppendLoads
  BY <1>21, <1>t DEF AppendLoads, AppendStarts, StartLoad
<1>22. CASE DbCommits
  BY <1>22, <1>t DEF DbCommits
<1>23. CASE NodeGone
  BY <1>23, <1>t DEF NodeGone, EndTask, Answer, CleanUpGone, ForgetDoc, DeleteCached
<1>24. CASE RedisRejects
  BY <1>24, <1>t DEF RedisRejects, EndTask, Answer
<1>25. CASE FlushDone
  BY <1>25, <1>t DEF FlushDone, EnqueueEmbed, Fail, BothAnswered, RecordSave, EndTask, Answer
<1>26. CASE SkipDone
  <2>1. /\ phase = "skip" /\ phase' = "none" /\ queue' = Tail(queue) /\ redisAck' = "none"
        /\ UNCHANGED <<row, doc, clients, idleTimer, lastSaved, spare, failures>>
    BY <1>26 DEF SkipDone, EndTask
  <2>2. Behind => Behind'
    <3>1. Behind => Len(queue) > 1
      BY <2>1
    <3>2. Len(queue) > 1 => Tail(queue) # <<>>
      <4> HIDE DEF Behind, KeptInv
      <4> QED BY <1>t
    <3>3. Tail(queue) # <<>> => Behind'
      BY <2>1
    <3> HIDE DEF Behind
    <3> QED BY <3>1, <3>2, <3>3
  <2> QED BY <2>1, <2>2, <1>t
<1>27. CASE LoadFails
  BY <1>27, <1>t DEF LoadFails, EndLoad, RejectAppend, EndTask, Answer, Fail
<1>28. CASE DbRejects
  BY <1>28, <1>t DEF DbRejects, EndTask, Answer, Fail
<1>29. CASE StrayCommits
  BY <1>29, <1>t DEF StrayCommits
<1>30. CASE StrayAborts
  BY <1>30, <1>t DEF StrayAborts
<1>31. CASE RedisExpires
  BY <1>31, <1>t DEF RedisExpires
<1>32. CASE DeleteNode
  BY <1>32, <1>t DEF DeleteNode
<1>33. CASE NodeDeleteEvent
  BY <1>33, <1>t DEF NodeDeleteEvent, DropDoc, ForgetDoc, DeleteCached
<1>34. ASSUME NEW op \in AppendOp, AppendRequested(op) PROVE KeptInv' /\ (failures' = 0 => failures = 0)
  BY <1>34, <1>t DEF AppendRequested
<1>35. CASE Crash
  BY <1>35, <1>t DEF Crash, ForgetDoc, EndLoad
<1>36. CASE UNCHANGED vars
  BY <1>36, <1>t DEF vars
<1> QED
  BY <1>1, <1>2, <1>3, <1>4, <1>5, <1>6, <1>7, <1>9, <1>10, <1>11, <1>12, <1>13, <1>14, <1>15,
     <1>16, <1>17, <1>18, <1>19, <1>20, <1>21, <1>22, <1>23, <1>24, <1>25, <1>26, <1>27, <1>28,
     <1>29, <1>30, <1>31, <1>32, <1>33, <1>34, <1>35, <1>36
  DEF Next, ManagerStep, SocketStep, LoadStep, TimerStep, TaskStart, TaskStep, Outside

------------------------------------------------------------------------------
(* Appends and their calls. *)

(* The text of a call that was not made is nowhere. *)
NewIsNowhere ==
  \A op \in AppendOp : call[op] = "new" =>
    /\ op \notin doc /\ op \notin db /\ op \notin snap
    /\ redis # Null => op \notin redis
    /\ loadState # Null => op \notin loadState
    /\ \A tx \in stray : op \notin tx.snap

(* An append in the queue is there once, and its call is open. *)
QueuedIsOpen ==
  \A i \in 1..Len(queue) : queue[i] # Null =>
    /\ call[queue[i]] = "open"
    /\ \A j \in 1..Len(queue) : queue[j] = queue[i] => j = i

CallInv ==
  /\ NewIsNowhere /\ QueuedIsOpen
  /\ phase = "skip" => Head(queue) = Null
  /\ redisAck = "fail" => failures > 0

LEMMA InitCalls == Init => CallInv
  BY OpAssumption, NullAssumption DEF Init, CallInv, NewIsNowhere, QueuedIsOpen

LEMMA QueueGrows ==
  ASSUME TypeOK, QueuedIsOpen, NEW task \in AppendOp \cup {Null}, queue' = Append(queue, task),
         \/ task = Null /\ call' = call
         \/ task # Null /\ call[task] = "new" /\ call' = [call EXCEPT ![task] = "open"]
  PROVE  QueuedIsOpen'
<1>1. queue \in Seq(AppendOp \cup {Null}) /\ Len(queue) \in Nat
  BY LenProperties DEF TypeOK
<1>2. /\ Len(queue') = Len(queue) + 1 /\ queue'[Len(queue) + 1] = task
      /\ \A i \in 1..Len(queue) : queue'[i] = queue[i] /\ queue[i] \in AppendOp \cup {Null}
  BY <1>1, AppendProperties, ElementOfSeq
<1>3. call \in [AppendOp -> {"new", "open", "done", "failed"}]
  BY DEF TypeOK, GhostTypes
<1>4. \A i \in 1..Len(queue) : queue[i] # Null => call'[queue[i]] = "open" /\ queue[i] # task
  BY <1>2, <1>3 DEF QueuedIsOpen
<1>5. task # Null => call'[task] = "open"
  BY <1>3
<1>6. \A i \in 1..Len(queue') : i \in 1..Len(queue) \/ i = Len(queue) + 1
  BY <1>1, <1>2
<1> QED BY <1>1, <1>2, <1>4, <1>5, <1>6 DEF QueuedIsOpen

LEMMA QueueShrinks ==
  ASSUME TypeOK, QueuedIsOpen, queue # <<>>, queue' = Tail(queue),
         \/ Head(queue) = Null /\ call' = call
         \/ \E outcome \in {"done", "failed"} : Answer(outcome)
  PROVE  /\ QueuedIsOpen'
         /\ \A op \in AppendOp :
              call'[op] # call[op] => call[op] = "open" /\ call'[op] \in {"done", "failed"}
<1>1. queue \in Seq(AppendOp \cup {Null}) /\ Len(queue) \in Nat
  BY LenProperties DEF TypeOK
<1>2. /\ Head(queue) = queue[1] /\ 1 \in 1..Len(queue) /\ Len(queue') = Len(queue) - 1
      /\ \A i \in 1..Len(queue') : queue'[i] = queue[i + 1] /\ i + 1 \in 1..Len(queue)
  <2>1. Len(queue) # 0
    BY <1>1, EmptySeq
  <2>2. /\ Len(queue') = Len(queue) - 1
        /\ \A i \in 1..Len(queue') : queue'[i] = queue[i + 1]
    BY <1>1, HeadTailProperties
  <2> QED BY <1>1, <2>1, <2>2
<1>3. call \in [AppendOp -> {"new", "open", "done", "failed"}]
      /\ \A i \in 1..Len(queue) : queue[i] \in AppendOp \cup {Null}
  BY <1>1, ElementOfSeq DEF TypeOK, GhostTypes
<1>4. \A op \in AppendOp :
        /\ op # Head(queue) => call'[op] = call[op]
        /\ call'[op] # call[op] => call'[op] \in {"done", "failed"}
  BY <1>3 DEF Answer
<1>5. \A i \in 1..Len(queue) : i # 1 /\ queue[i] # Null => queue[i] # Head(queue)
  BY <1>2 DEF QueuedIsOpen
<1>6. QueuedIsOpen'
  <2>1. SUFFICES ASSUME NEW i \in 1..Len(queue'), queue'[i] # Null
                 PROVE  /\ call'[queue'[i]] = "open"
                        /\ \A j \in 1..Len(queue') : queue'[j] = queue'[i] => j = i
    BY DEF QueuedIsOpen
  <2>2. /\ i + 1 \in 1..Len(queue) /\ i + 1 # 1 /\ queue'[i] = queue[i + 1]
        /\ queue[i + 1] \in AppendOp
    BY <1>1, <1>2, <1>3, <2>1
  <2>3. call'[queue'[i]] = "open"
    BY <1>4, <1>5, <2>1, <2>2 DEF QueuedIsOpen
  <2>4. ASSUME NEW j \in 1..Len(queue'), queue'[j] = queue'[i] PROVE j = i
    <3>1. j + 1 \in 1..Len(queue) /\ queue[j + 1] = queue[i + 1]
      BY <1>2, <2>2, <2>4
    <3>2. j + 1 = i + 1
      BY <2>1, <2>2, <3>1 DEF QueuedIsOpen
    <3> QED BY <3>2, <1>1, <1>2
  <2> QED BY <2>3, <2>4
<1>7. Head(queue) # Null => call[Head(queue)] = "open"
  BY <1>2 DEF QueuedIsOpen
<1> QED BY <1>3, <1>4, <1>6, <1>7, NullAssumption, OpAssumption

(* A step of the manager leaves queue and calls alone, queues a flush, or ends the
   task at the head, with an error only where something failed. *)
Move ==
  \/ UNCHANGED <<queue, call>>
  \/ queue' = Append(queue, Null) /\ call' = call
  \/ /\ queue # <<>> /\ queue' = Tail(queue)
     /\ \/ Head(queue) = Null /\ call' = call
        \/ Answer("done")
        \/ Answer("failed") /\ (failures' > 0 \/ row # "live")

(* No fault is forgotten, and a node that is gone does not come back. *)
FaultsStay ==
  (failures' = 0 => failures = 0) /\ (row' = "live" => row = "live") /\ crashes' = crashes

LEMMA ManagerMoves == ASSUME TypeInv, CallInv, ManagerStep PROVE Move /\ FaultsStay
<1> USE OpAssumption, NullAssumption
    DEF storeVars, loadVars, docVars, flightVars, ghostVars, faultVars, rest, Move, FaultsStay
<1>t. /\ phase = "skip" => Head(queue) = Null
      /\ redisAck = "fail" => failures > 0
      /\ failures \in Nat
      /\ phase \in {"none", "load", "save", "skip"}
      /\ phase \in {"none", "load"} => dbAck = "none" /\ redisAck = "none"
      /\ phase # "none" => queue # <<>>
  BY DEF CallInv, TypeInv, TypeOK, GhostTypes, FlightTypes, FlightOK
<1>1. ASSUME NEW c \in Client, JoinLoaded(c) PROVE Move /\ FaultsStay
  BY <1>1, <1>t DEF JoinLoaded
<1>2. ASSUME NEW c \in Client, JoinLoading(c) PROVE Move /\ FaultsStay
  BY <1>2, <1>t DEF JoinLoading
<1>3. ASSUME NEW c \in Client, JoinStartsLoad(c) PROVE Move /\ FaultsStay
  BY <1>3, <1>t DEF JoinStartsLoad, StartLoad
<1>4. ASSUME NEW c \in Client, Leave(c) PROVE Move /\ FaultsStay
  BY <1>4, <1>t DEF Leave, FlushAndArmIdle, EnqueueFlush
<1>5. ASSUME NEW op \in Op, Update(op) PROVE Move /\ FaultsStay
  BY <1>5, <1>t DEF Update, Merge
<1>6. ASSUME NEW op \in Op, ViewerUpdate(op) PROVE Move /\ FaultsStay
  BY <1>6, <1>t DEF ViewerUpdate, Merge
<1>7. ASSUME NEW op \in Op, SyncStep2(op) PROVE Move /\ FaultsStay
  BY <1>7, <1>t DEF SyncStep2, Merge
<1>9. CASE LoadFromDb
  BY <1>9, <1>t DEF LoadFromDb, RowState
<1>10. CASE InstallDoc
  BY <1>10, <1>t DEF InstallDoc, NewDoc, EndLoad
<1>11. CASE InstallDocForAppend
  BY <1>11, <1>t DEF InstallDocForAppend, WithAppend, NewDoc, EndLoad, BeginSave,
         IssueSet, Fail
<1>12. CASE DebounceFires
  BY <1>12, <1>t DEF DebounceFires, EnqueueFlush
<1>13. CASE IdleRipens
  BY <1>13, <1>t DEF IdleRipens
<1>14. CASE IdleFires
  BY <1>14, <1>t DEF IdleFires, EvictDoc, DropDoc, ForgetDoc
<1>15. CASE SpareFires
  BY <1>15, <1>t DEF SpareFires, EvictDoc, DropDoc, ForgetDoc
<1>16. CASE SafetyFlush
  BY <1>16, <1>t DEF SafetyFlush, EnqueueFlush
<1>17. CASE FlushNotLoaded
  BY <1>17, <1>t DEF FlushNotLoaded, FlushStarts, EndTask
<1>18. CASE FlushSkips
  BY <1>18, <1>t DEF FlushSkips, FlushStarts, IssueSet, Fail
<1>19. CASE FlushSaves
  BY <1>19, <1>t DEF FlushSaves, FlushStarts, BeginSave, IssueSet, Fail
<1>20. CASE AppendApplies
  BY <1>20, <1>t DEF AppendApplies, WithAppend, AppendStarts, BeginSave, IssueSet, Fail
<1>21. CASE AppendLoads
  BY <1>21, <1>t DEF AppendLoads, AppendStarts, StartLoad
<1>22. CASE DbCommits
  BY <1>22, <1>t DEF DbCommits
<1>23. CASE NodeGone
  BY <1>23, <1>t DEF NodeGone, EndTask, Answer, CleanUpGone, ForgetDoc, DeleteCached
<1>24. CASE RedisRejects
  BY <1>24, <1>t DEF RedisRejects, EndTask, Answer
<1>25. CASE FlushDone
  BY <1>25, <1>t DEF FlushDone, EnqueueEmbed, Fail, BothAnswered, RecordSave, EndTask, Answer
<1>26. CASE SkipDone
  BY <1>26, <1>t DEF SkipDone, EndTask
<1>27. CASE LoadFails
  BY <1>27, <1>t DEF LoadFails, EndLoad, RejectAppend, EndTask, Answer, Fail
<1>28. CASE DbRejects
  BY <1>28, <1>t DEF DbRejects, EndTask, Answer, Fail
<1>29. CASE StrayCommits
  BY <1>29, <1>t DEF StrayCommits
<1>30. CASE StrayAborts
  BY <1>30, <1>t DEF StrayAborts
<1>31. CASE RedisExpires
  BY <1>31, <1>t DEF RedisExpires
<1>32. CASE DeleteNode
  BY <1>32, <1>t DEF DeleteNode
<1>33. CASE NodeDeleteEvent
  BY <1>33, <1>t DEF NodeDeleteEvent, DropDoc, ForgetDoc, DeleteCached
<1> QED
  BY <1>1, <1>2, <1>3, <1>4, <1>5, <1>6, <1>7, <1>9, <1>10, <1>11, <1>12, <1>13, <1>14, <1>15,
     <1>16, <1>17, <1>18, <1>19, <1>20, <1>21, <1>22, <1>23, <1>24, <1>25, <1>26, <1>27, <1>28,
     <1>29, <1>30, <1>31, <1>32, <1>33
  DEF ManagerStep, SocketStep, LoadStep, TimerStep, TaskStart, TaskStep, Outside

(* What was called stays called. *)
LEMMA CalledStays ==
  ASSUME TypeInv, CallInv, [Next]_vars
  PROVE  /\ QueuedIsOpen'
         /\ \A op \in AppendOp : call'[op] = "new" => call[op] = "new"
<1>t. TypeOK /\ QueuedIsOpen /\ call \in [AppendOp -> {"new", "open", "done", "failed"}]
  BY DEF TypeInv, TypeOK, GhostTypes, CallInv
<1>1. CASE UNCHANGED <<queue, call>>
  BY <1>1, <1>t DEF QueuedIsOpen
<1>2. CASE ManagerStep
  <2>1. Move
    BY <1>2, ManagerMoves
  <2>2. CASE queue' = Append(queue, Null) /\ call' = call
    BY <2>2, <1>t, QueueGrows
  <2>3. CASE /\ queue # <<>> /\ queue' = Tail(queue)
             /\ (Head(queue) = Null /\ call' = call) \/ Answer("done") \/ Answer("failed")
    <3>1. \/ Head(queue) = Null /\ call' = call
          \/ \E outcome \in {"done", "failed"} : Answer(outcome)
      BY <2>3
    <3>2. /\ QueuedIsOpen'
          /\ \A op \in AppendOp : call'[op] # call[op] => call'[op] \in {"done", "failed"}
      BY <2>3, <3>1, <1>t, QueueShrinks DEF Answer
    <3> QED BY <3>2
  <2> QED BY <1>1, <2>1, <2>2, <2>3 DEF Move
<1>3. ASSUME NEW op \in AppendOp, AppendRequested(op)
      PROVE  QueuedIsOpen' /\ \A o \in AppendOp : call'[o] = "new" => call[o] = "new"
  <2>1. op # Null /\ queue' = Append(queue, op) /\ call[op] = "new"
        /\ call' = [call EXCEPT ![op] = "open"]
    BY <1>3, OpAssumption, NullAssumption DEF AppendRequested
  <2> QED BY <2>1, <1>t, QueueGrows
<1>4. CASE Crash
  BY <1>4, <1>t DEF Crash, QueuedIsOpen
<1> QED BY <1>1, <1>2, <1>3, <1>4 DEF Next, vars, rest, ghostVars

LEMMA NextCalls == ASSUME TypeInv, CallInv, [Next]_vars PROVE CallInv'
<1> USE OpAssumption, NullAssumption
    DEF storeVars, loadVars, docVars, flightVars, ghostVars, faultVars, rest
<1>0. /\ NewIsNowhere /\ QueuedIsOpen
      /\ phase = "skip" => Head(queue) = Null
      /\ redisAck = "fail" => failures > 0
  BY DEF CallInv
<1>t. /\ doc \in SUBSET Op /\ snap \in SUBSET Op /\ db \in SUBSET Op
      /\ loadState \in {Null} \cup SUBSET Op /\ redis \in {Null} \cup SUBSET Op
      /\ phase \in {"none", "load", "save", "skip"} /\ failures \in Nat /\ TypeOK
      /\ phase \in {"none", "load"} => dbAck = "none" /\ redisAck = "none"
      /\ phase = "skip" => dbAck = "none"
      /\ phase # "none" => queue # <<>>
      /\ phase = "load" => Head(queue) \in AppendOp
      /\ call \in [AppendOp -> {"new", "open", "done", "failed"}]
  BY DEF TypeInv, TypeOK, StoreTypes, DocTypes, LoadTypes, FlightTypes, GhostTypes, FlightOK
<1>c. QueuedIsOpen' /\ \A op \in AppendOp : call'[op] = "new" => call[op] = "new"
  BY CalledStays
<1>h. queue # <<>> /\ Head(queue) # Null => /\ Head(queue) \in AppendOp
                                            /\ call[Head(queue)] = "open"
  <2>1. queue \in Seq(AppendOp \cup {Null})
    BY <1>t DEF TypeOK
  <2>2. queue # <<>> => Head(queue) = queue[1] /\ 1 \in 1..Len(queue)
    BY <2>1, EmptySeq, LenProperties, HeadTailProperties
  <2>3. queue # <<>> => Head(queue) \in AppendOp \cup {Null}
    BY <2>1, HeadTailProperties
  <2> QED BY <1>0, <2>2, <2>3 DEF QueuedIsOpen
<1>a. \A task \in AppendOp \cup {Null} : queue # <<>> => Head(Append(queue, task)) = Head(queue)
  BY <1>t, HeadTailAppend DEF TypeOK
<1> USE DEF CallInv, NewIsNowhere
<1>1. ASSUME NEW c \in Client, JoinLoaded(c) PROVE CallInv'
  BY <1>1, <1>0, <1>t, <1>c, <1>h, <1>a DEF JoinLoaded
<1>2. ASSUME NEW c \in Client, JoinLoading(c) PROVE CallInv'
  BY <1>2, <1>0, <1>t, <1>c, <1>h, <1>a DEF JoinLoading
<1>3. ASSUME NEW c \in Client, JoinStartsLoad(c) PROVE CallInv'
  BY <1>3, <1>0, <1>t, <1>c, <1>h, <1>a DEF JoinStartsLoad, StartLoad
<1>4. ASSUME NEW c \in Client, Leave(c) PROVE CallInv'
  BY <1>4, <1>0, <1>t, <1>c, <1>h, <1>a DEF Leave, FlushAndArmIdle, EnqueueFlush
<1>5. ASSUME NEW op \in Op, Update(op) PROVE CallInv'
  BY <1>5, <1>0, <1>t, <1>c, <1>h, <1>a DEF Update, Merge
<1>6. ASSUME NEW op \in Op, ViewerUpdate(op) PROVE CallInv'
  BY <1>6, <1>0, <1>t, <1>c, <1>h, <1>a DEF ViewerUpdate, Merge
<1>7. ASSUME NEW op \in Op, SyncStep2(op) PROVE CallInv'
  BY <1>7, <1>0, <1>t, <1>c, <1>h, <1>a DEF SyncStep2, Merge
<1>8. ASSUME NEW op \in AppendOp, AppendRequested(op) PROVE CallInv'
  BY <1>8, <1>0, <1>t, <1>c, <1>h, <1>a DEF AppendRequested
<1>9. CASE LoadFromDb
  BY <1>9, <1>0, <1>t, <1>c, <1>h, <1>a DEF LoadFromDb, RowState
<1>10. CASE InstallDoc
  BY <1>10, <1>0, <1>t, <1>c, <1>h, <1>a DEF InstallDoc, NewDoc, EndLoad
<1>11. CASE InstallDocForAppend
  BY <1>11, <1>0, <1>t, <1>c, <1>h, <1>a DEF InstallDocForAppend, WithAppend, NewDoc, EndLoad, BeginSave,
         IssueSet, Fail
<1>12. CASE DebounceFires
  BY <1>12, <1>0, <1>t, <1>c, <1>h, <1>a DEF DebounceFires, EnqueueFlush
<1>13. CASE IdleRipens
  BY <1>13, <1>0, <1>t, <1>c, <1>h, <1>a DEF IdleRipens
<1>14. CASE IdleFires
  BY <1>14, <1>0, <1>t, <1>c, <1>h, <1>a DEF IdleFires, EvictDoc, DropDoc, ForgetDoc
<1>15. CASE SpareFires
  BY <1>15, <1>0, <1>t, <1>c, <1>h, <1>a DEF SpareFires, EvictDoc, DropDoc, ForgetDoc
<1>16. CASE SafetyFlush
  BY <1>16, <1>0, <1>t, <1>c, <1>h, <1>a DEF SafetyFlush, EnqueueFlush
<1>17. CASE FlushNotLoaded
  BY <1>17, <1>0, <1>t, <1>c, <1>h, <1>a DEF FlushNotLoaded, FlushStarts, EndTask
<1>18. CASE FlushSkips
  BY <1>18, <1>0, <1>t, <1>c, <1>h, <1>a DEF FlushSkips, FlushStarts, IssueSet, Fail
<1>19. CASE FlushSaves
  BY <1>19, <1>0, <1>t, <1>c, <1>h, <1>a DEF FlushSaves, FlushStarts, BeginSave, IssueSet, Fail
<1>20. CASE AppendApplies
  BY <1>20, <1>0, <1>t, <1>c, <1>h, <1>a DEF AppendApplies, WithAppend, AppendStarts, BeginSave, IssueSet, Fail
<1>21. CASE AppendLoads
  BY <1>21, <1>0, <1>t, <1>c, <1>h, <1>a DEF AppendLoads, AppendStarts, StartLoad
<1>22. CASE DbCommits
  BY <1>22, <1>0, <1>t, <1>c, <1>h, <1>a DEF DbCommits
<1>23. CASE NodeGone
  BY <1>23, <1>0, <1>t, <1>c, <1>h, <1>a DEF NodeGone, EndTask, Answer, CleanUpGone, ForgetDoc, DeleteCached
<1>24. CASE RedisRejects
  BY <1>24, <1>0, <1>t, <1>c, <1>h, <1>a DEF RedisRejects, EndTask, Answer
<1>25. CASE FlushDone
  BY <1>25, <1>0, <1>t, <1>c, <1>h, <1>a DEF FlushDone, EnqueueEmbed, Fail, BothAnswered, RecordSave, EndTask, Answer
<1>26. CASE SkipDone
  BY <1>26, <1>0, <1>t, <1>c, <1>h, <1>a DEF SkipDone, EndTask
<1>27. CASE LoadFails
  BY <1>27, <1>0, <1>t, <1>c, <1>h, <1>a DEF LoadFails, EndLoad, RejectAppend, EndTask, Answer, Fail
<1>28. CASE DbRejects
  BY <1>28, <1>0, <1>t, <1>c, <1>h, <1>a DEF DbRejects, EndTask, Answer, Fail
<1>29. CASE StrayCommits
  BY <1>29, <1>0, <1>t, <1>c, <1>h, <1>a DEF StrayCommits
<1>30. CASE StrayAborts
  BY <1>30, <1>0, <1>t, <1>c, <1>h, <1>a DEF StrayAborts
<1>31. CASE RedisExpires
  BY <1>31, <1>0, <1>t, <1>c, <1>h, <1>a DEF RedisExpires
<1>32. CASE DeleteNode
  BY <1>32, <1>0, <1>t, <1>c, <1>h, <1>a DEF DeleteNode
<1>33. CASE NodeDeleteEvent
  BY <1>33, <1>0, <1>t, <1>c, <1>h, <1>a DEF NodeDeleteEvent, DropDoc, ForgetDoc, DeleteCached
<1>34. CASE Crash
  BY <1>34, <1>0, <1>t, <1>c, <1>h, <1>a DEF Crash, ForgetDoc, EndLoad
<1>35. CASE UNCHANGED vars
  BY <1>35, <1>0, <1>t, <1>c, <1>h, <1>a DEF vars
<1> QED
  BY <1>1, <1>2, <1>3, <1>4, <1>5, <1>6, <1>7, <1>8, <1>9, <1>10, <1>11, <1>12, <1>13, <1>14,
     <1>15, <1>16, <1>17, <1>18, <1>19, <1>20, <1>21, <1>22, <1>23, <1>24, <1>25, <1>26, <1>27,
     <1>28, <1>29, <1>30, <1>31, <1>32, <1>33, <1>34, <1>35
  DEF Next, ManagerStep, SocketStep, LoadStep, TimerStep, TaskStart, TaskStep, Outside

------------------------------------------------------------------------------
(* The manager as others use it.  Beside its own steps, a command of somebody else
   may be rejected, which uses up a failure and touches nothing of the manager. *)
OnlyFails ==
  /\ failures' = failures + 1
  /\ UNCHANGED <<storeVars, loadVars, docVars, spare, queue, flightVars, stray, ghostVars, crashes>>

SharedSpec == Init /\ [][Next \/ OnlyFails]_vars

(* Durability and pending edits, for as long as Redis has rejected nothing. *)
ServedInv == RedisMayFail = FALSE \/ failures = 0 => DInv /\ EditInv

LEMMA NextServed ==
  ASSUME RedisMayFail = FALSE \/ StrayMessages = FALSE, TypeInv, KeptInv, ServedInv, [Next]_vars
  PROVE  ServedInv'
<1>1. CASE RedisMayFail = FALSE
  BY <1>1, NextDurable, NextEdits DEF ServedInv, RedisServes
<1>2. ASSUME StrayMessages = FALSE, failures' = 0 PROVE DInv' /\ EditInv'
  <2>1. failures = 0
    BY <1>2, NextKept
  <2>2. row = "live" /\ dbAck = "pending" => loaded
    BY <1>2, <2>1 DEF KeptInv, TypeInv, TypeOK, FlightTypes, FlightOK
  <2> QED BY <1>2, <2>1, <2>2, NextDurable, NextEdits DEF ServedInv, RedisServes
<1> QED BY <1>1, <1>2 DEF ServedInv

LEMMA OnlyFailsKeeps ==
  ASSUME TypeInv, OnlyFails
  PROVE  /\ TypeInv' /\ (CallInv => CallInv') /\ (KeptInv => KeptInv') /\ (ServedInv => ServedInv')
         /\ (DInv => DInv')
<1> USE DEF OnlyFails, storeVars, loadVars, docVars, flightVars, ghostVars
<1>1. failures \in Nat /\ failures' \in Nat /\ failures' > 0
  BY DEF TypeInv, TypeOK, GhostTypes
<1>2. TypeInv'
  BY <1>1 DEF TypeInv, TypeOK, FlightOK, StoreTypes, LoadTypes, DocTypes, FlightTypes, GhostTypes
<1>3. CallInv => CallInv'
  BY <1>1 DEF CallInv, NewIsNowhere, QueuedIsOpen
<1>4. KeptInv => KeptInv'
  BY <1>1 DEF KeptInv, Behind
<1>5. DInv => DInv'
  BY DEF DInv, Reliable, CopiesCover, CopiesCoverPending, AppendIsCaptured, Promised,
         RecordedVectorIsDurable, AnsweredAppendIsDurable, EmbedJobsAreDurable
<1>6. EditInv => EditInv'
  BY <1>1 DEF EditInv, SkipFindsAllStored, EditsPending, LeftIsFlushed, Stored, BeingStored, Cached,
              Behind
<1>7. ServedInv => ServedInv'
  BY <1>1, <1>5, <1>6 DEF ServedInv
<1> QED BY <1>2, <1>3, <1>4, <1>5, <1>7

LEMMA TypeInvariant == Spec => []TypeInv
  BY InitType, NextType, PTL DEF Spec

LEMMA SharedType == SharedSpec => []TypeInv
<1>1. TypeInv /\ [Next \/ OnlyFails]_vars => TypeInv'
  BY NextType, OnlyFailsKeeps
<1> QED BY InitType, <1>1, PTL DEF SharedSpec

LEMMA SharedInvariant ==
  ASSUME RedisMayFail = FALSE \/ StrayMessages = FALSE
  PROVE  SharedSpec => [](TypeInv /\ KeptInv /\ ServedInv)
<1>1. Init => KeptInv /\ ServedInv
  BY InitKept, InitDurable, InitEdits DEF ServedInv
<1>2. TypeInv /\ KeptInv /\ ServedInv /\ [Next \/ OnlyFails]_vars => KeptInv' /\ ServedInv'
  <2>1. SUFFICES ASSUME TypeInv, KeptInv, ServedInv, [Next \/ OnlyFails]_vars
                 PROVE  KeptInv' /\ ServedInv'
    OBVIOUS
  <2>2. CASE [Next]_vars
    BY <2>1, <2>2, NextKept, NextServed
  <2>3. CASE OnlyFails
    BY <2>1, <2>3, OnlyFailsKeeps
  <2> QED BY <2>1, <2>2, <2>3
<1> QED BY <1>1, <1>2, SharedType, PTL DEF SharedSpec

LEMMA SpecIsShared == Spec => SharedSpec
<1>1. [Next]_vars => [Next \/ OnlyFails]_vars
  OBVIOUS
<1> QED BY <1>1, PTL DEF Spec, SharedSpec

LEMMA SharedDurable ==
  ASSUME RedisMayFail = FALSE PROVE SharedSpec => [](TypeInv /\ DInv /\ EditInv)
<1>1. ServedInv => DInv /\ EditInv
  BY DEF ServedInv
<1> QED BY <1>1, SharedInvariant, PTL

LEMMA DurableInvariant ==
  ASSUME RedisMayFail = FALSE PROVE Spec => [](TypeInv /\ DInv /\ EditInv)
BY SpecIsShared, SharedDurable, PTL

(* Every variable keeps its type, and no timer outlives the document it is for,
   whatever fails and however the sockets behave. *)
THEOREM TypeCorrect == Spec => []TypeOK
<1>1. TypeInv => TypeOK
  BY DEF TypeInv
<1> QED BY <1>1, TypeInvariant, PTL

(* No fault, no stray message and no timer takes a document from a socket that
   is registered on it, and no step takes an operation out of it. *)
THEOREM OpenDocKept == Spec => OpenDocStays
<1>1. TypeInv /\ [Next]_vars => [DocStays]_vars
  BY NextKeepsDoc
<1>2. [][DocStays]_vars => OpenDocStays
  BY PTL DEF OpenDocStays, DocStays
<1> QED BY <1>1, <1>2, TypeInvariant, PTL DEF Spec

(* As long as Redis rejects nothing, whatever the database, the process and the
   sockets do: the row covers the recorded vector, the answered appends and the
   embed jobs. *)
THEOREM PromisesKept ==
  ASSUME RedisMayFail = FALSE
  PROVE  Spec => [](RecordedVectorIsDurable /\ AnsweredAppendIsDurable /\ EmbedJobsAreDurable)
<1>1. DInv => RecordedVectorIsDurable /\ AnsweredAppendIsDurable /\ EmbedJobsAreDurable
  BY DEF DInv, Promised
<1> QED BY <1>1, DurableInvariant, PTL

(* What a caller of appendMarkdown may rely on: as long as Redis rejects nothing,
   an answer means that the text is in the row, and stays there. *)
THEOREM AnsweredAppendsStored ==
  ASSUME RedisMayFail = FALSE PROVE Spec => []AnsweredAppendIsDurable
BY PromisesKept, PTL

(* The same where Redis may reject, until it does, if sockets leave only what they
   joined: a GET that counts as a miss and a DEL that is lost do no harm. *)
THEOREM PromisesUntilRejected ==
  ASSUME StrayMessages = FALSE
  PROVE  Spec => [](failures = 0 => /\ RecordedVectorIsDurable /\ AnsweredAppendIsDurable
                                    /\ EmbedJobsAreDurable /\ CacheCoversRow)
<1>1. ServedInv /\ failures = 0 => /\ RecordedVectorIsDurable /\ AnsweredAppendIsDurable
                                  /\ EmbedJobsAreDurable /\ CacheCoversRow
  BY DEF ServedInv, DInv, Promised, CopiesCover, CacheCoversRow
<1> QED BY <1>1, SpecIsShared, SharedInvariant, PTL

LEMMA EditIsPending == TypeInv /\ ServedInv => ScheduledEditIsPending
<1>1. TypeInv /\ Behind => FlushIsQueued
  <2>1. SUFFICES ASSUME TypeInv, Behind PROVE FlushIsQueued
    OBVIOUS
  <2>2. Len(queue) \in Nat /\ (queue # <<>> => Len(queue) > 0)
    BY <2>1, EmptySeq, LenProperties DEF TypeInv, TypeOK
  <2>3. CASE Len(queue) > 1
    BY <2>2, <2>3 DEF FlushIsQueued
  <2>4. CASE queue # <<>> /\ phase \in {"none", "load"}
    BY <2>2, <2>4 DEF FlushIsQueued
  <2> QED BY <2>1, <2>3, <2>4 DEF Behind
<1> QED BY <1>1 DEF ServedInv, EditInv, EditsPending, ScheduledEditIsPending

(* scheduleSave, removeClient and the queue: as long as no store rejects, an edit
   the debounce covered is in the row or on its way there, whatever the order of
   timers, joins, leaves and saves. *)
THEOREM EditsStayPending ==
  ASSUME RedisMayFail = FALSE \/ StrayMessages = FALSE
  PROVE  Spec => []ScheduledEditIsPending
BY EditIsPending, SpecIsShared, SharedInvariant, PTL

(* evictDoc does not flush and need not: as long as no store rejects and sockets
   leave only what they joined, what it drops is stored. *)
THEOREM EvictionsLoseNothing == ASSUME StrayMessages = FALSE PROVE Spec => EvictedDocWasFlushed
<1>1. TypeInv /\ ServedInv /\ [Next]_vars
        => [loaded /\ ~loaded' /\ row = "live" /\ crashes' = crashes /\ failures = 0
              => doc \subseteq Cached /\ Vector(doc) \subseteq db]_vars
  BY NextEvicts DEF Stored, ServedInv
<1> QED BY <1>1, SpecIsShared, SharedInvariant, PTL DEF Spec, EvictedDocWasFlushed

(* A save that is skipped leaves deletions out of the row and nothing else: saving
   is decided by the state vector, which says nothing of them. *)
THEOREM SkipsLeaveOnlyDeletions ==
  ASSUME RedisMayFail = FALSE \/ StrayMessages = FALSE
  PROVE  Spec => [](/\ RedisMayFail = FALSE \/ failures = 0
                    /\ phase = "skip" /\ row = "live"
                    => snap \ db \subseteq Deletion)
<1>1. ServedInv => (/\ RedisMayFail = FALSE \/ failures = 0
                    /\ phase = "skip" /\ row = "live"
                    => snap \ db \subseteq Deletion)
  BY DEF ServedInv, EditInv, SkipFindsAllStored, Vector
<1> QED BY <1>1, SpecIsShared, SharedInvariant, PTL

(* The cached copy is never behind the row. *)
THEOREM CacheNeverBehind == ASSUME RedisMayFail = FALSE PROVE Spec => []CacheCoversRow
<1>1. DInv => CacheCoversRow
  BY DEF DInv, CopiesCover, CacheCoversRow
<1> QED BY <1>1, DurableInvariant, PTL

(* No save loses what an earlier one stored. *)
THEOREM RowNeverRegresses == ASSUME RedisMayFail = FALSE PROVE Spec => DbNeverRegresses
<1>1. TypeInv /\ DInv /\ [Next]_vars => [row = "live" => db \subseteq db']_vars
  BY NextEffect DEF Effect
<1> QED BY <1>1, DurableInvariant, PTL DEF Spec, DbNeverRegresses

------------------------------------------------------------------------------
LEMMA StepRefines ==
  ASSUME TypeInv, TypeInv', DInv, [Next]_vars
  PROVE  [Durable!Next]_(Durable!vars)
<1>1. Effect
  BY NextEffect
<1>2. /\ doc \in SUBSET Op /\ doc' \in SUBSET Op /\ db' \in SUBSET Op
      /\ loaded \in BOOLEAN /\ loaded' \in BOOLEAN
      /\ doc # Null /\ doc' # Null
  BY NullAssumption DEF TypeInv, TypeOK, StoreTypes, DocTypes
<1> USE DEF Durable!Next, Durable!vars
<1>3. CASE row # "live"
  BY <1>1, <1>2, <1>3 DEF Effect, Durable!AfterDelete
<1>4. CASE row = "live" /\ row' # "live"
  BY <1>1, <1>2, <1>4 DEF Effect, Durable!Delete
<1>5. CASE row = "live" /\ row' = "live" /\ ~loaded'
  BY <1>1, <1>2, <1>5 DEF Effect, Durable!Close
<1>6. CASE row = "live" /\ row' = "live" /\ loaded' /\ ~loaded
  BY <1>1, <1>2, <1>6 DEF Effect, Durable!Open
<1>7. CASE row = "live" /\ row' = "live" /\ loaded' /\ loaded
  BY <1>1, <1>2, <1>7 DEF Effect, Durable!Edit, Durable!Save
<1> QED BY <1>3, <1>4, <1>5, <1>6, <1>7, <1>2

(* The manager, with its caches, queue, timers, evictions and restarts, is one
   durable document that opens complete and only grows. *)
THEOREM Refinement == ASSUME RedisMayFail = FALSE PROVE Spec => ImplementsDurableDoc
<1>1. Init => Durable!Init
  BY DEF Init, Durable!Init
<1>2. TypeInv /\ TypeInv' /\ DInv /\ [Next]_vars => [Durable!Next]_(Durable!vars)
  BY StepRefines
<1> QED BY <1>1, <1>2, DurableInvariant, PTL DEF Spec, ImplementsDurableDoc, Durable!Spec

------------------------------------------------------------------------------
(* The queue is a line in which one task at a time is served: what NodeQueue shows
   of every chain of promises (ChainsAreLines) is what the manager makes use of. *)
Line == INSTANCE TaskLine WITH
  Call <- AppendOp \cup {Null}, line <- queue, busy <- phase # "none"

TaskMove ==
  \/ queue' = queue /\ (phase' = "none" <=> phase = "none")
  \/ phase' = phase /\ \E task \in AppendOp \cup {Null} : queue' = Append(queue, task)
  \/ queue # <<>> /\ queue' = queue /\ phase = "none" /\ phase' # "none"
  \/ queue # <<>> /\ queue' = Tail(queue) /\ phase' = "none"
  \/ queue' = <<>> /\ phase' = "none"

LEMMA TaskMoves == ASSUME TypeInv, [Next]_vars PROVE TaskMove
<1> USE DEF storeVars, loadVars, docVars, flightVars, ghostVars, faultVars, rest, TaskMove
<1>t. /\ phase \in {"none", "load"} => dbAck = "none" /\ redisAck = "none"
      /\ phase = "skip" => dbAck = "none"
      /\ phase # "none" => queue # <<>>
  BY DEF TypeInv, FlightOK
<1>1. ASSUME NEW c \in Client, JoinLoaded(c) PROVE TaskMove
  BY <1>1, <1>t DEF JoinLoaded
<1>2. ASSUME NEW c \in Client, JoinLoading(c) PROVE TaskMove
  BY <1>2, <1>t DEF JoinLoading
<1>3. ASSUME NEW c \in Client, JoinStartsLoad(c) PROVE TaskMove
  BY <1>3, <1>t DEF JoinStartsLoad, StartLoad
<1>4. ASSUME NEW c \in Client, Leave(c) PROVE TaskMove
  BY <1>4, <1>t DEF Leave, FlushAndArmIdle, EnqueueFlush
<1>5. ASSUME NEW op \in Op, Update(op) PROVE TaskMove
  BY <1>5, <1>t DEF Update, Merge
<1>6. ASSUME NEW op \in Op, ViewerUpdate(op) PROVE TaskMove
  BY <1>6, <1>t DEF ViewerUpdate, Merge
<1>7. ASSUME NEW op \in Op, SyncStep2(op) PROVE TaskMove
  BY <1>7, <1>t DEF SyncStep2, Merge
<1>9. CASE LoadFromDb
  BY <1>9, <1>t DEF LoadFromDb, RowState
<1>10. CASE InstallDoc
  BY <1>10, <1>t DEF InstallDoc, NewDoc, EndLoad
<1>11. CASE InstallDocForAppend
  BY <1>11, <1>t DEF InstallDocForAppend, WithAppend, NewDoc, EndLoad, BeginSave, IssueSet, Fail
<1>12. CASE DebounceFires
  BY <1>12, <1>t DEF DebounceFires, EnqueueFlush
<1>13. CASE IdleRipens
  BY <1>13, <1>t DEF IdleRipens
<1>14. CASE IdleFires
  BY <1>14, <1>t DEF IdleFires, EvictDoc, DropDoc, ForgetDoc
<1>15. CASE SpareFires
  BY <1>15, <1>t DEF SpareFires, EvictDoc, DropDoc, ForgetDoc
<1>16. CASE SafetyFlush
  BY <1>16, <1>t DEF SafetyFlush, EnqueueFlush
<1>17. CASE FlushNotLoaded
  BY <1>17, <1>t DEF FlushNotLoaded, FlushStarts, EndTask
<1>18. CASE FlushSkips
  BY <1>18, <1>t DEF FlushSkips, FlushStarts, IssueSet, Fail
<1>19. CASE FlushSaves
  BY <1>19, <1>t DEF FlushSaves, FlushStarts, BeginSave, IssueSet, Fail
<1>20. CASE AppendApplies
  BY <1>20, <1>t DEF AppendApplies, WithAppend, AppendStarts, BeginSave, IssueSet, Fail
<1>21. CASE AppendLoads
  BY <1>21, <1>t DEF AppendLoads, AppendStarts, StartLoad
<1>22. CASE DbCommits
  BY <1>22, <1>t DEF DbCommits
<1>23. CASE NodeGone
  BY <1>23, <1>t DEF NodeGone, EndTask, Answer, CleanUpGone, ForgetDoc, DeleteCached
<1>24. CASE RedisRejects
  BY <1>24, <1>t DEF RedisRejects, EndTask, Answer
<1>25. CASE FlushDone
  BY <1>25, <1>t DEF FlushDone, EnqueueEmbed, Fail, BothAnswered, RecordSave, EndTask, Answer
<1>26. CASE SkipDone
  BY <1>26, <1>t DEF SkipDone, EndTask
<1>27. CASE LoadFails
  BY <1>27, <1>t DEF LoadFails, EndLoad, RejectAppend, EndTask, Answer, Fail
<1>28. CASE DbRejects
  BY <1>28, <1>t DEF DbRejects, EndTask, Answer, Fail
<1>29. CASE StrayCommits
  BY <1>29, <1>t DEF StrayCommits
<1>30. CASE StrayAborts
  BY <1>30, <1>t DEF StrayAborts
<1>31. CASE RedisExpires
  BY <1>31, <1>t DEF RedisExpires
<1>32. CASE DeleteNode
  BY <1>32, <1>t DEF DeleteNode
<1>33. CASE NodeDeleteEvent
  BY <1>33, <1>t DEF NodeDeleteEvent, DropDoc, ForgetDoc, DeleteCached
<1>34. ASSUME NEW op \in AppendOp, AppendRequested(op) PROVE TaskMove
  BY <1>34, <1>t DEF AppendRequested
<1>35. CASE Crash
  BY <1>35, <1>t DEF Crash
<1>36. CASE UNCHANGED vars
  BY <1>36 DEF vars
<1> QED
  BY <1>1, <1>2, <1>3, <1>4, <1>5, <1>6, <1>7, <1>9, <1>10, <1>11, <1>12, <1>13, <1>14, <1>15,
     <1>16, <1>17, <1>18, <1>19, <1>20, <1>21, <1>22, <1>23, <1>24, <1>25, <1>26, <1>27, <1>28,
     <1>29, <1>30, <1>31, <1>32, <1>33, <1>34, <1>35, <1>36
  DEF Next, ManagerStep, SocketStep, LoadStep, TimerStep, TaskStart, TaskStep, Outside

LEMMA StepOfLine ==
  TypeInv /\ [Next]_vars => [Line!Next \/ Line!Pass \/ Line!Restart]_(Line!vars)
<1> SUFFICES ASSUME TypeInv, [Next]_vars
             PROVE  Line!Next \/ Line!Pass \/ Line!Restart \/ UNCHANGED Line!vars
  OBVIOUS
<1> USE DEF Line!Next, Line!Pass, Line!Restart, Line!vars, Line!Enter, Line!Serve, Line!Finish
<1>1. CASE queue' = queue /\ (phase' = "none" <=> phase = "none")
  BY <1>1
<1>2. CASE phase' = phase /\ \E task \in AppendOp \cup {Null} : queue' = Append(queue, task)
  BY <1>2
<1>3. CASE queue # <<>> /\ queue' = queue /\ phase = "none" /\ phase' # "none"
  BY <1>3
<1>4. CASE queue # <<>> /\ queue' = Tail(queue) /\ phase' = "none"
  BY <1>4
<1>5. CASE queue' = <<>> /\ phase' = "none"
  BY <1>5
<1> QED BY <1>1, <1>2, <1>3, <1>4, <1>5, TaskMoves DEF TaskMove

(* Flushes and appends of a node run one at a time and in the order in which they
   were asked for, across failures, evictions and restarts. *)
THEOREM QueueIsALine == Spec => Line!ProcessSpec
<1>1. Init => Line!Init
  BY DEF Init, Line!Init
<1> QED BY <1>1, StepOfLine, TypeInvariant, PTL DEF Spec, Line!ProcessSpec

------------------------------------------------------------------------------
(* Nobody is forgotten: what AppendsAreAnswered needs beside fairness.  A call that
   has no answer has its task in the queue, a join or a task that awaits a load has
   one under way, and the task at the head has an answer or awaits one. *)
OpenIsQueued ==
  \A op \in AppendOp : call[op] = "open" => \E i \in 1..Len(queue) : queue[i] = op

LoadIsUnderWay == waiting # {} \/ phase = "load" => loading # "no"

AnswerIsOut ==
  /\ phase = "skip" => redisAck \in {"ok", "fail"}
  /\ phase = "save" => dbAck = "pending" \/ redisAck = "fail" \/ BothAnswered

NobodyIsForgotten == OpenIsQueued /\ LoadIsUnderWay /\ AnswerIsOut

(* Beside that, an answer is final. *)
FinalAnswer(op) == call[op] \in {"done", "failed"} => call'[op] = call[op]

LEMMA CallsMove ==
  ASSUME TypeInv, CallInv, OpenIsQueued, [Next]_vars
  PROVE  OpenIsQueued' /\ \A op \in AppendOp : FinalAnswer(op)
<1>t. /\ TypeOK /\ QueuedIsOpen /\ call \in [AppendOp -> {"new", "open", "done", "failed"}]
      /\ queue \in Seq(AppendOp \cup {Null}) /\ Len(queue) \in Nat
  BY LenProperties DEF TypeInv, TypeOK, GhostTypes, CallInv
<1>1. CASE UNCHANGED <<queue, call>>
  BY <1>1 DEF OpenIsQueued, FinalAnswer
<1>2. ASSUME NEW task \in AppendOp \cup {Null}, queue' = Append(queue, task),
             \A op \in AppendOp : call'[op] = call[op] \/ (op = task /\ call[op] = "new")
      PROVE  OpenIsQueued' /\ \A op \in AppendOp : FinalAnswer(op)
  <2>1. /\ Len(queue') = Len(queue) + 1 /\ queue'[Len(queue) + 1] = task
        /\ \A i \in 1..Len(queue) : queue'[i] = queue[i]
    BY <1>t, <1>2, AppendProperties
  <2>2. ASSUME NEW op \in AppendOp, call'[op] = "open"
        PROVE  \E i \in 1..Len(queue') : queue'[i] = op
    <3>1. CASE op = task
      BY <1>t, <2>1, <3>1
    <3>2. CASE op # task
      <4>1. PICK i \in 1..Len(queue) : queue[i] = op
        BY <1>2, <2>2, <3>2 DEF OpenIsQueued
      <4>2. i \in 1..Len(queue') /\ queue'[i] = op
        BY <1>t, <2>1, <4>1
      <4> QED BY <4>2
    <3> QED BY <3>1, <3>2
  <2> QED BY <1>2, <2>2 DEF OpenIsQueued, FinalAnswer
<1>3. ASSUME queue # <<>>, queue' = Tail(queue),
             (Head(queue) = Null /\ call' = call) \/ Answer("done") \/ Answer("failed")
      PROVE  OpenIsQueued' /\ \A op \in AppendOp : FinalAnswer(op)
  <2>1. /\ Head(queue) = queue[1] /\ Len(queue) # 0 /\ Len(queue') = Len(queue) - 1
        /\ \A i \in 1..Len(queue') : queue'[i] = queue[i + 1]
    BY <1>t, <1>3, EmptySeq, HeadTailProperties
  <2>2. \A op \in AppendOp :
          /\ op # Head(queue) => call'[op] = call[op]
          /\ op = Head(queue) => call'[op] # "open"
    BY <1>t, <1>3, OpAssumption, NullAssumption DEF Answer
  <2>3. ASSUME NEW op \in AppendOp, call'[op] = "open"
        PROVE  \E i \in 1..Len(queue') : queue'[i] = op
    <3>1. PICK i \in 1..Len(queue) : queue[i] = op
      BY <2>2, <2>3 DEF OpenIsQueued
    <3>2. i # 1
      BY <2>1, <2>2, <2>3, <3>1
    <3>3. i - 1 \in 1..Len(queue') /\ queue'[i - 1] = op
      BY <1>t, <2>1, <3>1, <3>2
    <3> QED BY <3>3
  <2>4. \A op \in AppendOp : FinalAnswer(op)
    <3>1. ASSUME NEW op \in AppendOp, op = Head(queue) PROVE call[op] = "open"
      <4>1. 1 \in 1..Len(queue) /\ queue[1] = op
        BY <1>t, <2>1, <3>1
      <4> QED BY <4>1, <1>t, OpAssumption, NullAssumption DEF QueuedIsOpen
    <3> QED BY <2>2, <3>1 DEF FinalAnswer
  <2> QED BY <2>3, <2>4 DEF OpenIsQueued
<1>4. CASE ManagerStep
  <2>1. Move
    BY <1>4, ManagerMoves DEF TypeInv
  <2> QED BY <1>1, <1>2, <1>3, <2>1 DEF Move
<1>5. ASSUME NEW op \in AppendOp, AppendRequested(op)
      PROVE  OpenIsQueued' /\ \A o \in AppendOp : FinalAnswer(o)
  <2>1. /\ queue' = Append(queue, op) /\ call[op] = "new"
        /\ \A o \in AppendOp : o # op => call'[o] = call[o]
    BY <1>5, <1>t DEF AppendRequested
  <2> QED BY <2>1, <1>2
<1>6. CASE Crash
  BY <1>6, <1>t DEF Crash, OpenIsQueued, FinalAnswer
<1> QED BY <1>1, <1>4, <1>5, <1>6 DEF Next, vars, rest, ghostVars

LEMMA LoadsMove == ASSUME TypeInv, LoadIsUnderWay, [Next]_vars PROVE LoadIsUnderWay'
<1> USE DEF storeVars, loadVars, docVars, flightVars, ghostVars, faultVars, rest, LoadIsUnderWay
<1>t. /\ phase = "load" \/ waiting # {} => loading # "no"
      /\ phase \in {"none", "load"} => dbAck = "none" /\ redisAck = "none"
  BY DEF LoadIsUnderWay, TypeInv, FlightOK
<1>1. ASSUME NEW c \in Client, JoinLoaded(c) PROVE LoadIsUnderWay'
  BY <1>1, <1>t DEF JoinLoaded
<1>2. ASSUME NEW c \in Client, JoinLoading(c) PROVE LoadIsUnderWay'
  BY <1>2, <1>t DEF JoinLoading
<1>3. ASSUME NEW c \in Client, JoinStartsLoad(c) PROVE LoadIsUnderWay'
  BY <1>3, <1>t DEF JoinStartsLoad, StartLoad
<1>4. ASSUME NEW c \in Client, Leave(c) PROVE LoadIsUnderWay'
  BY <1>4, <1>t DEF Leave, FlushAndArmIdle, EnqueueFlush
<1>5. ASSUME NEW op \in Op, Update(op) PROVE LoadIsUnderWay'
  BY <1>5, <1>t DEF Update, Merge
<1>6. ASSUME NEW op \in Op, ViewerUpdate(op) PROVE LoadIsUnderWay'
  BY <1>6, <1>t DEF ViewerUpdate, Merge
<1>7. ASSUME NEW op \in Op, SyncStep2(op) PROVE LoadIsUnderWay'
  BY <1>7, <1>t DEF SyncStep2, Merge
<1>9. CASE LoadFromDb
  BY <1>9, <1>t DEF LoadFromDb, RowState
<1>10. CASE InstallDoc
  BY <1>10, <1>t DEF InstallDoc, NewDoc, EndLoad
<1>11. CASE InstallDocForAppend
  BY <1>11, <1>t DEF InstallDocForAppend, WithAppend, NewDoc, EndLoad, BeginSave, IssueSet, Fail
<1>12. CASE DebounceFires
  BY <1>12, <1>t DEF DebounceFires, EnqueueFlush
<1>13. CASE IdleRipens
  BY <1>13, <1>t DEF IdleRipens
<1>14. CASE IdleFires
  BY <1>14, <1>t DEF IdleFires, EvictDoc, DropDoc, ForgetDoc
<1>15. CASE SpareFires
  BY <1>15, <1>t DEF SpareFires, EvictDoc, DropDoc, ForgetDoc
<1>16. CASE SafetyFlush
  BY <1>16, <1>t DEF SafetyFlush, EnqueueFlush
<1>17. CASE FlushNotLoaded
  BY <1>17, <1>t DEF FlushNotLoaded, FlushStarts, EndTask
<1>18. CASE FlushSkips
  BY <1>18, <1>t DEF FlushSkips, FlushStarts, IssueSet, Fail
<1>19. CASE FlushSaves
  BY <1>19, <1>t DEF FlushSaves, FlushStarts, BeginSave, IssueSet, Fail
<1>20. CASE AppendApplies
  BY <1>20, <1>t DEF AppendApplies, WithAppend, AppendStarts, BeginSave, IssueSet, Fail
<1>21. CASE AppendLoads
  BY <1>21, <1>t DEF AppendLoads, AppendStarts, StartLoad
<1>22. CASE DbCommits
  BY <1>22, <1>t DEF DbCommits
<1>23. CASE NodeGone
  BY <1>23, <1>t DEF NodeGone, EndTask, Answer, CleanUpGone, ForgetDoc, DeleteCached
<1>24. CASE RedisRejects
  BY <1>24, <1>t DEF RedisRejects, EndTask, Answer
<1>25. CASE FlushDone
  BY <1>25, <1>t DEF FlushDone, EnqueueEmbed, Fail, BothAnswered, RecordSave, EndTask, Answer
<1>26. CASE SkipDone
  BY <1>26, <1>t DEF SkipDone, EndTask
<1>27. CASE LoadFails
  BY <1>27, <1>t DEF LoadFails, EndLoad, RejectAppend, EndTask, Answer, Fail
<1>28. CASE DbRejects
  BY <1>28, <1>t DEF DbRejects, EndTask, Answer, Fail
<1>29. CASE StrayCommits
  BY <1>29, <1>t DEF StrayCommits
<1>30. CASE StrayAborts
  BY <1>30, <1>t DEF StrayAborts
<1>31. CASE RedisExpires
  BY <1>31, <1>t DEF RedisExpires
<1>32. CASE DeleteNode
  BY <1>32, <1>t DEF DeleteNode
<1>33. CASE NodeDeleteEvent
  BY <1>33, <1>t DEF NodeDeleteEvent, DropDoc, ForgetDoc, DeleteCached
<1>34. ASSUME NEW op \in AppendOp, AppendRequested(op) PROVE LoadIsUnderWay'
  BY <1>34, <1>t DEF AppendRequested
<1>35. CASE Crash
  BY <1>35, <1>t DEF Crash, ForgetDoc, EndLoad
<1>36. CASE UNCHANGED vars
  BY <1>36, <1>t DEF vars
<1> QED
  BY <1>1, <1>2, <1>3, <1>4, <1>5, <1>6, <1>7, <1>9, <1>10, <1>11, <1>12, <1>13, <1>14, <1>15,
     <1>16, <1>17, <1>18, <1>19, <1>20, <1>21, <1>22, <1>23, <1>24, <1>25, <1>26, <1>27, <1>28,
     <1>29, <1>30, <1>31, <1>32, <1>33, <1>34, <1>35, <1>36
  DEF Next, ManagerStep, SocketStep, LoadStep, TimerStep, TaskStart, TaskStep, Outside

LEMMA TypeAnswers == TypeInv => AnswerIsOut
  BY DEF TypeInv, TypeOK, FlightTypes, FlightOK, AnswerIsOut, BothAnswered

(* An append call is waiting in the queue until it is answered, the task at the head
   has a load, a write or an answer to go on from, and no promise is left that
   nothing will settle: no run of the manager forgets a caller. *)
THEOREM NobodyForgotten == Spec => []NobodyIsForgotten
<1>1. Init => OpenIsQueued /\ LoadIsUnderWay
  BY DEF Init, OpenIsQueued, LoadIsUnderWay
<1>2. TypeInv => AnswerIsOut
  BY TypeAnswers
<1>3. /\ TypeInv /\ CallInv /\ OpenIsQueued /\ LoadIsUnderWay /\ [Next]_vars
      => CallInv' /\ OpenIsQueued' /\ LoadIsUnderWay'
  BY NextCalls, CallsMove, LoadsMove
<1>4. OpenIsQueued /\ LoadIsUnderWay /\ AnswerIsOut => NobodyIsForgotten
  BY DEF NobodyIsForgotten
<1> QED BY InitCalls, <1>1, <1>2, <1>3, <1>4, TypeInvariant, PTL DEF Spec

(* The answer of a call is given once. *)
AnswersAreFinal == [][\A op \in AppendOp : FinalAnswer(op)]_vars

(* appendMarkdown: a caller that was answered, or rejected, is not answered again,
   whatever a transaction left behind does later. *)
THEOREM AnsweredOnce == Spec => AnswersAreFinal
<1>1. TypeInv /\ CallInv /\ NobodyIsForgotten /\ [Next]_vars
        => [\A op \in AppendOp : FinalAnswer(op)]_vars
  BY CallsMove DEF NobodyIsForgotten
<1>2. TypeInv /\ CallInv /\ [Next]_vars => CallInv'
  BY NextCalls
<1> QED BY InitCalls, <1>1, <1>2, TypeInvariant, NobodyForgotten, PTL DEF Spec, AnswersAreFinal

------------------------------------------------------------------------------
(* Whoever drives the manager, and whatever of theirs fails: as long as Redis
   rejects nothing of the manager, what it says of the row is true, the cached copy
   is not behind, and an edit the debounce covered is on its way. *)
THEOREM SharedPromises ==
  ASSUME RedisMayFail = FALSE
  PROVE  SharedSpec => [](/\ RecordedVectorIsDurable /\ AnsweredAppendIsDurable
                          /\ EmbedJobsAreDurable /\ CacheCoversRow /\ ScheduledEditIsPending)
<1>1. DInv => RecordedVectorIsDurable /\ AnsweredAppendIsDurable /\ EmbedJobsAreDurable
              /\ CacheCoversRow
  BY DEF DInv, Promised, CopiesCover, CacheCoversRow
<1>2. TypeInv /\ DInv /\ EditInv => ScheduledEditIsPending
  BY EditIsPending DEF ServedInv
<1> QED BY <1>1, <1>2, SharedDurable, PTL

(* To each of them it is one durable document that opens complete and only grows. *)
THEOREM SharedRefinement == ASSUME RedisMayFail = FALSE PROVE SharedSpec => ImplementsDurableDoc
<1>1. Init => Durable!Init
  BY DEF Init, Durable!Init
<1>2. TypeInv /\ TypeInv' /\ DInv /\ [Next \/ OnlyFails]_vars => [Durable!Next]_(Durable!vars)
  <2>1. ASSUME OnlyFails PROVE UNCHANGED Durable!vars
    BY <2>1 DEF OnlyFails, storeVars, docVars, Durable!vars
  <2> QED BY <2>1, StepRefines
<1> QED BY <1>1, <1>2, SharedDurable, PTL DEF SharedSpec, ImplementsDurableDoc, Durable!Spec

(* And to each of them a line of tasks that forgets no caller and takes no document
   from a socket that is registered on it, whatever fails. *)
THEOREM SharedService ==
  SharedSpec => Line!ProcessSpec /\ []NobodyIsForgotten /\ OpenDocStays
<1>1. SharedSpec => Line!ProcessSpec
  <2>1. Init => Line!Init
    BY DEF Init, Line!Init
  <2>2. ASSUME OnlyFails PROVE UNCHANGED Line!vars
    BY <2>2 DEF OnlyFails, flightVars, Line!vars
  <2>3. TypeInv /\ [Next \/ OnlyFails]_vars => [Line!Next \/ Line!Pass \/ Line!Restart]_(Line!vars)
    BY <2>2, StepOfLine
  <2> QED BY <2>1, <2>3, SharedType, PTL DEF SharedSpec, Line!ProcessSpec
<1>2. SharedSpec => []NobodyIsForgotten
  <2>1. Init => OpenIsQueued /\ LoadIsUnderWay
    BY DEF Init, OpenIsQueued, LoadIsUnderWay
  <2>f. ASSUME OnlyFails PROVE (OpenIsQueued => OpenIsQueued') /\ (LoadIsUnderWay => LoadIsUnderWay')
    BY <2>f DEF OnlyFails, loadVars, flightVars, ghostVars, OpenIsQueued, LoadIsUnderWay
  <2>2. /\ TypeInv /\ CallInv /\ OpenIsQueued /\ LoadIsUnderWay /\ [Next \/ OnlyFails]_vars
        => CallInv' /\ OpenIsQueued' /\ LoadIsUnderWay'
    BY <2>f, NextCalls, CallsMove, LoadsMove, OnlyFailsKeeps
  <2>3. TypeInv /\ OpenIsQueued /\ LoadIsUnderWay => NobodyIsForgotten
    BY TypeAnswers DEF NobodyIsForgotten
  <2> QED BY InitCalls, <2>1, <2>2, <2>3, SharedType, PTL DEF SharedSpec
<1>3. SharedSpec => OpenDocStays
  <2>1. ASSUME OnlyFails PROVE DocStays
    BY <2>1 DEF OnlyFails, docVars, DocStays
  <2>2. TypeInv /\ [Next \/ OnlyFails]_vars => [DocStays]_vars
    BY <2>1, NextKeepsDoc
  <2>3. [][DocStays]_vars => OpenDocStays
    BY PTL DEF OpenDocStays, DocStays
  <2> QED BY <2>2, <2>3, SharedType, PTL DEF SharedSpec
<1> QED BY <1>1, <1>2, <1>3, PTL
=============================================================================
