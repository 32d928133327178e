----------------------- MODULE ContentOperation_proofs -----------------------
(***************************************************************************)
(* At most one attempt of a command is told that it succeeded.  The claim  *)
(* alone does not show it: the argument is that the key of an attempt that *)
(* appends is held by it, so that nobody can have the key, and that the    *)
(* key of one that succeeded never lapses.  What is in the document comes  *)
(* from a call, so from an attempt that holds its key; and who is told of  *)
(* a success, its own or another's, has the text in the row.               *)
(***************************************************************************)
EXTENDS ContentOperation, YjsDocManager_proofs

(* The attempts that got through SET NX and did not fail. *)
Admitted(a) == stage[a] \in {"appending", "ok"}

(* Who appends holds the key; who succeeded left a key that stays; nobody shares it. *)
KeyIsHeld ==
  \A a \in AppendOp :
    /\ Admitted(a) => ClaimOf(a) # Null
    /\ stage[a] = "ok" => ClaimOf(a).is # "progress"
    /\ \A b \in AppendOp : SameCommand(a, b) /\ Admitted(a) /\ Admitted(b) => a = b

(* The key of a delivery is final from the start: Remember leaves it as it is. *)
DeliveryHolds ==
  \A a \in Patch : stage[a] = "appending" => ClaimOf(a).is = "applied"

(* The inductive invariant. *)
KeysInv == ClaimTypes /\ (~ClaimsMayLapse => KeyIsHeld /\ DeliveryHolds)

(* A claim is a value a key may hold, and not Null. *)
LEMMA MineIsClaim ==
  ASSUME NEW a \in AppendOp
  PROVE  Mine(a) \in Claims /\ Mine(a) # Null
BY AttemptAssumption, NoClaimAssumption DEF Mine, Claims

(* So is a response. *)
LEMMA ResponseIsClaim ==
  ASSUME NEW a \in AppendOp
  PROVE  /\ [body |-> BodyOf[a], is |-> "response"] \in Claims
         /\ [body |-> BodyOf[a], is |-> "response"] # Null
BY AttemptAssumption, NoClaimAssumption DEF Claims

(* An attempt that ends without success leaves the others as they were, and its
   key if it was not admitted. *)
LEMMA EndsUnadmitted ==
  ASSUME KeysInv, NEW a \in AppendOp, NEW to \in Stages \ {"appending", "ok"}, Goes(a, to),
         \/ claim' = claim
         \/ Admitted(a) /\ \E v \in Claims \cup {Null} : SetClaim(a, v)
         \/ Free(a) /\ SetClaim(a, Mine(a))
  PROVE  KeysInv'
<1>1. ClaimTypes'
  BY MineIsClaim DEF KeysInv, ClaimTypes, Goes, SetClaim
<1>2. ASSUME ~ClaimsMayLapse PROVE (KeyIsHeld /\ DeliveryHolds)'
  <2>1. \A b \in AppendOp : Admitted(b)' => Admitted(b) /\ b # a /\ stage'[b] = stage[b]
    BY DEF KeysInv, ClaimTypes, Goes, Admitted, Stages
  <2>2. \A b \in AppendOp : Admitted(b)' => ClaimOf(b)' = ClaimOf(b)
    <3>1. SUFFICES ASSUME NEW b \in AppendOp, Admitted(b)' PROVE ClaimOf(b)' = ClaimOf(b)
      OBVIOUS
    <3>2. KeyOf[a] \in Key /\ KeyOf[b] \in Key
      BY AttemptAssumption
    <3>3. CASE claim' = claim
      BY <3>3 DEF ClaimOf
    <3>4. CASE Admitted(a) /\ \E v \in Claims \cup {Null} : SetClaim(a, v)
      <4>1. KeyOf[a] # KeyOf[b]
        BY <1>2, <2>1, <3>1, <3>4 DEF KeysInv, KeyIsHeld, SameCommand
      <4>2. QED
        BY <3>2, <3>4, <4>1 DEF KeysInv, ClaimTypes, SetClaim, ClaimOf
    <3>5. CASE Free(a) /\ SetClaim(a, Mine(a))
      <4>1. KeyOf[a] # KeyOf[b]
        BY <1>2, <2>1, <3>1, <3>5 DEF KeysInv, KeyIsHeld, Free, ClaimOf
      <4>2. QED
        BY <3>2, <3>5, <4>1 DEF KeysInv, ClaimTypes, SetClaim, ClaimOf
    <3>6. QED
      BY <3>3, <3>4, <3>5
  <2>3. KeyIsHeld'
    BY <1>2, <2>1, <2>2 DEF KeysInv, KeyIsHeld, SameCommand, Admitted
  <2>4. DeliveryHolds'
    BY <1>2, <2>1, <2>2, AttemptAssumption DEF KeysInv, DeliveryHolds, Admitted
  <2>5. QED
    BY <2>3, <2>4
<1>3. QED
  BY <1>1, <1>2 DEF KeysInv

(* SET NX: the key was free, so nobody of the command was admitted. *)
LEMMA Claiming ==
  ASSUME KeysInv, NEW a \in AppendOp, ClaimAndAppend(a)
  PROVE  KeysInv'
<1>1. ClaimTypes'
  BY MineIsClaim DEF KeysInv, ClaimTypes, ClaimAndAppend, Goes, SetClaim, Stages
<1>2. ASSUME ~ClaimsMayLapse PROVE (KeyIsHeld /\ DeliveryHolds)'
  <2>1. /\ ClaimOf(a)' = Mine(a) /\ stage'[a] = "appending"
        /\ \A b \in AppendOp : b # a => stage'[b] = stage[b]
        /\ \A b \in AppendOp : KeyOf[b] # KeyOf[a] => ClaimOf(b)' = ClaimOf(b)
    BY AttemptAssumption DEF KeysInv, ClaimTypes, ClaimAndAppend, Goes, SetClaim, ClaimOf
  <2>2. \A b \in AppendOp : SameCommand(a, b) => ~Admitted(b)
    BY <1>2 DEF KeysInv, KeyIsHeld, ClaimAndAppend, Free, ClaimOf, SameCommand
  <2>3. Mine(a) # Null
    BY MineIsClaim
  <2>4. KeyIsHeld'
    BY <1>2, <2>1, <2>2, <2>3 DEF KeysInv, KeyIsHeld, SameCommand, Admitted
  <2>5. DeliveryHolds'
    <3>1. SUFFICES ASSUME NEW b \in Patch, stage'[b] = "appending"
                   PROVE  ClaimOf(b)'.is = "applied"
      BY DEF DeliveryHolds
    <3>2. b \in AppendOp
      BY AttemptAssumption
    <3>3. CASE b = a
      BY <2>1, <3>3 DEF Mine
    <3>4. CASE b # a
      <4>1. Admitted(b) /\ stage[b] = "appending"
        BY <2>1, <3>1, <3>2, <3>4 DEF Admitted
      <4>2. ClaimOf(b)' = ClaimOf(b)
        BY <2>1, <2>2, <3>2, <4>1 DEF SameCommand
      <4>3. QED
        BY <1>2, <4>1, <4>2 DEF KeysInv, DeliveryHolds
    <3>5. QED
      BY <3>3, <3>4
  <2>6. QED
    BY <2>4, <2>5
<1>3. QED
  BY <1>1, <1>2 DEF KeysInv

(* A success leaves a key that is not in progress; nobody else was admitted. *)
LEMMA Remembering ==
  ASSUME KeysInv, NEW a \in AppendOp, Remember(a)
  PROVE  KeysInv'
<1>1. ClaimTypes'
  BY ResponseIsClaim DEF KeysInv, ClaimTypes, Remember, KeepResponse, Goes, SetClaim, Stages
<1>2. ASSUME ~ClaimsMayLapse PROVE (KeyIsHeld /\ DeliveryHolds)'
  <2>1. /\ stage[a] = "appending" /\ stage'[a] = "ok"
        /\ \A b \in AppendOp : b # a => stage'[b] = stage[b]
    BY DEF KeysInv, ClaimTypes, Remember, Appended, Goes
  <2>2. \A b \in AppendOp : KeyOf[b] # KeyOf[a] => ClaimOf(b)' = ClaimOf(b)
    BY AttemptAssumption DEF KeysInv, ClaimTypes, Remember, KeepResponse, SetClaim, ClaimOf
  <2>3. \A b \in AppendOp : SameCommand(a, b) /\ Admitted(b) => b = a
    BY <1>2, <2>1 DEF KeysInv, KeyIsHeld, Admitted
  <2>4. ClaimOf(a)' # Null /\ ClaimOf(a)'.is # "progress"
    <3>1. CASE a \in Patch
      BY <1>2, <2>1, <3>1 DEF KeysInv, KeyIsHeld, DeliveryHolds, Admitted, Remember,
                              KeepResponse, ClaimOf
    <3>2. CASE a \notin Patch
      <4>1. ClaimOf(a)' = [body |-> BodyOf[a], is |-> "response"]
        BY <3>2, AttemptAssumption DEF KeysInv, ClaimTypes, Remember, KeepResponse, SetClaim, ClaimOf
      <4>2. QED
        BY <4>1, ResponseIsClaim
    <3>3. QED
      BY <3>1, <3>2
  <2>5. KeyIsHeld'
    BY <1>2, <2>1, <2>2, <2>3, <2>4 DEF KeysInv, KeyIsHeld, SameCommand, Admitted
  <2>6. DeliveryHolds'
    <3>1. SUFFICES ASSUME NEW b \in Patch, stage'[b] = "appending"
                   PROVE  ClaimOf(b)'.is = "applied"
      BY DEF DeliveryHolds
    <3>2. b \in AppendOp /\ b # a
      BY <2>1, <3>1, AttemptAssumption
    <3>3. Admitted(b) /\ stage[b] = "appending"
      BY <2>1, <3>1, <3>2 DEF Admitted
    <3>4. ClaimOf(b)' = ClaimOf(b)
      BY <2>2, <2>3, <3>2, <3>3 DEF SameCommand
    <3>5. QED
      BY <1>2, <3>3, <3>4 DEF KeysInv, DeliveryHolds
  <2>7. QED
    BY <2>5, <2>6
<1>3. QED
  BY <1>1, <1>2 DEF KeysInv

(* A claim in progress that lapses is not the key of anyone admitted. *)
LEMMA Lapsing ==
  ASSUME KeysInv, NEW k \in Key, ClaimLapses(k)
  PROVE  KeysInv'
<1>1. ClaimTypes'
  BY DEF KeysInv, ClaimTypes, ClaimLapses
<1>2. ASSUME ~ClaimsMayLapse PROVE (KeyIsHeld /\ DeliveryHolds)'
  <2>1. \A a \in AppendOp : Admitted(a) => KeyOf[a] # k
    BY <1>2 DEF KeysInv, KeyIsHeld, ClaimLapses, MayLapse, Admitted, ClaimOf
  <2>2. \A a \in AppendOp : Admitted(a) => ClaimOf(a)' = ClaimOf(a)
    BY <2>1, AttemptAssumption DEF KeysInv, ClaimTypes, ClaimLapses, ClaimOf
  <2>3. stage' = stage
    BY DEF ClaimLapses
  <2>4. KeyIsHeld'
    BY <1>2, <2>2, <2>3 DEF KeysInv, KeyIsHeld, SameCommand, Admitted
  <2>5. DeliveryHolds'
    BY <1>2, <2>2, <2>3, AttemptAssumption DEF KeysInv, DeliveryHolds, Admitted
  <2>6. QED
    BY <2>4, <2>5
<1>3. QED
  BY <1>1, <1>2 DEF KeysInv

(* A crash admits nobody and leaves the keys alone. *)
LEMMA Crashing ==
  ASSUME KeysInv, OpCrash
  PROVE  KeysInv'
<1>1. ClaimTypes'
  BY DEF KeysInv, ClaimTypes, OpCrash, Stages
<1>2. claim' = claim /\ \A a \in AppendOp : Admitted(a)' => stage'[a] = stage[a]
  BY DEF KeysInv, ClaimTypes, OpCrash, Admitted
<1>3. ASSUME ~ClaimsMayLapse PROVE (KeyIsHeld /\ DeliveryHolds)'
  <2>1. KeyIsHeld'
    BY <1>2, <1>3 DEF KeysInv, KeyIsHeld, SameCommand, Admitted, ClaimOf
  <2>2. DeliveryHolds'
    BY <1>2, <1>3, AttemptAssumption DEF KeysInv, DeliveryHolds, Admitted, ClaimOf
  <2>3. QED
    BY <2>1, <2>2
<1>4. QED
  BY <1>1, <1>3 DEF KeysInv

(* Every step keeps it. *)
LEMMA KeysInductive == KeysInv /\ [OpNext]_allVars => KeysInv'
<1>1. SUFFICES ASSUME KeysInv, [OpNext]_allVars PROVE KeysInv'
  OBVIOUS
<1>2. CASE (ManagerStep /\ UNCHANGED opVars) \/ UNCHANGED allVars
  BY <1>1, <1>2 DEF opVars, allVars, KeysInv, ClaimTypes, KeyIsHeld, DeliveryHolds, Admitted, ClaimOf
<1>3. ASSUME NEW a \in AppendOp, AttemptStep(a) PROVE KeysInv'
  <2>1. CASE Select(a)
    BY <1>1, <2>1, EndsUnadmitted DEF Select, Stages, Refusals
  <2>2. CASE LookUp(a)
    BY <1>1, <2>2, EndsUnadmitted DEF LookUp, CachedAnswer, Stages, Refusals
  <2>3. CASE ClaimAndAppend(a)
    BY <1>1, <2>3, Claiming
  <2>4. CASE ClaimTaken(a)
    BY <1>1, <2>4, EndsUnadmitted DEF ClaimTaken, Stages, Refusals
  <2>5. CASE Remember(a)
    BY <1>1, <2>5, Remembering
  <2>6. CASE Withdraw(a)
    BY <1>1, <2>6, EndsUnadmitted DEF Withdraw, AppendFailed, Admitted, Stages
  <2>7. QED
    BY <1>3, <2>1, <2>2, <2>3, <2>4, <2>5, <2>6 DEF AttemptStep
<1>4. ASSUME NEW a \in AppendOp, CommandRejects(a) PROVE KeysInv'
  <2>1. Goes(a, "error") /\ "error" \in Stages \ {"appending", "ok"}
    BY <1>4 DEF CommandRejects, Stages
  <2>2. \/ claim' = claim
        \/ Admitted(a) /\ \E v \in Claims \cup {Null} : SetClaim(a, v)
        \/ Free(a) /\ SetClaim(a, Mine(a))
    BY <1>4, ResponseIsClaim DEF CommandRejects, KeepResponse, Appended, AppendFailed, Admitted
  <2>3. QED
    BY <1>1, <2>1, <2>2, EndsUnadmitted
<1>5. ASSUME NEW k \in Key, ClaimLapses(k) PROVE KeysInv'
  BY <1>1, <1>5, Lapsing
<1>6. CASE OpCrash
  BY <1>1, <1>6, Crashing
<1>7. QED
  BY <1>1, <1>2, <1>3, <1>4, <1>5, <1>6 DEF OpNext

(* executeContentOperation and applyNodeBodyPatch: for any attempts, keys and
   bodies, and whatever fails, one attempt of a command succeeds at most, unless
   an append outlives its claim. *)
THEOREM OneSuccess == OpSpec => []OneSuccessPerKey
<1>1. OpInit => KeysInv
  BY AttemptAssumption DEF OpInit, KeysInv, ClaimTypes, KeyIsHeld, DeliveryHolds, Admitted, Stages
<1>2. KeysInv => OneSuccessPerKey
  BY DEF KeysInv, KeyIsHeld, OneSuccessPerKey, Admitted
<1>3. QED
  BY <1>1, <1>2, KeysInductive, PTL DEF OpSpec

------------------------------------------------------------------------------
(* Attempts and the calls they make. *)

(* A step of an attempt is one of the manager, or leaves all but failures alone. *)
LEMMA ManagerSees == ASSUME [OpNext]_allVars PROVE [Next]_vars \/ (RedisMayFail /\ OnlyFails)
<1>1. CASE ManagerStep \/ UNCHANGED allVars
  BY <1>1 DEF Next, allVars
<1>2. ASSUME NEW a \in AppendOp, AttemptStep(a) PROVE [Next]_vars
  BY <1>2 DEF AttemptStep, Select, LookUp, ClaimAndAppend, ClaimTaken, Remember, Withdraw, Next
<1>3. ASSUME NEW a \in AppendOp, CommandRejects(a) PROVE RedisMayFail /\ OnlyFails
  BY <1>3 DEF CommandRejects, OnlyFails, Fail
<1>4. ASSUME NEW k \in Key, ClaimLapses(k) PROVE UNCHANGED vars
  BY <1>4 DEF ClaimLapses
<1>5. CASE OpCrash
  BY <1>5 DEF OpCrash, Next
<1> QED BY <1>1, <1>2, <1>3, <1>4, <1>5 DEF OpNext

(* Who is refused has not called, who is served has; and as long as nothing fails
   who called is admitted. *)
StagesMatchCalls ==
  /\ \A a \in AppendOp :
       /\ stage[a] \in Refusals \cup {"new", "selected", "unclaimed"} => call[a] = "new"
       /\ stage[a] = "appending" => call[a] # "new"
       /\ stage[a] = "ok" => call[a] = "done"
  /\ failures = 0 /\ crashes = 0 /\ row = "live" =>
       \A a \in AppendOp : call[a] # "new" => Admitted(a) /\ call[a] # "failed"

CallsInv == KeysInv /\ TypeInv /\ CallInv /\ StagesMatchCalls

(* The manager's invariants are those of the whole. *)
LEMMA ManagerInvs ==
  ASSUME TypeInv, CallInv, [OpNext]_allVars
  PROVE  TypeInv' /\ CallInv'
<1>1. CASE [Next]_vars
  BY <1>1, NextType, NextCalls
<1>2. CASE OnlyFails
  BY <1>2, OnlyFailsKeeps
<1> QED BY <1>1, <1>2, ManagerSees

(* A step that changes only how far attempts are. *)
LEMMA StageSteps ==
  ASSUME CallsInv, NEW a \in AppendOp, NEW to \in Stages, Goes(a, to), UNCHANGED <<call, row, crashes>>,
         failures' = failures \/ (failures' > 0 /\ to = "error"),
         \/ to \in Refusals \cup {"selected", "unclaimed"} /\ call[a] = "new"
         \/ to = "ok" /\ call[a] = "done"
         \/ to = "error" /\ (call[a] = "failed" \/ failures' > 0)
  PROVE  StagesMatchCalls'
<1>1. stage \in [AppendOp -> Stages] /\ stage' = [stage EXCEPT ![a] = to]
  BY DEF CallsInv, KeysInv, ClaimTypes, Goes
<1>2. \A b \in AppendOp : b # a => stage'[b] = stage[b]
  BY <1>1
<1>3. stage'[a] = to
  BY <1>1
<1>4. failures \in Nat
  BY DEF CallsInv, TypeInv, TypeOK, GhostTypes
<1> QED BY <1>2, <1>3, <1>4 DEF CallsInv, StagesMatchCalls, Admitted, Refusals

LEMMA StagesInductive == CallsInv /\ [OpNext]_allVars => StagesMatchCalls'
<1>1. SUFFICES ASSUME CallsInv, [OpNext]_allVars PROVE StagesMatchCalls'
  OBVIOUS
<1> USE DEF vars, rest, ghostVars, faultVars, storeVars
<1>t. /\ stage \in [AppendOp -> Stages] /\ failures \in Nat /\ crashes \in Nat
      /\ call \in [AppendOp -> {"new", "open", "done", "failed"}] /\ StagesMatchCalls
  BY <1>1 DEF CallsInv, KeysInv, ClaimTypes, TypeInv, TypeOK, GhostTypes
<1>2. CASE UNCHANGED allVars
  BY <1>t, <1>2 DEF allVars, opVars, StagesMatchCalls, Admitted
<1>3. CASE ManagerStep /\ UNCHANGED opVars
  <2>1. Move /\ FaultsStay /\ QueuedIsOpen /\ TypeOK
    BY <1>1, <1>3, ManagerMoves DEF CallsInv, CallInv, TypeInv
  <2>2. \A op \in AppendOp :
          /\ call'[op] = call[op] \/ (call[op] = "open" /\ call'[op] \in {"done", "failed"})
          /\ call'[op] = "failed" => call[op] = "failed" \/ failures' > 0 \/ row # "live"
    <3>1. CASE call' = call
      BY <3>1
    <3>2. ASSUME NEW outcome \in {"done", "failed"}, Answer(outcome), queue # <<>>, queue' = Tail(queue),
                 outcome = "failed" => failures' > 0 \/ row # "live"
          PROVE  \A op \in AppendOp :
            /\ call'[op] = call[op] \/ (call[op] = "open" /\ call'[op] \in {"done", "failed"})
            /\ call'[op] = "failed" => call[op] = "failed" \/ failures' > 0 \/ row # "live"
      <4>1. \A op \in AppendOp :
              call'[op] # call[op] => call[op] = "open" /\ call'[op] \in {"done", "failed"}
        BY <2>1, <3>2, QueueShrinks
      <4>2. \A op \in AppendOp : call'[op] = call[op] \/ call'[op] = outcome
        BY <3>2 DEF Answer
      <4> QED BY <3>2, <4>1, <4>2
    <3> QED BY <2>1, <3>1, <3>2 DEF Move
  <2>3. stage' = stage
    BY <1>3 DEF opVars
  <2> QED BY <1>t, <2>1, <2>2, <2>3 DEF StagesMatchCalls, Admitted, FaultsStay
<1>4. ASSUME NEW a \in AppendOp, AttemptStep(a) PROVE StagesMatchCalls'
  <2>1. CASE Select(a)
    BY <1>1, <1>t, <2>1, StageSteps DEF Select, StagesMatchCalls, Stages, Refusals
  <2>2. CASE LookUp(a)
    BY <1>1, <1>t, <2>2, StageSteps DEF LookUp, CachedAnswer, StagesMatchCalls, Stages, Refusals
  <2>3. CASE ClaimAndAppend(a)
    <3>1. /\ stage' = [stage EXCEPT ![a] = "appending"] /\ call' = [call EXCEPT ![a] = "open"]
          /\ UNCHANGED <<row, failures, crashes>>
      BY <2>3 DEF ClaimAndAppend, Goes, AppendRequested
    <3> QED BY <1>t, <3>1 DEF StagesMatchCalls, Admitted, Refusals
  <2>4. CASE ClaimTaken(a)
    BY <1>1, <1>t, <2>4, StageSteps DEF ClaimTaken, ReadyToClaim, StagesMatchCalls, Stages, Refusals
  <2>5. CASE Remember(a)
    BY <1>1, <1>t, <2>5, StageSteps DEF Remember, Appended, Stages
  <2>6. CASE Withdraw(a)
    BY <1>1, <1>t, <2>6, StageSteps DEF Withdraw, AppendFailed, Stages
  <2> QED BY <1>4, <2>1, <2>2, <2>3, <2>4, <2>5, <2>6 DEF AttemptStep
<1>5. ASSUME NEW a \in AppendOp, CommandRejects(a) PROVE StagesMatchCalls'
  <2>1. Goes(a, "error") /\ UNCHANGED <<call, row, crashes>> /\ failures' = failures + 1
    BY <1>5 DEF CommandRejects, Fail
  <2> QED BY <1>1, <1>t, <2>1, StageSteps DEF Stages
<1>6. ASSUME NEW k \in Key, ClaimLapses(k) PROVE StagesMatchCalls'
  BY <1>t, <1>6 DEF ClaimLapses, StagesMatchCalls, Admitted
<1>7. CASE OpCrash
  <2>1. /\ crashes' = crashes + 1
        /\ call' = [op \in AppendOp |-> IF call[op] = "open" THEN "failed" ELSE call[op]]
        /\ stage' = [a \in AppendOp |->
                       IF stage[a] \in {"selected", "unclaimed", "appending"} THEN "lost" ELSE stage[a]]
    BY <1>7 DEF OpCrash, Crash
  <2> QED BY <1>t, <2>1 DEF StagesMatchCalls, Admitted, Refusals
<1> QED BY <1>1, <1>2, <1>3, <1>4, <1>5, <1>6, <1>7 DEF OpNext

LEMMA InitCallsInv == OpInit => CallsInv
<1>1. SUFFICES ASSUME OpInit PROVE CallsInv
  OBVIOUS
<1>2. KeysInv
  BY <1>1, AttemptAssumption DEF OpInit, KeysInv, ClaimTypes, KeyIsHeld, DeliveryHolds, Admitted, Stages
<1>3. TypeInv /\ CallInv
  BY <1>1, InitType, InitCalls DEF OpInit
<1>4. StagesMatchCalls
  BY <1>1 DEF OpInit, Init, StagesMatchCalls, Refusals
<1> QED BY <1>2, <1>3, <1>4 DEF CallsInv

LEMMA NextCallsInv == CallsInv /\ [OpNext]_allVars => CallsInv'
  BY KeysInductive, ManagerInvs, StagesInductive DEF CallsInv

LEMMA CallsInvariant == OpSpec => []CallsInv
  BY InitCallsInv, NextCallsInv, PTL DEF OpSpec

(* Every claim and stage has its type; who is refused has not touched the document,
   and who is told of a success was answered by appendMarkdown. *)
THEOREM OpTypeCorrect == OpSpec => []OpTypeOK
<1>1. CallsInv => OpTypeOK
  BY DEF CallsInv, KeysInv, StagesMatchCalls, OpTypeOK
<1> QED BY <1>1, CallsInvariant, PTL

(* commandEventId and idempotencyKey: as long as nothing fails, no process dies and
   no append outlives its claim, no text of a command is in the document twice. *)
THEOREM AppendsOnce == OpSpec => []NeverAppendedTwice
<1>1. CallsInv => NeverAppendedTwice
  <2>1. SUFFICES ASSUME CallsInv, failures = 0, crashes = 0, ~ClaimsMayLapse, row = "live",
                        NEW a \in AppendOp, NEW b \in AppendOp, a \in Appendices, b \in Appendices,
                        SameCommand(a, b)
                 PROVE  a = b
    BY DEF NeverAppendedTwice, AppendedOnce
  <2>2. call[a] # "new" /\ call[b] # "new"
    BY <2>1 DEF CallsInv, CallInv, NewIsNowhere, Appendices
  <2>3. Admitted(a) /\ Admitted(b)
    BY <2>1, <2>2 DEF CallsInv, StagesMatchCalls
  <2> QED BY <2>1, <2>3 DEF CallsInv, KeysInv, KeyIsHeld
<1> QED BY <1>1, CallsInvariant, PTL

------------------------------------------------------------------------------
(* What a caller may rely on. *)

(* A response in Redis, and who was told "duplicate", have an attempt that succeeded. *)
AnswersAreBacked ==
  /\ \A k \in Key : claim[k] # Null /\ claim[k].is = "response" =>
       \E b \in AppendOp : KeyOf[b] = k /\ BodyOf[b] = claim[k].body /\ stage[b] = "ok"
  /\ \A a \in AppendOp : stage[a] = "duplicate" =>
       \E b \in AppendOp : SameCommand(a, b) /\ BodyOf[a] = BodyOf[b] /\ stage[b] = "ok"

(* An attempt that stops short of a success tells nobody of one. *)
LEMMA BackedStays ==
  ASSUME ClaimTypes, AnswersAreBacked,
         \A b \in AppendOp : stage[b] = "ok" => stage'[b] = "ok",
         \A b \in AppendOp : stage'[b] = "duplicate" => stage[b] = "duplicate",
         \A k \in Key : claim'[k] # Null /\ claim'[k].is = "response" => claim'[k] = claim[k]
  PROVE  AnswersAreBacked'
BY DEF AnswersAreBacked, SameCommand

LEMMA BackedInductive ==
  ASSUME RedisMayFail = FALSE \/ failures' = 0, CallsInv, AnswersAreBacked, [OpNext]_allVars
  PROVE  AnswersAreBacked'
<1>t. ClaimTypes /\ stage \in [AppendOp -> Stages] /\ claim \in [Key -> Claims \cup {Null}]
  BY DEF CallsInv, KeysInv, ClaimTypes
<1>k. \A a \in AppendOp : KeyOf[a] \in Key /\ BodyOf[a] \in Body
  BY AttemptAssumption
<1>1. CASE UNCHANGED opVars
  BY <1>1, <1>t, BackedStays DEF opVars
<1>2. ASSUME NEW a \in AppendOp, NEW to \in Stages \ {"ok", "duplicate"}, Goes(a, to), stage[a] # "ok",
             \/ claim' = claim
             \/ \E v \in Claims \cup {Null} : (v # Null => v.is # "response") /\ SetClaim(a, v)
      PROVE  AnswersAreBacked'
  <2>1. \A b \in AppendOp : (stage[b] = "ok" => stage'[b] = "ok")
                            /\ (stage'[b] = "duplicate" => stage[b] = "duplicate")
    BY <1>t, <1>2 DEF Goes
  <2>2. \A k \in Key : claim'[k] # Null /\ claim'[k].is = "response" => claim'[k] = claim[k]
    BY <1>t, <1>2 DEF SetClaim
  <2> QED BY <1>t, <2>1, <2>2, BackedStays
<1>3. ASSUME NEW a \in AppendOp, AttemptStep(a) PROVE AnswersAreBacked'
  <2>1. CASE Select(a)
    BY <1>2, <2>1 DEF Select, Stages, Refusals
  <2>2. CASE LookUp(a)
    <3>1. CASE Goes(a, "duplicate") /\ claim' = claim
      <4>1. /\ ClaimOf(a) # Null /\ ClaimOf(a).is = "response" /\ ClaimOf(a).body = BodyOf[a]
        BY <1>t, <2>2, <3>1 DEF LookUp, CachedAnswer, Goes
      <4>2. PICK b \in AppendOp : KeyOf[b] = KeyOf[a] /\ BodyOf[b] = BodyOf[a] /\ stage[b] = "ok"
        BY <1>k, <4>1 DEF AnswersAreBacked, ClaimOf
      <4>3. stage'[b] = "ok" /\ \A c \in AppendOp : c # a => stage'[c] = stage[c]
        BY <1>t, <2>2, <3>1, <4>2 DEF LookUp, Goes
      <4>4. \A c \in AppendOp : stage[c] = "ok" => stage'[c] = "ok"
        BY <2>2, <4>3 DEF LookUp
      <4> QED BY <3>1, <4>2, <4>3, <4>4 DEF AnswersAreBacked, SameCommand
    <3>2. CASE \E to \in Stages \ {"ok", "duplicate"} : Goes(a, to)
      BY <1>2, <2>2, <3>2 DEF LookUp
    <3> QED BY <2>2, <3>1, <3>2 DEF LookUp, CachedAnswer, Stages, Refusals
  <2>3. CASE ClaimAndAppend(a)
    <3>1. Mine(a) \in Claims \cup {Null} /\ Mine(a).is # "response"
      BY MineIsClaim DEF Mine
    <3> QED BY <1>2, <2>3, <3>1 DEF ClaimAndAppend, ReadyToClaim, Stages, Refusals
  <2>4. CASE ClaimTaken(a)
    BY <1>2, <2>4 DEF ClaimTaken, ReadyToClaim, Stages, Refusals
  <2>5. CASE Remember(a)
    <3>1. /\ stage'[a] = "ok" /\ \A c \in AppendOp : c # a => stage'[c] = stage[c]
          /\ stage[a] = "appending"
      BY <1>t, <2>5 DEF Remember, Appended, Goes
    <3>2. \A k \in Key : claim'[k] = claim[k]
                         \/ (k = KeyOf[a] /\ claim'[k].body = BodyOf[a])
      BY <1>t, <2>5 DEF Remember, KeepResponse, SetClaim
    <3> QED BY <1>k, <3>1, <3>2 DEF AnswersAreBacked, SameCommand
  <2>6. CASE Withdraw(a)
    BY <1>2, <2>6 DEF Withdraw, AppendFailed, Stages
  <2> QED BY <1>3, <2>1, <2>2, <2>3, <2>4, <2>5, <2>6 DEF AttemptStep
<1>4. ASSUME NEW a \in AppendOp, CommandRejects(a) PROVE FALSE
  BY <1>4 DEF CommandRejects, Fail, CallsInv, TypeInv, TypeOK, GhostTypes
<1>5. ASSUME NEW k \in Key, ClaimLapses(k) PROVE AnswersAreBacked'
  <2>1. stage' = stage /\ \A j \in Key : claim'[j] # Null => claim'[j] = claim[j]
    BY <1>t, <1>5 DEF ClaimLapses
  <2> QED BY <1>t, <2>1, BackedStays
<1>6. CASE OpCrash
  <2>1. /\ claim' = claim
        /\ \A b \in AppendOp : (stage[b] = "ok" => stage'[b] = "ok")
                               /\ (stage'[b] = "duplicate" => stage[b] = "duplicate")
    BY <1>t, <1>6 DEF OpCrash
  <2> QED BY <1>t, <2>1, BackedStays
<1> QED BY <1>1, <1>3, <1>4, <1>5, <1>6 DEF OpNext, allVars

(* executeContentOperation: as long as no store rejects, a caller that is told of a
   success, its own or that of an earlier attempt, need not retry. *)
THEOREM SuccessStored ==
  ASSUME RedisMayFail = FALSE \/ StrayMessages = FALSE
  PROVE  OpSpec => []SuccessIsStored
<1> DEFINE Backed == RedisMayFail = FALSE \/ failures = 0 => AnswersAreBacked
           Inv == CallsInv /\ KeptInv /\ ServedInv /\ Backed
<1>1. OpInit => KeptInv /\ ServedInv /\ Backed
  BY InitKept, InitDurable, InitEdits DEF OpInit, ServedInv, AnswersAreBacked
<1>2. Inv /\ [OpNext]_allVars => KeptInv' /\ ServedInv' /\ Backed'
  <2>1. SUFFICES ASSUME Inv, [OpNext]_allVars PROVE KeptInv' /\ ServedInv' /\ Backed'
    OBVIOUS
  <2>2. TypeInv /\ failures \in Nat
    BY <2>1 DEF CallsInv, TypeInv, TypeOK, GhostTypes
  <2>3. KeptInv' /\ ServedInv' /\ (failures' = 0 => failures = 0)
    <3>1. CASE [Next]_vars
      BY <2>1, <2>2, <3>1, NextKept, NextServed
    <3>2. CASE OnlyFails
      BY <2>1, <2>2, <3>2, OnlyFailsKeeps DEF OnlyFails
    <3> QED BY <2>1, <3>1, <3>2, ManagerSees
  <2>4. Backed'
    BY <2>1, <2>3, BackedInductive
  <2> QED BY <2>3, <2>4
<1>3. Inv => SuccessIsStored
  <2>1. SUFFICES ASSUME Inv, row = "live", failures = 0
                 PROVE  \A a \in AppendOp :
                          /\ stage[a] = "ok" => a \in db
                          /\ stage[a] = "duplicate" =>
                               \E b \in db : SameCommand(a, b) /\ BodyOf[a] = BodyOf[b]
    BY DEF SuccessIsStored
  <2>2. \A a \in AppendOp : stage[a] = "ok" => a \in db
    BY <2>1 DEF CallsInv, StagesMatchCalls, ServedInv, DInv, Promised, AnsweredAppendIsDurable
  <2> QED BY <2>1, <2>2 DEF AnswersAreBacked
<1> QED BY <1>1, <1>2, <1>3, InitCallsInv, NextCallsInv, PTL DEF OpSpec

------------------------------------------------------------------------------
(* What attempts see of the manager. *)

(* Every attempt, retry and crash is one of the things that may happen to the
   manager: an append that is asked for, or a failure of somebody else's. *)
LEMMA AttemptsShare == OpSpec => SharedSpec
<1>1. OpInit => Init
  BY DEF OpInit
<1>2. [OpNext]_allVars => [Next \/ OnlyFails]_vars
  BY ManagerSees
<1> QED BY <1>1, <1>2, PTL DEF OpSpec, SharedSpec

(* Under the operations of any number of callers, retries included, the manager is
   one durable document and keeps what it promises, as long as Redis rejects nothing. *)
THEOREM OperationsKeepPromises ==
  ASSUME RedisMayFail = FALSE
  PROVE  OpSpec => /\ ImplementsDurableDoc
                   /\ [](RecordedVectorIsDurable /\ AnsweredAppendIsDurable /\ EmbedJobsAreDurable)
BY AttemptsShare, SharedRefinement, SharedPromises, PTL

(* An attempt whose append is under way has it in the queue, or has the answer. *)
AnswerComes(a) ==
  Appended(a) \/ AppendFailed(a) \/ (stage[a] = "appending" /\ \E i \in 1..Len(queue) : queue[i] = a)

(* A claim in progress is free to run out, or has such an attempt: the safety half
   of ClaimsEnd. *)
ClaimsGoOn ==
  \A k \in Key : InProgress(k) =>
    MayLapse(k) \/ \E a \in AppendOp : KeyOf[a] = k /\ AnswerComes(a)

(* executeContentOperation: whatever fails and whoever restarts, a key is never
   claimed by an attempt that nothing will answer. *)
THEOREM ClaimsNeverStuck == OpSpec => []ClaimsGoOn
<1>1. CallsInv /\ NobodyIsForgotten => ClaimsGoOn
  <2>1. SUFFICES ASSUME CallsInv, NobodyIsForgotten, NEW k \in Key, InProgress(k), ~MayLapse(k)
                 PROVE  \E a \in AppendOp : KeyOf[a] = k /\ AnswerComes(a)
    BY DEF ClaimsGoOn
  <2>2. PICK a \in AppendOp : KeyOf[a] = k /\ stage[a] = "appending"
    BY <2>1 DEF InProgress, MayLapse
  <2>3. call[a] \in {"open", "done", "failed"}
    BY <2>1, <2>2 DEF CallsInv, TypeInv, TypeOK, GhostTypes, StagesMatchCalls
  <2>4. AnswerComes(a)
    BY <2>1, <2>2, <2>3 DEF AnswerComes, Appended, AppendFailed, NobodyIsForgotten, OpenIsQueued
  <2> QED BY <2>2, <2>4
<1> QED BY <1>1, CallsInvariant, AttemptsShare, SharedService, PTL
=============================================================================
