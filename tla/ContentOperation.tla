--------------------------- MODULE ContentOperation ---------------------------
(***************************************************************************)
(* executeContentOperation and applyNodeBodyPatch of                       *)
(* src/src/domain/node-content/service/node-content.service.ts for one     *)
(* node, on top of its document manager.  An attempt is one HTTP request   *)
(* or one delivery of a NODE_BODY_PATCH event; its append is the operation *)
(* of the same name.  Attempts with one key share a Redis key, which holds *)
(* the claim.  Keys that live a day are not seen to expire.                *)
(***************************************************************************)
EXTENDS YjsDocManager

CONSTANTS
  Patch,          \* the attempts that are deliveries; the others are requests
  Key, KeyOf,     \* node, user or actor, and idempotencyKey or commandEventId
  Body, BodyOf,   \* what requestHash tells apart
  ClaimsMayLapse  \* an append may take longer than a claim lives (60 s)

ASSUME AttemptAssumption ==
  /\ Patch \subseteq AppendOp /\ KeyOf \in [AppendOp -> Key] /\ BodyOf \in [AppendOp -> Body]
  /\ \A a \in Patch, b \in AppendOp \ Patch : KeyOf[a] # KeyOf[b]
ASSUME LapseAssumption == ClaimsMayLapse \in BOOLEAN

VARIABLES
  claim,   \* per key: Null, or what Redis holds
  stage    \* per attempt: how far it is, or how it ended

opVars == <<claim, stage>>
allVars == <<vars, opVars>>

Claims == [body : Body, is : {"progress", "response", "applied"}]
ASSUME NoClaimAssumption == Null \notin Claims

Refusals == {"refused", "reused", "busy", "duplicate"}
Stages == {"new", "selected", "unclaimed", "appending", "ok", "error", "lost"} \cup Refusals

ClaimTypes == claim \in [Key -> Claims \cup {Null}] /\ stage \in [AppendOp -> Stages]

(* Values; who is refused has not called appendMarkdown, who is served has, and
   was answered. *)
OpTypeOK ==
  /\ ClaimTypes
  /\ \A a \in AppendOp :
       /\ stage[a] \in Refusals \cup {"new", "selected", "unclaimed"} => call[a] = "new"
       /\ stage[a] = "appending" => call[a] # "new"
       /\ stage[a] = "ok" => call[a] = "done"

OpInit ==
  /\ Init
  /\ claim = [k \in Key |-> Null] /\ stage = [a \in AppendOp |-> "new"]

ClaimOf(a) == claim[KeyOf[a]]
SetClaim(a, value) == claim' = [claim EXCEPT ![KeyOf[a]] = value]
Goes(a, to) == stage' = [stage EXCEPT ![a] = to]

------------------------------------------------------------------------------
(* One attempt. *)

(* selectNodeById: deleted_at is null. *)
NodeFound == row = "live"

(* The arguments, the role, the row, its dataType. *)
Select(a) ==
  /\ stage[a] = "new"
  /\ (NodeFound /\ Goes(a, "selected")) \/ Goes(a, "refused")
  /\ UNCHANGED <<vars, claim>>

(* Mutant: the hash of the request is not compared. *)
AnyCached(a) == IF ClaimOf(a).is = "response" THEN "duplicate" ELSE "busy"

(* A key that is there: the hash is compared first, then a response looked for. *)
CachedAnswer(a) ==
  IF ClaimOf(a).body # BodyOf[a] THEN "reused"
  ELSE IF ClaimOf(a).is = "response" THEN "duplicate" ELSE "busy"

(* The GET of a request; a VERSION_CONFLICT only where nothing is cached. *)
LookUp(a) ==
  /\ stage[a] = "selected" /\ a \notin Patch
  /\ IF ClaimOf(a) # Null THEN Goes(a, CachedAnswer(a))
     ELSE Goes(a, "unclaimed") \/ Goes(a, "refused")
  /\ UNCHANGED <<vars, claim>>

ReadyToClaim(a) == stage[a] = IF a \in Patch THEN "selected" ELSE "unclaimed"

Mine(a) == [body |-> BodyOf[a], is |-> IF a \in Patch THEN "applied" ELSE "progress"]

(* Mutant: SET without NX. *)
ClaimAnyway(a) == TRUE

Free(a) == ClaimOf(a) = Null

(* SET NX, and the append it allows. *)
ClaimAndAppend(a) ==
  /\ ReadyToClaim(a) /\ Free(a)
  /\ SetClaim(a, Mine(a)) /\ Goes(a, "appending")
  /\ AppendRequested(a)

ClaimTaken(a) ==
  /\ ReadyToClaim(a) /\ ~Free(a)
  /\ Goes(a, "busy")
  /\ UNCHANGED <<vars, claim>>

Appended(a) == stage[a] = "appending" /\ call[a] = "done"
AppendFailed(a) == stage[a] = "appending" /\ call[a] = "failed"

(* Mutant: the claim is released once the append is saved. *)
ForgetResponse(a) == SetClaim(a, Null)

(* The response replaces the claim of a request; that of a delivery stays. *)
KeepResponse(a) ==
  IF a \in Patch THEN UNCHANGED claim ELSE SetClaim(a, [body |-> BodyOf[a], is |-> "response"])

Remember(a) ==
  /\ Appended(a)
  /\ KeepResponse(a) /\ Goes(a, "ok")
  /\ UNCHANGED vars

(* DEL of the key, whoever holds it by now. *)
Withdraw(a) ==
  /\ AppendFailed(a)
  /\ SetClaim(a, Null) /\ Goes(a, "error")
  /\ UNCHANGED vars

(* A command rejects, applied or not, and the handler with it. *)
CommandRejects(a) ==
  /\ RedisMayFail /\ Fail
  /\ \/ stage[a] = "selected" /\ a \notin Patch /\ UNCHANGED claim
     \/ ReadyToClaim(a) /\ (UNCHANGED claim \/ (Free(a) /\ SetClaim(a, Mine(a))))
     \/ Appended(a) /\ a \notin Patch /\ (UNCHANGED claim \/ KeepResponse(a))
     \/ AppendFailed(a) /\ (UNCHANGED claim \/ SetClaim(a, Null))
  /\ Goes(a, "error")
  /\ UNCHANGED <<storeVars, loadVars, docVars, spare, queue, flightVars, stray, ghostVars, crashes>>

------------------------------------------------------------------------------
(* Redis, the process, and the whole. *)

(* Mutant: the claim has no EX. *)
NeverLapses(k) == FALSE

MayLapse(k) ==
  /\ claim[k] # Null /\ claim[k].is = "progress"
  /\ ClaimsMayLapse \/ \A a \in AppendOp : KeyOf[a] = k => stage[a] # "appending"

(* EX 60 of a claim in progress. *)
ClaimLapses(k) ==
  /\ MayLapse(k)
  /\ claim' = [claim EXCEPT ![k] = Null]
  /\ UNCHANGED <<vars, stage>>

(* The handlers die with the process, the keys do not. *)
OpCrash ==
  /\ Crash
  /\ stage' = [a \in AppendOp |->
                 IF stage[a] \in {"selected", "unclaimed", "appending"} THEN "lost" ELSE stage[a]]
  /\ UNCHANGED claim

AttemptStep(a) ==
  Select(a) \/ LookUp(a) \/ ClaimAndAppend(a) \/ ClaimTaken(a) \/ Remember(a) \/ Withdraw(a)

OpNext ==
  \/ ManagerStep /\ UNCHANGED opVars
  \/ \E a \in AppendOp : AttemptStep(a) \/ CommandRejects(a)
  \/ \E k \in Key : ClaimLapses(k)
  \/ OpCrash

OpSpec == OpInit /\ [][OpNext]_allVars

(* An attempt goes on when its append is answered, and a claim expires. *)
OpFairSpec ==
  /\ OpSpec /\ Fairness
  /\ WF_allVars(\E a \in AppendOp : Remember(a) \/ Withdraw(a))
  /\ WF_allVars(\E k \in Key : ClaimLapses(k))
------------------------------------------------------------------------------
SameCommand(a, b) == KeyOf[a] = KeyOf[b]

(* At most one attempt of a command is told that it succeeded, whatever fails
   and however often the process restarts, unless a claim lapsed under it. *)
OneSuccessPerKey ==
  ~ClaimsMayLapse =>
    \A a, b \in AppendOp : SameCommand(a, b) /\ stage[a] = "ok" /\ stage[b] = "ok" => a = b

(* "ok" means that the text is in the row, "duplicate" that the text of another
   attempt of the same command and body is: a caller need not retry. *)
SuccessIsStored ==
  row = "live" /\ failures = 0 =>
    \A a \in AppendOp :
      /\ stage[a] = "ok" => a \in db
      /\ stage[a] = "duplicate" =>
           \E b \in db : SameCommand(a, b) /\ BodyOf[a] = BodyOf[b]

(* commandEventId and idempotencyKey keep a text from being appended twice. *)
Appendices == IF loaded THEN doc \cup db ELSE db
AppendedOnce ==
  row = "live" => \A a, b \in AppendOp \cap Appendices : SameCommand(a, b) => a = b

(* They do as long as no append is told it failed and no claim runs out. *)
NeverAppendedTwice == failures = 0 /\ crashes = 0 /\ ~ClaimsMayLapse => AppendedOnce

(* A claim in progress is replaced by a response or gone, so a retry is not
   told to wait for ever. *)
InProgress(k) == claim[k] # Null /\ claim[k].is = "progress"
ClaimsEnd == \A k \in Key : InProgress(k) ~> ~InProgress(k)
=============================================================================
