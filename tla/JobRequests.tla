---------------------------- MODULE JobRequests ----------------------------
(***************************************************************************)
(* POST /jobs of a control plane without the admission pipeline:           *)
(* ControlPlane.createJob over the SQL idempotency registry                *)
(* (packages/vaulltcore-control server.ts and idempotency.ts,              *)
(* -store-sql registries.ts and distributed-store.ts).                     *)
(*                                                                         *)
(* One tenant, one idempotency key; the handlers run in one process.       *)
(* Claim, fulfill and delete are each one synchronous call of the          *)
(* registry, createJob is another.  Expiry never applies (expires_at is    *)
(* written as NULL) and jobs are never deleted, so the branch for a        *)
(* fulfilled key whose job is missing is not reached.                      *)
(***************************************************************************)
EXTENDS Integers, Sequences

CONSTANTS
  Bodies,          \* request bodies; equal bodies have equal hashes
  Posts,           \* requests
  NoBody,
  MaxPostFaults    \* bound: handlers that die, creations that fail

ASSUME JobRequestsAssumption == NoBody \notin Bodies /\ MaxPostFaults \in Nat

VARIABLES
  idemSlot,       \* the key's row of idempotency_records
  created,    \* the jobs created: body of each, by number
  post,       \* what each request's handler is doing
  postFaults

postVars == <<idemSlot, created, post, postFaults>>

IdemSlot == [hash : Bodies \cup {NoBody}, job : Nat]
NoSlot == [hash |-> NoBody, job |-> 0]

Post == [pc : {"new", "create", "fulfill", "undo", "answered", "refused", "dead"},
         body : Bodies \cup {NoBody}, job : Nat]

JobRequestsTypeOK ==
  /\ idemSlot \in IdemSlot
  /\ created \in Seq(Bodies)
  /\ post \in [Posts -> Post]
  /\ postFaults \in 0..MaxPostFaults
  /\ idemSlot.hash = NoBody => idemSlot.job = 0

JobRequestsInit ==
  /\ idemSlot = NoSlot
  /\ created = <<>>
  /\ post = [p \in Posts |-> [pc |-> "new", body |-> NoBody, job |-> 0]]
  /\ postFaults = 0

-----------------------------------------------------------------------------
KeyConflict(body) == idemSlot.hash \notin {NoBody, body}

(* claim(): conflict, fulfilled, or a slot to create under, whether the    *)
(* call inserted it ("new") or found it unfulfilled ("pending").           *)
ClaimKey(p, body) ==
  /\ post[p].pc = "new"
  /\ \/ /\ KeyConflict(body)
        /\ post' = [post EXCEPT ![p].pc = "refused", ![p].body = body]
        /\ UNCHANGED idemSlot
     \/ /\ ~KeyConflict(body) /\ idemSlot.job # 0
        /\ post' = [post EXCEPT ![p] = [pc |-> "answered", body |-> body, job |-> idemSlot.job]]
        /\ UNCHANGED idemSlot
     \/ /\ ~KeyConflict(body) /\ idemSlot.job = 0
        /\ post' = [post EXCEPT ![p].pc = "create", ![p].body = body]
        /\ idemSlot' = [idemSlot EXCEPT !.hash = body]
  /\ UNCHANGED <<created, postFaults>>

CreateJobFor(p) ==
  /\ post[p].pc = "create"
  /\ created' = Append(created, post[p].body)
  /\ post' = [post EXCEPT ![p].pc = "fulfill", ![p].job = Len(created) + 1]
  /\ UNCHANGED <<idemSlot, postFaults>>

CreateJobFails(p) ==
  /\ post[p].pc = "create" /\ postFaults < MaxPostFaults
  /\ post' = [post EXCEPT ![p].pc = "undo"]
  /\ postFaults' = postFaults + 1
  /\ UNCHANGED <<idemSlot, created>>

(* delete() removes the key whoever holds it by now.                       *)
DeleteKey(p) ==
  /\ post[p].pc = "undo"
  /\ idemSlot' = NoSlot
  /\ post' = [post EXCEPT ![p].pc = "refused"]
  /\ UNCHANGED <<created, postFaults>>

(* The slot id carries the hash: a row of another body is not this one.    *)
OwnSlot(p) == idemSlot.hash = post[p].body

(* fulfill() overwrites the job of its slot; a slot that is gone is left   *)
(* alone, and the client is answered either way.                           *)
FulfillKey(p) ==
  /\ post[p].pc = "fulfill"
  /\ idemSlot' = IF OwnSlot(p) THEN [idemSlot EXCEPT !.job = post[p].job] ELSE idemSlot
  /\ post' = [post EXCEPT ![p].pc = "answered"]
  /\ UNCHANGED <<created, postFaults>>

(* The process dies with every handler it was running.                     *)
HandlersRunning == {p \in Posts : post[p].pc \in {"create", "fulfill", "undo"}}
ProcessDies ==
  /\ HandlersRunning # {} /\ postFaults < MaxPostFaults
  /\ post' = [p \in Posts |-> IF p \in HandlersRunning THEN [post[p] EXCEPT !.pc = "dead"] ELSE post[p]]
  /\ postFaults' = postFaults + 1
  /\ UNCHANGED <<idemSlot, created>>

JobRequestsNext ==
  \/ \E p \in Posts :
       \/ \E body \in Bodies : ClaimKey(p, body)
       \/ CreateJobFor(p) \/ CreateJobFails(p) \/ DeleteKey(p) \/ FulfillKey(p)
  \/ ProcessDies

JobRequestsSpec == JobRequestsInit /\ [][JobRequestsNext]_postVars

-----------------------------------------------------------------------------
(* A client is never answered with the job of another body sent under the  *)
(* same key, through failed creations, deleted slots and restarts          *)
(* (the hash comparison of claim, the hash in the slot id).                *)
AnswerMatchesBody ==
  \A p \in Posts : post[p].pc = "answered" => created[post[p].job] = post[p].body
=============================================================================
