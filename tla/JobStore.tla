------------------------------ MODULE JobStore ------------------------------
(***************************************************************************)
(* The durable state of ONE job and the transactions of SqlJobStore on it  *)
(* (packages/vaulltcore-store-sql/src/sql-store.ts).  Every public method  *)
(* runs inside BEGIN IMMEDIATE ... COMMIT, so each one is a single step.   *)
(*                                                                         *)
(* A lease token is fresh for every acquireLease call and each successful  *)
(* call takes a new ownership generation, so a token is named here by the  *)
(* generation it was granted with; 0 is "no lease".  Time is abstracted to *)
(* one bit: a lease is live or it has expired.                             *)
(*                                                                         *)
(* A transaction that throws (LeaseFencedError, LEASE_HELD) changes        *)
(* nothing: it is the negation of the guard of the operator below, and the *)
(* caller decides what the error does to it.                               *)
(***************************************************************************)
EXTENDS Integers, Sequences

CONSTANTS
  MaxAttempt,   \* bound: ownership generations explored
  MaxEvents,    \* bound: length of the event log explored
  Event,        \* payloads of events
  Body          \* payloads of checkpoints

ASSUME StoreBounds == MaxAttempt \in Nat /\ MaxEvents \in Nat

VARIABLES
  rec,    \* the jobs row joined with the job_leases row
  log,    \* job_events in seq order: the event with seq n is log[n]
  ckpt    \* the job_checkpoints row

storeVars == <<rec, log, ckpt>>

JobStatus == {"queued", "leased", "preparing", "running", "checkpointing",
              "suspended", "resuming", "completed", "failed", "cancelled"}
Terminal == {"completed", "failed", "cancelled"}
Generation == 0..MaxAttempt
Seqs == 0..MaxEvents

NoLease == [token |-> 0, live |-> FALSE]

JobRecord == [status : JobStatus, attempt : Generation,
              lease : [token : Generation, live : BOOLEAN],
              cancelRequested : BOOLEAN, latestSnapshot : BOOLEAN]

(* attempt = 0 stands for "no row": every saved checkpoint carries the     *)
(* generation of an acquired lease, which is at least 1.                   *)
Checkpoint == [attempt : Generation, lastEventSeq : Seqs, body : Body]
HasCheckpoint == ckpt.attempt > 0

-----------------------------------------------------------------------------
(* Transactions.                                                           *)

Fenced(expectedAttempt) == rec.attempt # expectedAttempt

(* updateJobRecord: compare-and-set on the generation.                     *)
UpdateJobRecord(expectedAttempt, next) ==
  /\ ~Fenced(expectedAttempt)
  /\ rec' = next

(* The patches the runner passes to it.                                    *)
WithStatus(s) == [rec EXCEPT !.status = s]
WithStatusNoLease(s) == [rec EXCEPT !.status = s, !.lease = NoLease]
WithCancel == [rec EXCEPT !.cancelRequested = TRUE]
WithSnapshot == [rec EXCEPT !.latestSnapshot = TRUE]

LeaseHeld == rec.lease.live

(* Mutants: a live lease is taken over; the lease row keeps the old token. *)
AcquireLeaseAnyway ==
  /\ rec.attempt < MaxAttempt
  /\ rec' = [rec EXCEPT !.attempt = @ + 1,
                        !.lease = [token |-> rec.attempt + 1, live |-> TRUE]]

AcquireLeaseOldToken ==
  /\ ~LeaseHeld
  /\ rec.attempt < MaxAttempt
  /\ rec' = [rec EXCEPT !.attempt = @ + 1,
                        !.lease = [token |-> rec.attempt, live |-> TRUE]]

(* acquireLease: refused while another token's lease is live; the status   *)
(* of the job is not looked at.                                            *)
AcquireLease ==
  /\ ~LeaseHeld
  /\ rec.attempt < MaxAttempt
  /\ rec' = [rec EXCEPT !.attempt = @ + 1,
                        !.lease = [token |-> rec.attempt + 1, live |-> TRUE]]

(* releaseLease: a token that does not match is a no-op.                   *)
ReleaseLease(token) ==
  rec' = IF rec.lease.token = token THEN [rec EXCEPT !.lease = NoLease] ELSE rec

(* renewLease pushes expires_at out, which this one-bit clock shows only   *)
(* as a renewal that is possible or refused.                               *)
Renewable(token) == rec.lease.live /\ rec.lease.token = token

(* Time passes: expires_at <= now.                                         *)
LeaseExpires ==
  /\ rec.lease.live
  /\ rec' = [rec EXCEPT !.lease.live = FALSE]

(* appendEvents: seqs continue from last_seq; expectedAttempt is optional. *)
AppendEvents(events) ==
  /\ Len(log) + Len(events) <= MaxEvents
  /\ log' = log \o events

AppendFenced(expectedAttempt, events) ==
  /\ ~Fenced(expectedAttempt)
  /\ AppendEvents(events)

(* Mutants: saveCheckpoint without the fence, without the watermark check. *)
SaveCheckpointUnfenced(cp) ==
  /\ cp.lastEventSeq <= Len(log)
  /\ ckpt' = cp

SaveCheckpointAhead(cp) ==
  /\ ~Fenced(cp.attempt)
  /\ ckpt' = cp

(* saveCheckpoint: fenced by the checkpoint's own attempt, and never ahead *)
(* of the log.                                                             *)
SaveCheckpoint(cp) ==
  /\ ~Fenced(cp.attempt)
  /\ cp.lastEventSeq <= Len(log)
  /\ ckpt' = cp

(* DistributedSqlStore.enqueue on this row: a suspended job is queued      *)
(* again and its lease row deleted; every other status is left alone.      *)
Requeue ==
  /\ rec.status = "suspended"
  /\ rec' = WithStatusNoLease("queued")

-----------------------------------------------------------------------------
(* The store under arbitrary clients.  A client may call any method with   *)
(* any generation it was ever granted or has read from the record, however *)
(* stale: 1..rec.attempt (0 before the first grant).                       *)

StoreInit ==
  /\ rec = [status |-> "queued", attempt |-> 0, lease |-> NoLease,
            cancelRequested |-> FALSE, latestSnapshot |-> FALSE]
  /\ log = << >>
  /\ ckpt \in {[attempt |-> 0, lastEventSeq |-> 0, body |-> b] : b \in Body}

ClientUpdate ==
  /\ \E g \in 0..rec.attempt, s \in JobStatus :
       \/ UpdateJobRecord(g, WithStatus(s))
       \/ UpdateJobRecord(g, WithStatusNoLease(s))
       \/ UpdateJobRecord(g, WithCancel)
       \/ UpdateJobRecord(g, WithSnapshot)
  /\ UNCHANGED <<log, ckpt>>

ClientLease ==
  /\ \/ AcquireLease
     \/ \E t \in 1..rec.attempt : ReleaseLease(t)
     \/ LeaseExpires
     \/ Requeue
  /\ UNCHANGED <<log, ckpt>>

ClientAppend ==
  /\ \E e \in Event, g \in 0..rec.attempt :
       AppendEvents(<<e>>) \/ AppendFenced(g, <<e>>)
  /\ UNCHANGED <<rec, ckpt>>

ClientSave ==
  /\ \E g \in 1..rec.attempt, n \in Seqs, b \in Body :
       SaveCheckpoint([attempt |-> g, lastEventSeq |-> n, body |-> b])
  /\ UNCHANGED <<rec, log>>

StoreNext == ClientUpdate \/ ClientLease \/ ClientAppend \/ ClientSave

StoreSpec == StoreInit /\ [][StoreNext]_storeVars

-----------------------------------------------------------------------------
(* Type correctness of the durable rows.                                   *)
StoreTypeOK ==
  /\ rec \in JobRecord
  /\ log \in Seq(Event)
  /\ Len(log) <= MaxEvents
  /\ ckpt \in Checkpoint

(* "Exactly one authoritative active owner": whatever clients do with old  *)
(* tokens, a lease row in the store always belongs to the newest           *)
(* generation, so a stale releaseLease or renewLease can never act on it,  *)
(* and a live lease is never the empty one (sql-store.ts acquireLease,     *)
(* releaseLease, updateJobRecord).                                         *)
LeaseIsCurrent ==
  /\ rec.lease.token \in {0, rec.attempt}
  /\ rec.lease.live => rec.lease.token > 0

(* The checkpoint row never points past the log, and was written by a      *)
(* generation that was really granted (saveCheckpoint's two checks).       *)
CheckpointBehindLog ==
  /\ ckpt.lastEventSeq <= Len(log)
  /\ ckpt.attempt <= rec.attempt

(* A later generation's checkpoint is never replaced by an earlier one,    *)
(* generations are taken one at a time, and committed events are never     *)
(* removed or rewritten, whatever stale clients ask for.                   *)
StoreForward ==
  /\ rec'.attempt \in {rec.attempt, rec.attempt + 1}
  /\ rec'.attempt # rec.attempt => ~rec.lease.live
  /\ ckpt'.attempt >= ckpt.attempt
  /\ SubSeq(log', 1, Len(log)) = log

StoreOnlyForward == [][StoreForward]_storeVars
=============================================================================
