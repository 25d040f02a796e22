----------------------------- MODULE SnapshotGc -----------------------------
(***************************************************************************)
(* The snapshot lifecycle rows of one job (DistributedSqlStore, the        *)
(* SqlSnapshotRegistry over it) and the SnapshotGcDriver passes that       *)
(* collect them (packages/vaulltcore-store-sql/src).                       *)
(*                                                                         *)
(* Snapshots are numbered in the order they are taken.  A capture stores   *)
(* the image at the provider, registers it, activates it and supersedes    *)
(* the snapshot it replaces: the order of calls that the repository's own  *)
(* tests use (phase1f.test.ts, idempotency-snapshot.test.ts).  A capture   *)
(* that dies is retried under the same snapshot id.                        *)
(*                                                                         *)
(* A GC pass computes its decision once and then awaits the provider for   *)
(* every snapshot in it, so the decision is stale when it is acted upon.   *)
(***************************************************************************)
EXTENDS Integers, FiniteSets

CONSTANTS
  N,             \* snapshots taken
  Drivers,       \* GC passes that may run at once (operators, processes)
  MaxFailures,   \* bound: provider deletions that fail
  MaxCrashes     \* bound: captures and passes that die half way

ASSUME GcAssumption ==
  /\ N \in Nat \ {0}
  /\ MaxFailures \in Nat /\ MaxCrashes \in Nat

VARIABLES
  life,      \* snapshot_lifecycle: state, superseded_by (0 is NULL), expired
  attempt,   \* snapshot_gc_attempts: the state column, "none" without a row
  image,     \* the snapshots whose image the provider still holds
  cap,       \* the capture in progress
  gc,        \* gc[d]: the runGc call of driver d
  failures, crashes

gcVars == <<life, attempt, image, cap, gc, failures, crashes>>

Snapshot == 1..N
LifeState == {"none", "created", "active", "superseded", "failed", "deleted"}
AttemptState == {"none", "eligible", "deleting", "deleted", "failed"}
CapPc == {"idle", "register", "registered", "activated"}
GcPc == {"idle", "next", "await", "gone", "kept"}

IdleGc == [pc |-> "idle", todo |-> {}, cur |-> 0]

(* ACTIVE_SNAPSHOT_STATES.                                                 *)
Live == {s \in Snapshot : life[s].state \in {"created", "active"}}

SetState(s, state) == life' = [life EXCEPT ![s].state = state]
SetAttempt(s, state) == attempt' = [attempt EXCEPT ![s] = state]
SetGc(d, g) == gc' = [gc EXCEPT ![d] = g]

-----------------------------------------------------------------------------
(* Capturing.                                                              *)

TakeSnapshot ==
  /\ cap.pc = "idle" /\ cap.cur < N
  /\ cap' = [pc |-> "register", cur |-> cap.cur + 1]
  /\ image' = image \cup {cap.cur + 1}
  /\ UNCHANGED <<life, attempt, gc, failures, crashes>>

(* recordSnapshotCreated: a row that is already there becomes active.      *)
RecordSnapshotCreated ==
  /\ cap.pc = "register"
  /\ SetState(cap.cur, IF life[cap.cur].state = "none" THEN "created" ELSE "active")
  /\ cap' = [cap EXCEPT !.pc = "registered"]
  /\ UNCHANGED <<attempt, image, gc, failures, crashes>>

ActivateSnapshot ==
  /\ cap.pc = "registered"
  /\ SetState(cap.cur, "active")
  /\ cap' = [cap EXCEPT !.pc = "activated"]
  /\ UNCHANGED <<attempt, image, gc, failures, crashes>>

(* markSnapshotState(id, "failed") on a capture that is not usable: one    *)
(* that was never activated.                                               *)
MarkFailed ==
  /\ cap.pc = "registered" /\ life[cap.cur].state = "created"
  /\ SetState(cap.cur, "failed")
  /\ cap' = [cap EXCEPT !.pc = "idle"]
  /\ UNCHANGED <<attempt, image, gc, failures, crashes>>

(* supersedeSnapshot(old, new) for each older snapshot still in use.       *)
SupersedeSnapshot ==
  /\ cap.pc = "activated"
  /\ IF Live \subseteq {cap.cur}
     THEN cap' = [cap EXCEPT !.pc = "idle"] /\ UNCHANGED life
     ELSE /\ \E old \in Live \ {cap.cur} :
               life' = [life EXCEPT ![old].state = "superseded", ![old].by = cap.cur]
          /\ UNCHANGED cap
  /\ UNCHANGED <<attempt, image, gc, failures, crashes>>

CaptureCrash ==
  /\ cap.pc \in {"registered", "activated"} /\ crashes < MaxCrashes
  /\ crashes' = crashes + 1
  /\ cap' = [cap EXCEPT !.pc = "register"]
  /\ UNCHANGED <<life, attempt, image, gc, failures>>

(* expires_at + GC_BUFFER_MS < now.                                        *)
Expire(s) ==
  /\ life[s].state # "none" /\ ~life[s].expired
  /\ life' = [life EXCEPT ![s].expired = TRUE]
  /\ UNCHANGED <<attempt, image, cap, gc, failures, crashes>>

-----------------------------------------------------------------------------
(* gcDecision.                                                             *)

HasActiveReplacement(s) ==
  life[s].by # 0 /\ life[life[s].by].state = "active"

(* Mutant: expiry alone makes a snapshot deletable.                        *)
DeletableEarly ==
  {s \in Snapshot :
     \/ life[s].state = "failed"
     \/ /\ life[s].state \in {"created", "active", "superseded"}
        /\ life[s].expired \/ life[s].state = "superseded"}

Deletable ==
  {s \in Snapshot :
     \/ life[s].state = "failed"
     \/ /\ life[s].state \notin {"none", "deleted"}
        /\ life[s].expired \/ life[s].state = "superseded"
        /\ HasActiveReplacement(s)
        /\ Live # {s}}

-----------------------------------------------------------------------------
(* runGc.                                                                  *)

StartGc(d) ==
  /\ gc[d].pc = "idle"
  /\ Deletable # {}
  /\ SetGc(d, [IdleGc EXCEPT !.pc = "next", !.todo = Deletable])
  /\ UNCHANGED <<life, attempt, image, cap, failures, crashes>>

(* Ensure the attempt row, skip a deleted one, mark the others deleting:   *)
(* one synchronous stretch of code, up to the call of the provider.        *)
ClaimNext(d) ==
  /\ gc[d].pc = "next"
  /\ IF gc[d].todo = {}
     THEN SetGc(d, IdleGc) /\ UNCHANGED attempt
     ELSE \E s \in gc[d].todo :
            LET rest == [gc[d] EXCEPT !.todo = @ \ {s}] IN
            IF attempt[s] = "deleted"
            THEN SetGc(d, rest) /\ UNCHANGED attempt
            ELSE /\ SetGc(d, [rest EXCEPT !.pc = "await", !.cur = s])
                 /\ SetAttempt(s, "deleting")
  /\ UNCHANGED <<life, image, cap, failures, crashes>>

(* The provider's answer: the image is gone (deleted now or before), or    *)
(* the deletion failed (returned false or threw).                          *)
ProviderDeletes(d) ==
  /\ gc[d].pc = "await"
  /\ image' = image \ {gc[d].cur}
  /\ SetGc(d, [gc[d] EXCEPT !.pc = "gone"])
  /\ UNCHANGED <<life, attempt, cap, failures, crashes>>

ProviderFails(d) ==
  /\ gc[d].pc = "await" /\ failures < MaxFailures
  /\ failures' = failures + 1
  /\ SetGc(d, [gc[d] EXCEPT !.pc = "kept"])
  /\ UNCHANGED <<life, attempt, image, cap, crashes>>

ConfirmDeleted(d) ==
  /\ gc[d].pc = "gone"
  /\ SetAttempt(gc[d].cur, "deleted")
  /\ SetState(gc[d].cur, "deleted")
  /\ SetGc(d, [gc[d] EXCEPT !.pc = "next", !.cur = 0])
  /\ UNCHANGED <<image, cap, failures, crashes>>

(* Neither UPDATE looks at the state it overwrites.                        *)
RecordFailure(d) ==
  /\ gc[d].pc = "kept"
  /\ SetAttempt(gc[d].cur, "failed")
  /\ SetGc(d, [gc[d] EXCEPT !.pc = "next", !.cur = 0])
  /\ UNCHANGED <<life, image, cap, failures, crashes>>

GcCrash(d) ==
  /\ gc[d].pc # "idle" /\ crashes < MaxCrashes
  /\ crashes' = crashes + 1
  /\ SetGc(d, IdleGc)
  /\ UNCHANGED <<life, attempt, image, cap, failures>>

(* markEligible, the operator's override: a no-op on a deleted attempt.    *)
MarkEligible(s) ==
  /\ life[s].state # "none"
  /\ attempt[s] \in {"none", "failed", "deleting"}
  /\ SetAttempt(s, "eligible")
  /\ UNCHANGED <<life, image, cap, gc, failures, crashes>>

-----------------------------------------------------------------------------
GcInit ==
  /\ life = [s \in Snapshot |-> [state |-> "none", by |-> 0, expired |-> FALSE]]
  /\ attempt = [s \in Snapshot |-> "none"]
  /\ image = {}
  /\ cap = [pc |-> "idle", cur |-> 0]
  /\ gc = [d \in Drivers |-> IdleGc]
  /\ failures = 0 /\ crashes = 0

Capture ==
  \/ TakeSnapshot \/ RecordSnapshotCreated \/ ActivateSnapshot
  \/ MarkFailed \/ SupersedeSnapshot

Pass(d) ==
  \/ StartGc(d) \/ ClaimNext(d) \/ ProviderDeletes(d) \/ ProviderFails(d)
  \/ ConfirmDeleted(d) \/ RecordFailure(d)

GcNext ==
  \/ Capture \/ CaptureCrash
  \/ \E s \in Snapshot : Expire(s) \/ MarkEligible(s)
  \/ \E d \in Drivers : Pass(d) \/ GcCrash(d)

GcSpec == GcInit /\ [][GcNext]_gcVars

(* runGc is called again and again and its awaits complete; the provider   *)
(* does not fail for ever (MaxFailures).                                   *)
GcFairness == \A d \in Drivers : WF_gcVars(Pass(d))

FairGcSpec == GcSpec /\ GcFairness

-----------------------------------------------------------------------------
(* Type correctness of the rows, the capture and the passes.               *)
GcTypeOK ==
  /\ life \in [Snapshot -> [state : LifeState, by : 0..N, expired : BOOLEAN]]
  /\ attempt \in [Snapshot -> AttemptState]
  /\ image \subseteq Snapshot
  /\ cap \in [pc : CapPc, cur : 0..N]
  /\ gc \in [Drivers -> [pc : GcPc, todo : SUBSET Snapshot, cur : 0..N]]
  /\ failures \in 0..MaxFailures /\ crashes \in 0..MaxCrashes

(* "NEVER deletes a snapshot required by an active recovery path": an      *)
(* image that the registry calls usable is at the provider, and no pass    *)
(* has it in its stale decision, although captures are retried and passes  *)
(* overlap (gcDecision, runGc).                                            *)
UsableImageKept ==
  \A s \in Live : /\ s \in image
                  /\ \A d \in Drivers : gc[d].pc \in {"await", "gone"} => gc[d].cur # s

(* Once a snapshot has been activated, recovery always finds a usable one: *)
(* the last valid artifact is never collected before its replacement is    *)
(* durably committed (phase1d.md, gcDecision).                             *)
RecoveryArtifactKept ==
  (\E s \in Snapshot : life[s].state \in {"superseded", "deleted"} /\ life[s].by # 0)
    => \E s \in Live : s \in image

(* "Provider deletion is confirmed before claiming success": neither table *)
(* calls a snapshot deleted while the provider still holds its image, even *)
(* when a pass dies between the provider's answer and the UPDATE.          *)
DeletedIsGone ==
  \A s \in Snapshot :
    life[s].state = "deleted" \/ attempt[s] = "deleted" => s \notin image

(* Collection takes nothing that recovery needs and claims nothing that    *)
(* has not happened, although decisions are stale, passes overlap and die, *)
(* and captures are retried (snapshot-gc.ts).                              *)
SnapshotsSafe ==
  /\ UsableImageKept
  /\ RecoveryArtifactKept
  /\ DeletedIsGone

(* A superseded snapshot whose replacement stays the active one is         *)
(* collected in the end, through provider failures and crashed passes.     *)
SupersededIsCollected ==
  \A s \in Snapshot : []<>(HasActiveReplacement(s) => life[s].state = "deleted")
=============================================================================
