----------------------------- MODULE Admission ------------------------------
(***************************************************************************)
(* The admission pipeline of control/src/admission.ts over the durable     *)
(* idempotency registry (store-sql/src/admission-idempotency.ts) and the   *)
(* quota store.  Any number of control-plane processes admit at once; each *)
(* await of admit() is a step of its own, and a process may die at any of  *)
(* them.  The caller is already authenticated and authorised (Access).     *)
(***************************************************************************)
EXTENDS Quota, Sequences

CONSTANTS
  Admitters,     \* admit() calls that may be in flight at once
  Requests,      \* what callers send: key, scope and job spec
  MaxCalls,      \* bound on admit() calls
  MaxJobs        \* bound on the job records created

ASSUME AdmissionAssumption ==
  /\ \A r \in Requests : r.key \in Keys /\ r.scope \in Scopes
  /\ MaxCalls \in Nat /\ MaxJobs \in Nat

VARIABLES
  slot,      \* admission_idempotency, by key
  adm,       \* the calls in flight
  jobs,      \* the durable jobs, in order of creation
  answers,   \* every (key, fingerprint, job) a caller was answered with
  misread,   \* history: the keys whose job a replay failed to read
  ended,     \* the jobs that reached a terminal status
  calls      \* admit() calls so far

admissionOwn == <<slot, adm, jobs, answers, misread, ended, calls>>
admissionVars == <<quotaVars, admissionOwn>>

SlotStates == {"free", "pending", "completed", "failed_retriable",
               "failed_terminal"}

(* What decides which job a request creates; requestedTools and            *)
(* requestedMaxSteps are not part of it.                                   *)
Fingerprint(r) == <<r.scope, r.spec>>
Fingerprints == {Fingerprint(r) : r \in Requests}

Slot == [state : SlotStates, fp : Fingerprints \cup {<<>>}, job : Nat]
FreeSlot == [state |-> "free", fp |-> <<>>, job |-> 0]

AdmissionPc == {"idle", "claim", "policy", "deny", "limits", "reserve", "noQuota",
                "create", "release", "failed", "attach", "complete"}
Idle == [pc |-> "idle", key |-> NoRow, fp |-> <<>>, max |-> 0,
         version |-> 0, job |-> 0]

AdmittedJob == [key : Keys, fp : Fingerprints]

AdmissionTypeOK ==
  /\ QuotaTypeOK
  /\ slot \in [Keys -> Slot]
  /\ \A a \in Admitters :
       /\ adm[a].pc \in AdmissionPc
       /\ adm[a].pc # "idle" => adm[a].key \in Keys /\ adm[a].fp \in Fingerprints
       /\ adm[a].job \in 0..Len(jobs)
  /\ \A j \in 1..Len(jobs) : jobs[j] \in AdmittedJob
  /\ misread \subseteq Keys
  /\ ended \subseteq 1..Len(jobs)

AdmissionInit ==
  /\ QuotaInit
  /\ slot = [k \in Keys |-> FreeSlot]
  /\ adm = [a \in Admitters |-> Idle]
  /\ jobs = <<>>
  /\ answers = {}
  /\ misread = {}
  /\ ended = {}
  /\ calls = 0

AdmissionAt(a, pc) == adm[a].pc = pc
AdmissionGoto(a, pc) == adm' = [adm EXCEPT ![a].pc = pc]
AdmissionReturn(a) == adm' = [adm EXCEPT ![a] = Idle]
KeyOf(a) == adm[a].key
ScopeOf(a) == adm[a].fp[1]

-----------------------------------------------------------------------------
(* The registry.                                                           *)

(* Mutant: a pending slot is taken over as well.                           *)
ReclaimablePending(k) == slot[k].state \in {"free", "pending", "failed_retriable"}

(* expires_at is always NULL, so only failed_retriable is reclaimed.       *)
Reclaimable(k) == slot[k].state \in {"free", "failed_retriable"}

Conflict(k, fp) == ~Reclaimable(k) /\ slot[k].fp # fp
ReplaySlot(k, fp) == ~Reclaimable(k) /\ slot[k].fp = fp
                   /\ slot[k].state = "completed"

ClaimSlot(k, fp) ==
  slot' = [slot EXCEPT ![k] = [state |-> "pending", fp |-> fp, job |-> 0]]

Fail(k, state) ==
  slot' = IF slot[k].state = "completed" THEN slot
          ELSE [slot EXCEPT ![k].state = state]

CompleteSlot(k, job) ==
  slot' = IF slot[k].state = "failed_terminal" THEN slot
          ELSE [slot EXCEPT ![k].state = "completed", ![k].job = job]

-----------------------------------------------------------------------------
(* admit(), one action per await.                                          *)
Admit(a, r) ==
  /\ AdmissionAt(a, "idle")
  /\ calls < MaxCalls
  /\ calls' = calls + 1
  /\ adm' = [adm EXCEPT ![a] =
       [Idle EXCEPT !.pc = "claim", !.key = r.key, !.fp = Fingerprint(r)]]
  /\ UNCHANGED <<quotaVars, slot, jobs, answers, misread, ended>>

(* completed: the original result; conflict and pending: an error.  A      *)
(* completed slot whose job reads as missing, which any store error does   *)
(* (runner.ts getJob), is not moved by fail(): the call goes on beside it. *)
Claim(a) ==
  /\ AdmissionAt(a, "claim")
  /\ LET k == KeyOf(a)  fp == adm[a].fp IN
     \/ /\ Reclaimable(k)
        /\ ClaimSlot(k, fp)
        /\ AdmissionGoto(a, "policy")
        /\ UNCHANGED <<answers, misread>>
     \/ /\ ReplaySlot(k, fp)
        /\ answers' = answers \cup {<<k, fp, slot[k].job>>}
        /\ AdmissionReturn(a)
        /\ UNCHANGED <<slot, misread>>
     \/ /\ ReplaySlot(k, fp)
        /\ Fail(k, "failed_retriable")
        /\ misread' = misread \cup {k}
        /\ AdmissionGoto(a, "policy")
        /\ UNCHANGED answers
     \/ /\ ~Reclaimable(k) /\ ~ReplaySlot(k, fp)
        /\ AdmissionReturn(a)
        /\ UNCHANGED <<slot, answers, misread>>
  /\ UNCHANGED <<quotaVars, jobs, ended, calls>>

EvaluatePolicy(a) ==
  /\ AdmissionAt(a, "policy")
  /\ \/ AdmissionGoto(a, "deny")
     \/ \E max \in Limits :
          adm' = [adm EXCEPT ![a].pc = "limits", ![a].max = max]
  /\ UNCHANGED <<quotaVars, slot, jobs, answers, misread, ended, calls>>

Deny(a) ==
  /\ AdmissionAt(a, "deny")
  /\ Fail(KeyOf(a), "failed_terminal")
  /\ AdmissionReturn(a)
  /\ UNCHANGED <<quotaVars, jobs, answers, misread, ended, calls>>

PublishLimits(a) ==
  /\ AdmissionAt(a, "limits")
  /\ SetLimits(ScopeOf(a), adm[a].max)
  /\ AdmissionGoto(a, "reserve")
  /\ UNCHANGED <<slot, jobs, answers, misread, ended, calls>>

(* A row found under the key is used as it is, whatever its state.         *)
Reserve(a) ==
  /\ AdmissionAt(a, "reserve")
  /\ LET k == KeyOf(a)  s == ScopeOf(a)  max == adm[a].max IN
     \/ /\ Replayed(k)
        /\ adm' = [adm EXCEPT ![a].pc = "create", ![a].version = res[k].version]
        /\ UNCHANGED quotaVars
     \/ /\ ReserveNew(s, k, max)
        /\ adm' = [adm EXCEPT ![a].pc = "create", ![a].version = 1]
     \/ /\ ~Replayed(k) /\ Rejected(s, max)
        /\ AdmissionGoto(a, "noQuota")
        /\ UNCHANGED quotaVars
  /\ UNCHANGED <<slot, jobs, answers, misread, ended, calls>>

QuotaRejected(a) ==
  /\ AdmissionAt(a, "noQuota")
  /\ Fail(KeyOf(a), "failed_retriable")
  /\ AdmissionReturn(a)
  /\ UNCHANGED <<quotaVars, jobs, answers, misread, ended, calls>>

(* createJob writes the record and then its queued event; it may throw     *)
(* before the first or between the two.                                    *)
CreateJob(a) ==
  /\ AdmissionAt(a, "create")
  /\ LET made == Append(jobs, [key |-> KeyOf(a), fp |-> adm[a].fp]) IN
     \/ /\ Len(jobs) < MaxJobs
        /\ jobs' = made
        /\ adm' = [adm EXCEPT ![a].pc = "attach", ![a].job = Len(made)]
     \/ /\ Len(jobs) < MaxJobs
        /\ jobs' = made
        /\ AdmissionGoto(a, "release")
     \/ /\ AdmissionGoto(a, "release")
        /\ UNCHANGED jobs
  /\ UNCHANGED <<quotaVars, slot, answers, misread, ended, calls>>

(* The compensation's own errors, of the fence or of the store, are        *)
(* swallowed.                                                              *)
Compensate(a) ==
  /\ AdmissionAt(a, "release")
  /\ AdmissionGoto(a, "failed")
  /\ \/ Release(KeyOf(a), adm[a].version)
     \/ UNCHANGED quotaVars
  /\ UNCHANGED <<slot, jobs, answers, misread, ended, calls>>

JobCreationFailed(a) ==
  /\ AdmissionAt(a, "failed")
  /\ Fail(KeyOf(a), "failed_retriable")
  /\ AdmissionReturn(a)
  /\ UNCHANGED <<quotaVars, jobs, answers, misread, ended, calls>>

LinkJob(a) ==
  /\ AdmissionAt(a, "attach")
  /\ AdmissionGoto(a, "complete")
  /\ AttachJob(KeyOf(a), adm[a].job)
  /\ UNCHANGED <<slot, jobs, answers, misread, ended, calls>>

Complete(a) ==
  /\ AdmissionAt(a, "complete")
  /\ CompleteSlot(KeyOf(a), adm[a].job)
  /\ answers' = answers \cup {<<KeyOf(a), adm[a].fp, adm[a].job>>}
  /\ AdmissionReturn(a)
  /\ UNCHANGED <<quotaVars, jobs, misread, ended, calls>>

(* The process dies between two awaits.                                    *)
AdmitterCrash(a) ==
  /\ ~AdmissionAt(a, "idle")
  /\ AdmissionReturn(a)
  /\ UNCHANGED <<quotaVars, slot, jobs, answers, misread, ended, calls>>

AdmittedJobEnds(j) ==
  /\ j \in 1..Len(jobs) \ ended
  /\ ended' = ended \cup {j}
  /\ UNCHANGED <<quotaVars, slot, adm, jobs, answers, misread, calls>>

(* settleAndBill: the caller brings the job and the reservation he was     *)
(* answered with, and a version; whether the job has ended is not asked.   *)
SettleAndBill(k, version) ==
  /\ \E x \in answers : x[1] = k
  /\ Settle(k, version)
  /\ UNCHANGED admissionOwn

(* Settles what was metered so far, with the version read before the       *)
(* metering ledger was; refused while no job is linked, not while it runs. *)
SettleAgainstActualUsage(k, version) ==
  /\ Active(k)
  /\ res[k].job # 0
  /\ Settle(k, version)
  /\ UNCHANGED admissionOwn

(* reconcileReservations: a terminal job's reservation is released, with   *)
(* the version read from the listing; the rest is recorded as a gap.       *)
ReconcileReservation(k, version) ==
  /\ Active(k)
  /\ res[k].job \in ended
  /\ Release(k, version)
  /\ UNCHANGED admissionOwn

AdmitterStep(a) ==
  \/ Claim(a) \/ EvaluatePolicy(a) \/ Deny(a)
  \/ PublishLimits(a) \/ Reserve(a)
  \/ QuotaRejected(a) \/ CreateJob(a) \/ Compensate(a)
  \/ JobCreationFailed(a) \/ LinkJob(a) \/ Complete(a)

AdmissionNext ==
  \/ \E a \in Admitters, r \in Requests : Admit(a, r)
  \/ \E a \in Admitters : AdmitterStep(a) \/ AdmitterCrash(a)
  \/ \E j \in 1..MaxJobs : AdmittedJobEnds(j)
  \/ \E k \in Keys, v \in 1..MaxVersion :
       \/ SettleAndBill(k, v) \/ SettleAgainstActualUsage(k, v)
       \/ ReconcileReservation(k, v)
  \/ ReapExpired /\ UNCHANGED admissionOwn
  \/ \E k \in Keys : Lapse(k) /\ UNCHANGED admissionOwn

(* Calls that are under way go on, the clock moves, and the reaper is run  *)
(* periodically by the reconciliation worker (reliability, serve.ts).      *)
AdmissionFairness ==
  /\ \A a \in Admitters : WF_admissionVars(AdmitterStep(a))
  /\ \A k \in Keys : WF_admissionVars(Lapse(k) /\ UNCHANGED admissionOwn)
  /\ WF_admissionVars(ReapExpired /\ UNCHANGED admissionOwn)

AdmissionSpec == AdmissionInit /\ [][AdmissionNext]_admissionVars
                   /\ AdmissionFairness

-----------------------------------------------------------------------------
(* Two answers given under one key.                                        *)
Agree(x, y) == x[2] = y[2] /\ (x[3] = y[3] \/ x[1] \in misread)

(* However many processes admit under one key, crash and retry, everyone   *)
(* who is answered sent the same request, is told the same job, and that   *)
(* job was created from it (admission.ts:254, admission-idempotency.ts:    *)
(* 88).  A second job under the key takes a replay that failed to read the *)
(* first one: the promise of admission.ts:236-238, that a replay never     *)
(* repeats the creation, does not hold across a store error.               *)
AnswersAgree ==
  /\ \A x, y \in answers : x[1] = y[1] => Agree(x, y)
  /\ \A x \in answers : jobs[x[3]].key = x[1] /\ jobs[x[3]].fp = x[2]

(* How the reservation of a job that still runs may end.                   *)
RunningKeeps(k) ==
  Active(k) /\ res[k].job \in 1..Len(jobs) \ ended =>
    \/ Active(k)'
    \/ res'[k].state \in {"expired", "settled"}
    \/ res'[k].state = "released" /\ k \in misread

(* Nobody gives back the capacity of a job that still runs: reconciliation *)
(* never releases its reservation, nor does the compensation of another    *)
(* call, unless that call failed to read the job (admission.ts:276, 333,   *)
(* reconcile/service.ts:296).  Its TTL may end it, and a settlement does   *)
(* whether or not the job has ended (quota-settlement.ts:58).              *)
RunningKeepsReservation == [][\A k \in Keys : RunningKeeps(k)]_admissionVars

(* Capacity taken by an admission that died or failed is given back: a     *)
(* reservation no call is working on and no job is linked to does not stay *)
(* active (admission.ts:318, quota/store.ts:411).                          *)
Abandoned(k) == /\ Active(k)
                /\ res[k].job = 0
                /\ \A a \in Admitters : KeyOf(a) # k
AbandonedCapacityReturns ==
  \A k \in Keys : []<>~Abandoned(k)

(* A reservation stays with its job until the job, its own time or a       *)
(* settlement ends it, and once ended it is not revived, over              *)
(* compensation, reconciliation, stale retries and the reaper              *)
(* (admission.ts:333, quota/store.ts:357).                                 *)
ReservationsStand ==
  /\ RunningKeepsReservation
  /\ EndedForGood
=============================================================================
