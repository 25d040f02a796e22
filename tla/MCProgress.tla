----------------------------- MODULE MCProgress -----------------------------
(* The loops that must get somewhere: snapshot collection, the reaper of   *)
(* reservations, the work queue, the scheduler, the followers of a job and *)
(* of an automation run, the readers who page through usage.               *)
(* The parts share no rows; a behaviour follows one of them, under that    *)
(* part's fairness, while the others stand still.                          *)
EXTENDS SnapshotGc, Admission, OpsQueue, Scheduler, EventStream, RunStream,
        UsageQuery

CONSTANTS d1, d2, k1, k2, s1,
  Parts     \* the parts explored

VARIABLE focus

TwoDrivers == {d1, d2}

MCRequests == {[key |-> k1, scope |-> s1, spec |-> 1], [key |-> k2, scope |-> s1, spec |-> 1]}

(* Cron minutes 3 to 5, every hour, day and month.                         *)
Every == <<Star(1)>>
Field(base, lo, hi, by) == [base |-> base, lo |-> lo, hi |-> hi, step |-> by]
MCCron == [minute |-> <<Field("number", 3, 0, 1), Field("range", 4, 5, 1)>>, hour |-> Every,
           dom |-> <<Field("L", 0, 0, 1)>>, month |-> Every, dow |-> <<Field("from", 0, 0, 2)>>]
Skipping == [kind |-> "recurring", cron |-> MCCron, scheduledAt |-> -1,
             policy |-> "skip", maxCatchUp |-> 1]
CatchingUp == [Skipping EXCEPT !.policy = "catch_up", !.maxCatchUp = 2]
MCVersions == [s \in Schedules |-> <<Skipping, CatchingUp>>]

(* A job that started twice before it completed.                           *)
MCStepLog == <<"started", "other", "started", "completed">>

(* Three facts of two tenants; queries that page, filter, ask for too much *)
(* or for one moment.                                                      *)
Used(t, j, k, n) == [tenant |-> t, job |-> j, kind |-> k, quantity |-> n, dedup |-> 1,
                     unit |-> "any", provider |-> "acme"]
MCUsageInputs == {Used("n1", "j1", "model_tokens", 2), Used("n1", "j2", "tool_call", 1),
                  Used("n2", "j3", "model_request", 1),
                  [Used("n1", "j1", "tool_call", 1) EXCEPT !.unit = "ms"]}
OnePerPage == [tenant |-> "n1", run |-> "any", kind |-> "any", provider |-> "any",
               from |-> Absent, to |-> Absent, limit |-> 1]
MCUsageQueries ==
  {[OnePerPage EXCEPT !.run = "j1"], [OnePerPage EXCEPT !.limit = Absent, !.kind = "model_tokens"],
   [OnePerPage EXCEPT !.limit = 9], [OnePerPage EXCEPT !.from = 2, !.to = 2]}

ProgressInit ==
  /\ focus \in Parts
  /\ GcInit /\ AdmissionInit /\ OpsInit /\ SchedulerInit /\ StreamInit /\ RunStreamInit /\ UsageQueryInit

ProgressNext ==
  /\ UNCHANGED focus
  /\ \/ /\ focus = "gc" /\ GcNext
        /\ UNCHANGED <<admissionVars, opsVars, schedulerVars, streamVars, runStreamVars, usageVars>>
     \/ /\ focus = "admission" /\ AdmissionNext
        /\ UNCHANGED <<gcVars, opsVars, schedulerVars, streamVars, runStreamVars, usageVars>>
     \/ /\ focus = "ops" /\ OpsNext
        /\ UNCHANGED <<gcVars, admissionVars, schedulerVars, streamVars, runStreamVars, usageVars>>
     \/ /\ focus = "scheduler" /\ SchedulerNext
        /\ UNCHANGED <<gcVars, admissionVars, opsVars, streamVars, runStreamVars, usageVars>>
     \/ /\ focus = "stream" /\ StreamNext
        /\ UNCHANGED <<gcVars, admissionVars, opsVars, schedulerVars, runStreamVars, usageVars>>
     \/ /\ focus = "runs" /\ RunStreamNext
        /\ UNCHANGED <<gcVars, admissionVars, opsVars, schedulerVars, streamVars, usageVars>>
     \/ /\ focus = "usage" /\ UsageQueryNext
        /\ UNCHANGED <<gcVars, admissionVars, opsVars, schedulerVars, streamVars, runStreamVars>>

(* The fairness each component states for itself, while its part moves.    *)
ProgressSpec ==
  /\ ProgressInit
  /\ [][ProgressNext]_<<focus, gcVars, admissionVars, opsVars, schedulerVars, streamVars,
                        runStreamVars, usageVars>>
  /\ \A d \in Drivers : WF_gcVars(focus = "gc" /\ Pass(d))
  /\ \A a \in Admitters : WF_admissionVars(focus = "admission" /\ AdmitterStep(a))
  /\ \A k \in Keys :
       WF_admissionVars(focus = "admission" /\ Lapse(k) /\ UNCHANGED admissionOwn)
  /\ WF_admissionVars(focus = "admission" /\ ReapExpired /\ UNCHANGED admissionOwn)
  /\ \A i \in Items : /\ WF_opsVars(focus = "ops" /\ LeaseLapses(i))
                      /\ WF_opsVars(focus = "ops" /\ RetryDue(i))
  /\ WF_opsVars(focus = "ops" /\ ReapExpiredClaims)
  /\ \A w \in OpsWorkers : WF_opsVars(focus = "ops" /\ WorkerLoop(w))
  /\ WF_schedulerVars(focus = "scheduler" /\ TimePasses)
  /\ \A p \in SchedulerProcs : WF_schedulerVars(focus = "scheduler" /\ TickStep(p))
  /\ WF_streamVars(focus = "stream" /\ StreamSteps)
  /\ WF_streamVars(focus = "stream" /\ PublishEvent)
  /\ WF_runStreamVars(focus = "runs" /\ TailSteps)

(* Every row, every call and every subscription keeps its type.            *)
ProgressTypeOK ==
  /\ GcTypeOK /\ AdmissionTypeOK /\ OpsTypeOK /\ SchedulerTypeOK
  /\ StreamTypeOK /\ RunStreamTypeOK /\ UsageQueryTypeOK

(* The followers of a job and of an automation run see what is written,    *)
(* once, in order and up to the end they are told of (runner.ts            *)
(* streamEvents, phase2b-routes.ts).                                       *)
FollowersSeeAll ==
  /\ InOrderOnce
  /\ OnlyForeignSkipped
  /\ RunStreamNoGaps
  /\ DoneCoversLog

(* Both kinds of followers are let go when what they follow is over.       *)
FollowersReleased ==
  /\ FollowerReleased
  /\ RunStreamEnds

(* What nobody needs is given back in the end: superseded snapshots and    *)
(* the capacity of abandoned admissions (snapshot-gc.ts,                   *)
(* quota/store.ts:411).                                                    *)
ResourcesReturn ==
  /\ SupersededIsCollected
  /\ AbandonedCapacityReturns
=============================================================================
