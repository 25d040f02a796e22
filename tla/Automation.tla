----------------------------- MODULE Automation -----------------------------
(***************************************************************************)
(* One automation run: AutomationService and its store in                  *)
(* packages/vaulltcore-automation, with the reapers of -recovery and the   *)
(* timeouts and cancellations of -reliability that call them.              *)
(*                                                                         *)
(* Every store call is one transaction and is awaited; what a call read    *)
(* before an await it goes on using after it.  A "hand" is one call in     *)
(* flight of createRun, advanceRun, reconcileRun or decideApproval, in any *)
(* process.  Writes to the run row compare run_version, those to the       *)
(* delivery row delivery_version; step states are written unconditionally. *)
(* The runner's jobs and the delivery provider are external.               *)
(***************************************************************************)
EXTENDS Integers, Sequences

CONSTANTS
  Steps,              \* the version's steps in executionOrder
  ApprovalGates,      \* what the version says of approval.required
  Hands,
  MaxRunCalls,        \* bound: calls of advanceRun, reconcileRun, decideApproval
  MaxRunFaults        \* bound: crashes, cancellations, expiries, failures

ASSUME AutomationAssumption ==
  ApprovalGates \subseteq BOOLEAN /\ Steps \in Seq(STRING)

VARIABLES
  run,        \* automation_runs: status, run_version, and its version's gate
  step,       \* automation_run_steps
  mapping,    \* automation_job_mappings, UNIQUE (run, step)
  job,        \* the runner's jobs, one per step idempotency key
  artifacts,  \* how often the run's artifacts were saved
  approval,   \* approval_requests, UNIQUE (run, gate)
  delivery,   \* delivery_attempts, UNIQUE (run, key)
  sent,       \* calls of the delivery provider
  hand,
  budget      \* what is left of the bounds

runVars == <<run, step, mapping, job, artifacts, approval, delivery, sent, hand, budget>>

RunStatuses == {"created", "validating_input", "admitted", "running", "collecting",
                "awaiting_approval", "delivering", "completed", "failed", "cancelled",
                "rejected", "suspended"}
TerminalRunStatuses == {"completed", "failed", "cancelled", "rejected"}
ApprovalDecisions == {"approved", "rejected", "changes_requested"}
DeliveryStatuses == {"pending", "in_progress", "delivered", "failed"}
JobStatuses == {"none", "active", "completed", "failed"}

TRANSITIONS ==
  [created |-> {"validating_input", "failed", "cancelled"},
   validating_input |-> {"admitted", "failed", "cancelled"},
   admitted |-> {"running", "failed", "cancelled", "suspended"},
   running |-> {"collecting", "awaiting_approval", "failed", "cancelled", "suspended"},
   collecting |-> {"awaiting_approval", "delivering", "completed", "failed", "cancelled"},
   awaiting_approval |-> {"delivering", "rejected", "failed", "cancelled"},
   delivering |-> {"completed", "failed", "cancelled"},
   completed |-> {}, failed |-> {}, cancelled |-> {}, rejected |-> {},
   suspended |-> {"admitted", "running", "collecting", "failed", "cancelled"}]

StepIds == 1..Len(Steps)

AutomationRun == [status : RunStatuses \cup {"none"}, version : Nat, gated : BOOLEAN]
NewRun(gated) == [status |-> "created", version |-> 1, gated |-> gated]

DeliveryAttempt == [status : DeliveryStatuses \cup {"none"}, version : Nat]
NewAttempt == [status |-> "pending", version |-> 1]

(* status and version: the run as the call last read or wrote it; at: the  *)
(* step it has come to; seen: the status it read of a job or an approval;  *)
(* dversion: the delivery_version it holds.                                *)
IdleHand == [pc |-> "idle", status |-> "none", version |-> 0, at |-> 1,
             seen |-> "none", decision |-> "none", dversion |-> 0]

HandPcs == {"idle", "validate", "admit", "project", "reread", "start", "step",
            "dispatch", "map", "upsert", "collect", "save", "gate", "await",
            "decide", "apply", "deliver", "attempt", "progress", "provider",
            "delivered", "undelivered", "complete", "fail"}

AutomationTypeOK ==
  /\ run \in AutomationRun
  /\ step \in [StepIds -> JobStatuses]
  /\ mapping \in [StepIds -> BOOLEAN]
  /\ job \in [StepIds -> JobStatuses]
  /\ artifacts \in Nat /\ sent \in Nat
  /\ approval \in ApprovalDecisions \cup {"none", "pending", "expired"}
  /\ delivery \in DeliveryAttempt
  /\ \A h \in Hands : hand[h].pc \in HandPcs /\ hand[h].version <= run.version

AutomationInit ==
  /\ run = [status |-> "none", version |-> 0, gated |-> FALSE]
  /\ step = [s \in StepIds |-> "none"]
  /\ mapping = [s \in StepIds |-> FALSE]
  /\ job = [s \in StepIds |-> "none"]
  /\ artifacts = 0 /\ sent = 0
  /\ approval = "none"
  /\ delivery = [status |-> "none", version |-> 0]
  /\ hand = [h \in Hands |-> IdleHand]
  /\ budget = [calls |-> MaxRunCalls, faults |-> MaxRunFaults]

-----------------------------------------------------------------------------
GoOn(h, pc) == hand' = [hand EXCEPT ![h].pc = pc]
HandReturns(h) == hand' = [hand EXCEPT ![h] = IdleHand]

CanTransition(h, to) ==
  run.version = hand[h].version /\ to \in TRANSITIONS[run.status]

(* transitionRun: on to pc, or an exception that ends the call.            *)
TransitionRun(h, to, pc) ==
  IF CanTransition(h, to)
  THEN /\ run' = [run EXCEPT !.status = to, !.version = @ + 1]
       /\ hand' = [hand EXCEPT ![h] =
            IF pc = "idle" THEN IdleHand
            ELSE [@ EXCEPT !.pc = pc, !.status = to, !.version = run.version + 1]]
  ELSE HandReturns(h) /\ UNCHANGED run

Call(h) ==
  /\ hand[h].pc = "idle" /\ budget.calls > 0
  /\ budget' = [budget EXCEPT !.calls = @ - 1]

GetRun(h, pc) ==
  hand' = [hand EXCEPT ![h] = [IdleHand EXCEPT !.pc = pc, !.status = run.status,
                                              !.version = run.version]]

(* createRun, from the row to "admitted" in three transactions.  The       *)
(* version it pins says whether there is an approval gate.                 *)
CreateRun(h) ==
  /\ hand[h].pc = "idle" /\ run.status = "none"
  /\ \E gated \in ApprovalGates : run' = NewRun(gated)
  /\ hand' = [hand EXCEPT ![h] = [IdleHand EXCEPT !.pc = "validate", !.status = "created",
                                                 !.version = 1]]
  /\ UNCHANGED <<step, mapping, job, artifacts, approval, delivery, sent, budget>>

ValidateInput(h) ==
  /\ hand[h].pc = "validate" /\ TransitionRun(h, "validating_input", "admit")
  /\ UNCHANGED <<step, mapping, job, artifacts, approval, delivery, sent, budget>>

AdmitRun(h) ==
  /\ hand[h].pc = "admit" /\ TransitionRun(h, "admitted", "idle")
  /\ UNCHANGED <<step, mapping, job, artifacts, approval, delivery, sent, budget>>

AdvanceRun(h) ==
  /\ Call(h) /\ run.status # "none" /\ GetRun(h, "start")
  /\ UNCHANGED <<run, step, mapping, job, artifacts, approval, delivery, sent>>

ReconcileRun(h) ==
  /\ Call(h) /\ run.status # "none" /\ GetRun(h, "project")
  /\ UNCHANGED <<run, step, mapping, job, artifacts, approval, delivery, sent>>

(* One mapped job of reconcileRun: its state becomes the step's.           *)
ProjectStep(h) ==
  LET s == hand[h].at
  IN /\ hand[h].pc = "project" /\ s \in StepIds
     /\ step' = IF mapping[s] THEN [step EXCEPT ![s] = job[s]] ELSE step
     /\ hand' = [hand EXCEPT ![h] =
          IF mapping[s] /\ job[s] = "failed" /\ hand[h].status \notin TerminalRunStatuses
          THEN [@ EXCEPT !.pc = "fail"] ELSE [@ EXCEPT !.at = s + 1]]
     /\ UNCHANGED <<run, mapping, job, artifacts, approval, delivery, sent, budget>>

(* Only these three statuses are driven again.                             *)
Projected(h) ==
  /\ hand[h].pc = "project" /\ hand[h].at \notin StepIds
  /\ IF hand[h].status \in {"admitted", "running", "collecting"}
     THEN GetRun(h, "start") ELSE HandReturns(h)
  /\ UNCHANGED <<run, step, mapping, job, artifacts, approval, delivery, sent, budget>>

StartRun(h) ==
  /\ hand[h].pc = "start"
  /\ CASE hand[h].status = "admitted" -> TransitionRun(h, "running", "step")
       [] hand[h].status \in {"running", "collecting"} -> GoOn(h, "step") /\ UNCHANGED run
       [] OTHER -> HandReturns(h) /\ UNCHANGED run
  /\ UNCHANGED <<step, mapping, job, artifacts, approval, delivery, sent, budget>>

(* getStepState of the step the call has come to.                          *)
NextStep(h) ==
  LET s == hand[h].at
  IN /\ hand[h].pc = "step"
     /\ hand' = [hand EXCEPT ![h] =
          IF s \notin StepIds THEN [@ EXCEPT !.pc = "collect"]
          ELSE IF step[s] = "completed" THEN [@ EXCEPT !.at = s + 1]
          ELSE [@ EXCEPT !.pc = IF step[s] = "failed" THEN "fail" ELSE "dispatch"]]
     /\ UNCHANGED <<run, step, mapping, job, artifacts, approval, delivery, sent, budget>>

(* dispatchAndRun returns the one job of the step's key; it may have ended *)
(* or have been suspended.  A mapped step's job is only looked at.         *)
DispatchStep(h) ==
  LET s == hand[h].at
      known == IF job[s] = "none" THEN "active" ELSE job[s]
  IN /\ hand[h].pc = "dispatch"
     /\ job' = [job EXCEPT ![s] = known]
     /\ hand' = [hand EXCEPT ![h].pc = IF mapping[s] THEN "upsert" ELSE "map",
                             ![h].seen = known]
     /\ UNCHANGED <<run, step, mapping, artifacts, approval, delivery, sent, budget>>

(* A concurrent dispatcher may have saved the mapping.                     *)
SaveJobMapping(h) ==
  /\ hand[h].pc = "map"
  /\ mapping' = [mapping EXCEPT ![hand[h].at] = TRUE]
  /\ GoOn(h, "upsert")
  /\ UNCHANGED <<run, step, job, artifacts, approval, delivery, sent, budget>>

AfterStep(q) ==
  CASE q.seen = "failed" -> [q EXCEPT !.pc = "fail"]
    [] q.seen = "completed" -> [q EXCEPT !.pc = "step", !.at = @ + 1]
    [] OTHER -> IdleHand

UpsertStepState(h) ==
  /\ hand[h].pc = "upsert"
  /\ step' = [step EXCEPT ![hand[h].at] = hand[h].seen]
  /\ hand' = [hand EXCEPT ![h] = AfterStep(@)]
  /\ UNCHANGED <<run, mapping, job, artifacts, approval, delivery, sent, budget>>

FailRun(h) ==
  /\ hand[h].pc = "fail" /\ TransitionRun(h, "failed", "idle")
  /\ UNCHANGED <<step, mapping, job, artifacts, approval, delivery, sent, budget>>

(* A run that is "collecting" already cannot take this transition.         *)
Collect(h) ==
  /\ hand[h].pc = "collect" /\ TransitionRun(h, "collecting", "save")
  /\ UNCHANGED <<step, mapping, job, artifacts, approval, delivery, sent, budget>>

SaveArtifacts(h) ==
  /\ hand[h].pc = "save"
  /\ artifacts' = artifacts + 1
  /\ GoOn(h, IF run.gated THEN "gate" ELSE "deliver")
  /\ UNCHANGED <<run, step, mapping, job, approval, delivery, sent, budget>>

CreateApprovalRequest(h) ==
  /\ hand[h].pc = "gate"
  /\ approval' = IF approval = "none" THEN "pending" ELSE approval
  /\ GoOn(h, "await")
  /\ UNCHANGED <<run, step, mapping, job, artifacts, delivery, sent, budget>>

AwaitApproval(h) ==
  /\ hand[h].pc = "await" /\ TransitionRun(h, "awaiting_approval", "idle")
  /\ UNCHANGED <<step, mapping, job, artifacts, approval, delivery, sent, budget>>

-----------------------------------------------------------------------------
(* decideApproval reads the request, and its approvalVersion, first.       *)
Decide(h, decision) ==
  /\ Call(h) /\ approval # "none"
  /\ hand' = [hand EXCEPT ![h] = [IdleHand EXCEPT
       !.pc = "decide", !.decision = decision, !.seen = approval]]
  /\ UNCHANGED <<run, step, mapping, job, artifacts, approval, delivery, sent>>

Decided(h) == IF hand[h].seen = "pending" THEN hand[h].decision ELSE approval

(* The version the decider read is still the row's: its decision is taken, *)
(* or one taken before is returned; else the call is fenced.               *)
DecideApproval(h) ==
  /\ hand[h].pc = "decide"
  /\ IF approval # hand[h].seen THEN HandReturns(h) /\ UNCHANGED approval
     ELSE /\ approval' = IF approval = "pending" THEN hand[h].decision ELSE approval
          /\ hand' = [hand EXCEPT ![h] = [@ EXCEPT !.pc = "apply", !.decision = Decided(h),
                                     !.status = run.status, !.version = run.version]]
  /\ UNCHANGED <<run, step, mapping, job, artifacts, delivery, sent, budget>>

(* "changes_requested" asks for a transition that awaiting_approval does   *)
(* not have; an expired request asks for none.                             *)
ApplyDecision(h) ==
  /\ hand[h].pc = "apply"
  /\ IF hand[h].status # "awaiting_approval" THEN HandReturns(h) /\ UNCHANGED run
     ELSE CASE hand[h].decision = "approved" -> GoOn(h, "deliver") /\ UNCHANGED run
            [] hand[h].decision = "rejected" -> TransitionRun(h, "rejected", "idle")
            [] hand[h].decision = "changes_requested" -> TransitionRun(h, "suspended", "idle")
            [] OTHER -> HandReturns(h) /\ UNCHANGED run
  /\ UNCHANGED <<step, mapping, job, artifacts, approval, delivery, sent, budget>>

RunFault ==
  budget.faults > 0 /\ budget' = [budget EXCEPT !.faults = @ - 1]

ExpireApproval ==
  /\ RunFault /\ approval = "pending"
  /\ approval' = "expired"
  /\ UNCHANGED <<run, step, mapping, job, artifacts, delivery, sent, hand>>

-----------------------------------------------------------------------------
DeliverRun(h) ==
  /\ hand[h].pc = "deliver" /\ TransitionRun(h, "delivering", "attempt")
  /\ UNCHANGED <<step, mapping, job, artifacts, approval, delivery, sent, budget>>

GetDeliveryAttempt(h) ==
  LET d == IF delivery.status = "none" THEN NewAttempt ELSE delivery
  IN /\ hand[h].pc = "attempt"
     /\ delivery' = d
     /\ hand' = [hand EXCEPT
          ![h].pc = IF d.status = "delivered" THEN "complete" ELSE "progress",
          ![h].dversion = d.version]
     /\ UNCHANGED <<run, step, mapping, job, artifacts, approval, sent, budget>>

CanDeliver(h, to) ==
  /\ delivery.version = hand[h].dversion
  /\ delivery.status \notin {to, "delivered", "failed"}

TransitionDelivery(h, to, pc) ==
  IF CanDeliver(h, to)
  THEN /\ delivery' = [status |-> to, version |-> delivery.version + 1]
       /\ hand' = [hand EXCEPT ![h].pc = pc, ![h].dversion = delivery.version + 1]
  ELSE HandReturns(h) /\ UNCHANGED delivery

StartDelivery(h) ==
  /\ hand[h].pc = "progress" /\ TransitionDelivery(h, "in_progress", "provider")
  /\ UNCHANGED <<run, step, mapping, job, artifacts, approval, sent, budget>>

(* The provider may have delivered and still throw.                        *)
CallProvider(h, ok) ==
  /\ hand[h].pc = "provider"
  /\ IF ok THEN UNCHANGED budget ELSE RunFault
  /\ sent' = sent + 1
  /\ GoOn(h, IF ok THEN "delivered" ELSE "undelivered")
  /\ UNCHANGED <<run, step, mapping, job, artifacts, approval, delivery>>

RecordDelivered(h) ==
  /\ hand[h].pc = "delivered" /\ TransitionDelivery(h, "delivered", "complete")
  /\ UNCHANGED <<run, step, mapping, job, artifacts, approval, sent, budget>>

RecordUndelivered(h) ==
  /\ hand[h].pc = "undelivered" /\ TransitionDelivery(h, "failed", "fail")
  /\ UNCHANGED <<run, step, mapping, job, artifacts, approval, sent, budget>>

CompleteRun(h) ==
  /\ hand[h].pc = "complete" /\ TransitionRun(h, "completed", "idle")
  /\ UNCHANGED <<step, mapping, job, artifacts, approval, delivery, sent, budget>>

-----------------------------------------------------------------------------
(* cancelRun, by a user, requestCancellation or the timeout scan.          *)
CancelRun ==
  /\ RunFault /\ run.status \notin TerminalRunStatuses \cup {"none"}
  /\ run' = [run EXCEPT !.status = "cancelled", !.version = @ + 1]
  /\ UNCHANGED <<step, mapping, job, artifacts, approval, delivery, sent, hand>>

HandCrash(h) ==
  /\ RunFault /\ hand[h].pc # "idle" /\ HandReturns(h)
  /\ UNCHANGED <<run, step, mapping, job, artifacts, approval, delivery, sent>>

JobEnds(s, status) ==
  /\ job[s] = "active" /\ status \in {"completed", "failed"}
  /\ job' = [job EXCEPT ![s] = status]
  /\ UNCHANGED <<run, step, mapping, artifacts, approval, delivery, sent, hand, budget>>

AutomationNext ==
  \/ CancelRun \/ ExpireApproval
  \/ \E s \in StepIds : \E status \in {"completed", "failed"} : JobEnds(s, status)
  \/ \E h \in Hands :
       \/ CreateRun(h) \/ ValidateInput(h) \/ AdmitRun(h) \/ AdvanceRun(h)
       \/ ReconcileRun(h) \/ ProjectStep(h) \/ Projected(h) \/ StartRun(h)
       \/ NextStep(h) \/ DispatchStep(h) \/ SaveJobMapping(h) \/ UpsertStepState(h)
       \/ FailRun(h) \/ Collect(h) \/ SaveArtifacts(h) \/ CreateApprovalRequest(h)
       \/ AwaitApproval(h) \/ DecideApproval(h) \/ ApplyDecision(h) \/ DeliverRun(h)
       \/ GetDeliveryAttempt(h) \/ StartDelivery(h) \/ RecordDelivered(h)
       \/ RecordUndelivered(h) \/ CompleteRun(h) \/ HandCrash(h)
       \/ \E decision \in ApprovalDecisions : Decide(h, decision)
       \/ \E ok \in BOOLEAN : CallProvider(h, ok)

AutomationSpec == AutomationInit /\ [][AutomationNext]_runVars

-----------------------------------------------------------------------------
(* Whatever calls overlap, a run is past "running" only when the job of    *)
(* every step has completed, and saved its artifacts once at most          *)
(* (service.ts:416-470; store.ts:698).                                     *)
ExecutedBeforeCollected ==
  /\ run.status \in {"collecting", "awaiting_approval", "delivering", "completed"} =>
       \A s \in StepIds : job[s] = "completed"
  /\ artifacts <= 1

(* With an approval gate nothing is sent, and the run does not complete,   *)
(* unless the request is approved: not when two deciders race, one repeats *)
(* the other's decision, or the request expires under them                 *)
(* (service.ts:606-627, store.ts:876).                                     *)
ApprovedBeforeSent ==
  run.gated /\ (sent > 0 \/ run.status \in {"delivering", "completed"}) =>
    approval = "approved"

(* The provider is called once at most for a run, by whichever of the      *)
(* calls that deliver it, with crashes in between (store.ts:985,           *)
(* service.ts:665).                                                        *)
SentAtMostOnce == sent <= 1

(* A run completes only when its delivery did, and never leaves a terminal *)
(* status: a call that was on its way when the run was cancelled or timed  *)
(* out cannot complete it (cancellation.ts:8, store.ts:710).               *)
FinishedRunIsFinal ==
  [][/\ run.status \in TerminalRunStatuses => run' = run
     /\ run'.status = "completed" => delivery.status = "delivered"
    ]_runVars
=============================================================================
