----------------------------- MODULE MCTenants ------------------------------
(* The services of a tenant, each against its own concurrency and          *)
(* failures: the work queue, schedules, inbound events, trigger dispatch,  *)
(* automation versions and runs, their artifacts and deliveries, repairs,  *)
(* connections, members and principals.  The parts share no rows, so a     *)
(* behaviour follows one of them while the others stand still.             *)
EXTENDS OpsQueue, Scheduler, EventIntake, TriggerDispatch, Definitions, Automation,
        Artifacts, Delivery, Reliability, Connections, Membership, Principals

CONSTANTS e1, t1, s1, s2, q1, q2, u1, u2, v1, v2,
  Parts     \* the parts explored

VARIABLE focus

(* The calls in flight, in every part, and what they are about: attempts,  *)
(* invitations, keys, names of redrive passes, each in a part of its own.  *)
Interchangeable == Permutations({u1, u2}) \cup Permutations({v1, v2})

(* Cron minutes 1 and 2 of a cycle, every hour, day and month.             *)
Every == <<Star(1)>>
Field(base, lo, hi, by) == [base |-> base, lo |-> lo, hi |-> hi, step |-> by]
MCCron == [minute |-> <<Field("number", 1, 0, 1), Field("range", 2, 2, 1)>>, hour |-> Every,
           dom |-> <<Field("L", 0, 0, 1)>>, month |-> Every, dow |-> <<Field("from", 0, 0, 2)>>]
Skipping == [kind |-> "recurring", cron |-> MCCron, scheduledAt |-> -1,
             policy |-> "skip", maxCatchUp |-> 1]
CatchingUp == [Skipping EXCEPT !.policy = "catch_up", !.maxCatchUp = 2]
Single == [Skipping EXCEPT !.kind = "one_time", !.scheduledAt = 3]
MCVersions == [s \in Schedules |-> <<Skipping, CatchingUp, Single>>]

MCInterested == {<<s1, e1>>, <<s2, e1>>}
MCMatching == {<<e1, t1>>}
MCSteps == <<"first", "second">>

(* Graphs of three steps with up to two dependencies each, and definitions *)
(* that fail otherwise: a name unknown or given twice, a gate out of place. *)
Artifact(id) == [id |-> "report", step |-> id]
Definition(steps, required, gate) ==
  [steps |-> steps, complete |-> TRUE, artifacts |-> <<Artifact("b")>>, named |-> {"report"},
   approvalRequired |-> required, gate |-> gate]
Dependencies == {<<>>, <<"a">>, <<"b">>, <<"c">>, <<"a", "b">>, <<"b", "c">>}
StepOf(id, deps) == [id |-> id, dependsOn |-> deps]
Graphs == {Definition(<<StepOf("a", x), StepOf("b", y), StepOf("c", z)>>, FALSE, FALSE) :
             x, y, z \in Dependencies}
Plain == <<StepOf("a", <<>>), StepOf("b", <<>>)>>
Others == {Definition(Plain, TRUE, TRUE), Definition(Plain, TRUE, FALSE),
           Definition(<<Plain[1], Plain[1]>>, FALSE, FALSE),
           Definition(<<Plain[1], StepOf("b", <<"z">>)>>, FALSE, FALSE),
           Definition(<<Plain[1], StepOf("b", <<"a", "a">>)>>, FALSE, FALSE)}
MCOffers == [p \in {q1, q2} |-> IF p = q1 THEN Graphs ELSE Others]

(* A public address; a name that also resolves into a private network, with *)
(* a word in it that the retry policy reads; a local IPv6 address; and a    *)
(* private address in its mapped form.                                      *)
V4(a, b) == [v |-> 4, a |-> a, b |-> b, metadata |-> FALSE, kind |-> "v4"]
V6(x) == [V4(0, 0) EXCEPT !.v = 6, !.kind = x]
Mapped(a, b) == [V4(a, b) EXCEPT !.v = 6, !.kind = "mapped"]
Url(addrs) == [https |-> TRUE, userinfo |-> FALSE, host |-> TRUE, addrs |-> addrs,
               words |-> "unknown_uncertain"]
MCUrls == {Url({V4(93, 184)}), [Url({V4(172, 31), V4(93, 184)}) EXCEPT !.words = "transient"],
           Url({V6("unique-local")}), Url({Mapped(10, 0)})}

opsSide == <<opsVars, schedulerVars, intakeVars, dispatchVars, relVars>>
runSide == <<definitionVars, runVars, artVars, deliveryVars>>
accessSide == <<connVars, memberVars, principalVars>>

TenantsInit ==
  /\ focus \in Parts
  /\ OpsInit /\ SchedulerInit /\ IntakeInit /\ DispatchInit
  /\ RelInit /\ (focus # "repairs" => \A i \in RelItems : relItem[i].state = "pending")
  /\ DefinitionsInit /\ AutomationInit
  /\ ArtifactsInit /\ (focus # "artifacts" => backend = "local") /\ DeliveryInit
  /\ ConnInit /\ MembershipInit /\ PrincipalsInit

OpsSideNext ==
  \/ /\ focus = "ops" /\ OpsNext
     /\ UNCHANGED <<schedulerVars, intakeVars, dispatchVars, relVars>>
  \/ /\ focus = "scheduler" /\ SchedulerNext
     /\ UNCHANGED <<opsVars, intakeVars, dispatchVars, relVars>>
  \/ /\ focus = "gateway" /\ GatewayNext
     /\ UNCHANGED <<opsVars, schedulerVars, dispatchVars, relVars>>
  \/ /\ focus = "fanout" /\ FanOutNext
     /\ UNCHANGED <<opsVars, schedulerVars, dispatchVars, relVars>>
  \/ /\ focus = "dispatch" /\ DispatchNext
     /\ UNCHANGED <<opsVars, schedulerVars, intakeVars, relVars>>
  \/ /\ focus = "repairs" /\ PassNext
     /\ UNCHANGED <<opsVars, schedulerVars, intakeVars, dispatchVars>>
  \/ /\ focus = "timeouts" /\ ScanNext
     /\ UNCHANGED <<opsVars, schedulerVars, intakeVars, dispatchVars>>

RunSideNext ==
  \/ /\ focus = "definitions" /\ DefinitionsNext /\ UNCHANGED <<runVars, artVars, deliveryVars>>
  \/ /\ focus = "runs" /\ AutomationNext /\ UNCHANGED <<definitionVars, artVars, deliveryVars>>
  \/ /\ focus = "artifacts" /\ ArtifactsNext /\ UNCHANGED <<definitionVars, runVars, deliveryVars>>
  \/ /\ focus = "deliveries" /\ DeliveryNext /\ UNCHANGED <<definitionVars, runVars, artVars>>

AccessSideNext ==
  \/ focus = "connections" /\ ConnNext /\ UNCHANGED <<memberVars, principalVars>>
  \/ focus = "members" /\ MembershipNext /\ UNCHANGED <<connVars, principalVars>>
  \/ focus = "keys" /\ KeyNext /\ UNCHANGED <<connVars, memberVars>>
  \/ focus = "identities" /\ ServiceNext /\ UNCHANGED <<connVars, memberVars>>
  \/ focus = "sessions" /\ SessionNext /\ UNCHANGED <<connVars, memberVars>>

TenantsNext ==
  /\ UNCHANGED focus
  /\ \/ OpsSideNext /\ UNCHANGED <<runSide, accessSide>>
     \/ RunSideNext /\ UNCHANGED <<opsSide, accessSide>>
     \/ AccessSideNext /\ UNCHANGED <<opsSide, runSide>>

TenantsSpec == TenantsInit /\ [][TenantsNext]_<<focus, opsSide, runSide, accessSide>>

(* Every row and every call keeps its type.                                *)
TenantsTypeOK ==
  /\ OpsTypeOK /\ SchedulerTypeOK /\ IntakeTypeOK /\ DispatchTypeOK /\ RelTypeOK
  /\ DefinitionsTypeOK /\ AutomationTypeOK /\ ArtifactsTypeOK /\ DeliveryTypeOK
  /\ ConnTypeOK /\ MembershipTypeOK /\ PrincipalsTypeOK

(* Queued work is held by one, retried within its cap, and seen by every   *)
(* repair pass (ops/store.ts, reliability/reconciliation.ts).              *)
QueueSafe ==
  /\ OneHolder
  /\ RetriesBounded
  /\ PassCoversPending

(* What comes in is taken by one and lost by nobody: a delivery is         *)
(* enqueued once, a processed event is triggered, a dispatch is tried      *)
(* within its cap and makes one run per process life (gateway.ts,          *)
(* fanout.ts, dispatch.ts).                                                *)
InboundSafe ==
  /\ EnqueuedByOne
  /\ ProcessedIsTriggered
  /\ AttemptsBounded
  /\ RunPerProcessLife

(* A published version can be executed, and a run goes through it in       *)
(* order: executed before collected, approved before sent, sent once       *)
(* (version.ts, service.ts).                                               *)
AutomationSafe ==
  /\ PublishedIsExecutable
  /\ RefusedForCause
  /\ VersionsNumbered
  /\ ExecutedBeforeCollected
  /\ ApprovedBeforeSent
  /\ SentAtMostOnce

(* What goes out: stored artifacts are whole, deliveries reach only        *)
(* checked destinations, are never only believed, and repeat only with a   *)
(* cause (artifacts, delivery).                                            *)
OutputsSafe ==
  /\ KeptIsWhole
  /\ HeadMatchesContent
  /\ DuplicateHasCause
  /\ DeliveredWasReceived
  /\ OnlyCheckedContacted

(* Access: an organization keeps an owner, an address one open invitation, *)
(* and nothing withdrawn is granted (identity/store.ts, auth).             *)
AccessSafe ==
  /\ OwnerKept
  /\ OnePendingPerEmail
  /\ WithdrawnNeverGranted

(* What has been decided stays decided, although each of these rows is     *)
(* written by callers that read it before an await: finished work, failed  *)
(* triggers, dispatches with their run or under a live lease, finished     *)
(* runs, ended deliveries, invitations, withdrawn principals, anchors.     *)
DecisionsStand ==
  /\ FinishedForGood
  /\ FailedNotCompleted
  /\ DecidedForGood
  /\ LiveLeaseKeepsDispatch
  /\ CompletedStaysCompleted
  /\ FinishedRunIsFinal
  /\ AttemptsEnd
  /\ InvitationDecidedForGood
  /\ WithdrawnForGood
  /\ AnchorSetOnce
=============================================================================
