-------------------------------- MODULE Fleet -------------------------------
(***************************************************************************)
(* The distributed deployment around the runner: WorkerHost and            *)
(* JobReconciler (packages/vaulltcore-worker/src) over the dispatcher of   *)
(* DistributedSqlStore (packages/vaulltcore-store-sql/src), for one job.   *)
(*                                                                         *)
(* Every process runs a worker host loop.  A host claims the queued job,   *)
(* acknowledges the claim, and runs the job under a heartbeat that renews  *)
(* the execution lease and the claim.  A supervisor re-enqueues suspended  *)
(* jobs.  The claim (assignment) and the lease (execution) are separate.   *)
(***************************************************************************)
EXTENDS Runner

CONSTANT MaxClaims   \* bound: dispatch claims handed out

ASSUME FleetBound == MaxClaims \in Nat

VARIABLES
  claim,    \* the dispatch_claims row of the job: its token, and whether it is live
  claims,   \* dispatch claims handed out so far; the next token
  host      \* host[p]: the runOnce call of process p's worker loop

fleetOnly == <<claim, claims, host>>
fleetVars == <<vars, claim, claims, host>>

NoClaim == [token |-> 0, live |-> FALSE]
HostPc == {"idle", "ack", "run", "wait", "dead"}
IdleHost == [pc |-> "idle", token |-> 0, heartbeating |-> FALSE, fenced |-> FALSE]

HostAt(p, pc) == host[p].pc = pc
HostSet(p, h) == host' = [host EXCEPT ![p] = h]

-----------------------------------------------------------------------------
(* dispatcher.claim: a queued job without a live claim.                    *)
Claim(p) ==
  /\ HostAt(p, "idle")
  /\ rec.status = "queued" /\ ~claim.live
  /\ claims < MaxClaims
  /\ claims' = claims + 1
  /\ claim' = [token |-> claims + 1, live |-> TRUE]
  /\ HostSet(p, [IdleHost EXCEPT !.pc = "ack", !.token = claims + 1])
  /\ UNCHANGED vars

(* dispatcher.acknowledge: fenced on the token, but its error is swallowed *)
(* and runOnce goes on to start the heartbeat loop and to run the job.     *)
Acknowledge(p) ==
  /\ HostAt(p, "ack")
  /\ HostSet(p, [host[p] EXCEPT !.pc = "run", !.heartbeating = TRUE])
  /\ UNCHANGED <<vars, claim, claims>>

(* runner.runJob: starts a queued job, resumes a suspended one, returns at *)
(* once for a terminal one and throws InvalidJobStateError otherwise.      *)
RunClaimed(p) ==
  /\ HostAt(p, "run")
  /\ HostSet(p, [host[p] EXCEPT !.pc = "wait"])
  /\ \/ RunJob(p)
     \/ rec.status = "suspended" /\ ResumeJob(p)
     \/ /\ rec.status \notin {"queued", "suspended"}
        /\ Set(p, IF rec.status \in Terminal THEN IdleRun ELSE Rejected)
        /\ UNCHANGED <<rec, log, ckpt, env, ctl, spent, execs, orphaned>>
  /\ UNCHANGED <<claim, claims>>

(* One beat that fails: its token can no longer be renewed, or the runner  *)
(* has no active run yet when the first beat comes (a resume that takes    *)
(* longer than the interval).  The host stops beating; the run goes on.    *)
(* A beat that succeeds keeps lease and claim live, see ExecutionExpires.  *)
HeartbeatFails(p) ==
  /\ HostAt(p, "wait") /\ host[p].heartbeating
  /\ IF run[p].active THEN ~Renewable(run[p].gen) ELSE HeartbeatLoss
  /\ HostSet(p, [host[p] EXCEPT !.heartbeating = FALSE, !.fenced = TRUE])
  /\ UNCHANGED <<vars, claim, claims>>

(* Mutant: release without the token in its WHERE clause.                  *)
RunOverReleasingAny(p) ==
  /\ HostAt(p, "wait") /\ At(p, "idle")
  /\ HostSet(p, IdleHost)
  /\ claim' = NoClaim
  /\ UNCHANGED <<vars, claims>>

(* runJob is over.  An exception leaves runOnce and with it runLoop: the   *)
(* loop is gone until the process restarts.  Otherwise the claim is        *)
(* released, unless the heartbeat found the host fenced.                   *)
RunOver(p) ==
  /\ HostAt(p, "wait") /\ At(p, "idle")
  /\ IF run[p].threw
     THEN HostSet(p, [IdleHost EXCEPT !.pc = "dead"]) /\ UNCHANGED claim
     ELSE /\ HostSet(p, IdleHost)
          /\ claim' = IF ~host[p].fenced /\ claim.token = host[p].token
                      THEN NoClaim ELSE claim
  /\ UNCHANGED <<vars, claims>>

-----------------------------------------------------------------------------
(* Supervision and time.                                                   *)

(* dispatcher.enqueue on a suspended job.                                  *)
Enqueue ==
  /\ Requeue
  /\ claim' = NoClaim
  /\ UNCHANGED <<log, ckpt, env, run, ctl, spent, execs, orphaned, claims, host>>

Beating(p) == host[p].heartbeating /\ HostAt(p, "wait")

ExecutionExpires ==
  /\ HeartbeatLoss \/ ~(\E p \in Procs : Beating(p) /\ run[p].gen = rec.lease.token)
  /\ LeaseExpires
  /\ UNCHANGED <<log, ckpt, env, run, ctl, spent, execs, orphaned, fleetOnly>>

ClaimExpires ==
  /\ claim.live
  /\ HeartbeatLoss \/ ~(\E p \in Procs : Beating(p) /\ host[p].token = claim.token)
  /\ claim' = [claim EXCEPT !.live = FALSE]
  /\ UNCHANGED <<vars, claims, host>>

FleetCrash(p) ==
  /\ \/ Crash(p)
     \/ /\ At(p, "idle") /\ ctl[p].pc = "idle" /\ host[p].pc \notin {"idle"}
        /\ spent["crash"] < MaxCrashes
        /\ Spend("crash")
        /\ UNCHANGED <<rec, log, ckpt, env, run, ctl, execs, orphaned>>
  /\ HostSet(p, IdleHost)
  /\ UNCHANGED <<claim, claims>>

-----------------------------------------------------------------------------
FleetInit ==
  /\ Init
  /\ claim = NoClaim
  /\ claims = 0
  /\ host = [p \in Procs |-> IdleHost]

HostStep(p) ==
  \/ Claim(p) \/ Acknowledge(p) \/ RunClaimed(p) \/ HeartbeatFails(p) \/ RunOver(p)

FleetNext ==
  \/ \E p \in Procs :
       \/ HostStep(p) \/ FleetCrash(p)
       \/ (RunStep(p) \/ CtlCall(p) \/ CtlStep(p)) /\ UNCHANGED fleetOnly
  \/ Enqueue \/ ExecutionExpires \/ ClaimExpires

FleetSpec == FleetInit /\ [][FleetNext]_fleetVars

(* Awaits complete, hosts keep polling, the reconciler and the supervisor  *)
(* that enqueues what it suspended run periodically, and time passes.      *)
FairFleetSpec ==
  /\ FleetSpec
  /\ \A p \in Procs :
       /\ WF_fleetVars(HostStep(p))
       /\ WF_fleetVars(RunStep(p) /\ UNCHANGED fleetOnly)
       /\ WF_fleetVars(CtlStep(p) /\ UNCHANGED fleetOnly)
       /\ WF_fleetVars(Reconcile(p) /\ UNCHANGED fleetOnly)
  /\ WF_fleetVars(Enqueue)
  /\ WF_fleetVars(ExecutionExpires) /\ WF_fleetVars(ClaimExpires)

-----------------------------------------------------------------------------
(* Type correctness of what the deployment adds.                           *)
FleetTypeOK ==
  /\ TypeOK
  /\ claim \in [token : 0..MaxClaims, live : BOOLEAN]
  /\ claims \in 0..MaxClaims
  /\ host \in [Procs -> [pc : HostPc, token : 0..MaxClaims,
                         heartbeating : BOOLEAN, fenced : BOOLEAN]]

(* A worker that crashes at any point does not strand the job: lease and   *)
(* claim run out, the reconciler parks it, the supervisor re-enqueues it   *)
(* and a host brings it to an end - as long as no host loop has been taken *)
(* down by an exception of runJob (RunOver).                               *)
LostJobIsFinished ==
  <>(rec.status \in Terminal \/ \E p \in Procs : HostAt(p, "dead"))

(* A host that ends late never takes another host's assignment away: only  *)
(* the claim it holds itself is released, although that claim may have     *)
(* expired and been handed on while it ran (dispatcher.release).           *)
OthersClaimKept ==
  [][\A p \in Procs :
       HostAt(p, "wait") /\ host'[p].pc = "idle" /\ claim.token # host[p].token
         => claim' = claim]_fleetVars

(* However claims and leases expire apart from each other, a generation    *)
(* has one run, an assignment one holder, and the job is owned as the      *)
(* contract says (acquireLease, dispatcher.release).                       *)
AssignedToOne ==
  /\ []OneRunPerGeneration
  /\ OthersClaimKept
  /\ ImplementsOwnership
=============================================================================
