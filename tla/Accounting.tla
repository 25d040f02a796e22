----------------------------- MODULE Accounting -----------------------------
(***************************************************************************)
(* From committed job events to money: the metering store and its adapter, *)
(* the billing ledger with its settlement table, and the reconciliation    *)
(* service that drives both (vaulltcore-metering, -billing, -reconcile).   *)
(* Every store method is one transaction; reconcile() is stepped at its    *)
(* awaits, several runs may overlap, and a run may crash or fail anywhere. *)
(*                                                                         *)
(* Quantities are abstracted to 1 and the unit price of a pricing version  *)
(* to its number, so an amount tells which version priced it.              *)
(***************************************************************************)
EXTENDS Integers, Sequences, FiniteSets, FiniteSetsExt

CONSTANTS
  BilledJobs,    \* the tenant's jobs, in order of creation (a sequence)
  AccountOf,     \* the (org, project) of each job
  Reconcilers,   \* reconcile() calls that may overlap
  ClientKeys,    \* idempotency keys of charges and adjustments by clients
  MaxLog,        \* bound on the committed events of a job
  MaxPricing,    \* bound on the pricing versions
  MaxRuns,       \* bound on the reconciliation runs
  MaxScan        \* maxJobs

ASSUME AccountingAssumption ==
  /\ BilledJobs \in Seq(DOMAIN AccountOf)
  /\ {MaxLog, MaxPricing, MaxRuns, MaxScan} \subseteq Nat

VARIABLES
  eventLog,     \* the committed events of each job, as their types
  usage,        \* usage_events, by accounting identity
  settlement,   \* usage_settlement
  ledger,       \* ledger_entries
  pricing,      \* the active version of pricing_versions, 0 when none
  gaps,         \* reconciliation_gaps
  runs,         \* reconciliation_runs
  recon         \* the reconcile() calls in flight

accountingVars ==
  <<eventLog, usage, settlement, ledger, pricing, gaps, runs, recon>>

JobSet == {BilledJobs[i] : i \in 1..Len(BilledJobs)}
Accounts == {AccountOf[j] : j \in DOMAIN AccountOf}
MeteredTypes == {"usage", "tool_response", "other"}

(* What one committed event stands for: one request and its tokens, or one *)
(* tool call; everything else is free.                                     *)
KindsOf(type) ==
  CASE type = "usage" -> {"model_tokens", "model_request"}
    [] type = "tool_response" -> {"tool_call"}
    [] OTHER -> {}

(* Identities are derived from the committed seq, never from the caller.   *)
Identity(j, kind, seq) == <<j, kind, seq>>
UsageIds == JobSet \X {"model_tokens", "model_request", "tool_call"}
              \X (1..MaxLog)

EventsToUsage(j, events) ==
  {u \in UsageIds : /\ u[1] = j
                    /\ u[3] <= Len(events)
                    /\ u[2] \in KindsOf(events[u[3]])}

SettlementStates == {"none", "pending", "priced", "settled", "non_billable",
                     "unresolved"}
GapKinds == {"duplicate_candidate", "unpriced_usage"}
GapStates == {"none", "open", "repaired", "unresolved"}
RunStates == {"running", "completed", "failed", "interrupted"}
RecPc == {"idle", "next", "record", "list", "look", "settle", "complete"}

LedgerEntry ==
  [key : (UsageIds \X {"settle"}) \cup (ClientKeys \X {"client"}),
   account : Accounts, type : {"charge", "adjustment"}, amount : Int,
   original : BOOLEAN]

IdleRec == [pc |-> "idle", run |-> 0, next |-> 1, from |-> <<>>,
            todo |-> {}, cur |-> {}, mark |-> 0]

AccountingTypeOK ==
  /\ usage \subseteq UsageIds
  /\ \A u \in UsageIds : settlement[u].state \in SettlementStates
  /\ ledger \subseteq LedgerEntry
  /\ pricing \in 0..MaxPricing
  /\ gaps \in [GapKinds \X UsageIds -> GapStates]
  /\ \A i \in 1..Len(runs) : /\ runs[i].status \in RunStates
                             /\ runs[i].watermark \in 0..MaxLog
  /\ \A r \in Reconcilers : recon[r].pc \in RecPc /\ recon[r].todo \subseteq usage

AccountingInit ==
  /\ eventLog = [j \in JobSet |-> <<>>]
  /\ usage = {}
  /\ settlement = [u \in UsageIds |-> [state |-> "none", amount |-> 0]]
  /\ ledger = {}
  /\ pricing = 0
  /\ gaps = [g \in GapKinds \X UsageIds |-> "none"]
  /\ runs = <<>>
  /\ recon = [r \in Reconcilers |-> IdleRec]

-----------------------------------------------------------------------------
(* The jobs and the operator.                                              *)
CommitEvent(j, type) ==
  /\ Len(eventLog[j]) < MaxLog
  /\ eventLog' = [eventLog EXCEPT ![j] = Append(@, type)]
  /\ UNCHANGED <<usage, settlement, ledger, pricing, gaps, runs, recon>>

(* The new version takes over; one stored inactive is never looked up.     *)
CreatePricingVersion ==
  /\ pricing < MaxPricing
  /\ pricing' = pricing + 1
  /\ UNCHANGED <<eventLog, usage, settlement, ledger, gaps, runs, recon>>

-----------------------------------------------------------------------------
(* The ledger.                                                             *)

(* ON CONFLICT (tenant, org, project, idempotency_key) DO NOTHING.         *)
InsertEntry(entry) ==
  ledger' = IF \E e \in ledger : e.account = entry.account /\ e.key = entry.key
            THEN ledger ELSE ledger \cup {entry}

(* charge and chargeJobUsage: the caller brings the pricing, which is the  *)
(* default one (0 here) when none is active.                               *)
Charge(k, a) ==
  /\ InsertEntry([key |-> <<k, "client">>, account |-> a, type |-> "charge",
                  amount |-> pricing, original |-> FALSE])
  /\ UNCHANGED <<eventLog, usage, settlement, pricing, gaps, runs, recon>>

Adjust(k, a) ==
  /\ InsertEntry([key |-> <<k, "client">>, account |-> a,
                  type |-> "adjustment", amount |-> -1, original |-> FALSE])
  /\ UNCHANGED <<eventLog, usage, settlement, pricing, gaps, runs, recon>>

(* The entry that is corrected must exist in the same scope.               *)
Findable(original, a) == original \in ledger /\ original.account = a

RecordAdjustment(k, a, original) ==
  /\ Findable(original, a)
  /\ InsertEntry([key |-> <<k, "client">>, account |-> a,
                  type |-> "adjustment", amount |-> -1, original |-> TRUE])
  /\ UNCHANGED <<eventLog, usage, settlement, pricing, gaps, runs, recon>>

SettleKey(u) == <<u, "settle">>
EntryOf(u) == CHOOSE e \in ledger' : e.key = SettleKey(u)

(* Mutant: a settled event is classified and priced again.                 *)
FinalOnlyIfFree(u) == settlement[u].state = "non_billable"

Final(u) == settlement[u].state \in {"settled", "non_billable"}

(* settleUsage: the recorded outcome, a verdict that the event is free, no *)
(* active price, or one entry at the price that is active now.             *)
SettleUsage(u, billable) ==
  \/ /\ Final(u)
     /\ UNCHANGED <<settlement, ledger>>
  \/ /\ ~Final(u) /\ ~billable
     /\ settlement' = [settlement EXCEPT ![u].state = "non_billable"]
     /\ UNCHANGED ledger
  \/ /\ ~Final(u) /\ billable /\ pricing = 0
     /\ settlement' = [settlement EXCEPT ![u].state = "unresolved"]
     /\ UNCHANGED ledger
  \/ /\ ~Final(u) /\ billable /\ pricing # 0
     /\ InsertEntry([key |-> SettleKey(u), account |-> AccountOf[u[1]],
                     type |-> "charge", amount |-> pricing,
                     original |-> FALSE])
     /\ settlement' = [settlement EXCEPT ![u] =
          [state |-> "settled", amount |-> EntryOf(u).amount]]

(* A settlement call whose classifier finds the usage free.                *)
SettleFree(u) ==
  /\ u \in usage
  /\ SettleUsage(u, FALSE)
  /\ UNCHANGED <<eventLog, usage, pricing, gaps, runs, recon>>

MarkUsageUnresolved(u) ==
  /\ settlement[u].state \notin {"none", "settled", "non_billable"}
  /\ settlement' = [settlement EXCEPT ![u].state = "unresolved"]
  /\ UNCHANGED <<eventLog, usage, ledger, pricing, gaps, runs, recon>>

-----------------------------------------------------------------------------
(* The reconciliation runs.                                                *)
RecAt(r, pc) == recon[r].pc = pc
RecGoto(r, pc) == recon' = [recon EXCEPT ![r].pc = pc]

(* The newest finished run that was completed or interrupted.              *)
SeedMark(rows) ==
  LET done == {i \in 1..Len(rows) : rows[i].status \in {"completed", "interrupted"}}
      newest == {i \in done : \A k \in done : rows[k].finished <= rows[i].finished}
  IN IF newest = {} THEN 0 ELSE rows[Max(newest)].watermark

FinishStamp == 1 + Max({0} \cup {runs[i].finished : i \in 1..Len(runs)})

BeginRun(r) ==
  /\ RecAt(r, "idle")
  /\ Len(runs) < MaxRuns
  /\ LET interrupted ==
           [i \in 1..Len(runs) |->
              IF runs[i].status = "running"
              THEN [runs[i] EXCEPT !.status = "interrupted", !.finished = FinishStamp]
              ELSE runs[i]]
     IN /\ runs' = Append(interrupted, [status |-> "running", finished |-> 0,
                                        watermark |-> SeedMark(interrupted)])
        /\ recon' = [recon EXCEPT ![r] =
             [IdleRec EXCEPT !.pc = "next", !.run = Len(runs) + 1,
                             !.from = eventLog,
                             !.mark = SeedMark(interrupted)]]
  /\ UNCHANGED <<eventLog, usage, settlement, ledger, pricing, gaps>>

CurrentJob(r) == BilledJobs[recon[r].next]
ScanOver(r) == recon[r].next > Len(BilledJobs) \/ recon[r].next > MaxScan

(* Jobs are scanned from the first one, whatever the watermark says.       *)
NextJob(r) ==
  /\ RecAt(r, "next")
  /\ RecGoto(r, IF ScanOver(r) THEN "complete" ELSE "record")
  /\ UNCHANGED <<eventLog, usage, settlement, ledger, pricing, gaps, runs>>

(* A gap is opened once; a known one keeps its state.                      *)
WithGaps(kind, refs) ==
  [g \in DOMAIN gaps |->
     IF g[1] = kind /\ g[2] \in refs /\ gaps[g] = "none" THEN "open"
     ELSE gaps[g]]

(* Mutant: the last committed event is left out of the batch.              *)
RecordBatchShort(r) ==
  /\ RecAt(r, "record")
  /\ LET events == eventLog[CurrentJob(r)]
         found == EventsToUsage(CurrentJob(r), SubSeq(events, 1, Len(events) - 1))
     IN /\ usage' = usage \cup found
        /\ gaps' = WithGaps("duplicate_candidate", usage \cap found)
        /\ recon' = [recon EXCEPT ![r].pc = "list",
             ![r].mark = IF Len(events) > @ THEN Len(events) ELSE @]
  /\ UNCHANGED <<eventLog, settlement, ledger, pricing, runs>>

(* recordBatch: rows that exist already are reported as duplicates.        *)
RecordBatch(r) ==
  /\ RecAt(r, "record")
  /\ LET found == EventsToUsage(CurrentJob(r), eventLog[CurrentJob(r)])
     IN /\ usage' = usage \cup found
        /\ gaps' = WithGaps("duplicate_candidate", usage \cap found)
        /\ recon' = [recon EXCEPT ![r].pc = "list",
             ![r].mark = IF Len(eventLog[CurrentJob(r)]) > @
                         THEN Len(eventLog[CurrentJob(r)]) ELSE @]
  /\ UNCHANGED <<eventLog, settlement, ledger, pricing, runs>>

ListUsage(r) ==
  /\ RecAt(r, "list")
  /\ recon' = [recon EXCEPT ![r].pc = "look",
                        ![r].todo = {u \in usage : u[1] = CurrentJob(r)}]
  /\ UNCHANGED <<eventLog, usage, settlement, ledger, pricing, gaps, runs>>

NeedsSettling(u) == settlement[u].state \in {"none", "pending", "unresolved"}

LookAt(r) ==
  /\ RecAt(r, "look")
  /\ \/ /\ recon[r].todo = {}
        /\ recon' = [recon EXCEPT ![r].pc = "next", ![r].next = @ + 1]
        /\ runs' = [runs EXCEPT ![recon[r].run].watermark =
             IF recon[r].mark > @ THEN recon[r].mark ELSE @]
        /\ UNCHANGED gaps
     \/ \E u \in recon[r].todo :
          /\ recon' = [recon EXCEPT ![r].todo = @ \ {u},
               ![r].cur = IF NeedsSettling(u) THEN {u} ELSE {},
               ![r].pc = IF NeedsSettling(u) THEN "settle" ELSE "look"]
          /\ gaps' = IF settlement[u].state = "none"
                     THEN WithGaps("unpriced_usage", {u}) ELSE gaps
          /\ UNCHANGED runs
  /\ UNCHANGED <<eventLog, usage, settlement, ledger, pricing>>

(* settleUsage without a classifier, then the gap is marked: only an open  *)
(* one becomes repaired, any one becomes unresolved.                       *)
Repair(r) ==
  /\ RecAt(r, "settle")
  /\ \E u \in recon[r].cur :
       /\ SettleUsage(u, TRUE)
       /\ gaps' = [gaps EXCEPT ![<<"unpriced_usage", u>>] =
            CASE settlement'[u].state = "unresolved" /\ @ # "none" -> "unresolved"
              [] settlement'[u].state = "settled" /\ @ = "open" -> "repaired"
              [] OTHER -> @]
       /\ recon' = [recon EXCEPT ![r].pc = "look", ![r].cur = {}]
  /\ UNCHANGED <<eventLog, usage, pricing, runs>>

(* The row is finished whatever became of it meanwhile.                    *)
Finish(r, status) ==
  /\ runs' = [runs EXCEPT ![recon[r].run].status = status,
                          ![recon[r].run].finished = FinishStamp,
                          ![recon[r].run].watermark =
                            IF recon[r].mark > @ THEN recon[r].mark ELSE @]
  /\ recon' = [recon EXCEPT ![r] = IdleRec]
  /\ UNCHANGED <<eventLog, usage, settlement, ledger, pricing, gaps>>

CompleteReconcile(r) == RecAt(r, "complete") /\ Finish(r, "completed")
FailReconcile(r) == ~RecAt(r, "idle") /\ Finish(r, "failed")

ReconcilerCrash(r) ==
  /\ ~RecAt(r, "idle")
  /\ recon' = [recon EXCEPT ![r] = IdleRec]
  /\ UNCHANGED <<eventLog, usage, settlement, ledger, pricing, gaps, runs>>

ReconcileStep(r) ==
  BeginRun(r) \/ NextJob(r) \/ RecordBatch(r) \/ ListUsage(r) \/ LookAt(r)
    \/ Repair(r) \/ CompleteReconcile(r) \/ FailReconcile(r) \/ ReconcilerCrash(r)

(* Clients of the ledger.                                                  *)
LedgerNext ==
  \E k \in ClientKeys, a \in Accounts :
    \/ Charge(k, a) \/ Adjust(k, a)
    \/ \E e \in ledger : RecordAdjustment(k, a, e)

(* Jobs, reconciliation and settlement.                                    *)
SettlementNext ==
  \/ \E j \in JobSet, t \in MeteredTypes : CommitEvent(j, t)
  \/ \E u \in UsageIds : MarkUsageUnresolved(u) \/ SettleFree(u)
  \/ \E r \in Reconcilers : ReconcileStep(r)

AccountingNext == LedgerNext \/ SettlementNext \/ CreatePricingVersion

AccountingSpec == AccountingInit /\ [][AccountingNext]_accountingVars

-----------------------------------------------------------------------------
(* However often overlapping, crashed and repeated runs and direct calls   *)
(* settle a usage event, it has one charge, in its job's account, exactly  *)
(* when it is settled, and the settlement states that charge's amount      *)
(* (billing/store.ts:469, 514).                                            *)
OneChargePerUsage ==
  \A u \in UsageIds :
    LET charges == {e \in ledger : e.key = SettleKey(u)} IN
      /\ Cardinality(charges) <= 1
      /\ settlement[u].state = "settled" <=> charges # {}
      /\ \A e \in charges : /\ e.account = AccountOf[u[1]]
                            /\ e.amount = settlement[u].amount

(* A later price, a later classification or a later run never rewrites     *)
(* what was charged: entries stay, and a settled or free event keeps its   *)
(* outcome (billing/store.ts:483, 544).                                    *)
ChargedForGood ==
  [][/\ ledger \subseteq ledger'
     /\ \A u \in UsageIds :
          settlement[u].state \in {"settled", "non_billable"} =>
            settlement'[u] = settlement[u]
    ]_accountingVars

(* A correction refers to an entry of its own account, so no account's     *)
(* balance depends on another account's charges (billing/store.ts:366).    *)
CorrectsOwnAccount ==
  \A e \in ledger : e.original =>
    \E o \in ledger : o.account = e.account /\ o.key # e.key

(* The ledger is right in every state: one charge per settled usage event  *)
(* and corrections in their own account (billing/store.ts:366, 478).       *)
LedgerRight ==
  /\ OneChargePerUsage
  /\ CorrectsOwnAccount

(* A run that reports completion has dealt with every event that was       *)
(* committed before it began, in the jobs it may scan: its usage is        *)
(* recorded and priced, free, or durably unresolved, although other runs,  *)
(* crashes and price changes happened meanwhile (service.ts:124-145).      *)
CompletedRunSettles ==
  [][\A r \in Reconcilers :
       CompleteReconcile(r) =>
         \A i \in 1..Len(BilledJobs) : i <= MaxScan =>
           \A u \in EventsToUsage(BilledJobs[i], recon[r].from[BilledJobs[i]]) :
             u \in usage /\ ~(settlement[u].state \in {"none", "pending"})
    ]_accountingVars

(* Books are kept for good, and completion means something: no step        *)
(* rewrites what was charged, and a run completes over nothing it left     *)
(* undone (billing/store.ts:483, service.ts:141).                          *)
BooksClosed ==
  /\ ChargedForGood
  /\ CompletedRunSettles
=============================================================================
