---------------------------- MODULE Reliability -----------------------------
(***************************************************************************)
(* The operator's repairs (packages/vaulltcore-reliability, the routes of  *)
(* vaulltcore-control phase2e-routes.ts): the paged reconciliation pass,   *)
(* the timeout scan, redrive of parked work and cancellation on request.   *)
(*                                                                         *)
(* A pass reads the non-terminal items page by page, each page starting    *)
(* after the last one's newest (updated_at, id), while workers and other   *)
(* operators change those items, and so their updated_at.  A timeout scan  *)
(* lists runs first and cancels them one at a time.                        *)
(***************************************************************************)
EXTENDS Integers, FiniteSets

CONSTANTS
  RelItems,     \* work items, identified by numbers: their ids are ordered
  RelRuns,      \* automation runs
  RelDispatches,
  BatchSize,    \* batchSize of a page and of a scan
  MaxBatches,   \* maxBatches of reconcileAll
  StaleAfter,   \* age at which a run counts as stale, and times out
  MaxRelTime,   \* bound: the clock
  MaxRelMoves   \* bound: changes by others

ASSUME ReliabilityAssumption ==
  /\ RelItems \subseteq Nat /\ IsFiniteSet(RelItems)
  /\ BatchSize \in Nat \ {0} /\ MaxBatches \in Nat \ {0}
  /\ StaleAfter \in Nat /\ MaxRelTime \in Nat /\ MaxRelMoves \in Nat

VARIABLES
  relClock,
  relItem,      \* state, updated_at and whether its claim has lapsed
  relRun,       \* status, updated_at and run_version
  relDispatch,
  recon,        \* the reconciliation pass
  scan,         \* the timeout scan: runs listed, the run being cancelled
  redriving,    \* the redrive request: item and its state when read
  relMoves

relVars == <<relClock, relItem, relRun, relDispatch, recon, scan, redriving, relMoves>>

ItemStates == {"pending", "claimed", "failed_retriable", "succeeded", "failed_terminal", "dead_letter"}
NonTerminal == {"pending", "claimed", "failed_retriable"}
RelDispatchStates == {"stranded", "dead_letter", "retryable_failure", "run_created"}
RelRunStatuses == {"running", "awaiting_approval", "completed", "cancelled"}
Ended == {"completed", "cancelled"}

NoScan == [pc |-> "idle", listed |-> {}, run |-> 0, version |-> 0]
NoRedrive == [pc |-> "idle", item |-> 0, before |-> "none"]
NoPass == [pc |-> "idle", cursor |-> <<>>, batches |-> 0, stale |-> {}, seen |-> {}, throughout |-> {}]

RelTypeOK ==
  /\ relClock \in 0..MaxRelTime
  /\ relItem \in [RelItems -> [state : ItemStates, at : 0..MaxRelTime, lapsed : BOOLEAN]]
  /\ relRun \in [RelRuns -> [status : RelRunStatuses, at : 0..MaxRelTime, version : Nat]]
  /\ relDispatch \in [RelDispatches -> RelDispatchStates]
  /\ recon.pc \in {"idle", "reap", "page", "quota", "dispatch", "list", "runs", "over"}
  /\ recon.seen \subseteq RelItems /\ recon.stale \subseteq RelRuns
  /\ scan.listed \subseteq RelRuns
  /\ redriving.pc \in {"idle", "redrive"}

RelInit ==
  /\ relClock = 0
  /\ relItem \in [RelItems -> [state : {"pending", "dead_letter"}, at : {0}, lapsed : {FALSE}]]
  /\ relRun = [r \in RelRuns |-> [status |-> "running", at |-> 0, version |-> 0]]
  /\ relDispatch = [d \in RelDispatches |-> "stranded"]
  /\ recon = NoPass /\ scan = NoScan /\ redriving = NoRedrive
  /\ relMoves = 0

Pending == {i \in RelItems : relItem[i].state \in NonTerminal}
Written(i, state) == [relItem EXCEPT ![i] = [state |-> state, at |-> relClock, lapsed |-> FALSE]]
StillPending(i, state) == IF state \in NonTerminal THEN recon.throughout ELSE recon.throughout \ {i}
PassAt(pc) == recon.pc = pc
Moves == relMoves < MaxRelMoves /\ relMoves' = relMoves + 1

-----------------------------------------------------------------------------
(* What others do meanwhile.                                               *)
NextStates(state) ==
  CASE state = "pending" -> {"claimed"}
    [] state = "claimed" -> {"succeeded", "failed_retriable", "failed_terminal", "dead_letter"}
    [] state = "failed_retriable" -> {"claimed"}
    [] OTHER -> {}

WorkerMoves(i) ==
  /\ Moves
  /\ \E state \in NextStates(relItem[i].state) :
       /\ relItem' = Written(i, state)
       /\ recon' = [recon EXCEPT !.throughout = StillPending(i, state)]
  /\ UNCHANGED <<relClock, relRun, relDispatch, scan, redriving>>

ClaimLapses(i) ==
  /\ relItem[i].state = "claimed" /\ ~relItem[i].lapsed
  /\ relItem' = [relItem EXCEPT ![i].lapsed = TRUE]
  /\ UNCHANGED <<relClock, relRun, relDispatch, recon, scan, redriving, relMoves>>

(* A run advances, waits for approval, is decided, or completes.           *)
RunMoves(r) ==
  /\ Moves
  /\ relRun[r].status \notin Ended
  /\ \E status \in {"running", "awaiting_approval", "completed"} :
       relRun' = [relRun EXCEPT ![r] = [status |-> status, at |-> relClock, version |-> @.version + 1]]
  /\ UNCHANGED <<relClock, relItem, relDispatch, recon, scan, redriving>>

RelTick ==
  /\ relClock < MaxRelTime
  /\ relClock' = relClock + 1
  /\ UNCHANGED <<relItem, relRun, relDispatch, recon, scan, redriving, relMoves>>

-----------------------------------------------------------------------------
(* reconcileAll: a fresh service, no cursor.                               *)
StartPass ==
  /\ PassAt("idle")
  /\ recon' = [NoPass EXCEPT !.pc = "reap", !.throughout = Pending]
  /\ UNCHANGED <<relClock, relItem, relRun, relDispatch, scan, redriving, relMoves>>

(* 1. reapExpiredClaims.                                                   *)
ReapLapsed ==
  /\ PassAt("reap")
  /\ relItem' = [i \in RelItems |->
       IF relItem[i].lapsed THEN [state |-> "failed_retriable", at |-> relClock, lapsed |-> FALSE]
       ELSE relItem[i]]
  /\ recon' = [recon EXCEPT !.pc = "page"]
  /\ UNCHANGED <<relClock, relRun, relDispatch, scan, redriving, relMoves>>

Position(i) == <<relItem[i].at, i>>
Later(p, q) == p[1] > q[1] \/ (p[1] = q[1] /\ p[2] > q[2])

(* The rows after the cursor.                                              *)
Beyond(i) == recon.cursor = <<>> \/ Later(Position(i), recon.cursor)

(* listPendingBatch: the first of them in (updated_at, id) order.          *)
ListPendingBatch ==
  LET rows == {i \in Pending : Beyond(i)} IN
  CHOOSE page \in SUBSET rows :
    /\ Cardinality(page) = IF Cardinality(rows) < BatchSize THEN Cardinality(rows) ELSE BatchSize
    /\ \A i \in page, j \in rows \ page : Later(Position(j), Position(i))

NextCursor(page) ==
  IF page = {} THEN <<>>
  ELSE Position(CHOOSE i \in page : \A j \in page \ {i} : Later(Position(i), Position(j)))

(* 2. One page is read and counted.                                        *)
ReadPage ==
  /\ PassAt("page")
  /\ LET page == ListPendingBatch IN
     recon' = [recon EXCEPT !.pc = "quota", !.seen = @ \cup page, !.cursor = NextCursor(page)]
  /\ UNCHANGED <<relClock, relItem, relRun, relDispatch, scan, redriving, relMoves>>

(* 3. quotaStore.reapExpired, which Quota specifies.  It may throw, as the *)
(* next steps may; the pass ends there.                                    *)
ReclaimCapacity ==
  /\ PassAt("quota")
  /\ \E pc \in {"dispatch", "idle"} : recon' = IF pc = "idle" THEN NoPass ELSE [recon EXCEPT !.pc = pc]
  /\ UNCHANGED <<relClock, relItem, relRun, relDispatch, scan, redriving, relMoves>>

(* 4. Stranded dispatches are driven again.                                *)
RedriveStrandedOnes ==
  /\ PassAt("dispatch")
  /\ \E driven \in SUBSET {d \in RelDispatches : relDispatch[d] \in {"stranded", "retryable_failure"}} :
       /\ Cardinality(driven) <= BatchSize
       /\ relDispatch' = [d \in RelDispatches |-> IF d \in driven THEN "run_created" ELSE relDispatch[d]]
  /\ recon' = [recon EXCEPT !.pc = "list"]
  /\ UNCHANGED <<relClock, relItem, relRun, scan, redriving, relMoves>>

(* listStaleRuns: the oldest, at most a batch of them.                     *)
Stale == {r \in RelRuns : relRun[r].status \notin Ended /\ relRun[r].at < relClock - StaleAfter}
ListStaleRuns(listed) ==
  /\ listed \subseteq Stale
  /\ Cardinality(listed) = IF Cardinality(Stale) < BatchSize THEN Cardinality(Stale) ELSE BatchSize
  /\ \A r \in listed, q \in Stale \ listed : relRun[r].at <= relRun[q].at

ListAbandoned ==
  /\ PassAt("list")
  /\ \E listed \in SUBSET RelRuns :
       ListStaleRuns(listed) /\ recon' = [recon EXCEPT !.pc = "runs", !.stale = listed]
  /\ UNCHANGED <<relClock, relItem, relRun, relDispatch, scan, redriving, relMoves>>

(* 5. reconcileRun, which Automation specifies: it advances a run that     *)
(* executes and writes nothing for one that waits; exceptions are caught.  *)
ReconcileAbandoned(r) ==
  /\ PassAt("runs") /\ r \in recon.stale
  /\ recon' = [recon EXCEPT !.stale = @ \ {r}]
  /\ \/ UNCHANGED relRun
     \/ /\ relRun[r].status = "running"
        /\ relRun' = [relRun EXCEPT ![r].at = relClock, ![r].version = @ + 1]
  /\ UNCHANGED <<relClock, relItem, relDispatch, scan, redriving, relMoves>>

(* The next page, until a page was empty or the pass has had its batches.  *)
NextBatch ==
  /\ PassAt("runs") /\ recon.stale = {}
  /\ recon' = IF recon.cursor = <<>> THEN [recon EXCEPT !.pc = "over"]
              ELSE IF recon.batches + 1 < MaxBatches
              THEN [recon EXCEPT !.pc = "reap", !.batches = @ + 1] ELSE NoPass
  /\ UNCHANGED <<relClock, relItem, relRun, relDispatch, scan, redriving, relMoves>>

-----------------------------------------------------------------------------
(* scan: list first.                                                       *)
StartScan ==
  /\ scan.pc = "idle"
  /\ \E listed \in SUBSET RelRuns :
       ListStaleRuns(listed) /\ scan' = [NoScan EXCEPT !.pc = "next", !.listed = listed]
  /\ UNCHANGED <<relClock, relItem, relRun, relDispatch, recon, redriving, relMoves>>

(* cancelRun reads the run; one that has ended is returned as it is.       *)
EnforceTimeout(r) ==
  /\ scan.pc = "next" /\ r \in scan.listed
  /\ scan' = IF relRun[r].status \in Ended THEN [scan EXCEPT !.listed = @ \ {r}]
             ELSE [pc |-> "cancel", listed |-> scan.listed \ {r}, run |-> r, version |-> relRun[r].version]
  /\ UNCHANGED <<relClock, relItem, relRun, relDispatch, recon, redriving, relMoves>>

(* requestCancellation: the same, for one run somebody names.              *)
RequestCancellation(r) ==
  /\ scan.pc = "idle" /\ relRun[r].status \notin Ended
  /\ scan' = [pc |-> "cancel", listed |-> {}, run |-> r, version |-> relRun[r].version]
  /\ UNCHANGED <<relClock, relItem, relRun, relDispatch, recon, redriving, relMoves>>

CasHolds(r, version) == relRun[r].version = version

(* transitionRun; a conflict is caught and the run skipped.                *)
CancelListed ==
  /\ scan.pc = "cancel"
  /\ relRun' = IF CasHolds(scan.run, scan.version)
               THEN [relRun EXCEPT ![scan.run] = [status |-> "cancelled", at |-> relClock, version |-> @.version + 1]]
               ELSE relRun
  /\ scan' = [scan EXCEPT !.pc = "next"]
  /\ UNCHANGED <<relClock, relItem, relDispatch, recon, redriving, relMoves>>

EndScan ==
  /\ scan.pc = "next" /\ scan.listed = {}
  /\ scan' = NoScan
  /\ UNCHANGED <<relClock, relItem, relRun, relDispatch, recon, redriving, relMoves>>

-----------------------------------------------------------------------------
(* redriveOps reads the item first, for its answer.                        *)
ReadBefore(i) ==
  /\ redriving.pc = "idle"
  /\ redriving' = [pc |-> "redrive", item |-> i, before |-> relItem[i].state]
  /\ UNCHANGED <<relClock, relItem, relRun, relDispatch, recon, scan, relMoves>>

RedriveOps ==
  LET i == redriving.item IN
  /\ redriving.pc = "redrive" /\ Moves
  /\ relItem' = IF relItem[i].state \in {"dead_letter", "failed_retriable"} THEN Written(i, "pending") ELSE relItem
  /\ redriving' = NoRedrive
  /\ UNCHANGED <<relClock, relRun, relDispatch, recon, scan>>

(* redriveDispatch: only a dead letter is armed again.                     *)
RedriveDispatch(d) ==
  /\ Moves
  /\ \/ relDispatch[d] = "dead_letter" /\ relDispatch' = [relDispatch EXCEPT ![d] = "retryable_failure"]
     \/ relDispatch[d] = "stranded" /\ relDispatch' = [relDispatch EXCEPT ![d] = "dead_letter"]
  /\ UNCHANGED <<relClock, relItem, relRun, recon, scan, redriving>>

PassSteps ==
  \/ StartPass \/ ReapLapsed \/ ReadPage \/ ReclaimCapacity \/ RedriveStrandedOnes \/ ListAbandoned
  \/ (\E r \in RelRuns : ReconcileAbandoned(r)) \/ NextBatch

(* To a scan, what a pass does to a run is one more move of that run, so   *)
(* pass and scan are explored apart, each against its own competitors.     *)
PassNext ==
  \/ \E i \in RelItems : WorkerMoves(i) \/ ClaimLapses(i) \/ ReadBefore(i)
  \/ \E d \in RelDispatches : RedriveDispatch(d)
  \/ RelTick \/ PassSteps \/ RedriveOps

ScanNext ==
  \/ \E r \in RelRuns : RunMoves(r) \/ EnforceTimeout(r) \/ RequestCancellation(r)
  \/ RelTick \/ StartScan \/ CancelListed \/ EndScan

-----------------------------------------------------------------------------
(* A pass that ran to its empty page has read every item that was not      *)
(* terminal all the while, even though workers, redrives and the pass's    *)
(* own reaping changed items, and with them their place in the order,      *)
(* between the pages (listPendingBatch, reconcileAll).                     *)
PassCoversPending == PassAt("over") => recon.throughout \subseteq recon.seen

(* A run that has completed is never cancelled by a scan or a request that *)
(* read it before: the version serializes them (enforceTimeout, cancelRun; *)
(* the race "timeout vs completion" of cancellation.ts).                   *)
CompletedStaysCompleted ==
  [][\A r \in RelRuns : relRun[r].status = "completed" => relRun'[r].status = "completed"]_relVars
=============================================================================
