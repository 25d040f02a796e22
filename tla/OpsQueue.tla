------------------------------ MODULE OpsQueue ------------------------------
(***************************************************************************)
(* The operational work queue, its workers, and the recovery scanner that  *)
(* fills it: packages/vaulltcore-ops, -recovery and the parts of           *)
(* -reliability that act on the queue.                                     *)
(*                                                                         *)
(* An item's identity is its idempotency key: the scanner derives key, id  *)
(* and target from one another, so the table is a function of the target.  *)
(* Every store method is one transaction.  A worker awaits the reaper, its *)
(* heartbeats and nothing else; reapExpiredClaims, claim and getById run   *)
(* in one synchronous stretch.  Time is two kinds of bit: the claim's      *)
(* lease has lapsed, the retry is due.                                     *)
(***************************************************************************)
EXTENDS Integers, FiniteSets, SequencesExt

CONSTANTS
  Items,         \* targets the scanner may find in need of repair
  Unhandled,     \* those whose kind has no reaper
  OpsWorkers,
  MaxAttempts,
  NoItem,
  MaxBreaks,     \* bound: times a target comes to need repair
  MaxStalls,     \* bound: leases a live worker lets lapse
  MaxFaults      \* bound: worker crashes, dead letters and redrives by operators

ASSUME OpsAssumption ==
  /\ Unhandled \subseteq Items
  /\ MaxAttempts \in Nat \ {0}
  /\ NoItem \notin Items
  /\ MaxBreaks \in Nat /\ MaxStalls \in Nat /\ MaxFaults \in Nat

VARIABLES
  item,      \* ops_work_items
  queue,     \* the items ORDER BY created_at
  worker,    \* what each OperationalWorker is doing
  broken,    \* targets that need repair in the automation store
  fuel       \* what is left of the three bounds

opsVars == <<item, queue, worker, broken, fuel>>

(* "in_progress" is declared by contracts.ts and written by nothing.       *)
OpsWorkStates == {"pending", "claimed", "succeeded", "failed_terminal",
                  "failed_retriable", "dead_letter"}
TERMINAL_OPS_STATES == {"succeeded", "failed_terminal", "dead_letter"}
OpsWorkResults == {"succeeded", "failed_terminal", "failed_retriable"}

(* lease: claim_expires_at is NULL, ahead of the clock, or behind it.      *)
OpsWorkItem ==
  [state : OpsWorkStates, generation : Nat, claimed : OpsWorkers \cup {NoItem},
   lease : {"none", "live", "lapsed"}, attempts : Nat, due : BOOLEAN]

(* The absent row is no row.                                               *)
ASSUME RowAbsent == NoItem \notin OpsWorkItem

Worker ==
  [pc : {"idle", "processing", "reporting", "down"}, item : Items \cup {NoItem},
   generation : Nat, result : OpsWorkResults \cup {NoItem}, fenced : BOOLEAN]

IdleWorker == [pc |-> "idle", item |-> NoItem, generation |-> 0,
               result |-> NoItem, fenced |-> FALSE]
DownWorker == [IdleWorker EXCEPT !.pc = "down"]

OpsTypeOK ==
  /\ item \in [Items -> OpsWorkItem \cup {NoItem}]
  /\ queue \in Seq(Items)
  /\ worker \in [OpsWorkers -> Worker]
  /\ broken \subseteq Items
  /\ fuel \in [breaks : 0..MaxBreaks, stalls : 0..MaxStalls, faults : 0..MaxFaults]

OpsInit ==
  /\ item = [i \in Items |-> NoItem]
  /\ queue = <<>>
  /\ worker = [w \in OpsWorkers |-> IdleWorker]
  /\ broken = {}
  /\ fuel = [breaks |-> MaxBreaks, stalls |-> MaxStalls, faults |-> MaxFaults]

-----------------------------------------------------------------------------
(* An approval expires, a delivery fails or a run goes stale.              *)
Break(i) ==
  /\ fuel.breaks > 0 /\ i \notin broken
  /\ broken' = broken \cup {i}
  /\ fuel' = [fuel EXCEPT !.breaks = @ - 1]
  /\ UNCHANGED <<item, queue, worker>>

NewItem == [state |-> "pending", generation |-> 0, claimed |-> NoItem,
            lease |-> "none", attempts |-> 0, due |-> TRUE]

(* enqueue() as the scanner calls it: a key already there, in whatever     *)
(* state, is returned as it is.                                            *)
Enqueue(i) ==
  /\ i \in broken
  /\ item[i] = NoItem
  /\ item' = [item EXCEPT ![i] = NewItem]
  /\ queue' = Append(queue, i)
  /\ UNCHANGED <<worker, broken, fuel>>

(* Mutant: a claim is reaped only after a failed attempt.                  *)
ReapedAfterFailure(r) ==
  IF r # NoItem /\ r.state = "claimed" /\ r.lease = "lapsed" /\ r.attempts > 0
  THEN [r EXCEPT !.state = "failed_retriable", !.due = TRUE]
  ELSE r

(* reapExpiredClaims: the generation, the claimant and the expiry stay.    *)
Reaped(r) ==
  IF r # NoItem /\ r.state = "claimed" /\ r.lease = "lapsed"
  THEN [r EXCEPT !.state = "failed_retriable", !.due = TRUE]
  ELSE r

AllReaped == [i \in Items |-> Reaped(item[i])]

Claimable(r) ==
  /\ r # NoItem
  /\ r.state \in {"pending", "failed_retriable"}
  /\ r.due
  /\ r.lease # "live"

(* The places in the queue of what is claimable after the reaping.         *)
Candidates == {n \in DOMAIN queue : Claimable(AllReaped[queue[n]])}

(* Mutant: a claim is taken under the generation it found.                 *)
ClaimedSameGeneration(r, w) ==
  [r EXCEPT !.state = "claimed", !.claimed = w, !.lease = "live"]

Claimed(r, w) ==
  [r EXCEPT !.state = "claimed", !.generation = @ + 1, !.claimed = w,
            !.lease = "live"]

Exhausted(r) == r.attempts + 1 >= MaxAttempts

(* A retriable failure with no attempt left is a dead letter.              *)
Outcome(r, result) ==
  IF result = "failed_retriable" /\ Exhausted(r) THEN "dead_letter" ELSE result

Completed(r, result) ==
  [r EXCEPT !.state = Outcome(r, result), !.attempts = @ + 1,
            !.due = Outcome(r, result) # "failed_retriable", !.claimed = NoItem,
            !.lease = "none", !.generation = @ + 1]

(* runOnce up to its first await: the oldest candidate is claimed.  An     *)
(* item of a kind with no reaper is completed at once.                     *)
RunOnce(w) ==
  /\ worker[w].pc = "idle"
  /\ \E n \in Candidates :
       LET i == queue[n]
           taken == Claimed(AllReaped[i], w)
       IN /\ \A m \in Candidates : n <= m
          /\ IF i \in Unhandled
             THEN /\ item' = [AllReaped EXCEPT ![i] = Completed(taken, "failed_terminal")]
                  /\ UNCHANGED worker
             ELSE /\ item' = [AllReaped EXCEPT ![i] = taken]
                  /\ worker' = [worker EXCEPT ![w] =
                       [IdleWorker EXCEPT !.pc = "processing", !.item = i,
                                          !.generation = taken.generation]]
  /\ UNCHANGED <<queue, broken, fuel>>

(* reapExpiredClaims of an idle poll or of ReliabilityReconciliationService. *)
ReapExpiredClaims ==
  /\ AllReaped # item
  /\ item' = AllReaped
  /\ UNCHANGED <<queue, worker, broken, fuel>>

(* The fence of heartbeat and complete is the generation alone.            *)
Holds(w) ==
  /\ worker[w].item # NoItem
  /\ item[worker[w].item].generation = worker[w].generation

Heartbeat(w) ==
  /\ worker[w].pc = "processing" /\ ~worker[w].fenced
  /\ IF Holds(w)
     THEN /\ item' = [item EXCEPT ![worker[w].item].lease = "live"]
          /\ UNCHANGED worker
     ELSE /\ worker' = [worker EXCEPT ![w].fenced = TRUE]
          /\ UNCHANGED item
  /\ UNCHANGED <<queue, broken, fuel>>

(* The reaper returns.  A success may have found nothing it can repair (a  *)
(* run that is delivering or waits for approval is left as it is), an      *)
(* approval that is gone or a malformed reference is terminal, an          *)
(* exception is retried.                                                   *)
Process(w, result) ==
  /\ worker[w].pc = "processing"
  /\ worker' = [worker EXCEPT ![w].pc = "reporting", ![w].result = result]
  /\ \/ UNCHANGED broken
     \/ result = "succeeded" /\ broken' = broken \ {worker[w].item}
  /\ UNCHANGED <<item, queue, fuel>>

(* A fenced worker reports nothing; one that was fenced after its last     *)
(* heartbeat gets an exception from complete(), which ends its loop.       *)
Report(w) ==
  /\ worker[w].pc = "reporting"
  /\ IF worker[w].fenced
     THEN /\ worker' = [worker EXCEPT ![w] = IdleWorker]
          /\ UNCHANGED item
     ELSE IF Holds(w)
     THEN /\ worker' = [worker EXCEPT ![w] = IdleWorker]
          /\ item' = [item EXCEPT ![worker[w].item] =
               Completed(@, worker[w].result)]
     ELSE /\ worker' = [worker EXCEPT ![w] = DownWorker]
          /\ UNCHANGED item
  /\ UNCHANGED <<queue, broken, fuel>>

Crash(w) ==
  /\ worker[w].pc # "down" /\ fuel.faults > 0
  /\ worker' = [worker EXCEPT ![w] = DownWorker]
  /\ fuel' = [fuel EXCEPT !.faults = @ - 1]
  /\ UNCHANGED <<item, queue, broken>>

Restart(w) ==
  /\ worker[w].pc = "down"
  /\ worker' = [worker EXCEPT ![w] = IdleWorker]
  /\ UNCHANGED <<item, queue, broken, fuel>>

(* A worker that still holds the claim heartbeats it: its lease lapses     *)
(* only when the worker stalls.                                            *)
LeaseLapses(i) ==
  /\ item[i] # NoItem /\ item[i].lease = "live"
  /\ item' = [item EXCEPT ![i].lease = "lapsed"]
  /\ IF \E w \in OpsWorkers : worker[w].item = i /\ Holds(w)
     THEN fuel.stalls > 0 /\ fuel' = [fuel EXCEPT !.stalls = @ - 1]
     ELSE UNCHANGED fuel
  /\ UNCHANGED <<queue, worker, broken>>

RetryDue(i) ==
  /\ item[i] # NoItem /\ ~item[i].due
  /\ item' = [item EXCEPT ![i].due = TRUE]
  /\ UNCHANGED <<queue, worker, broken, fuel>>

DeadLetter(i) ==
  /\ fuel.faults > 0
  /\ item[i] # NoItem /\ item[i].state \notin TERMINAL_OPS_STATES
  /\ item' = [item EXCEPT ![i] = [@ EXCEPT !.state = "dead_letter",
       !.claimed = NoItem, !.lease = "none", !.due = TRUE]]
  /\ fuel' = [fuel EXCEPT !.faults = @ - 1]
  /\ UNCHANGED <<queue, worker, broken>>

Redrivable(r) == r # NoItem /\ r.state \in {"dead_letter", "failed_retriable"}

Redrive(i) ==
  /\ fuel.faults > 0
  /\ Redrivable(item[i])
  /\ item' = [item EXCEPT ![i] =
       [NewItem EXCEPT !.generation = item[i].generation + 1]]
  /\ fuel' = [fuel EXCEPT !.faults = @ - 1]
  /\ UNCHANGED <<queue, worker, broken>>

WorkerLoop(w) ==
  \/ RunOnce(w) \/ Report(w) \/ Restart(w)
  \/ \E result \in OpsWorkResults : Process(w, result)

OpsNext ==
  \/ \E i \in Items : \/ Break(i) \/ Enqueue(i) \/ LeaseLapses(i)
                      \/ RetryDue(i) \/ DeadLetter(i) \/ Redrive(i)
  \/ ReapExpiredClaims
  \/ \E w \in OpsWorkers : WorkerLoop(w) \/ Heartbeat(w) \/ Crash(w)

(* The scanner and every worker are loops, the reapers return, processes   *)
(* are restarted and time passes.                                          *)
OpsFairness ==
  /\ \A i \in Items :
       WF_opsVars(LeaseLapses(i)) /\ WF_opsVars(RetryDue(i))
  /\ WF_opsVars(ReapExpiredClaims)
  /\ \A w \in OpsWorkers : WF_opsVars(WorkerLoop(w))

OpsSpec == OpsInit /\ [][OpsNext]_opsVars /\ OpsFairness

-----------------------------------------------------------------------------
(* However claims lapse, are reaped, taken again, dead-lettered and        *)
(* redriven, at most one worker holds the generation that heartbeat() and  *)
(* complete() accept (store.ts:169, 182, 190).                             *)
OneHolder ==
  \A v, w \in OpsWorkers :
    v # w /\ worker[v].item = worker[w].item => ~(Holds(v) /\ Holds(w))

(* An item retried by policy still has an attempt left: no order of        *)
(* reaping, redriving and late completions gets past the cap               *)
(* (store.ts:204, 293).                                                    *)
RetriesBounded ==
  \A i \in Items : item[i] # NoItem =>
    /\ item[i].attempts <= MaxAttempts
    /\ item[i].state \in {"pending", "claimed", "failed_retriable"} =>
         item[i].attempts < MaxAttempts

(* A succeeded or terminally failed item is never written again: neither a *)
(* late worker nor an operator's redrive resurrects it (store.ts:217, 290). *)
FinishedForGood ==
  [][\A i \in Items :
       item[i] # NoItem /\ item[i].state \in {"succeeded", "failed_terminal"} =>
         item'[i] # NoItem /\ item'[i].state = item[i].state
    ]_opsVars

(* Every enqueued item is finished in the end, whatever worker crashed or  *)
(* stalled with its claim (store.ts:162, 227; worker.ts:78).               *)
WorkFinishes ==
  \A i \in Items : []<>(item[i] # NoItem => item[i].state \in TERMINAL_OPS_STATES)
=============================================================================
