-------------------------- MODULE TriggerDispatch ---------------------------
(***************************************************************************)
(* From a durable event to an automation run: trigger-store.ts, trigger.ts *)
(* and dispatch.ts of packages/vaulltcore-automation, and the sink of      *)
(* packages/vaulltcore-control that ends in AutomationService.createRun.   *)
(*                                                                         *)
(* A dispatch row is UNIQUE per (event, trigger), so the table is a        *)
(* function of the pair.  Every store method is one transaction and every  *)
(* one of them is awaited.  createRun remembers idempotency keys in a Map  *)
(* of its process and nowhere else.                                        *)
(***************************************************************************)
EXTENDS Integers, FiniteSets, SequencesExt, TLC

CONSTANTS
  Triggers, Events,
  Matching,              \* the (event, trigger) pairs that meet the criteria
  Dispatchers,           \* calls in flight, each in a server process
  PassNames,             \* names of redrive passes, "redrive-" and the millisecond
  MaxDispatchAttempts,
  NoDispatch,
  MaxRevisions,          \* bound: revisions of a trigger
  MaxArrivals,           \* bound: calls of dispatchEvent and redrive
  MaxDispatchFaults      \* bound: crashes, lapsed leases, operator redrives

ASSUME DispatchAssumption ==
  /\ Matching \subseteq Events \X Triggers
  /\ IsFiniteSet(Events) /\ IsFiniteSet(Triggers) /\ IsFiniteSet(Dispatchers)
  /\ MaxDispatchAttempts \in Nat \ {0} /\ MaxRevisions \in Nat \ {0}
  /\ MaxArrivals \in Nat /\ MaxDispatchFaults \in Nat
  /\ NoDispatch \notin PassNames

VARIABLES
  trigger,      \* automation_triggers
  dispatch,     \* automation_trigger_dispatches
  call,         \* each call of dispatchEvent or redrive
  keys,         \* idempotencyKeys of each process
  made,         \* automation_runs created for a dispatch
  left          \* what is left of the bounds

dispatchVars == <<trigger, dispatch, call, keys, made, left>>

TriggerStates == {"enabled", "disabled"}
DispatchStates == {"matched", "dispatching", "run_created", "rejected",
                   "retryable_failure", "dead_letter"}
TERMINAL_DISPATCH_STATES == {"run_created", "rejected", "dead_letter"}

TriggerDefinition == [state : TriggerStates, revision : 1..MaxRevisions]

(* run: 0, or the number of the run among those made for the dispatch.     *)
Dispatch == [state : DispatchStates, attempts : Nat, run : Nat, generation : Nat,
             owner : PassNames \cup {NoDispatch}, lease : {"none", "live", "lapsed"}]

(* The absent row is no row.                                               *)
ASSUME DispatchRowAbsent == NoDispatch \notin Dispatch

(* seen: the row as the call read it; gen: the redrive generation it took; *)
(* owner: the name a pass goes by, of the millisecond it starts in, which  *)
(* other passes may start in as well.                                      *)
IdleCall == [pc |-> "idle", redrive |-> FALSE, owner |-> NoDispatch, todo |-> <<>>, seen |-> NoDispatch,
             gen |-> 0, result |-> "none"]

DispatchTypeOK ==
  /\ trigger \in [Triggers -> TriggerDefinition]
  /\ dispatch \in [Events \X Triggers -> Dispatch \cup {NoDispatch}]
  /\ \A c \in Dispatchers :
       /\ call[c].pc \in {"idle", "reserve", "claim", "drive", "sink", "record"}
       /\ call[c].pc # "idle" => call[c].todo # <<>>
       /\ call[c].owner \in IF call[c].redrive THEN PassNames ELSE {NoDispatch}
       /\ call[c].pc \in {"drive", "sink", "record"} =>
            dispatch[Head(call[c].todo)] # NoDispatch
  /\ keys \in [Dispatchers -> [Events \X Triggers -> Nat]]
  /\ made \in [Events \X Triggers -> Nat]

DispatchInit ==
  /\ trigger = [t \in Triggers |-> [state |-> "enabled", revision |-> 1]]
  /\ dispatch = [d \in Events \X Triggers |-> NoDispatch]
  /\ call = [c \in Dispatchers |-> IdleCall]
  /\ keys = [c \in Dispatchers |-> [d \in Events \X Triggers |-> 0]]
  /\ made = [d \in Events \X Triggers |-> 0]
  /\ left = [arrivals |-> MaxArrivals, faults |-> MaxDispatchFaults]

-----------------------------------------------------------------------------
(* publishTrigger of a name that exists; it enables the trigger again.     *)
PublishTrigger(t) ==
  /\ trigger[t].revision < MaxRevisions
  /\ trigger' = [trigger EXCEPT ![t] = [state |-> "enabled", revision |-> @.revision + 1]]
  /\ UNCHANGED <<dispatch, call, keys, made, left>>

(* The enable and disable routes pass the revision they have just read.    *)
SetTriggerState(t, state) ==
  /\ trigger[t].revision < MaxRevisions
  /\ trigger' = [trigger EXCEPT ![t] = [state |-> state, revision |-> @.revision + 1]]
  /\ UNCHANGED <<dispatch, call, keys, made, left>>

MatchTriggers(e) ==
  SetToSeq({<<e, t>> : t \in {t \in Triggers :
              trigger[t].state = "enabled" /\ <<e, t>> \in Matching}})

(* dispatchEvent, from the routes; the same event may come again.          *)
DispatchEvent(c, e) ==
  /\ call[c].pc = "idle" /\ left.arrivals > 0
  /\ left' = [left EXCEPT !.arrivals = @ - 1]
  /\ MatchTriggers(e) # <<>>
  /\ call' = [call EXCEPT ![c] = [IdleCall EXCEPT !.pc = "reserve",
                                                 !.todo = MatchTriggers(e)]]
  /\ UNCHANGED <<trigger, dispatch, keys, made>>

ListStrandedDispatches ==
  SetToSeq({d \in Events \X Triggers :
    dispatch[d] # NoDispatch /\ dispatch[d].state \notin TERMINAL_DISPATCH_STATES})

(* redrive works on the rows as it listed them.                            *)
RedriveStranded(c, owner) ==
  /\ call[c].pc = "idle" /\ left.arrivals > 0
  /\ left' = [left EXCEPT !.arrivals = @ - 1]
  /\ ListStrandedDispatches # <<>>
  /\ call' = [call EXCEPT ![c] = [IdleCall EXCEPT
       !.pc = "claim", !.redrive = TRUE, !.owner = owner, !.todo = ListStrandedDispatches,
       !.seen = [d \in Range(ListStrandedDispatches) |-> dispatch[d]]]]
  /\ UNCHANGED <<trigger, dispatch, keys, made>>

NextDispatch(q) ==
  IF Len(q.todo) = 1 THEN IdleCall
  ELSE [q EXCEPT !.pc = IF q.redrive THEN "claim" ELSE "reserve", !.todo = Tail(@),
                 !.gen = 0, !.result = "none"]

NewDispatch == [state |-> "matched", attempts |-> 0, run |-> 0, generation |-> 0,
                owner |-> NoDispatch, lease |-> "none"]

(* The loser of the UNIQUE constraint does not drive.                      *)
ReserveDispatch(c) ==
  LET d == Head(call[c].todo)
  IN /\ call[c].pc = "reserve"
     /\ IF dispatch[d] = NoDispatch
        THEN /\ dispatch' = [dispatch EXCEPT ![d] = NewDispatch]
             /\ call' = [call EXCEPT ![c].pc = "drive", ![c].seen = [x \in {d} |-> NewDispatch]]
        ELSE /\ call' = [call EXCEPT ![c] = NextDispatch(call[c])]
             /\ UNCHANGED dispatch
     /\ UNCHANGED <<trigger, keys, made, left>>

(* A live lease keeps out every pass of another name.                      *)
MayRedrive(c, r) ==
  /\ r.state \notin TERMINAL_DISPATCH_STATES
  /\ ~(r.lease = "live" /\ r.owner # call[c].owner)

Released(r) == [r EXCEPT !.owner = NoDispatch, !.lease = "none"]

Spent(r) == r.attempts >= MaxDispatchAttempts

(* claimRedriveDispatch, and deadLetter when the listing had no attempt    *)
(* left.                                                                   *)
ClaimRedrive(c) ==
  LET d == Head(call[c].todo)
      r == dispatch[d]
      taken == [r EXCEPT !.generation = @ + 1, !.owner = call[c].owner, !.lease = "live"]
  IN /\ call[c].pc = "claim"
     /\ IF ~MayRedrive(c, r)
        THEN /\ call' = [call EXCEPT ![c] = NextDispatch(call[c])]
             /\ UNCHANGED dispatch
        ELSE IF Spent(call[c].seen[d])
        THEN /\ dispatch' = [dispatch EXCEPT ![d] =
                  [Released(taken) EXCEPT !.state = "dead_letter"]]
             /\ call' = [call EXCEPT ![c] = NextDispatch(call[c])]
        ELSE /\ dispatch' = [dispatch EXCEPT ![d] = taken]
             /\ call' = [call EXCEPT ![c].pc = "drive", ![c].gen = taken.generation]
     /\ UNCHANGED <<trigger, keys, made, left>>

(* Mutant: a failed drive is written over whatever is there.               *)
MarkRetryableAlways(r) ==
  [r EXCEPT !.state = "retryable_failure", !.attempts = @ + 1]

MarkRejected(r) ==
  IF r.state \in TERMINAL_DISPATCH_STATES THEN r
  ELSE [Released(r) EXCEPT !.state = "rejected"]

MarkRetryable(r) ==
  IF r.state \in TERMINAL_DISPATCH_STATES THEN r
  ELSE [r EXCEPT !.state = "retryable_failure", !.attempts = @ + 1]

(* "retryable_failure" is not among the states it accepts.                 *)
MarkRunCreated(r, run) ==
  IF r.state \in {"dispatching", "matched"}
  THEN [Released(r) EXCEPT !.state = "run_created", !.run = run] ELSE r

ReleaseRedriveLease(c, r) ==
  IF call[c].redrive /\ r.generation = call[c].gen THEN Released(r) ELSE r

(* The compare-and-set whose outcome driveDispatch does not look at.       *)
TransitionDispatch(r, from) ==
  IF r.state = from THEN [r EXCEPT !.state = "dispatching", !.attempts = @ + 1] ELSE r

(* driveDispatch up to the sink.  Only a redrive can see a disabled        *)
(* trigger: it has just read it.                                           *)
DriveDispatch(c) ==
  LET d == Head(call[c].todo)
  IN /\ call[c].pc = "drive"
     /\ IF call[c].redrive /\ trigger[d[2]].state = "disabled"
        THEN /\ dispatch' = [dispatch EXCEPT ![d] =
                  ReleaseRedriveLease(c, MarkRejected(@))]
             /\ call' = [call EXCEPT ![c] = NextDispatch(call[c])]
        ELSE /\ dispatch' = [dispatch EXCEPT ![d] =
                  TransitionDispatch(@, call[c].seen[d].state)]
             /\ call' = [call EXCEPT ![c].pc = "sink"]
     /\ UNCHANGED <<trigger, keys, made, left>>

(* createRunForTrigger: the run this process remembers, or a new one.      *)
CreateRunForTrigger(c) ==
  LET d == Head(call[c].todo)
  IN /\ call[c].pc = "sink"
     /\ call' = [call EXCEPT ![c].pc = "record", ![c].result = "run"]
     /\ IF keys[c][d] # 0 THEN UNCHANGED <<keys, made>>
        ELSE /\ made' = [made EXCEPT ![d] = @ + 1]
             /\ keys' = [keys EXCEPT ![c][d] = made[d] + 1]
     /\ UNCHANGED <<trigger, dispatch, left>>

(* A typed rejection, or what the seam lets a sink do besides: throw.      *)
SinkRefuses(c, result) ==
  /\ call[c].pc = "sink" /\ result \in {"rejection", "error"}
  /\ keys[c][Head(call[c].todo)] = 0
  /\ call' = [call EXCEPT ![c].pc = "record", ![c].result = result]
  /\ UNCHANGED <<trigger, dispatch, keys, made, left>>

RecordOutcome(c) ==
  LET d == Head(call[c].todo)
      r == dispatch[d]
      written == CASE call[c].result = "run" -> MarkRunCreated(r, keys[c][d])
                   [] call[c].result = "rejection" -> MarkRejected(r)
                   [] call[c].result = "error" -> MarkRetryable(r)
  IN /\ call[c].pc = "record"
     /\ dispatch' = [dispatch EXCEPT ![d] = ReleaseRedriveLease(c, written)]
     /\ call' = [call EXCEPT ![c] = NextDispatch(call[c])]
     /\ UNCHANGED <<trigger, keys, made, left>>

Fault ==
  left.faults > 0 /\ left' = [left EXCEPT !.faults = @ - 1]

ServerCrash(c) ==
  /\ Fault /\ call[c].pc # "idle"
  /\ call' = [call EXCEPT ![c] = IdleCall]
  /\ keys' = [keys EXCEPT ![c] = [d \in Events \X Triggers |-> 0]]
  /\ UNCHANGED <<trigger, dispatch, made>>

RedriveLeaseLapses(d) ==
  /\ Fault /\ dispatch[d] # NoDispatch /\ dispatch[d].lease = "live"
  /\ dispatch' = [dispatch EXCEPT ![d].lease = "lapsed"]
  /\ UNCHANGED <<trigger, call, keys, made>>

RedriveDeadLetter(d) ==
  /\ Fault /\ dispatch[d] # NoDispatch /\ dispatch[d].state = "dead_letter"
  /\ dispatch' = [dispatch EXCEPT ![d] = [Released(@) EXCEPT
       !.state = "retryable_failure", !.attempts = 0]]
  /\ UNCHANGED <<trigger, call, keys, made>>

DispatchNext ==
  \/ \E t \in Triggers : \/ PublishTrigger(t)
                         \/ \E state \in TriggerStates : SetTriggerState(t, state)
  \/ \E d \in Events \X Triggers : RedriveLeaseLapses(d) \/ RedriveDeadLetter(d)
  \/ \E c \in Dispatchers :
       \/ ReserveDispatch(c) \/ ClaimRedrive(c) \/ DriveDispatch(c)
       \/ CreateRunForTrigger(c) \/ RecordOutcome(c) \/ ServerCrash(c)
       \/ \E e \in Events : DispatchEvent(c, e)
       \/ \E owner \in PassNames : RedriveStranded(c, owner)
       \/ \E result \in {"rejection", "error"} : SinkRefuses(c, result)

DispatchSpec == DispatchInit /\ [][DispatchNext]_dispatchVars

-----------------------------------------------------------------------------
(* A dispatch that has its run, or was refused by policy, is never driven  *)
(* into another state, although the first driver, redrivers with stale     *)
(* listings and operators all write the row without a fence of their own   *)
(* (trigger-store.ts:440, 451, 460, 469, 567).                             *)
DecidedForGood ==
  [][\A d \in Events \X Triggers :
       dispatch[d] # NoDispatch /\ dispatch[d].state \in {"run_created", "rejected"} =>
         /\ dispatch'[d].state = dispatch[d].state
         /\ dispatch'[d].run = dispatch[d].run
    ]_dispatchVars

(* The cap is compared with a listing that may be old, and a failed drive  *)
(* counts twice: what a dispatch can still be charged past the cap is two  *)
(* for every call in flight (dispatch.ts:201, trigger-store.ts:417, 460).  *)
AttemptsBounded ==
  \A d \in Events \X Triggers : dispatch[d] # NoDispatch =>
    dispatch[d].attempts <= MaxDispatchAttempts - 1 + 2 * Cardinality(Dispatchers)

(* A pass of the same name is at the claim of the dispatch c is inside.    *)
ClaimedByNamesake(c) ==
  \E q \in Dispatchers \ {c} :
    /\ call[q].pc = "claim" /\ call[q].owner = call[c].owner
    /\ Head(call[q].todo) = Head(call[c].todo)

(* While a redriver is inside a dispatch under a live lease, nobody takes  *)
(* the dispatch from it, whatever the first driver and the operators write *)
(* meanwhile, but a pass that started in the same millisecond and so goes  *)
(* by the same name (dispatch.ts:189, trigger-store.ts:517).               *)
LiveLeaseKeepsDispatch ==
  [][\A c \in Dispatchers : call[c].pc \in {"drive", "sink", "record"} =>
       LET d == Head(call[c].todo)
       IN dispatch[d].lease = "live" /\ dispatch[d].generation = call[c].gen =>
            \/ dispatch'[d].generation = dispatch[d].generation
            \/ ClaimedByNamesake(c)
    ]_dispatchVars

(* createRun forgets a key only with its process: a dispatch has one run   *)
(* for each process that remembers one, and what crashes made forget,      *)
(* however many redeliveries, redrives and late drivers there are          *)
(* (dispatch.ts:38, service.ts:340).                                       *)
RunPerProcessLife ==
  \A d \in Events \X Triggers :
    made[d] <= Cardinality({c \in Dispatchers : keys[c][d] # 0})
                 + (MaxDispatchFaults - left.faults)
=============================================================================
