---------------------------- MODULE EventIntake -----------------------------
(***************************************************************************)
(* Inbound events: the webhook gateway and its store                       *)
(* (packages/vaulltcore-webhooks), and the subscriptions of                *)
(* packages/vaulltcore-integration with their fan-out.                     *)
(*                                                                         *)
(* deterministicEventId makes the event id a function of tenant, provider  *)
(* and the provider's own id, so both event tables are functions of the    *)
(* event.  The gateway awaits its route resolver and the provider's        *)
(* verification; the fan-out awaits every call.  The automation behind the *)
(* sink is external: it answers with a run or throws.                      *)
(***************************************************************************)
EXTENDS Integers, FiniteSets, SequencesExt

CONSTANTS
  Inbound,          \* provider events
  Subscriptions,
  Interested,       \* the (subscription, event) pairs that match
  Ingests,          \* calls of the gateway in flight
  FanOuts,          \* calls of the fan-out service in flight
  NoRow,
  MaxDeliveries,    \* bound: webhook requests
  MaxFanOuts,       \* bound: calls of fanOutEvent and drivePending
  MaxSubVersion,    \* bound: versions of a subscription
  MaxIntakeFaults   \* bound: crashes and failures of the sink

ASSUME IntakeAssumption ==
  /\ Interested \subseteq Subscriptions \X Inbound
  /\ IsFiniteSet(Inbound) /\ IsFiniteSet(Subscriptions) /\ IsFiniteSet(Ingests)
  /\ MaxSubVersion \in Nat \ {0} /\ NoRow \notin Inbound

VARIABLES
  hook,       \* webhook_events
  ingest,     \* each call of ingest()
  answer,     \* the statuses the provider was given, per event
  sub,        \* integration_subscriptions
  stored,     \* integration_events: absent, stored or processed
  trig,       \* integration_triggers, UNIQUE (subscription, event)
  fan,        \* each call of fanOutEvent or drivePending
  spare       \* what is left of the bounds

intakeVars == <<hook, ingest, answer, sub, stored, trig, fan, spare>>

IngestStatuses == {"accepted", "duplicate", "unresolvable", "unverified", "rejected"}
SubscriptionStates == {"active", "paused", "deleted"}
IntegrationTriggerStates == {"pending", "completed", "failed_retriable"}

WebhookEventStates == {"accepted", "processed", "rejected"}

WebhookEvent == [state : WebhookEventStates, enqueued : BOOLEAN]
SubscriptionRecord == [state : SubscriptionStates, version : 1..MaxSubVersion]
NewSubscription == [state |-> "active", version |-> 1]
IntegrationTrigger == [state : IntegrationTriggerStates, attempts : Nat, run : BOOLEAN]
(* The absent row is no row.                                               *)
ASSUME IntakeRowAbsent == NoRow \notin WebhookEvent /\ NoRow \notin IntegrationTrigger

IdleIngest == [pc |-> "idle", event |-> NoRow]
IdleFan == [pc |-> "idle", event |-> NoRow, todo |-> <<>>, ok |-> FALSE]

IntakeTypeOK ==
  /\ hook \in [Inbound -> WebhookEvent \cup {NoRow}]
  /\ \A g \in Ingests :
       /\ ingest[g].pc \in {"idle", "verify", "record", "enqueue"}
       /\ ingest[g].pc = "enqueue" => hook[ingest[g].event] # NoRow
  /\ answer \in [Inbound -> SUBSET IngestStatuses]
  /\ sub \in [Subscriptions -> SubscriptionRecord]
  /\ stored \in [Inbound -> {"absent", "stored", "processed"}]
  /\ trig \in [Subscriptions \X Inbound -> IntegrationTrigger \cup {NoRow}]
  /\ \A f \in FanOuts :
       /\ fan[f].pc \in {"idle", "next", "sink", "write"}
       /\ fan[f].pc \in {"sink", "write"} => trig[Head(fan[f].todo)] # NoRow

IntakeInit ==
  /\ hook = [e \in Inbound |-> NoRow]
  /\ ingest = [g \in Ingests |-> IdleIngest]
  /\ answer = [e \in Inbound |-> {}]
  /\ sub = [s \in Subscriptions |-> NewSubscription]
  /\ stored = [e \in Inbound |-> "absent"]
  /\ trig = [x \in Subscriptions \X Inbound |-> NoRow]
  /\ fan = [f \in FanOuts |-> IdleFan]
  /\ spare = [deliveries |-> MaxDeliveries, fans |-> MaxFanOuts, faults |-> MaxIntakeFaults]

-----------------------------------------------------------------------------
(* A request arrives and its route is resolved; providers retry, so it may *)
(* be the same event again.                                                *)
Deliver(g, e) ==
  /\ ingest[g].pc = "idle" /\ spare.deliveries > 0
  /\ ingest' = [ingest EXCEPT ![g] = [pc |-> "verify", event |-> e]]
  /\ spare' = [spare EXCEPT !.deliveries = @ - 1]
  /\ UNCHANGED <<hook, answer, sub, stored, trig, fan>>

Answer(g, status) ==
  /\ answer' = [answer EXCEPT ![ingest[g].event] = @ \cup {status}]
  /\ ingest' = [ingest EXCEPT ![g] = IdleIngest]

(* No route or provider, a bad signature, a time too old or in the future. *)
Refuse(g, status) ==
  /\ ingest[g].pc = "verify"
  /\ status \in {"unresolvable", "unverified", "rejected"}
  /\ Answer(g, status)
  /\ UNCHANGED <<hook, sub, stored, trig, fan, spare>>

Verify(g) ==
  /\ ingest[g].pc = "verify"
  /\ ingest' = [ingest EXCEPT ![g].pc = "record"]
  /\ UNCHANGED <<hook, answer, sub, stored, trig, fan, spare>>

Inserts(e) == hook[e] = NoRow

(* recordEvent; the loser of the UNIQUE constraint answers "duplicate".    *)
RecordEvent(g) ==
  LET e == ingest[g].event
  IN /\ ingest[g].pc = "record"
     /\ IF Inserts(e)
        THEN /\ hook' = [hook EXCEPT ![e] = [state |-> "accepted", enqueued |-> FALSE]]
             /\ ingest' = [ingest EXCEPT ![g].pc = "enqueue"]
             /\ UNCHANGED answer
        ELSE Answer(g, "duplicate") /\ UNCHANGED hook
     /\ UNCHANGED <<sub, stored, trig, fan, spare>>

(* A transaction of its own, then the answer.                              *)
MarkEnqueued(g) ==
  /\ ingest[g].pc = "enqueue"
  /\ hook' = [hook EXCEPT ![ingest[g].event].enqueued = TRUE]
  /\ Answer(g, "accepted")
  /\ UNCHANGED <<sub, stored, trig, fan, spare>>

(* markProcessed and transition leave "accepted" only.  Their caller, the  *)
(* consumer of listEnqueued, is not in this repository.                    *)
Transition(e, to) ==
  /\ hook[e] # NoRow /\ hook[e].state = "accepted" /\ hook[e].enqueued
  /\ to \in {"processed", "rejected"}
  /\ hook' = [hook EXCEPT ![e].state = to]
  /\ UNCHANGED <<ingest, answer, sub, stored, trig, fan, spare>>

-----------------------------------------------------------------------------
SetSubscriptionState(s, state) ==
  /\ sub[s].version < MaxSubVersion
  /\ sub' = [sub EXCEPT ![s] = [state |-> state, version |-> @.version + 1]]
  /\ UNCHANGED <<hook, ingest, answer, stored, trig, fan, spare>>

PersistEvent(e) ==
  /\ stored[e] = "absent"
  /\ stored' = [stored EXCEPT ![e] = "stored"]
  /\ UNCHANGED <<hook, ingest, answer, sub, trig, fan, spare>>

MatchSubscriptions(e) ==
  SetToSeq({<<s, e>> : s \in {s \in Subscriptions :
              sub[s].state = "active" /\ <<s, e>> \in Interested}})

FanOutEvent(f, e) ==
  /\ fan[f].pc = "idle" /\ spare.fans > 0 /\ stored[e] # "absent"
  /\ fan' = [fan EXCEPT ![f] = [pc |-> "next", event |-> e,
                                todo |-> MatchSubscriptions(e), ok |-> FALSE]]
  /\ spare' = [spare EXCEPT !.fans = @ - 1]
  /\ UNCHANGED <<hook, ingest, answer, sub, stored, trig>>

ListPendingTriggers ==
  SetToSeq({x \in Subscriptions \X Inbound : trig[x] # NoRow /\ trig[x].state = "pending"})

(* drivePending takes the triggers as they were listed.                    *)
DrivePending(f) ==
  /\ fan[f].pc = "idle" /\ spare.fans > 0 /\ ListPendingTriggers # <<>>
  /\ fan' = [fan EXCEPT ![f] = [pc |-> "sink", event |-> NoRow,
                                todo |-> ListPendingTriggers, ok |-> FALSE]]
  /\ spare' = [spare EXCEPT !.fans = @ - 1]
  /\ UNCHANGED <<hook, ingest, answer, sub, stored, trig>>

NextTrigger(q) ==
  IF q.event = NoRow /\ Len(q.todo) = 1 THEN IdleFan
  ELSE [q EXCEPT !.pc = IF q.event = NoRow THEN "sink" ELSE "next",
                 !.todo = Tail(@), !.ok = FALSE]

(* recordTrigger; a trigger that is already there is somebody else's.      *)
RecordTrigger(f) ==
  LET q == fan[f]
      x == Head(q.todo)
  IN /\ q.pc = "next" /\ q.todo # <<>>
     /\ IF trig[x] = NoRow
        THEN /\ trig' = [trig EXCEPT ![x] =
                  [state |-> "pending", attempts |-> 0, run |-> FALSE]]
             /\ fan' = [fan EXCEPT ![f].pc = "sink"]
        ELSE fan' = [fan EXCEPT ![f] = NextTrigger(q)] /\ UNCHANGED trig
     /\ UNCHANGED <<hook, ingest, answer, sub, stored, spare>>

(* The sink answers with a run, or throws.                                 *)
SinkAnswers(f, ok) ==
  /\ fan[f].pc = "sink"
  /\ ok \/ spare.faults > 0
  /\ spare' = IF ok THEN spare ELSE [spare EXCEPT !.faults = @ - 1]
  /\ fan' = [fan EXCEPT ![f].pc = "write", ![f].ok = ok]
  /\ UNCHANGED <<hook, ingest, answer, sub, stored, trig>>

CompletedTrigger(r) ==
  IF r.state = "pending" THEN [r EXCEPT !.state = "completed", !.run = TRUE] ELSE r

(* failTrigger looks at no state.                                          *)
FailedTrigger(r) == [r EXCEPT !.state = "failed_retriable", !.attempts = @ + 1]

WriteTrigger(f) ==
  /\ fan[f].pc = "write"
  /\ trig' = [trig EXCEPT ![Head(fan[f].todo)] =
       IF fan[f].ok THEN CompletedTrigger(@) ELSE FailedTrigger(@)]
  /\ fan' = [fan EXCEPT ![f] = NextTrigger(fan[f])]
  /\ UNCHANGED <<hook, ingest, answer, sub, stored, spare>>

(* Mutant: the event is marked before the last subscription is served.     *)
ServedEarly(q) == q.pc = "next" /\ Len(q.todo) <= 1

Served(q) == q.pc = "next" /\ q.todo = <<>>

MarkEventProcessed(f) ==
  /\ Served(fan[f])
  /\ stored' = [stored EXCEPT ![fan[f].event] = "processed"]
  /\ fan' = [fan EXCEPT ![f] = IdleFan]
  /\ UNCHANGED <<hook, ingest, answer, sub, trig, spare>>

IngestCrash(g) ==
  /\ ingest[g].pc # "idle" /\ spare.faults > 0
  /\ ingest' = [ingest EXCEPT ![g] = IdleIngest]
  /\ spare' = [spare EXCEPT !.faults = @ - 1]
  /\ UNCHANGED <<hook, answer, sub, stored, trig, fan>>

FanOutCrash(f) ==
  /\ fan[f].pc # "idle" /\ spare.faults > 0
  /\ fan' = [fan EXCEPT ![f] = IdleFan]
  /\ spare' = [spare EXCEPT !.faults = @ - 1]
  /\ UNCHANGED <<hook, ingest, answer, sub, stored, trig>>

GatewayNext ==
  \/ \E g \in Ingests :
       \/ Verify(g) \/ RecordEvent(g) \/ MarkEnqueued(g) \/ IngestCrash(g)
       \/ \E e \in Inbound : Deliver(g, e)
       \/ \E status \in IngestStatuses : Refuse(g, status)
  \/ \E e \in Inbound : \E to \in {"processed", "rejected"} : Transition(e, to)

FanOutNext ==
  \/ \E s \in Subscriptions : \E state \in SubscriptionStates : SetSubscriptionState(s, state)
  \/ \E e \in Inbound : PersistEvent(e)
  \/ \E f \in FanOuts :
       \/ DrivePending(f) \/ RecordTrigger(f) \/ WriteTrigger(f)
       \/ MarkEventProcessed(f) \/ FanOutCrash(f)
       \/ \E e \in Inbound : FanOutEvent(f, e)
       \/ \E ok \in BOOLEAN : SinkAnswers(f, ok)

IntakeNext == GatewayNext \/ FanOutNext

IntakeSpec == IntakeInit /\ [][IntakeNext]_intakeVars

-----------------------------------------------------------------------------
(* However many deliveries of one event race and crash, one of them at     *)
(* most goes on to enqueue it, and the provider is told "accepted" only    *)
(* when it is enqueued (webhooks store.ts:92, gateway.ts:134).             *)
EnqueuedByOne ==
  \A e \in Inbound :
    /\ Cardinality({g \in Ingests : ingest[g].pc = "enqueue" /\ ingest[g].event = e}) <=
         IF hook[e] = NoRow \/ hook[e].enqueued THEN 0 ELSE 1
    /\ "accepted" \in answer[e] => hook[e] # NoRow /\ hook[e].enqueued

(* A processed event has a trigger for every subscription that was active  *)
(* all along, although passes over it crash, overlap and skip each other's *)
(* triggers (fanout.ts:84, 102; subscriptions.ts:303).                     *)
ProcessedIsTriggered ==
  \A x \in Interested :
    stored[x[2]] = "processed" /\ sub[x[1]] = NewSubscription =>
      trig[x] # NoRow

(* A trigger that was counted as failed is never completed afterwards by   *)
(* the other pass that drove it: the recorded run belongs to the state     *)
(* (subscriptions.ts:326).                                                 *)
FailedNotCompleted ==
  [][\A x \in Subscriptions \X Inbound :
       trig[x] # NoRow /\ trig[x].state = "failed_retriable" =>
         trig'[x].state = "failed_retriable" /\ trig'[x].run = trig[x].run
    ]_intakeVars

=============================================================================
