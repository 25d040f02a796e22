---------------------------- MODULE InboundProofs ---------------------------
(***************************************************************************)
(* What comes in and what goes out. From a webhook to a run, for every     *)
(* number of events, subscriptions, triggers, calls, crashes and lapses:   *)
(* accepted once, triggered for everyone who was interested, tried within  *)
(* a bound. From a run to its destination: stored whole, delivered to      *)
(* checked destinations, and again only with a cause.                      *)
(***************************************************************************)
EXTENDS EventIntake, TriggerDispatch, Artifacts, Delivery, FiniteSetTheorems, TLAPS

-----------------------------------------------------------------------------
(***************************************************************************)
(* The gateway and the fan-out.                                            *)
(*                                                                         *)
(* At the gateway the insert of the event's row decides: one call goes on  *)
(* to enqueue (IngestFits), and "accepted" is answered by it alone. The    *)
(* fan-out marks an event processed when its list is empty; until then     *)
(* each subscription that was active all along is still on the list or has *)
(* its trigger (FanFits).                                                  *)
(***************************************************************************)
(* A call of the gateway, a call of the fan-out, and the pairs they handle. *)
Wants == Subscriptions \X Inbound
Ingest == [pc : {"idle", "verify", "record", "enqueue"}, event : Inbound \cup {NoRow}]
FanOut == [pc : {"idle", "next", "sink", "write"}, event : Inbound \cup {NoRow},
           todo : Seq(Wants), ok : BOOLEAN]

(* A call of the gateway that is about to enqueue the event.               *)
Enqueues(g, e) == ingest[g].pc = "enqueue" /\ ingest[g].event = e

(* A call that goes on to enqueue has the row it inserted, not enqueued    *)
(* yet, to itself.                                                         *)
IngestFits(g) ==
  /\ ingest[g].pc # "idle" => ingest[g].event \in Inbound
  /\ ingest[g].pc = "enqueue" =>
       hook[ingest[g].event] # NoRow /\ ~hook[ingest[g].event].enqueued
  /\ \A h \in Ingests :
       ingest[g].pc = "enqueue" /\ ingest[h].pc = "enqueue" /\ ingest[g].event = ingest[h].event => g = h

(* An event that was accepted is enqueued.                                 *)
AnswersFit(e) == "accepted" \in answer[e] => hook[e] # NoRow /\ hook[e].enqueued

(* The sequence holds x.                                                   *)
Lists(s, x) == \E n \in 1..Len(s) : s[n] = x

(* What a call of the fan-out has ahead: triggers that are there, or, of   *)
(* an event, one for every subscription that was active all along unless   *)
(* its trigger is there.                                                   *)
FanFits(f) ==
  /\ fan[f].pc = "next" => fan[f].event \in Inbound
  /\ fan[f].pc \in {"sink", "write"} => fan[f].todo # <<>> /\ trig[Head(fan[f].todo)] # NoRow
  /\ fan[f].event = NoRow => \A n \in 1..Len(fan[f].todo) : trig[fan[f].todo[n]] # NoRow
  /\ fan[f].pc # "idle" =>
       \A x \in Interested : x[2] = fan[f].event /\ sub[x[1]] = NewSubscription =>
         trig[x] # NoRow \/ Lists(fan[f].todo, x)

(* The inductive invariant of the gateway.                                 *)
GatewayFits ==
  /\ hook \in [Inbound -> WebhookEvent \cup {NoRow}]
  /\ ingest \in [Ingests -> Ingest]
  /\ answer \in [Inbound -> SUBSET IngestStatuses]
  /\ \A g \in Ingests : IngestFits(g)
  /\ \A e \in Inbound : AnswersFit(e)

(* The inductive invariant of the fan-out.                                 *)
FanOutFits ==
  /\ sub \in [Subscriptions -> SubscriptionRecord]
  /\ stored \in [Inbound -> {"absent", "stored", "processed"}]
  /\ trig \in [Wants -> IntegrationTrigger \cup {NoRow}]
  /\ fan \in [FanOuts -> FanOut]
  /\ \A f \in FanOuts : FanFits(f)
  /\ ProcessedIsTriggered

(* Both: the gateway and the fan-out share no rows.                        *)
IntakeInv == GatewayFits /\ FanOutFits

-----------------------------------------------------------------------------
(* Listing a finite set yields a sequence of its members, all of them.     *)
LEMMA ListsAll ==
  ASSUME NEW S, IsFiniteSet(S)
  PROVE  SetToSeq(S) \in Seq(S) /\ \A x \in S : Lists(SetToSeq(S), x)
<1> DEFINE f == SetToSeq(S)
           k == Cardinality(S)
<1>1. k \in Nat /\ ExistsBijection(1..k, S)
  BY FS_CardinalityType
<1>2. \E g \in [1..k -> S] : IsInjective(g)
  BY <1>1 DEF ExistsBijection, Bijection, Injection
<1>3. f \in [1..k -> S] /\ IsInjective(f)
  BY <1>2 DEF SetToSeq
<1>4. f \in Seq(S) /\ Len(f) = k
  BY <1>1, <1>3
<1>5. ASSUME NEW x \in S, ~Lists(f, x) PROVE FALSE
  <2> HIDE DEF f, k
  <2>1. f \in [1..k -> S \ {x}]
    BY <1>3, <1>4, <1>5 DEF Lists
  <2>2. IsFiniteSet(S \ {x}) /\ Cardinality(S \ {x}) = k - 1
    BY FS_RemoveElement DEF k
  <2>3. IsFiniteSet(1..k) /\ Cardinality(1..k) = k
    BY <1>1, FS_Interval
  <2>4. Cardinality(S \ {x}) < Cardinality(1..k)
    BY <1>1, <2>2, <2>3
  <2>5. \E a, b \in 1..k : a # b /\ f[a] = f[b]
    BY <2>1, <2>2, <2>3, <2>4, FS_PigeonHole, Zenon
  <2> QED
    BY <1>3, <2>5 DEF IsInjective
<1> QED
  BY <1>4, <1>5

(* What a sequence still holds after its head.                             *)
LEMMA TailHolds ==
  ASSUME NEW T, NEW s \in Seq(T), s # <<>>
  PROVE  /\ Tail(s) \in Seq(T) /\ Head(s) \in T /\ Len(s) \in Nat /\ Len(s) > 0
         /\ Head(s) = s[1] /\ Len(Tail(s)) = Len(s) - 1
         /\ \A n \in 1..Len(Tail(s)) : Tail(s)[n] = s[n + 1] /\ n + 1 \in 1..Len(s)
         /\ \A x : Lists(s, x) => x = Head(s) \/ Lists(Tail(s), x)
<1>1. /\ Tail(s) \in Seq(T) /\ Head(s) \in T /\ Len(s) \in Nat /\ Len(s) > 0
      /\ Head(s) = s[1] /\ Len(Tail(s)) = Len(s) - 1
  OBVIOUS
<1>2. \A n \in 1..Len(Tail(s)) : Tail(s)[n] = s[n + 1] /\ n + 1 \in 1..Len(s)
  BY <1>1
<1>3. ASSUME NEW x, Lists(s, x), x # Head(s) PROVE Lists(Tail(s), x)
  <2>1. PICK n \in 1..Len(s) : s[n] = x
    BY <1>3 DEF Lists
  <2>2. n # 1
    BY <1>1, <1>3, <2>1
  <2>3. n - 1 \in 1..Len(Tail(s)) /\ (n - 1) + 1 = n
    BY <1>1, <2>1, <2>2
  <2>4. Tail(s)[n - 1] = x
    BY <1>2, <2>1, <2>3
  <2> QED
    BY <2>3, <2>4 DEF Lists
<1> QED
  BY <1>1, <1>2, <1>3

(* Nothing has come in.                                                    *)
LEMMA IntakeStarts ==
  ASSUME IntakeInit
  PROVE  IntakeInv
<1>1. GatewayFits
  BY DEF IntakeInit, GatewayFits, Ingest, IdleIngest, IngestFits, AnswersFit
<1>2. \A f \in FanOuts : fan[f] = [pc |-> "idle", event |-> NoRow, todo |-> <<>>, ok |-> FALSE]
  BY DEF IntakeInit, IdleFan
<1>3. fan \in [FanOuts -> FanOut]
  <2>1. [pc |-> "idle", event |-> NoRow, todo |-> <<>>, ok |-> FALSE] \in FanOut
    <3>1. <<>> \in Seq(Wants)
      OBVIOUS
    <3>2. FALSE \in BOOLEAN /\ "idle" \in {"idle", "next", "sink", "write"} /\ NoRow \in Inbound \cup {NoRow}
      OBVIOUS
    <3> QED
      BY <3>1, <3>2, Zenon DEF FanOut
  <2> QED
    BY <2>1 DEF IntakeInit, IdleFan
<1>4. \A f \in FanOuts : FanFits(f)
  BY <1>2 DEF FanFits
<1>5. NewSubscription \in SubscriptionRecord
  BY IntakeAssumption DEF NewSubscription, SubscriptionRecord, SubscriptionStates
<1>6. /\ sub \in [Subscriptions -> SubscriptionRecord]
      /\ stored \in [Inbound -> {"absent", "stored", "processed"}]
      /\ trig \in [Wants -> IntegrationTrigger \cup {NoRow}]
  BY <1>5 DEF IntakeInit, Wants
<1>7. ProcessedIsTriggered
  BY IntakeAssumption DEF IntakeInit, ProcessedIsTriggered
<1> QED
  BY <1>1, <1>3, <1>4, <1>6, <1>7 DEF IntakeInv, FanOutFits

-----------------------------------------------------------------------------
(* The gateway.                                                            *)

(* A call gives its answer: it is idle, and its event's answers grow.      *)
LEMMA Responds ==
  ASSUME GatewayFits, NEW g \in Ingests, NEW status \in IngestStatuses,
         ingest[g].event \in Inbound, Answer(g, status)
  PROVE  /\ ingest' \in [Ingests -> Ingest] /\ answer' \in [Inbound -> SUBSET IngestStatuses]
         /\ ingest'[g].pc = "idle"
         /\ \A h \in Ingests \ {g} : ingest'[h] = ingest[h]
         /\ \A e \in Inbound : answer'[e] = answer[e] \/ (e = ingest[g].event /\ answer'[e] = answer[e] \cup {status})
<1>1. IdleIngest \in Ingest
  BY DEF IdleIngest, Ingest
<1> QED
  BY <1>1 DEF Answer, GatewayFits, IdleIngest

(* A step of one call of the gateway.                                      *)
LEMMA GatewayStep ==
  ASSUME GatewayFits, GatewayNext
  PROVE  GatewayFits'
<1>1. ASSUME NEW g \in Ingests, NEW e \in Inbound, Deliver(g, e) PROVE GatewayFits'
  <2>1. ingest' = [ingest EXCEPT ![g] = [pc |-> "verify", event |-> e]] /\ UNCHANGED <<hook, answer>>
    BY <1>1 DEF Deliver
  <2>2. ingest' \in [Ingests -> Ingest]
    BY <2>1 DEF GatewayFits, Ingest
  <2>3. ASSUME NEW h \in Ingests PROVE IngestFits(h)'
    BY <2>1 DEF GatewayFits, IngestFits
  <2> QED
    BY <2>1, <2>2, <2>3 DEF GatewayFits, AnswersFit
<1>2. ASSUME NEW g \in Ingests, NEW status \in IngestStatuses, Refuse(g, status) PROVE GatewayFits'
  <2>1. /\ ingest[g].pc = "verify" /\ status # "accepted" /\ Answer(g, status) /\ UNCHANGED hook
        /\ ingest[g].event \in Inbound
    BY <1>2 DEF Refuse, GatewayFits, IngestFits
  <2>2. /\ ingest' \in [Ingests -> Ingest] /\ answer' \in [Inbound -> SUBSET IngestStatuses]
        /\ ingest'[g].pc = "idle"
        /\ \A h \in Ingests \ {g} : ingest'[h] = ingest[h]
        /\ \A e \in Inbound : answer'[e] = answer[e] \/ (e = ingest[g].event /\ answer'[e] = answer[e] \cup {status})
    BY <2>1, Responds
  <2>3. ASSUME NEW h \in Ingests PROVE IngestFits(h)'
    BY <2>1, <2>2 DEF GatewayFits, IngestFits
  <2>4. ASSUME NEW e \in Inbound PROVE AnswersFit(e)'
    BY <2>1, <2>2 DEF GatewayFits, AnswersFit
  <2> QED
    BY <2>1, <2>2, <2>3, <2>4 DEF GatewayFits
<1>3. ASSUME NEW g \in Ingests, Verify(g) PROVE GatewayFits'
  <2>1. ingest[g].pc = "verify" /\ ingest' = [ingest EXCEPT ![g].pc = "record"] /\ UNCHANGED <<hook, answer>>
    BY <1>3 DEF Verify
  <2>2. ingest' \in [Ingests -> Ingest]
    BY <2>1 DEF GatewayFits, Ingest
  <2>3. ASSUME NEW h \in Ingests PROVE IngestFits(h)'
    BY <2>1 DEF GatewayFits, IngestFits, Ingest
  <2> QED
    BY <2>1, <2>2, <2>3 DEF GatewayFits, AnswersFit
<1>4. ASSUME NEW g \in Ingests, RecordEvent(g) PROVE GatewayFits'
  <2> DEFINE e == ingest[g].event
  <2>1. ingest[g].pc = "record" /\ e \in Inbound
    BY <1>4 DEF RecordEvent, GatewayFits, IngestFits
  <2>2. CASE Inserts(e)
    <3>1. /\ hook' = [hook EXCEPT ![e] = [state |-> "accepted", enqueued |-> FALSE]]
          /\ ingest' = [ingest EXCEPT ![g].pc = "enqueue"] /\ UNCHANGED answer /\ hook[e] = NoRow
      BY <1>4, <2>2 DEF RecordEvent, Inserts
    <3>2. [state |-> "accepted", enqueued |-> FALSE] \in WebhookEvent
      BY DEF WebhookEvent, WebhookEventStates
    <3>3. hook' \in [Inbound -> WebhookEvent \cup {NoRow}] /\ ingest' \in [Ingests -> Ingest]
      BY <3>1, <3>2, <2>1 DEF GatewayFits, Ingest
    <3>4. /\ hook'[e] # NoRow /\ ~hook'[e].enqueued
          /\ \A d \in Inbound \ {e} : hook'[d] = hook[d]
          /\ \A h \in Ingests \ {g} : ingest'[h] = ingest[h]
          /\ ingest'[g].pc = "enqueue" /\ ingest'[g].event = e
      BY <3>1, <3>2, <2>1, IntakeRowAbsent DEF GatewayFits, Ingest
    <3>5. ASSUME NEW h \in Ingests PROVE IngestFits(h)'
      <4>1. ingest[h].pc = "enqueue" => ingest[h].event # e
        BY <3>1 DEF GatewayFits, IngestFits
      <4>2. \A i \in Ingests : ingest[i].pc = "enqueue" => ingest[i].event # e
        BY <3>1 DEF GatewayFits, IngestFits
      <4>3. CASE h = g
        BY <2>1, <3>4, <4>2, <4>3 DEF IngestFits
      <4>4. CASE h # g
        BY <3>4, <4>1, <4>4 DEF GatewayFits, IngestFits
      <4> QED
        BY <4>3, <4>4
    <3>6. ASSUME NEW d \in Inbound PROVE AnswersFit(d)'
      BY <3>1, <3>4 DEF GatewayFits, AnswersFit
    <3> QED
      BY <3>1, <3>3, <3>5, <3>6 DEF GatewayFits
  <2>3. CASE ~Inserts(e)
    <3>1. Answer(g, "duplicate") /\ UNCHANGED hook /\ "duplicate" \in IngestStatuses
      BY <1>4, <2>3 DEF RecordEvent, IngestStatuses
    <3>2. /\ ingest' \in [Ingests -> Ingest] /\ answer' \in [Inbound -> SUBSET IngestStatuses]
          /\ ingest'[g].pc = "idle"
          /\ \A h \in Ingests \ {g} : ingest'[h] = ingest[h]
          /\ \A d \in Inbound : answer'[d] = answer[d] \/ answer'[d] = answer[d] \cup {"duplicate"}
      BY <2>1, <3>1, Responds
    <3>3. ASSUME NEW h \in Ingests PROVE IngestFits(h)'
      BY <3>1, <3>2 DEF GatewayFits, IngestFits
    <3>4. ASSUME NEW d \in Inbound PROVE AnswersFit(d)'
      BY <3>1, <3>2 DEF GatewayFits, AnswersFit
    <3> QED
      BY <3>1, <3>2, <3>3, <3>4 DEF GatewayFits
  <2> QED
    BY <2>2, <2>3
<1>5. ASSUME NEW g \in Ingests, MarkEnqueued(g) PROVE GatewayFits'
  <2> DEFINE e == ingest[g].event
  <2>1. /\ ingest[g].pc = "enqueue" /\ e \in Inbound /\ hook[e] # NoRow
        /\ hook' = [hook EXCEPT ![e].enqueued = TRUE] /\ Answer(g, "accepted")
    BY <1>5 DEF MarkEnqueued, GatewayFits, IngestFits
  <2>2. "accepted" \in IngestStatuses
    BY DEF IngestStatuses
  <2>3. /\ ingest' \in [Ingests -> Ingest] /\ answer' \in [Inbound -> SUBSET IngestStatuses]
        /\ ingest'[g].pc = "idle"
        /\ \A h \in Ingests \ {g} : ingest'[h] = ingest[h]
        /\ \A d \in Inbound : answer'[d] = answer[d] \/ d = e
    BY <2>1, <2>2, Responds
  <2>4. hook[e] \in WebhookEvent
    BY <2>1 DEF GatewayFits
  <2>5. [hook[e] EXCEPT !.enqueued = TRUE] \in WebhookEvent /\ [hook[e] EXCEPT !.enqueued = TRUE].enqueued
    BY <2>4 DEF WebhookEvent
  <2>6. /\ hook' \in [Inbound -> WebhookEvent \cup {NoRow}]
        /\ hook'[e] # NoRow /\ hook'[e].enqueued
        /\ \A d \in Inbound \ {e} : hook'[d] = hook[d]
    BY <2>1, <2>5, IntakeRowAbsent DEF GatewayFits
  <2>7. ASSUME NEW h \in Ingests PROVE IngestFits(h)'
    <3>1. h # g /\ ingest[h].pc = "enqueue" => ingest[h].event # e
      BY <2>1 DEF GatewayFits, IngestFits
    <3> QED
      BY <2>3, <2>6, <3>1 DEF GatewayFits, IngestFits
  <2>8. ASSUME NEW d \in Inbound PROVE AnswersFit(d)'
    BY <2>3, <2>6 DEF GatewayFits, AnswersFit
  <2> QED
    BY <2>3, <2>6, <2>7, <2>8 DEF GatewayFits
<1>6. ASSUME NEW g \in Ingests, IngestCrash(g) PROVE GatewayFits'
  <2>1. ingest' = [ingest EXCEPT ![g] = [pc |-> "idle", event |-> NoRow]] /\ UNCHANGED <<hook, answer>>
    BY <1>6 DEF IngestCrash, IdleIngest
  <2>2. ingest' \in [Ingests -> Ingest]
    BY <2>1 DEF GatewayFits, Ingest
  <2>3. ASSUME NEW h \in Ingests PROVE IngestFits(h)'
    BY <2>1 DEF GatewayFits, IngestFits
  <2> QED
    BY <2>1, <2>2, <2>3 DEF GatewayFits, AnswersFit
<1>7. ASSUME NEW e \in Inbound, NEW to \in {"processed", "rejected"}, Transition(e, to) PROVE GatewayFits'
  <2>1. /\ hook[e] # NoRow /\ hook[e].enqueued /\ hook' = [hook EXCEPT ![e].state = to]
        /\ UNCHANGED <<ingest, answer>>
    BY <1>7 DEF Transition
  <2>2. hook[e] \in WebhookEvent
    BY <2>1 DEF GatewayFits
  <2>3. [hook[e] EXCEPT !.state = to] \in WebhookEvent /\ [hook[e] EXCEPT !.state = to].enqueued = hook[e].enqueued
    BY <2>2 DEF WebhookEvent, WebhookEventStates
  <2>4. /\ hook' \in [Inbound -> WebhookEvent \cup {NoRow}]
        /\ hook'[e] # NoRow /\ hook'[e].enqueued
        /\ \A d \in Inbound \ {e} : hook'[d] = hook[d]
    BY <2>1, <2>3, IntakeRowAbsent DEF GatewayFits
  <2>5. ASSUME NEW h \in Ingests PROVE IngestFits(h)'
    BY <2>1, <2>4 DEF GatewayFits, IngestFits
  <2>6. ASSUME NEW d \in Inbound PROVE AnswersFit(d)'
    BY <2>1, <2>4 DEF GatewayFits, AnswersFit
  <2> QED
    BY <2>1, <2>4, <2>5, <2>6 DEF GatewayFits
<1> QED
  BY <1>1, <1>2, <1>3, <1>4, <1>5, <1>6, <1>7 DEF GatewayNext

(* Steps of the fan-out leave the gateway as it is.                        *)
LEMMA GatewayStands ==
  ASSUME GatewayFits, UNCHANGED <<hook, ingest, answer>>
  PROVE  GatewayFits'
  BY DEF GatewayFits, IngestFits, AnswersFit

-----------------------------------------------------------------------------
(* The fan-out.                                                            *)

(* Triggers are never taken away, and no subscription becomes new again.   *)
OnlyGrows ==
  /\ \A x \in Wants : trig[x] # NoRow => trig'[x] # NoRow
  /\ \A s \in Subscriptions : sub'[s] = NewSubscription => sub[s] = NewSubscription

(* A call of the fan-out that does not move, while triggers stay and       *)
(* subscriptions change.                                                   *)
LEMMA FanKept ==
  ASSUME FanOutFits, OnlyGrows, NEW f \in FanOuts, fan'[f] = fan[f]
  PROVE  FanFits(f)'
<1>1. fan[f] \in FanOut /\ fan[f].todo \in Seq(Wants) /\ FanFits(f)
  BY DEF FanOutFits, FanOut
<1>2. \A n \in 1..Len(fan[f].todo) : fan[f].todo[n] \in Wants
  BY <1>1
<1>3. fan[f].todo # <<>> => Head(fan[f].todo) \in Wants
  BY <1>1
<1>4. \A x \in Interested : x \in Wants /\ x[1] \in Subscriptions
  BY IntakeAssumption DEF Wants
<1>5. \A x : Lists(fan[f].todo, x)' <=> Lists(fan[f].todo, x)
  BY DEF Lists
<1> QED
  BY <1>1, <1>2, <1>3, <1>4, <1>5 DEF FanFits, OnlyGrows

(* A processed event stays triggered while triggers stay and no event is   *)
(* newly processed.                                                        *)
LEMMA TriggeredKept ==
  ASSUME FanOutFits, OnlyGrows, stored' = stored
  PROVE  ProcessedIsTriggered'
<1>1. \A x \in Interested : x \in Wants /\ x[1] \in Subscriptions
  BY IntakeAssumption DEF Wants
<1> QED
  BY <1>1 DEF FanOutFits, ProcessedIsTriggered, OnlyGrows

(* A call becomes idle.                                                    *)
LEMMA IdleFits ==
  ASSUME FanOutFits, NEW f \in FanOuts, fan' = [fan EXCEPT ![f] = IdleFan]
  PROVE  fan' \in [FanOuts -> FanOut] /\ FanFits(f)' /\ \A h \in FanOuts \ {f} : fan'[h] = fan[h]
<1>1. IdleFan \in FanOut
  <2>1. <<>> \in Seq(Wants) /\ FALSE \in BOOLEAN
    OBVIOUS
  <2>2. "idle" \in {"idle", "next", "sink", "write"} /\ NoRow \in Inbound \cup {NoRow}
    OBVIOUS
  <2> QED
    BY <2>1, <2>2, Zenon DEF FanOut, IdleFan
<1>2. fan'[f] = IdleFan
  BY DEF FanOutFits
<1>3. FanFits(f)'
  BY <1>2 DEF FanFits, IdleFan
<1> QED
  BY <1>1, <1>3 DEF FanOutFits

(* A step of one call which takes no trigger away, once what that call has *)
(* ahead is accounted for.                                                 *)
LEMMA CallSteps ==
  ASSUME FanOutFits, NEW f \in FanOuts, UNCHANGED <<sub, stored>>,
         trig' \in [Wants -> IntegrationTrigger \cup {NoRow}],
         \A x \in Wants : trig[x] # NoRow => trig'[x] # NoRow,
         fan' \in [FanOuts -> FanOut], FanFits(f)', \A h \in FanOuts \ {f} : fan'[h] = fan[h]
  PROVE  FanOutFits'
<1>1. OnlyGrows
  BY DEF OnlyGrows
<1>2. ProcessedIsTriggered'
  BY <1>1, TriggeredKept
<1>3. \A h \in FanOuts : FanFits(h)'
  <2> SUFFICES ASSUME NEW h \in FanOuts PROVE FanFits(h)'
    OBVIOUS
  <2>1. CASE h = f
    BY <2>1
  <2>2. CASE h # f
    BY <2>2, <1>1, FanKept
  <2> QED
    BY <2>1, <2>2
<1> QED
  BY <1>2, <1>3 DEF FanOutFits

(* What a call does next, once its trigger is there.                       *)
LEMMA NextTriggerFits ==
  ASSUME FanOutFits, NEW f \in FanOuts,
         fan[f].pc \in {"next", "write"}, fan[f].todo # <<>>,
         UNCHANGED <<sub, stored>>,
         trig' \in [Wants -> IntegrationTrigger \cup {NoRow}],
         \A x \in Wants : trig[x] # NoRow => trig'[x] # NoRow,
         trig'[Head(fan[f].todo)] # NoRow,
         fan' = [fan EXCEPT ![f] = NextTrigger(fan[f])]
  PROVE  FanOutFits'
<1> DEFINE q == fan[f]
<1>1. q \in FanOut /\ q.todo \in Seq(Wants) /\ FanFits(f)
  BY DEF FanOutFits, FanOut
<1>2. CASE q.event = NoRow /\ Len(q.todo) = 1
  <2>1. fan' = [fan EXCEPT ![f] = IdleFan]
    BY <1>2 DEF NextTrigger
  <2> QED
    BY <2>1, IdleFits, CallSteps
<1>3. CASE ~(q.event = NoRow /\ Len(q.todo) = 1)
  <2> DEFINE t == Tail(q.todo)
             p == [pc |-> IF q.event = NoRow THEN "sink" ELSE "next", event |-> q.event,
                   todo |-> t, ok |-> FALSE]
  <2>1. /\ t \in Seq(Wants) /\ Head(q.todo) \in Wants /\ Len(q.todo) \in Nat /\ Len(q.todo) > 0
        /\ Len(t) = Len(q.todo) - 1
        /\ \A n \in 1..Len(t) : t[n] = q.todo[n + 1] /\ n + 1 \in 1..Len(q.todo)
        /\ \A x : Lists(q.todo, x) => x = Head(q.todo) \/ Lists(t, x)
    BY <1>1, TailHolds, Zenon
  <2>2. NextTrigger(q) = [q EXCEPT !.pc = IF q.event = NoRow THEN "sink" ELSE "next", !.todo = t, !.ok = FALSE]
    BY <1>3 DEF NextTrigger
  <2> HIDE DEF t
  <2>3. NextTrigger(q) = p
    BY <2>2, <1>1 DEF FanOut
  <2>4. p \in FanOut
    <3>1. q.event \in Inbound \cup {NoRow} /\ FALSE \in BOOLEAN
      BY <1>1 DEF FanOut
    <3>2. (IF q.event = NoRow THEN "sink" ELSE "next") \in {"idle", "next", "sink", "write"}
      OBVIOUS
    <3> QED
      BY <3>1, <3>2, <2>1, Zenon DEF FanOut
  <2>5. fan' \in [FanOuts -> FanOut] /\ fan'[f] = p /\ \A h \in FanOuts \ {f} : fan'[h] = fan[h]
    BY <2>3, <2>4 DEF FanOutFits
  <2>6. p.pc = "next" => p.event \in Inbound
    BY <1>1 DEF FanOut
  <2>7. ASSUME p.event = NoRow, NEW n \in 1..Len(t) PROVE trig'[t[n]] # NoRow
    <3>1. q.event = NoRow
      BY <2>7
    <3>2. trig[q.todo[n + 1]] # NoRow /\ q.todo[n + 1] \in Wants
      BY <3>1, <2>1, <1>1 DEF FanFits
    <3> QED
      BY <3>2, <2>1
  <2>8. ASSUME p.pc \in {"sink", "write"} PROVE t # <<>> /\ trig'[Head(t)] # NoRow
    <3>1. q.event = NoRow
      BY <2>8
    <3>2. Len(t) # 0 /\ Len(t) \in Nat
      BY <3>1, <1>3, <2>1
    <3>3. 1 \in 1..Len(t)
      BY <3>2
    <3>4. trig'[t[1]] # NoRow
      BY <3>3, <3>1, <2>7
    <3>5. t # <<>> /\ Head(t) = t[1]
      <4> HIDE DEF p, q
      <4>1. t \in Seq(Wants)
        BY <2>1
      <4> QED
        BY <4>1, <3>2
    <3> QED
      BY <3>4, <3>5
  <2>9. ASSUME NEW x \in Interested, x[2] = p.event, sub'[x[1]] = NewSubscription
        PROVE  trig'[x] # NoRow \/ Lists(t, x)
    <3>1. x \in Wants
      BY IntakeAssumption DEF Wants
    <3>2. trig[x] # NoRow \/ Lists(q.todo, x)
      BY <2>9, <1>1 DEF FanFits
    <3> QED
      BY <3>1, <3>2, <2>1
  <2>10. FanFits(f)'
    <3>1. \A x : Lists(fan[f].todo, x)' <=> Lists(t, x)
      BY <2>5 DEF Lists
    <3> HIDE DEF p
    <3>2. fan'[f].pc = p.pc /\ fan'[f].event = p.event /\ fan'[f].todo = t
      BY <2>5 DEF p
    <3> QED
      BY <3>1, <3>2, <2>6, <2>7, <2>8, <2>9 DEF FanFits
  <2> QED
    BY <2>5, <2>10, CallSteps
<1> QED
  BY <1>2, <1>3

(* A call notes what the sink answered.                                    *)
LEMMA AnswerNoted ==
  ASSUME NEW q \in FanOut, NEW v \in BOOLEAN
  PROVE  LET p == [q EXCEPT !.pc = "write", !.ok = v]
         IN  p \in FanOut /\ p.pc = "write" /\ p.event = q.event /\ p.todo = q.todo
<1> DEFINE r == [q EXCEPT !.pc = "write"]
<1>1. r \in FanOut /\ r.pc = "write" /\ r.event = q.event /\ r.todo = q.todo
  BY DEF FanOut
<1>2. [q EXCEPT !.pc = "write", !.ok = v] = [r EXCEPT !.ok = v]
  OBVIOUS
<1> HIDE DEF r
<1> DEFINE p == [r EXCEPT !.ok = v]
<1>3. p.pc = r.pc /\ p.event = r.event /\ p.todo = r.todo
  BY <1>1 DEF FanOut
<1>4. p \in FanOut
  BY <1>1 DEF FanOut
<1> QED
  BY <1>1, <1>2, <1>3, <1>4

(* A step of one call of the fan-out.                                      *)
LEMMA FanOutStep ==
  ASSUME FanOutFits, FanOutNext
  PROVE  FanOutFits'
<1>1. ASSUME NEW s \in Subscriptions, NEW state \in SubscriptionStates, SetSubscriptionState(s, state)
      PROVE FanOutFits'
  <2>1. sub' = [sub EXCEPT ![s] = [state |-> state, version |-> sub[s].version + 1]]
        /\ sub[s].version < MaxSubVersion /\ UNCHANGED <<stored, trig, fan>>
    BY <1>1 DEF SetSubscriptionState
  <2>2. sub[s].version \in 1..MaxSubVersion
    BY DEF FanOutFits, SubscriptionRecord
  <2> DEFINE v == sub[s].version + 1
  <2>3. v \in 1..MaxSubVersion /\ v # 1
    BY <2>1, <2>2, IntakeAssumption
  <2> HIDE DEF v
  <2>4. [state |-> state, version |-> v] \in SubscriptionRecord /\ [state |-> state, version |-> v] # NewSubscription
    BY <2>3 DEF SubscriptionRecord, NewSubscription
  <2>5. sub' = [sub EXCEPT ![s] = [state |-> state, version |-> v]]
    BY <2>1 DEF v
  <2>6. sub' \in [Subscriptions -> SubscriptionRecord]
    BY <2>4, <2>5 DEF FanOutFits
  <2>7. OnlyGrows
    BY <2>1, <2>4, <2>5 DEF FanOutFits, OnlyGrows
  <2>8. ProcessedIsTriggered'
    BY <2>1, <2>7, TriggeredKept
  <2>9. \A f \in FanOuts : FanFits(f)'
    BY <2>1, <2>7, FanKept
  <2> QED
    BY <2>1, <2>6, <2>8, <2>9 DEF FanOutFits
<1>2. ASSUME NEW e \in Inbound, PersistEvent(e) PROVE FanOutFits'
  <2>1. stored' = [stored EXCEPT ![e] = "stored"] /\ UNCHANGED <<sub, trig, fan>>
    BY <1>2 DEF PersistEvent
  <2>2. OnlyGrows
    BY <2>1 DEF OnlyGrows
  <2>3. stored' \in [Inbound -> {"absent", "stored", "processed"}]
        /\ \A d \in Inbound : stored'[d] = "processed" => stored[d] = "processed"
    BY <2>1 DEF FanOutFits
  <2>4. \A x \in Interested : x[2] \in Inbound
    BY IntakeAssumption
  <2>5. ProcessedIsTriggered'
    BY <2>1, <2>3, <2>4 DEF FanOutFits, ProcessedIsTriggered
  <2>6. \A f \in FanOuts : FanFits(f)'
    BY <2>1, <2>2, FanKept
  <2> QED
    BY <2>1, <2>3, <2>5, <2>6 DEF FanOutFits
<1>3. ASSUME NEW f \in FanOuts, NEW e \in Inbound, FanOutEvent(f, e) PROVE FanOutFits'
  <2> DEFINE S == {<<s, e>> : s \in {s \in Subscriptions : sub[s].state = "active" /\ <<s, e>> \in Interested}}
             t == MatchSubscriptions(e)
  <2>1. S \subseteq Wants /\ IsFiniteSet(S)
    <3>1. \A s \in Subscriptions : <<s, e>> \in Wants
      BY DEF Wants
    <3>2. S \subseteq Wants
      BY <3>1, Zenon
    <3>3. IsFiniteSet(Wants)
      BY IntakeAssumption, FS_Product DEF Wants
    <3> HIDE DEF S
    <3> QED
      BY <3>2, <3>3, FS_Subset
  <2>2. t = SetToSeq(S)
    BY DEF MatchSubscriptions
  <2>3. t \in Seq(Wants) /\ \A x \in S : Lists(t, x)
    <3> HIDE DEF S, t
    <3>1. t \in Seq(S) /\ \A x \in S : Lists(t, x)
      BY <2>1, <2>2, ListsAll
    <3> QED
      BY <3>1, <2>1
  <2>4. ASSUME NEW x \in Interested, x[2] = e, sub[x[1]] = NewSubscription PROVE x \in S
    BY <2>4, IntakeAssumption DEF NewSubscription
  <2>5. fan' = [fan EXCEPT ![f] = [pc |-> "next", event |-> e, todo |-> t, ok |-> FALSE]]
        /\ UNCHANGED <<sub, stored, trig>>
    BY <1>3 DEF FanOutEvent
  <2> HIDE DEF S, t
  <2>6. [pc |-> "next", event |-> e, todo |-> t, ok |-> FALSE] \in FanOut
    <3>1. FALSE \in BOOLEAN /\ "next" \in {"idle", "next", "sink", "write"} /\ e \in Inbound \cup {NoRow}
      OBVIOUS
    <3> QED
      BY <3>1, <2>3, Zenon DEF FanOut
  <2>7. /\ fan' \in [FanOuts -> FanOut] /\ \A h \in FanOuts \ {f} : fan'[h] = fan[h]
        /\ fan'[f].pc = "next" /\ fan'[f].event = e /\ fan'[f].todo = t
    BY <2>5, <2>6 DEF FanOutFits
  <2>8. FanFits(f)'
    <3>1. \A x : Lists(fan[f].todo, x)' <=> Lists(t, x)
      BY <2>7 DEF Lists
    <3>2. e # NoRow
      BY IntakeAssumption
    <3> QED
      BY <3>1, <3>2, <2>3, <2>4, <2>5, <2>7 DEF FanFits
  <2> QED
    BY <2>5, <2>7, <2>8, CallSteps DEF FanOutFits
<1>4. ASSUME NEW f \in FanOuts, DrivePending(f) PROVE FanOutFits'
  <2> DEFINE S == {x \in Wants : trig[x] # NoRow /\ trig[x].state = "pending"}
             t == ListPendingTriggers
  <2>1. S \subseteq Wants /\ IsFiniteSet(S)
    <3>1. IsFiniteSet(Wants)
      BY IntakeAssumption, FS_Product DEF Wants
    <3> QED
      BY <3>1, FS_Subset
  <2>2. t = SetToSeq(S)
    BY DEF ListPendingTriggers, Wants
  <2>3. \A x \in S : trig[x] # NoRow
    OBVIOUS
  <2>4. fan' = [fan EXCEPT ![f] = [pc |-> "sink", event |-> NoRow, todo |-> t, ok |-> FALSE]]
        /\ t # <<>> /\ UNCHANGED <<sub, stored, trig>>
    BY <1>4 DEF DrivePending
  <2> HIDE DEF S, t
  <2>5. t \in Seq(S)
    BY <2>1, <2>2, ListsAll
  <2>6. t \in Seq(Wants) /\ Head(t) \in S /\ \A n \in 1..Len(t) : t[n] \in S
    BY <2>1, <2>4, <2>5
  <2>7. [pc |-> "sink", event |-> NoRow, todo |-> t, ok |-> FALSE] \in FanOut
    <3>1. FALSE \in BOOLEAN /\ "sink" \in {"idle", "next", "sink", "write"} /\ NoRow \in Inbound \cup {NoRow}
      OBVIOUS
    <3> QED
      BY <3>1, <2>6, Zenon DEF FanOut
  <2>8. /\ fan' \in [FanOuts -> FanOut] /\ \A h \in FanOuts \ {f} : fan'[h] = fan[h]
        /\ fan'[f].pc = "sink" /\ fan'[f].event = NoRow /\ fan'[f].todo = t
    BY <2>4, <2>7 DEF FanOutFits
  <2>9. \A x \in Interested : x[2] # NoRow
    BY IntakeAssumption
  <2>10. FanFits(f)'
    BY <2>3, <2>4, <2>6, <2>8, <2>9 DEF FanFits
  <2> QED
    BY <2>4, <2>8, <2>10, CallSteps DEF FanOutFits
<1>5. ASSUME NEW f \in FanOuts, RecordTrigger(f) PROVE FanOutFits'
  <2> DEFINE x == Head(fan[f].todo)
             new == [state |-> "pending", attempts |-> 0, run |-> FALSE]
  <2>1. fan[f].pc = "next" /\ fan[f].todo # <<>> /\ UNCHANGED <<sub, stored>>
    BY <1>5 DEF RecordTrigger
  <2>2. fan[f] \in FanOut /\ fan[f].todo \in Seq(Wants) /\ x \in Wants /\ FanFits(f)
    <3>1. fan[f] \in FanOut /\ fan[f].todo \in Seq(Wants) /\ FanFits(f)
      BY DEF FanOutFits, FanOut
    <3> QED
      BY <3>1, <2>1
  <2>3. CASE trig[x] = NoRow
    <3>1. trig' = [trig EXCEPT ![x] = new] /\ fan' = [fan EXCEPT ![f].pc = "sink"]
      BY <1>5, <2>3 DEF RecordTrigger
    <3>2. new \in IntegrationTrigger
      <4>1. FALSE \in BOOLEAN /\ 0 \in Nat /\ "pending" \in IntegrationTriggerStates
        BY DEF IntegrationTriggerStates
      <4> QED
        BY <4>1, Zenon DEF IntegrationTrigger
    <3>3. /\ trig' \in [Wants -> IntegrationTrigger \cup {NoRow}]
          /\ trig'[x] # NoRow /\ \A y \in Wants \ {x} : trig'[y] = trig[y]
      <4> HIDE DEF x, new
      <4> QED
        BY <3>1, <3>2, <2>2, IntakeRowAbsent DEF FanOutFits
    <3>4. /\ fan' \in [FanOuts -> FanOut] /\ \A h \in FanOuts \ {f} : fan'[h] = fan[h]
          /\ fan'[f].pc = "sink" /\ fan'[f].event = fan[f].event /\ fan'[f].todo = fan[f].todo
      <4>1. [fan[f] EXCEPT !.pc = "sink"] \in FanOut
        BY <2>2 DEF FanOut
      <4> QED
        BY <3>1, <4>1, <2>2 DEF FanOutFits, FanOut
    <3>5. \A y \in Wants : trig[y] # NoRow => trig'[y] # NoRow
      BY <2>3, <3>3
    <3>6. fan[f].event \in Inbound /\ fan[f].event # NoRow
      BY <2>1, <2>2, IntakeAssumption DEF FanFits
    <3>7. \A y \in Interested : y \in Wants
      BY IntakeAssumption DEF Wants
    <3>8. \A y : Lists(fan[f].todo, y)' <=> Lists(fan[f].todo, y)
      BY <3>4 DEF Lists
    <3>9. FanFits(f)'
      BY <2>1, <2>2, <3>3, <3>4, <3>5, <3>6, <3>7, <3>8 DEF FanFits
    <3> QED
      BY <2>1, <3>3, <3>4, <3>5, <3>9, CallSteps
  <2>4. CASE trig[x] # NoRow
    <3>1. fan' = [fan EXCEPT ![f] = NextTrigger(fan[f])] /\ UNCHANGED trig
      BY <1>5, <2>4 DEF RecordTrigger
    <3>2. trig' \in [Wants -> IntegrationTrigger \cup {NoRow}]
      BY <3>1 DEF FanOutFits
    <3> QED
      BY <2>1, <2>4, <3>1, <3>2, NextTriggerFits
  <2> QED
    BY <2>3, <2>4
<1>6. ASSUME NEW f \in FanOuts, NEW ok \in BOOLEAN, SinkAnswers(f, ok) PROVE FanOutFits'
  <2>1. /\ fan' = [fan EXCEPT ![f].pc = "write", ![f].ok = ok] /\ fan[f].pc = "sink"
        /\ UNCHANGED <<sub, stored, trig>>
    BY <1>6 DEF SinkAnswers
  <2>2. fan[f] \in FanOut /\ FanFits(f)
    BY DEF FanOutFits
  <2> DEFINE p == [fan[f] EXCEPT !.pc = "write", !.ok = ok]
  <2>3. p \in FanOut /\ p.pc = "write" /\ p.event = fan[f].event /\ p.todo = fan[f].todo
    BY <2>2, AnswerNoted, Zenon
  <2>4. fan' = [fan EXCEPT ![f] = p]
    BY <2>1 DEF FanOutFits
  <2> HIDE DEF p
  <2>5. fan' \in [FanOuts -> FanOut] /\ fan'[f] = p /\ \A h \in FanOuts \ {f} : fan'[h] = fan[h]
    BY <2>3, <2>4 DEF FanOutFits
  <2>6. p.pc = "write" /\ p.event = fan[f].event /\ p.todo = fan[f].todo
    BY <2>3
  <2>7. \A y : Lists(fan[f].todo, y)' <=> Lists(fan[f].todo, y)
    BY <2>5, <2>6 DEF Lists
  <2>8. FanFits(f)'
    BY <2>1, <2>2, <2>5, <2>6, <2>7 DEF FanFits
  <2> QED
    BY <2>1, <2>5, <2>8, CallSteps DEF FanOutFits
<1>7. ASSUME NEW f \in FanOuts, WriteTrigger(f) PROVE FanOutFits'
  <2> DEFINE x == Head(fan[f].todo)
             r == trig[x]
  <2>1. fan[f].pc = "write" /\ fan' = [fan EXCEPT ![f] = NextTrigger(fan[f])] /\ UNCHANGED <<sub, stored>>
        /\ trig' = [trig EXCEPT ![x] = IF fan[f].ok THEN CompletedTrigger(r) ELSE FailedTrigger(r)]
    BY <1>7 DEF WriteTrigger
  <2>2. fan[f].todo # <<>> /\ r # NoRow /\ fan[f].todo \in Seq(Wants)
    BY <2>1 DEF FanOutFits, FanFits, FanOut
  <2>3. x \in Wants
    BY <2>2
  <2>4. r \in IntegrationTrigger
    BY <2>2, <2>3 DEF FanOutFits
  <2> HIDE DEF x, r
  <2>5. CompletedTrigger(r) \in IntegrationTrigger
    <3>1. [r EXCEPT !.state = "completed", !.run = TRUE] \in IntegrationTrigger
      BY <2>4 DEF IntegrationTrigger, IntegrationTriggerStates
    <3> QED
      BY <3>1, <2>4 DEF CompletedTrigger
  <2>6. FailedTrigger(r) \in IntegrationTrigger
    <3> DEFINE a == r.attempts + 1
    <3>1. a \in Nat
      BY <2>4 DEF IntegrationTrigger
    <3>2. FailedTrigger(r) = [r EXCEPT !.state = "failed_retriable", !.attempts = a]
      BY DEF FailedTrigger
    <3> HIDE DEF a
    <3> QED
      BY <3>1, <3>2, <2>4 DEF IntegrationTrigger, IntegrationTriggerStates
  <2>7. /\ trig' \in [Wants -> IntegrationTrigger \cup {NoRow}]
        /\ trig'[x] # NoRow /\ \A y \in Wants \ {x} : trig'[y] = trig[y]
    BY <2>1, <2>3, <2>5, <2>6, IntakeRowAbsent DEF FanOutFits
  <2>8. \A y \in Wants : trig[y] # NoRow => trig'[y] # NoRow
    BY <2>7
  <2>9. trig'[Head(fan[f].todo)] # NoRow
    BY <2>7 DEF x
  <2> QED
    BY <2>1, <2>2, <2>7, <2>8, <2>9, NextTriggerFits
<1>8. ASSUME NEW f \in FanOuts, MarkEventProcessed(f) PROVE FanOutFits'
  <2> DEFINE e == fan[f].event
  <2>1. /\ fan[f].pc = "next" /\ fan[f].todo = <<>> /\ stored' = [stored EXCEPT ![e] = "processed"]
        /\ fan' = [fan EXCEPT ![f] = IdleFan] /\ UNCHANGED <<sub, trig>>
    BY <1>8 DEF MarkEventProcessed, Served
  <2>2. /\ fan' \in [FanOuts -> FanOut] /\ FanFits(f)' /\ \A h \in FanOuts \ {f} : fan'[h] = fan[h]
    BY <2>1, IdleFits
  <2>3. \A x : ~Lists(fan[f].todo, x)
    BY <2>1 DEF Lists
  <2>4. FanFits(f) /\ e \in Inbound
    BY <2>1 DEF FanOutFits, FanFits
  <2>5. \A x \in Interested : x[2] = e /\ sub[x[1]] = NewSubscription => trig[x] # NoRow
    BY <2>1, <2>3, <2>4 DEF FanFits
  <2>6. stored' \in [Inbound -> {"absent", "stored", "processed"}]
        /\ \A d \in Inbound : d # e => stored'[d] = stored[d]
    BY <2>1, <2>4 DEF FanOutFits
  <2>7. \A x \in Interested : x[2] \in Inbound
    BY IntakeAssumption
  <2>8. ProcessedIsTriggered'
    BY <2>1, <2>5, <2>6, <2>7 DEF FanOutFits, ProcessedIsTriggered
  <2>9. OnlyGrows
    BY <2>1 DEF OnlyGrows
  <2>10. \A h \in FanOuts : FanFits(h)'
    BY <2>2, <2>9, FanKept
  <2> QED
    BY <2>1, <2>2, <2>6, <2>8, <2>10 DEF FanOutFits
<1>9. ASSUME NEW f \in FanOuts, FanOutCrash(f) PROVE FanOutFits'
  <2>1. fan' = [fan EXCEPT ![f] = IdleFan] /\ UNCHANGED <<sub, stored, trig>>
    BY <1>9 DEF FanOutCrash
  <2> QED
    BY <2>1, IdleFits, CallSteps DEF FanOutFits
<1> QED
  BY <1>1, <1>2, <1>3, <1>4, <1>5, <1>6, <1>7, <1>8, <1>9 DEF FanOutNext

(* Steps of the gateway leave the fan-out as it is.                        *)
LEMMA FanOutStands ==
  ASSUME FanOutFits, UNCHANGED <<sub, stored, trig, fan>>
  PROVE  FanOutFits'
<1>1. OnlyGrows
  BY DEF OnlyGrows
<1> QED
  BY <1>1, FanKept, TriggeredKept DEF FanOutFits

(* Every step keeps the invariant.                                         *)
LEMMA IntakeSteps ==
  ASSUME IntakeInv, [IntakeNext]_intakeVars
  PROVE  IntakeInv'
<1>1. CASE GatewayNext
  <2>1. UNCHANGED <<sub, stored, trig, fan>>
    BY <1>1 DEF GatewayNext, Deliver, Refuse, Verify, RecordEvent, MarkEnqueued, IngestCrash, Transition
  <2> QED
    BY <1>1, <2>1, GatewayStep, FanOutStands DEF IntakeInv
<1>2. CASE FanOutNext
  <2>1. UNCHANGED <<hook, ingest, answer>>
    BY <1>2 DEF FanOutNext, SetSubscriptionState, PersistEvent, DrivePending, RecordTrigger, WriteTrigger,
                MarkEventProcessed, FanOutCrash, FanOutEvent, SinkAnswers
  <2> QED
    BY <1>2, <2>1, FanOutStep, GatewayStands DEF IntakeInv
<1>3. CASE UNCHANGED intakeVars
  BY <1>3, FanOutStands, GatewayStands DEF IntakeInv, intakeVars
<1> QED
  BY <1>1, <1>2, <1>3 DEF IntakeNext

(* In every behaviour of intake the invariant holds (gateway.ts ingest,    *)
(* fanout.ts processEvent, retry).                                         *)
THEOREM IntakeKept == IntakeSpec => []IntakeInv
<1>1. IntakeInit => IntakeInv
  BY IntakeStarts
<1>2. IntakeInv /\ [IntakeNext]_intakeVars => IntakeInv'
  BY IntakeSteps
<1> QED
  BY <1>1, <1>2, PTL DEF IntakeSpec

(* The calls that go on to enqueue an event are one at most.               *)
LEMMA OneEnqueues ==
  ASSUME GatewayFits
  PROVE  EnqueuedByOne
<1> SUFFICES ASSUME NEW e \in Inbound
             PROVE  Cardinality({g \in Ingests : ingest[g].pc = "enqueue" /\ ingest[g].event = e}) <=
                      IF hook[e] = NoRow \/ hook[e].enqueued THEN 0 ELSE 1
  BY DEF EnqueuedByOne, GatewayFits, AnswersFit
<1> DEFINE E == {g \in Ingests : ingest[g].pc = "enqueue" /\ ingest[g].event = e}
<1>1. CASE E = {}
  <2>1. Cardinality(E) = 0
    BY <1>1, FS_EmptySet
  <2> QED
    BY <2>1
<1>2. CASE E # {}
  <2>1. PICK g \in E : TRUE
    BY <1>2
  <2>2. \A h \in E : h = g
    BY <2>1 DEF GatewayFits, IngestFits
  <2>3. E = {g}
    BY <2>1, <2>2
  <2>4. Cardinality(E) = 1
    BY <2>3, FS_Singleton
  <2>5. ~(hook[e] = NoRow \/ hook[e].enqueued)
    BY <2>1 DEF GatewayFits, IngestFits
  <2> QED
    BY <2>4, <2>5
<1> QED
  BY <1>1, <1>2

(* A step leaves a failed trigger uncompleted, whatever a late fan-out     *)
(* writes.                                                                 *)
LEMMA FailureStands ==
  ASSUME IntakeInv, [IntakeNext]_intakeVars, NEW x \in Wants,
         trig[x] # NoRow, trig[x].state = "failed_retriable"
  PROVE  trig'[x].state = "failed_retriable" /\ trig'[x].run = trig[x].run
<1>1. trig[x] \in IntegrationTrigger
  BY DEF IntakeInv, FanOutFits
<1>2. ASSUME NEW f \in FanOuts, RecordTrigger(f) PROVE trig'[x] = trig[x]
  <2>1. trig' = trig \/ (trig[Head(fan[f].todo)] = NoRow
          /\ trig' = [trig EXCEPT ![Head(fan[f].todo)] = [state |-> "pending", attempts |-> 0, run |-> FALSE]])
    BY <1>2 DEF RecordTrigger
  <2> QED
    BY <2>1 DEF IntakeInv, FanOutFits
<1>3. ASSUME NEW f \in FanOuts, WriteTrigger(f)
      PROVE  trig'[x].state = "failed_retriable" /\ trig'[x].run = trig[x].run
  <2> DEFINE y == Head(fan[f].todo)
  <2>1. trig' = [trig EXCEPT ![y] = IF fan[f].ok THEN CompletedTrigger(trig[y]) ELSE FailedTrigger(trig[y])]
    BY <1>3 DEF WriteTrigger
  <2> HIDE DEF y
  <2>2. trig'[x] = trig[x] \/ trig'[x] = CompletedTrigger(trig[x]) \/ trig'[x] = FailedTrigger(trig[x])
    BY <2>1 DEF IntakeInv, FanOutFits
  <2>3. CompletedTrigger(trig[x]) = trig[x]
    BY DEF CompletedTrigger
  <2>4. FailedTrigger(trig[x]).state = "failed_retriable" /\ FailedTrigger(trig[x]).run = trig[x].run
    BY <1>1 DEF FailedTrigger, IntegrationTrigger
  <2> QED
    BY <2>2, <2>3, <2>4
<1>4. CASE UNCHANGED trig
  BY <1>4
<1> QED
  BY <1>2, <1>3, <1>4
     DEF IntakeNext, GatewayNext, FanOutNext, intakeVars, Deliver, Refuse, Verify, RecordEvent, MarkEnqueued,
         IngestCrash, Transition, SetSubscriptionState, PersistEvent, DrivePending, MarkEventProcessed,
         FanOutCrash, FanOutEvent, SinkAnswers

(* A trigger that has failed is never marked completed by a call that read *)
(* it before (fanout.ts, store.ts markCompleted).                          *)
THEOREM FailuresStand == IntakeSpec => FailedNotCompleted
<1>1. IntakeInv /\ [IntakeNext]_intakeVars =>
        [\A x \in Subscriptions \X Inbound :
           trig[x] # NoRow /\ trig[x].state = "failed_retriable" =>
             trig'[x].state = "failed_retriable" /\ trig'[x].run = trig[x].run]_intakeVars
  BY FailureStands DEF Wants
<1> QED
  BY <1>1, IntakeKept, PTL DEF IntakeSpec, FailedNotCompleted

-----------------------------------------------------------------------------
(***************************************************************************)
(* Dispatches of triggers.                                                 *)
(*                                                                         *)
(* The cap is compared with a listing that may be old and each drive       *)
(* charges up to twice, so the bound is over what calls can still charge.  *)
(* Twice and Once say it per call; Budget sums them: attempts charged,     *)
(* plus what is in hand, stay within the cap and two per call. A claim     *)
(* needs the lease free, lapsed or under its own name and takes a new      *)
(* generation, so a live lease of the generation a call took bears the     *)
(* name of the call (InsideFits). A run is made by a process that has no   *)
(* key for the dispatch, and gives it one; only a crash takes keys away.   *)
(***************************************************************************)
(* The pairs a dispatch is for, and what a call remembers.                 *)
Pairs == Events \X Triggers
Readings == UNION {[D -> Dispatch] : D \in SUBSET Pairs}
CallRow == [pc : {"idle", "reserve", "claim", "drive", "sink", "record"}, redrive : BOOLEAN,
         owner : PassNames \cup {NoDispatch},
         todo : Seq(Pairs), seen : Readings \cup {NoDispatch}, gen : Nat,
         result : {"none", "run", "rejection", "error"}]

(* What is left of the bounds.                                             *)
Bounds == [arrivals : Nat, faults : 0..MaxDispatchFaults]

(* A call inside a dispatch has its row, and holds it if the lease that is *)
(* live is of the generation it took: the row bears the name of its pass.  *)
InsideFits(c) ==
  LET q == call[c]
      r == dispatch[Head(q.todo)]
  IN /\ r # NoDispatch
     /\ q.gen <= r.generation
     /\ r.lease = "live" /\ r.generation = q.gen => r.owner = q.owner

(* What a call remembers fits the rows: it lists each dispatch once; a     *)
(* redrive lists rows that were there and undecided.                       *)
CallFits(c) ==
  LET q == call[c]
  IN /\ q.pc # "idle" => q.todo # <<>>
     /\ \A m, n \in 1..Len(q.todo) : q.todo[m] = q.todo[n] => m = n
     /\ q.redrive => \A n \in 1..Len(q.todo) :
          /\ dispatch[q.todo[n]] # NoDispatch
          /\ q.seen[q.todo[n]].state \notin TERMINAL_DISPATCH_STATES
     /\ q.pc = "claim" => q.redrive
     /\ q.pc = "reserve" => ~q.redrive /\ q.gen = 0
     /\ q.pc = "drive" => q.seen[Head(q.todo)].state \notin TERMINAL_DISPATCH_STATES
     /\ q.pc \in {"drive", "sink", "record"} => InsideFits(c)
     /\ q.pc = "record" => q.result \in {"run", "rejection", "error"}

(* What a call can still charge to a dispatch: two attempts, or one.       *)
Twice(q, d) ==
  \/ q.pc # "idle" /\ q.redrive /\ ~Spent(q.seen[d]) /\ \E n \in 2..Len(q.todo) : q.todo[n] = d
  \/ q.pc = "claim" /\ Head(q.todo) = d /\ ~Spent(q.seen[d])
  \/ q.pc = "drive" /\ Head(q.todo) = d
(* One attempt, or two.                                                    *)
Once(q, d) == Twice(q, d) \/ (q.pc \in {"sink", "record"} /\ Head(q.todo) = d)

(* What a dispatch has been charged, and may still be, is within the cap   *)
(* and two for every call in flight.                                       *)
Budget(d) ==
  dispatch[d] # NoDispatch =>
    dispatch[d].attempts + Cardinality({c \in Dispatchers : Once(call[c], d)})
                         + Cardinality({c \in Dispatchers : Twice(call[c], d)})
      <= MaxDispatchAttempts - 1 + 2 * Cardinality(Dispatchers)

(* The inductive invariant of dispatching.                                 *)
DispatchInv ==
  /\ trigger \in [Triggers -> TriggerDefinition]
  /\ dispatch \in [Pairs -> Dispatch \cup {NoDispatch}]
  /\ call \in [Dispatchers -> CallRow]
  /\ keys \in [Dispatchers -> [Pairs -> Nat]]
  /\ made \in [Pairs -> Nat]
  /\ left \in Bounds
  /\ \A c \in Dispatchers : CallFits(c)
  /\ \A d \in Pairs : Budget(d)
  /\ RunPerProcessLife

-----------------------------------------------------------------------------
(* What a write that is no claim does to a row, with at most k attempts.   *)
Writes(r, s, k) ==
  /\ s \in Dispatch
  /\ s.attempts <= r.attempts + k
  /\ s.generation = r.generation
  /\ s.lease = "live" => r.lease = "live" /\ s.owner = r.owner
  /\ r.state \in {"run_created", "rejected"} => s.state = r.state /\ s.run = r.run

(* Writing what is there is a write.                                       *)
LEMMA SameWrite ==
  ASSUME NEW r \in Dispatch, NEW k \in {0, 1}
  PROVE  Writes(r, r, k)
  BY DEF Writes, Dispatch

(* Releasing the lease is a write that charges nothing.                    *)
LEMMA ReleasedWrites ==
  ASSUME NEW r \in Dispatch
  PROVE  /\ Writes(r, Released(r), 0) /\ Released(r).state = r.state /\ Released(r).lease = "none"
         /\ Released(r).run = r.run /\ Released(r).attempts = r.attempts
<1> DEFINE s == Released(r)
<1>1. s \in Dispatch
  BY DEF Released, Dispatch
<1>2. /\ s.state = r.state /\ s.run = r.run /\ s.attempts = r.attempts
      /\ s.generation = r.generation /\ s.lease = "none"
  BY DEF Released, Dispatch
<1>3. r.attempts \in Nat
  BY DEF Dispatch
<1> HIDE DEF s
<1>4. s.attempts <= r.attempts + 0
  BY <1>2, <1>3
<1>5. Writes(r, s, 0)
  BY <1>1, <1>2, <1>4 DEF Writes
<1> QED
  BY <1>2, <1>5 DEF s

(* So is a rejection.                                                      *)
LEMMA MarkRejectedWrites ==
  ASSUME NEW r \in Dispatch
  PROVE  Writes(r, MarkRejected(r), 0)
<1>1. CASE r.state \in TERMINAL_DISPATCH_STATES
  BY <1>1, SameWrite DEF MarkRejected
<1>2. CASE r.state \notin TERMINAL_DISPATCH_STATES
  <2> DEFINE s == Released(r)
  <2>1. s \in Dispatch /\ Writes(r, s, 0) /\ MarkRejected(r) = [s EXCEPT !.state = "rejected"]
    BY <1>2, ReleasedWrites DEF MarkRejected, Writes
  <2> HIDE DEF s
  <2> QED
    BY <2>1, <1>2 DEF Writes, Dispatch, DispatchStates, TERMINAL_DISPATCH_STATES
<1> QED
  BY <1>1, <1>2

(* A failed drive charges an attempt.                                      *)
LEMMA MarkRetryableWrites ==
  ASSUME NEW r \in Dispatch
  PROVE  Writes(r, MarkRetryable(r), 1)
<1>1. CASE r.state \in TERMINAL_DISPATCH_STATES
  BY <1>1, SameWrite DEF MarkRetryable
<1>2. CASE r.state \notin TERMINAL_DISPATCH_STATES
  <2> DEFINE a == r.attempts + 1
  <2>1. a \in Nat /\ a = r.attempts + 1
    BY DEF Dispatch
  <2>2. MarkRetryable(r) = [r EXCEPT !.state = "retryable_failure", !.attempts = a]
    BY <1>2 DEF MarkRetryable
  <2> HIDE DEF a
  <2> DEFINE s == [r EXCEPT !.state = "retryable_failure", !.attempts = a]
  <2>3. s \in Dispatch
    BY <2>1 DEF Dispatch, DispatchStates
  <2>4. s.attempts = a /\ s.generation = r.generation /\ s.lease = r.lease /\ s.owner = r.owner
    BY DEF Dispatch
  <2>5. r.state \notin {"run_created", "rejected"}
    BY <1>2 DEF TERMINAL_DISPATCH_STATES
  <2> HIDE DEF s
  <2>6. s.attempts <= r.attempts + 1
    BY <2>1, <2>4
  <2>7. Writes(r, s, 1)
    BY <2>3, <2>4, <2>5, <2>6 DEF Writes
  <2> QED
    BY <2>2, <2>7 DEF s
<1> QED
  BY <1>1, <1>2

(* So does the transition into dispatching.                                *)
LEMMA TransitionWrites ==
  ASSUME NEW r \in Dispatch, NEW from, from \notin TERMINAL_DISPATCH_STATES
  PROVE  Writes(r, TransitionDispatch(r, from), 1)
<1>1. CASE r.state # from
  BY <1>1, SameWrite DEF TransitionDispatch
<1>2. CASE r.state = from
  <2> DEFINE a == r.attempts + 1
  <2>1. a \in Nat /\ a = r.attempts + 1
    BY DEF Dispatch
  <2>2. TransitionDispatch(r, from) = [r EXCEPT !.state = "dispatching", !.attempts = a]
    BY <1>2 DEF TransitionDispatch
  <2> HIDE DEF a
  <2> DEFINE s == [r EXCEPT !.state = "dispatching", !.attempts = a]
  <2>3. s \in Dispatch
    BY <2>1 DEF Dispatch, DispatchStates
  <2>4. s.attempts = a /\ s.generation = r.generation /\ s.lease = r.lease /\ s.owner = r.owner
    BY DEF Dispatch
  <2>5. r.state \notin {"run_created", "rejected"}
    BY <1>2 DEF TERMINAL_DISPATCH_STATES
  <2> HIDE DEF s
  <2>6. s.attempts <= r.attempts + 1
    BY <2>1, <2>4
  <2>7. Writes(r, s, 1)
    BY <2>3, <2>4, <2>5, <2>6 DEF Writes
  <2> QED
    BY <2>2, <2>7 DEF s
<1> QED
  BY <1>1, <1>2

(* Recording the run charges nothing.                                      *)
LEMMA MarkRunCreatedWrites ==
  ASSUME NEW r \in Dispatch, NEW run \in Nat
  PROVE  Writes(r, MarkRunCreated(r, run), 0)
<1>1. CASE r.state \notin {"dispatching", "matched"}
  BY <1>1, SameWrite DEF MarkRunCreated
<1>2. CASE r.state \in {"dispatching", "matched"}
  <2> DEFINE s == Released(r)
  <2>1. s \in Dispatch /\ Writes(r, s, 0) /\ MarkRunCreated(r, run) = [s EXCEPT !.state = "run_created", !.run = run]
    BY <1>2, ReleasedWrites DEF MarkRunCreated, Writes
  <2> HIDE DEF s
  <2> QED
    BY <2>1, <1>2 DEF Writes, Dispatch, DispatchStates
<1> QED
  BY <1>1, <1>2

(* Releasing the lease after another write is one write.                   *)
LEMMA ReleaseAfter ==
  ASSUME NEW c \in Dispatchers, NEW r \in Dispatch, NEW s, NEW k \in {0, 1}, Writes(r, s, k)
  PROVE  Writes(r, ReleaseRedriveLease(c, s), k)
<1>1. s \in Dispatch
  BY DEF Writes
<1>2. Writes(s, Released(s), 0)
  BY <1>1, ReleasedWrites
<1>3. s.attempts \in Nat /\ r.attempts \in Nat /\ Released(s).attempts \in Nat
  BY <1>1, <1>2 DEF Writes, Dispatch
<1>4. Writes(r, Released(s), k)
  BY <1>2, <1>3 DEF Writes
<1> QED
  BY <1>4 DEF ReleaseRedriveLease

-----------------------------------------------------------------------------
(* The calls.                                                              *)

(* Listing a finite set yields a sequence of its members, each once.       *)
LEMMA ListOfSet ==
  ASSUME NEW S, IsFiniteSet(S)
  PROVE  /\ SetToSeq(S) \in Seq(S)
         /\ \A m, n \in 1..Len(SetToSeq(S)) : SetToSeq(S)[m] = SetToSeq(S)[n] => m = n
<1>1. Cardinality(S) \in Nat /\ ExistsBijection(1..Cardinality(S), S)
  BY FS_CardinalityType
<1>2. \E g \in [1..Cardinality(S) -> S] : IsInjective(g)
  BY <1>1 DEF ExistsBijection, Bijection, Injection
<1>3. SetToSeq(S) \in [1..Cardinality(S) -> S] /\ IsInjective(SetToSeq(S))
  BY <1>2 DEF SetToSeq
<1> QED
  BY <1>1, <1>3 DEF IsInjective

(* The rest of a sequence of pairs.                                        *)
LEMMA RestOfList ==
  ASSUME NEW s \in Seq(Pairs), s # <<>>
  PROVE  /\ Tail(s) \in Seq(Pairs) /\ Head(s) \in Pairs /\ Head(s) = s[1]
         /\ Len(s) \in Nat /\ Len(s) > 0 /\ Len(Tail(s)) = Len(s) - 1
         /\ \A n \in 1..Len(Tail(s)) : Tail(s)[n] = s[n + 1]
         /\ \A n \in 1..Len(s) : s[n] \in Pairs
  OBVIOUS

(* A call that is idle.                                                    *)
LEMMA IdleCalls ==
  IdleCall \in CallRow /\ IdleCall.pc = "idle" /\ IdleCall.todo = <<>> /\ IdleCall.gen = 0
  /\ IdleCall.result = "none" /\ IdleCall.redrive = FALSE
<1>1. <<>> \in Seq(Pairs) /\ FALSE \in BOOLEAN /\ 0 \in Nat
  OBVIOUS
<1>2. "idle" \in {"idle", "reserve", "claim", "drive", "sink", "record"}
      /\ "none" \in {"none", "run", "rejection", "error"} /\ NoDispatch \in Readings \cup {NoDispatch}
      /\ NoDispatch \in PassNames \cup {NoDispatch}
  OBVIOUS
<1>3. IdleCall \in CallRow
  BY <1>1, <1>2, Zenon DEF CallRow, IdleCall
<1> QED
  BY <1>3 DEF IdleCall

(* The call after a dispatch: the rest of what it listed.                  *)
LEMMA NextCall ==
  ASSUME NEW q \in CallRow, q.todo # <<>>
  PROVE  /\ NextDispatch(q) \in CallRow
         /\ \/ NextDispatch(q) = IdleCall
            \/ /\ Tail(q.todo) # <<>>
               /\ NextDispatch(q).pc = (IF q.redrive THEN "claim" ELSE "reserve")
               /\ NextDispatch(q).redrive = q.redrive
               /\ NextDispatch(q).todo = Tail(q.todo)
               /\ NextDispatch(q).seen = q.seen /\ NextDispatch(q).gen = 0
               /\ NextDispatch(q).result = "none"
<1>1. CASE Len(q.todo) = 1
  BY <1>1, IdleCalls DEF NextDispatch
<1>2. CASE Len(q.todo) # 1
  <2> DEFINE t == Tail(q.todo)
             pc == IF q.redrive THEN "claim" ELSE "reserve"
  <2>1. t \in Seq(Pairs) /\ Len(t) # 0
    <3>1. q.todo \in Seq(Pairs)
      BY DEF CallRow
    <3> QED
      BY <3>1, <1>2, RestOfList
  <2>2. t # <<>>
    <3> HIDE DEF t
    <3> QED
      BY <2>1
  <2>3. NextDispatch(q) = [q EXCEPT !.pc = pc, !.todo = t, !.gen = 0, !.result = "none"]
    BY <1>2 DEF NextDispatch
  <2>4. pc \in {"idle", "reserve", "claim", "drive", "sink", "record"}
    OBVIOUS
  <2> HIDE DEF t, pc
  <2>5. NextDispatch(q) \in CallRow
    <3> DEFINE u == [q EXCEPT !.pc = pc, !.todo = t]
    <3>1. u \in CallRow
      BY <2>1, <2>4 DEF CallRow
    <3>2. NextDispatch(q) = [u EXCEPT !.gen = 0, !.result = "none"]
      BY <2>3
    <3> HIDE DEF u
    <3> DEFINE w == [u EXCEPT !.gen = 0]
    <3>3. w \in CallRow
      BY <3>1 DEF CallRow
    <3>4. NextDispatch(q) = [w EXCEPT !.result = "none"]
      BY <3>2
    <3> HIDE DEF w
    <3> QED
      BY <3>3, <3>4 DEF CallRow
  <2>6. NextDispatch(q).pc = pc /\ NextDispatch(q).redrive = q.redrive /\ NextDispatch(q).todo = t
        /\ NextDispatch(q).seen = q.seen /\ NextDispatch(q).gen = 0 /\ NextDispatch(q).result = "none"
    BY <2>3 DEF CallRow
  <2> QED
    BY <2>2, <2>5, <2>6 DEF t, pc
<1> QED
  BY <1>1, <1>2

(* It charges nothing for the dispatch that is over, and no more for the   *)
(* others.                                                                 *)
LEMMA NextCharges ==
  ASSUME NEW q \in CallRow, q.pc # "idle", q.todo # <<>>, q.pc = "reserve" => ~q.redrive,
         \A m, n \in 1..Len(q.todo) : q.todo[m] = q.todo[n] => m = n
  PROVE  /\ \A d \in Pairs : Twice(NextDispatch(q), d) => Twice(q, d)
         /\ \A d \in Pairs : Once(NextDispatch(q), d) => Once(q, d)
         /\ ~Once(NextDispatch(q), Head(q.todo))
<1> DEFINE p == NextDispatch(q)
           t == Tail(q.todo)
<1>1. CASE p = IdleCall
  BY <1>1, IdleCalls DEF Once, Twice
<1>2. CASE p # IdleCall
  <2>1. /\ t # <<>> /\ p.pc = (IF q.redrive THEN "claim" ELSE "reserve")
        /\ p.redrive = q.redrive /\ p.todo = t /\ p.seen = q.seen
    BY <1>2, NextCall
  <2>2. q.todo \in Seq(Pairs)
    BY DEF CallRow
  <2>3. /\ t \in Seq(Pairs) /\ Head(q.todo) = q.todo[1] /\ Len(q.todo) \in Nat
        /\ Len(q.todo) > 0 /\ Len(t) = Len(q.todo) - 1
        /\ \A n \in 1..Len(t) : t[n] = q.todo[n + 1]
    BY <2>2, RestOfList
  <2> HIDE DEF t, p
  <2>4. Head(t) = t[1] /\ Len(t) > 0 /\ Len(t) \in Nat
    BY <2>1, <2>3
  <2>5. ASSUME NEW d \in Pairs, Twice(p, d)
        PROVE  q.redrive /\ ~Spent(q.seen[d]) /\ \E n \in 2..Len(q.todo) : q.todo[n] = d
    <3>1. q.redrive /\ ~Spent(q.seen[d])
      BY <2>1, <2>5 DEF Twice
    <3>2. \E n \in 1..Len(t) : t[n] = d
      <4>1. (\E n \in 2..Len(t) : t[n] = d) \/ Head(t) = d
        BY <2>1, <2>5 DEF Twice
      <4> QED
        BY <4>1, <2>4
    <3>3. PICK n \in 1..Len(t) : t[n] = d
      BY <3>2
    <3>4. n + 1 \in 2..Len(q.todo) /\ q.todo[n + 1] = d
      BY <3>3, <2>3
    <3> QED
      BY <3>1, <3>4
  <2>6. \A d \in Pairs : Once(p, d) => Twice(p, d)
    BY <2>1 DEF Once
  <2>7. \A d \in Pairs : Twice(p, d) => Twice(q, d)
    BY <2>5 DEF Twice
  <2>8. ~Once(p, Head(q.todo))
    <3>1. Head(q.todo) \in Pairs
      BY <2>2, RestOfList
    <3>2. ~(\E n \in 2..Len(q.todo) : q.todo[n] = Head(q.todo))
      BY <2>3
    <3> QED
      BY <2>5, <2>6, <3>1, <3>2
  <2> QED
    BY <2>6, <2>7, <2>8 DEF Once, p
<1> QED
  BY <1>1, <1>2

-----------------------------------------------------------------------------
(* A pass that goes by the name the row bears is at the claim of it.       *)
ClaimedByName(d) ==
  \E h \in Dispatchers : /\ call[h].pc = "claim" /\ call[h].owner = dispatch[d].owner
                         /\ Head(call[h].todo) = d

(* The rows stand, for a call that is inside one of them.                  *)
RowsKeep ==
  \A d \in Pairs : dispatch[d] # NoDispatch =>
    /\ dispatch'[d] # NoDispatch
    /\ \/ /\ dispatch'[d].generation = dispatch[d].generation
          /\ dispatch'[d].lease = "live" => dispatch[d].lease = "live" /\ dispatch'[d].owner = dispatch[d].owner
       \/ /\ dispatch'[d].generation > dispatch[d].generation
          /\ dispatch[d].lease = "live" => ClaimedByName(d)
    /\ dispatch[d].state \in {"run_created", "rejected"} =>
         dispatch'[d].state = dispatch[d].state /\ dispatch'[d].run = dispatch[d].run

(* A call of a reachable state, its list and its position.                 *)
LEMMA CallTyped ==
  ASSUME DispatchInv, NEW c \in Dispatchers
  PROVE  /\ call[c] \in CallRow /\ CallFits(c) /\ call[c].todo \in Seq(Pairs) /\ call[c].gen \in Nat
         /\ call[c].todo # <<>> => Head(call[c].todo) \in Pairs /\ Head(call[c].todo) = call[c].todo[1]
                                   /\ 1 \in 1..Len(call[c].todo)
         /\ \A n \in 1..Len(call[c].todo) : call[c].todo[n] \in Pairs
<1>1. call[c] \in CallRow /\ CallFits(c)
  BY DEF DispatchInv
<1>2. call[c].todo \in Seq(Pairs) /\ call[c].gen \in Nat
  BY <1>1 DEF CallRow
<1> QED
  BY <1>1, <1>2, RestOfList

(* A row that is there has its type.                                       *)
LEMMA RowTyped ==
  ASSUME DispatchInv, NEW d \in Pairs, dispatch[d] # NoDispatch
  PROVE  /\ dispatch[d] \in Dispatch /\ dispatch[d].attempts \in Nat /\ dispatch[d].generation \in Nat
         /\ dispatch[d].run \in Nat
  BY DEF DispatchInv, Dispatch

(* The other calls still fit after the rows have moved.                    *)
LEMMA OthersFit ==
  ASSUME DispatchInv, NEW h \in Dispatchers, call'[h] = call[h],
         dispatch' \in [Pairs -> Dispatch \cup {NoDispatch}], RowsKeep
  PROVE  CallFits(h)'
<1> DEFINE q == call[h]
<1>1. /\ q \in CallRow /\ CallFits(h) /\ q.todo \in Seq(Pairs) /\ q.gen \in Nat
      /\ q.todo # <<>> => Head(q.todo) \in Pairs
      /\ \A n \in 1..Len(q.todo) : q.todo[n] \in Pairs
  BY CallTyped
<1>2. q.pc # "idle" => q.todo # <<>>
  BY <1>1 DEF CallFits
<1>3. \A m, n \in 1..Len(q.todo) : q.todo[m] = q.todo[n] => m = n
  BY <1>1 DEF CallFits
<1>4. q.redrive => \A n \in 1..Len(q.todo) :
        dispatch'[q.todo[n]] # NoDispatch /\ q.seen[q.todo[n]].state \notin TERMINAL_DISPATCH_STATES
  <2>1. q.redrive => \A n \in 1..Len(q.todo) :
          dispatch[q.todo[n]] # NoDispatch /\ q.seen[q.todo[n]].state \notin TERMINAL_DISPATCH_STATES
    BY <1>1 DEF CallFits
  <2> QED
    BY <1>1, <2>1 DEF RowsKeep
<1>5. /\ q.pc = "claim" => q.redrive
      /\ q.pc = "reserve" => ~q.redrive /\ q.gen = 0
      /\ q.pc = "drive" => q.seen[Head(q.todo)].state \notin TERMINAL_DISPATCH_STATES
      /\ q.pc = "record" => q.result \in {"run", "rejection", "error"}
  BY <1>1 DEF CallFits
<1>6. ASSUME q.pc \in {"drive", "sink", "record"}
      PROVE  InsideFits(h)'
  <2> DEFINE d == Head(q.todo)
  <2>1. /\ d \in Pairs /\ dispatch[d] # NoDispatch /\ q.gen <= dispatch[d].generation
        /\ dispatch[d].lease = "live" /\ dispatch[d].generation = q.gen => dispatch[d].owner = q.owner
    BY <1>1, <1>2, <1>6 DEF CallFits, InsideFits
  <2>2. dispatch'[d] # NoDispatch /\ dispatch[d].generation \in Nat /\ dispatch'[d].generation \in Nat
    BY <2>1, RowTyped DEF RowsKeep, Dispatch
  <2>3. CASE /\ dispatch'[d].generation = dispatch[d].generation
             /\ dispatch'[d].lease = "live" => dispatch[d].lease = "live" /\ dispatch'[d].owner = dispatch[d].owner
    BY <2>1, <2>2, <2>3 DEF InsideFits
  <2>4. CASE dispatch'[d].generation > dispatch[d].generation
    <3>1. q.gen < dispatch'[d].generation
      BY <2>1, <2>2, <2>4, <1>1
    <3>2. q.gen <= dispatch'[d].generation /\ dispatch'[d].generation # q.gen
      BY <3>1, <2>2, <1>1
    <3> QED
      BY <2>2, <3>2 DEF InsideFits
  <2> QED
    BY <2>1, <2>3, <2>4 DEF RowsKeep
<1> HIDE DEF q
<1>7. call'[h] = q
  BY DEF q
<1> QED
  BY <1>2, <1>3, <1>4, <1>5, <1>6, <1>7 DEF CallFits

(* A set of calls that loses one of its calls, or none.                    *)
LEMMA Lose ==
  ASSUME NEW S \in SUBSET Dispatchers, NEW T \in SUBSET S
  PROVE  /\ Cardinality(S) \in Nat /\ Cardinality(T) \in Nat /\ Cardinality(T) <= Cardinality(S)
         /\ S # T => Cardinality(T) <= Cardinality(S) - 1
         /\ Cardinality(S) <= Cardinality(Dispatchers) /\ Cardinality(Dispatchers) \in Nat
<1>1. IsFiniteSet(S) /\ IsFiniteSet(T) /\ Cardinality(S) \in Nat /\ Cardinality(T) \in Nat
      /\ Cardinality(Dispatchers) \in Nat
  BY DispatchAssumption, FS_Subset, FS_CardinalityType
<1>2. Cardinality(S) <= Cardinality(Dispatchers) /\ Cardinality(T) <= Cardinality(S)
      /\ (Cardinality(S) = Cardinality(T) => S = T)
  BY <1>1, DispatchAssumption, FS_Subset
<1> QED
  BY <1>1, <1>2

(* A step of one call keeps the budget of a dispatch when what it charges  *)
(* it can no longer charge again.                                          *)
LEMMA BudgetKept ==
  ASSUME DispatchInv, NEW c \in Dispatchers, NEW d \in Pairs,
         \A h \in Dispatchers \ {c} : call'[h] = call[h],
         dispatch[d] # NoDispatch,
         dispatch'[d] \in Dispatch,
         Once(call'[c], d) => Once(call[c], d),
         Twice(call'[c], d) => Twice(call[c], d),
         \/ dispatch'[d].attempts <= dispatch[d].attempts
         \/ /\ dispatch'[d].attempts <= dispatch[d].attempts + 1
            /\ \/ Once(call[c], d) /\ ~Once(call'[c], d)
               \/ Twice(call[c], d) /\ ~Twice(call'[c], d)
  PROVE  Budget(d)'
<1> DEFINE O == {h \in Dispatchers : Once(call[h], d)}
           T == {h \in Dispatchers : Twice(call[h], d)}
           P == {h \in Dispatchers : Once(call'[h], d)}
           U == {h \in Dispatchers : Twice(call'[h], d)}
<1>1. P \subseteq O /\ U \subseteq T /\ O \subseteq Dispatchers /\ T \subseteq Dispatchers
  OBVIOUS
<1>2. Once(call[c], d) /\ ~Once(call'[c], d) => P # O
  OBVIOUS
<1>3. Twice(call[c], d) /\ ~Twice(call'[c], d) => U # T
  OBVIOUS
<1>4. dispatch[d].attempts + Cardinality(O) + Cardinality(T) <= MaxDispatchAttempts - 1 + 2 * Cardinality(Dispatchers)
  BY DEF DispatchInv, Budget
<1>5. Budget(d)' <=> (dispatch'[d] # NoDispatch =>
        dispatch'[d].attempts + Cardinality(P) + Cardinality(U) <= MaxDispatchAttempts - 1 + 2 * Cardinality(Dispatchers))
  BY DEF Budget
<1> HIDE DEF O, T, P, U
<1>6. /\ Cardinality(O) \in Nat /\ Cardinality(P) \in Nat /\ Cardinality(P) <= Cardinality(O)
      /\ (P # O => Cardinality(P) <= Cardinality(O) - 1) /\ Cardinality(Dispatchers) \in Nat
  BY <1>1, Lose
<1>7. /\ Cardinality(T) \in Nat /\ Cardinality(U) \in Nat /\ Cardinality(U) <= Cardinality(T)
      /\ (U # T => Cardinality(U) <= Cardinality(T) - 1)
  BY <1>1, Lose
<1>8. dispatch[d].attempts \in Nat /\ dispatch'[d].attempts \in Nat /\ MaxDispatchAttempts \in Nat
  BY RowTyped, DispatchAssumption DEF Dispatch
<1> DEFINE D2 == 2 * Cardinality(Dispatchers)
<1>9. D2 \in Nat
  BY <1>6
<1>10. \/ dispatch'[d].attempts <= dispatch[d].attempts
       \/ dispatch'[d].attempts <= dispatch[d].attempts + 1 /\ (P # O \/ U # T)
  BY <1>2, <1>3
<1> HIDE DEF D2
<1>11. dispatch[d].attempts + Cardinality(O) + Cardinality(T) <= MaxDispatchAttempts - 1 + D2
  BY <1>4 DEF D2
<1>12. dispatch'[d].attempts + Cardinality(P) + Cardinality(U) <= MaxDispatchAttempts - 1 + D2
  BY <1>6, <1>7, <1>8, <1>9, <1>10, <1>11
<1> QED
  BY <1>5, <1>12 DEF D2

(* A dispatch below the cap is within its budget whatever calls there are. *)
LEMMA BudgetFresh ==
  ASSUME NEW d \in Pairs, dispatch'[d] # NoDispatch =>
           dispatch'[d].attempts \in Nat /\ dispatch'[d].attempts <= MaxDispatchAttempts - 1
  PROVE  Budget(d)'
<1> DEFINE P == {h \in Dispatchers : Once(call'[h], d)}
           U == {h \in Dispatchers : Twice(call'[h], d)}
           D2 == 2 * Cardinality(Dispatchers)
<1>1. P \subseteq Dispatchers /\ U \subseteq Dispatchers
  OBVIOUS
<1>2. Budget(d)' <=> (dispatch'[d] # NoDispatch =>
        dispatch'[d].attempts + Cardinality(P) + Cardinality(U) <= MaxDispatchAttempts - 1 + D2)
  BY DEF Budget
<1> HIDE DEF P, U
<1>3. /\ Cardinality(P) \in Nat /\ Cardinality(U) \in Nat /\ Cardinality(Dispatchers) \in Nat
      /\ Cardinality(P) <= Cardinality(Dispatchers) /\ Cardinality(U) <= Cardinality(Dispatchers)
  BY <1>1, Lose
<1>4. Cardinality(P) + Cardinality(U) <= D2
  BY <1>3
<1>5. D2 \in Nat /\ MaxDispatchAttempts \in Nat
  BY <1>3, DispatchAssumption
<1> HIDE DEF D2
<1> QED
  BY <1>2, <1>3, <1>4, <1>5


(* The budget of a dispatch after a step of one call.                      *)
Afforded(c, d) ==
  dispatch'[d] # NoDispatch =>
    \/ dispatch'[d].attempts <= MaxDispatchAttempts - 1
    \/ /\ dispatch[d] # NoDispatch
       /\ Once(call'[c], d) => Once(call[c], d)
       /\ Twice(call'[c], d) => Twice(call[c], d)
       /\ \/ dispatch'[d].attempts <= dispatch[d].attempts
          \/ /\ dispatch'[d].attempts <= dispatch[d].attempts + 1
             /\ \/ Once(call[c], d) /\ ~Once(call'[c], d)
                \/ Twice(call[c], d) /\ ~Twice(call'[c], d)

(* Runs per process life, when no run is made and no process dies.         *)
LEMMA LifeStands ==
  ASSUME DispatchInv, UNCHANGED <<keys, made>>, left'.faults \in 0..left.faults
  PROVE  RunPerProcessLife'
<1> SUFFICES ASSUME NEW d \in Pairs
             PROVE  made[d] <= Cardinality({c \in Dispatchers : keys[c][d] # 0}) + (MaxDispatchFaults - left'.faults)
  BY DEF RunPerProcessLife, Pairs
<1> DEFINE K == {c \in Dispatchers : keys[c][d] # 0}
<1>1. made[d] <= Cardinality(K) + (MaxDispatchFaults - left.faults)
  BY DEF DispatchInv, RunPerProcessLife, Pairs
<1>2. K \in SUBSET Dispatchers
  OBVIOUS
<1> HIDE DEF K
<1>3. Cardinality(K) \in Nat
  BY <1>2, Lose
<1>4. left.faults \in Nat /\ left'.faults \in Nat /\ left'.faults <= left.faults /\ made[d] \in Nat
      /\ MaxDispatchFaults \in Nat
  BY DispatchAssumption DEF DispatchInv, Bounds
<1>5. made[d] <= Cardinality(K) + (MaxDispatchFaults - left'.faults)
  BY <1>1, <1>3, <1>4
<1> QED
  BY <1>5 DEF K

(* A step of one call.                                                     *)
LEMMA CallMove ==
  ASSUME DispatchInv, NEW c \in Dispatchers,
         call' \in [Dispatchers -> CallRow], \A h \in Dispatchers \ {c} : call'[h] = call[h],
         CallFits(c)',
         dispatch' \in [Pairs -> Dispatch \cup {NoDispatch}], RowsKeep,
         \A d \in Pairs : Afforded(c, d),
         UNCHANGED trigger, left' \in Bounds, keys' \in [Dispatchers -> [Pairs -> Nat]],
         made' \in [Pairs -> Nat], RunPerProcessLife'
  PROVE  DispatchInv'
<1>1. \A h \in Dispatchers : CallFits(h)'
  <2> SUFFICES ASSUME NEW h \in Dispatchers PROVE CallFits(h)'
    OBVIOUS
  <2>1. CASE h = c
    BY <2>1
  <2>2. CASE h # c
    BY <2>2, OthersFit
  <2> QED
    BY <2>1, <2>2
<1>2. ASSUME NEW d \in Pairs PROVE Budget(d)'
  <2>1. CASE dispatch'[d] = NoDispatch
    BY <2>1 DEF Budget
  <2>2. CASE dispatch'[d] # NoDispatch
    <3>1. dispatch'[d] \in Dispatch /\ dispatch'[d].attempts \in Nat
      BY <2>2 DEF Dispatch
    <3>2. CASE dispatch'[d].attempts <= MaxDispatchAttempts - 1
      BY <3>1, <3>2, BudgetFresh
    <3>3. CASE ~(dispatch'[d].attempts <= MaxDispatchAttempts - 1)
      <4>1. /\ dispatch[d] # NoDispatch
            /\ Once(call'[c], d) => Once(call[c], d)
            /\ Twice(call'[c], d) => Twice(call[c], d)
            /\ \/ dispatch'[d].attempts <= dispatch[d].attempts
               \/ /\ dispatch'[d].attempts <= dispatch[d].attempts + 1
                  /\ \/ Once(call[c], d) /\ ~Once(call'[c], d)
                     \/ Twice(call[c], d) /\ ~Twice(call'[c], d)
        BY <2>2, <3>3 DEF Afforded
      <4> QED
        BY <3>1, <4>1, BudgetKept
    <3> QED
      BY <3>2, <3>3
  <2> QED
    BY <2>1, <2>2
<1> QED
  BY <1>1, <1>2 DEF DispatchInv

(* A step of one call that creates no run.                                 *)
LEMMA CallStep ==
  ASSUME DispatchInv, NEW c \in Dispatchers,
         call' \in [Dispatchers -> CallRow], \A h \in Dispatchers \ {c} : call'[h] = call[h],
         CallFits(c)',
         dispatch' \in [Pairs -> Dispatch \cup {NoDispatch}], RowsKeep,
         \A d \in Pairs : Afforded(c, d),
         UNCHANGED <<trigger, keys, made>>, left' \in Bounds, left'.faults \in 0..left.faults
  PROVE  DispatchInv'
<1>1. RunPerProcessLife'
  BY LifeStands
<1>2. keys' \in [Dispatchers -> [Pairs -> Nat]] /\ made' \in [Pairs -> Nat]
  BY DEF DispatchInv
<1> QED
  BY <1>1, <1>2, CallMove

(* A row that is written, not claimed.                                     *)
LEMMA RowWritten ==
  ASSUME DispatchInv, NEW d \in Pairs, dispatch[d] # NoDispatch, NEW s, NEW k \in {0, 1},
         Writes(dispatch[d], s, k), dispatch' = [dispatch EXCEPT ![d] = s]
  PROVE  /\ dispatch' \in [Pairs -> Dispatch \cup {NoDispatch}] /\ RowsKeep
         /\ dispatch'[d] = s /\ s # NoDispatch /\ s.attempts \in Nat /\ s.attempts <= dispatch[d].attempts + k
         /\ \A e \in Pairs \ {d} : dispatch'[e] = dispatch[e]
<1>1. s \in Dispatch /\ s # NoDispatch
  BY DispatchRowAbsent DEF Writes
<1>2. dispatch'[d] = s /\ \A e \in Pairs \ {d} : dispatch'[e] = dispatch[e]
  BY DEF DispatchInv
<1>3. dispatch' \in [Pairs -> Dispatch \cup {NoDispatch}]
  BY <1>1 DEF DispatchInv
<1>4. RowsKeep
  <2> SUFFICES ASSUME NEW e \in Pairs, dispatch[e] # NoDispatch
      PROVE  /\ dispatch'[e] # NoDispatch
             /\ dispatch'[e].generation = dispatch[e].generation
             /\ dispatch'[e].lease = "live" => dispatch[e].lease = "live" /\ dispatch'[e].owner = dispatch[e].owner
             /\ dispatch[e].state \in {"run_created", "rejected"} =>
                  dispatch'[e].state = dispatch[e].state /\ dispatch'[e].run = dispatch[e].run
    BY DEF RowsKeep
  <2>1. CASE e = d
    BY <2>1, <1>1, <1>2 DEF Writes
  <2>2. CASE e # d
    BY <2>2, <1>2
  <2> QED
    BY <2>1, <2>2
<1>5. s.attempts \in Nat /\ s.attempts <= dispatch[d].attempts + k
  BY <1>1 DEF Writes, Dispatch
<1> QED
  BY <1>1, <1>2, <1>3, <1>4, <1>5

(* Nothing is written.                                                     *)
LEMMA RowsStand ==
  ASSUME DispatchInv, dispatch' = dispatch
  PROVE  dispatch' \in [Pairs -> Dispatch \cup {NoDispatch}] /\ RowsKeep
  BY DEF DispatchInv, RowsKeep

(* The call goes on to its next dispatch, once the rows have moved.        *)
LEMMA NextFits ==
  ASSUME DispatchInv, NEW c \in Dispatchers, call[c].pc # "idle",
         dispatch' \in [Pairs -> Dispatch \cup {NoDispatch}], RowsKeep,
         call' = [call EXCEPT ![c] = NextDispatch(call[c])]
  PROVE  /\ call' \in [Dispatchers -> CallRow] /\ CallFits(c)'
         /\ \A h \in Dispatchers \ {c} : call'[h] = call[h]
         /\ \A d \in Pairs : Twice(call'[c], d) => Twice(call[c], d)
         /\ \A d \in Pairs : Once(call'[c], d) => Once(call[c], d)
         /\ ~Once(call'[c], Head(call[c].todo))
<1> DEFINE q == call[c]
           p == NextDispatch(q)
           t == Tail(q.todo)
<1>1. /\ q \in CallRow /\ q.todo # <<>> /\ q.todo \in Seq(Pairs)
      /\ \A m, n \in 1..Len(q.todo) : q.todo[m] = q.todo[n] => m = n
      /\ q.pc = "reserve" => ~q.redrive
  BY CallTyped DEF CallFits
<1>2. p \in CallRow /\ call'[c] = p /\ call' \in [Dispatchers -> CallRow]
      /\ \A h \in Dispatchers \ {c} : call'[h] = call[h]
  <2>1. p \in CallRow
    BY <1>1, NextCall
  <2> HIDE DEF p
  <2>2. call' = [call EXCEPT ![c] = p]
    BY DEF p
  <2> QED
    BY <2>1, <2>2 DEF DispatchInv
<1>3. /\ \A d \in Pairs : Twice(p, d) => Twice(q, d)
      /\ \A d \in Pairs : Once(p, d) => Once(q, d)
      /\ ~Once(p, Head(q.todo))
  BY <1>1, NextCharges, Zenon
<1>4. CallFits(c)'
  <2>1. CASE p = IdleCall
    <3>1. Len(<<>>) = 0
      OBVIOUS
    <3> HIDE DEF p, q
    <3> QED
      BY <1>2, <2>1, <3>1, IdleCalls DEF CallFits
  <2>2. CASE p # IdleCall
    <3>1. /\ t # <<>> /\ p.pc = (IF q.redrive THEN "claim" ELSE "reserve") /\ p.redrive = q.redrive
          /\ p.todo = t /\ p.seen = q.seen /\ p.gen = 0
      BY <1>1, <2>2, NextCall
    <3>2. /\ Len(t) = Len(q.todo) - 1 /\ Len(q.todo) \in Nat
          /\ \A n \in 1..Len(t) : t[n] = q.todo[n + 1]
          /\ \A n \in 1..Len(q.todo) : q.todo[n] \in Pairs
      BY <1>1, RestOfList
    <3> HIDE DEF t
    <3>3. \A n \in 1..Len(t) : n + 1 \in 1..Len(q.todo)
      BY <3>2
    <3>4. \A m, n \in 1..Len(t) : t[m] = t[n] => m = n
      <4> SUFFICES ASSUME NEW m \in 1..Len(t), NEW n \in 1..Len(t), t[m] = t[n] PROVE m = n
        OBVIOUS
      <4>1. m + 1 = n + 1
        BY <1>1, <3>2, <3>3
      <4> QED
        BY <4>1
    <3>5. q.redrive => \A n \in 1..Len(t) :
            dispatch'[t[n]] # NoDispatch /\ q.seen[t[n]].state \notin TERMINAL_DISPATCH_STATES
      <4>1. q.redrive => \A n \in 1..Len(q.todo) :
              dispatch[q.todo[n]] # NoDispatch /\ q.seen[q.todo[n]].state \notin TERMINAL_DISPATCH_STATES
        BY CallTyped DEF CallFits
      <4>2. q.redrive => \A n \in 1..Len(q.todo) :
              dispatch'[q.todo[n]] # NoDispatch /\ q.seen[q.todo[n]].state \notin TERMINAL_DISPATCH_STATES
        BY <4>1, <3>2 DEF RowsKeep
      <4> QED
        BY <4>2, <3>2, <3>3
    <3> HIDE DEF p, q
    <3> QED
      BY <1>2, <3>1, <3>4, <3>5 DEF CallFits
  <2> QED
    BY <2>1, <2>2
<1> HIDE DEF p, q
<1> QED
  BY <1>2, <1>3, <1>4 DEF q

-----------------------------------------------------------------------------
(* No dispatch is reserved at the start.                                   *)
LEMMA DispatchStarts ==
  ASSUME DispatchInit
  PROVE  DispatchInv
<1>1. trigger \in [Triggers -> TriggerDefinition]
  BY DispatchAssumption DEF DispatchInit, TriggerDefinition, TriggerStates
<1>2. /\ dispatch \in [Pairs -> Dispatch \cup {NoDispatch}]
      /\ keys \in [Dispatchers -> [Pairs -> Nat]] /\ made \in [Pairs -> Nat]
  BY DEF DispatchInit, Pairs
<1>3. call \in [Dispatchers -> CallRow] /\ \A c \in Dispatchers : call[c] = IdleCall
  BY IdleCalls DEF DispatchInit
<1>4. left \in Bounds
  BY DispatchAssumption DEF DispatchInit, Bounds
<1>5. \A c \in Dispatchers : CallFits(c)
  <2>1. Len(<<>>) = 0
    OBVIOUS
  <2> QED
    BY <1>3, <2>1, IdleCalls DEF CallFits
<1>6. \A d \in Pairs : Budget(d)
  BY DEF DispatchInit, Budget, Pairs
<1>7. RunPerProcessLife
  <2> SUFFICES ASSUME NEW d \in Pairs
               PROVE  made[d] <= Cardinality({c \in Dispatchers : keys[c][d] # 0}) + (MaxDispatchFaults - left.faults)
    BY DEF RunPerProcessLife, Pairs
  <2> DEFINE K == {c \in Dispatchers : keys[c][d] # 0}
  <2>1. K \in SUBSET Dispatchers
    OBVIOUS
  <2> HIDE DEF K
  <2>2. Cardinality(K) \in Nat
    BY <2>1, Lose
  <2>3. made[d] = 0 /\ left.faults = MaxDispatchFaults
    BY DEF DispatchInit, Pairs
  <2>4. made[d] <= Cardinality(K) + (MaxDispatchFaults - left.faults)
    BY <2>2, <2>3, DispatchAssumption
  <2> QED
    BY <2>4 DEF K
<1> QED
  BY <1>1, <1>2, <1>3, <1>4, <1>5, <1>6, <1>7 DEF DispatchInv

(* A step that changes no call, and no row but one it rearms or lapses.    *)
LEMMA RowStep ==
  ASSUME DispatchInv, UNCHANGED <<call, keys, made>>, trigger' \in [Triggers -> TriggerDefinition],
         left' \in Bounds, left'.faults \in 0..left.faults,
         dispatch' \in [Pairs -> Dispatch \cup {NoDispatch}], RowsKeep,
         \A d \in Pairs : \/ dispatch'[d] = dispatch[d]
                          \/ dispatch[d] # NoDispatch /\ dispatch'[d].attempts = dispatch[d].attempts
                          \/ dispatch'[d].attempts = 0
  PROVE  DispatchInv'
<1>1. \A h \in Dispatchers : CallFits(h)'
  BY OthersFit
<1>2. ASSUME NEW d \in Pairs PROVE Budget(d)'
  <2>1. CASE dispatch'[d].attempts = 0
    BY <2>1, BudgetFresh, DispatchAssumption
  <2>2. CASE dispatch'[d] = dispatch[d] \/ (dispatch[d] # NoDispatch /\ dispatch'[d].attempts = dispatch[d].attempts)
    BY <2>2 DEF DispatchInv, Budget
  <2> QED
    BY <2>1, <2>2
<1>3. RunPerProcessLife'
  BY LifeStands
<1> QED
  BY <1>1, <1>2, <1>3 DEF DispatchInv

(* Triggers are published, enabled and disabled.                           *)
LEMMA TriggerSteps ==
  ASSUME DispatchInv, NEW t \in Triggers, NEW state \in TriggerStates,
         PublishTrigger(t) \/ SetTriggerState(t, state)
  PROVE  DispatchInv' /\ RowsKeep
<1>1. PICK s \in TriggerStates : trigger' = [trigger EXCEPT ![t] = [state |-> s, revision |-> trigger[t].revision + 1]]
  BY DEF PublishTrigger, SetTriggerState, TriggerStates
<1>2. trigger[t].revision < MaxRevisions /\ UNCHANGED <<dispatch, call, keys, made, left>>
  BY DEF PublishTrigger, SetTriggerState
<1> DEFINE v == trigger[t].revision + 1
<1>3. v \in 1..MaxRevisions
  BY <1>2, DispatchAssumption DEF DispatchInv, TriggerDefinition
<1>4. trigger' = [trigger EXCEPT ![t] = [state |-> s, revision |-> v]]
  BY <1>1
<1> HIDE DEF v
<1>5. trigger' \in [Triggers -> TriggerDefinition]
  BY <1>3, <1>4 DEF DispatchInv, TriggerDefinition
<1>6. left' \in Bounds /\ left'.faults \in 0..left.faults
  BY <1>2 DEF DispatchInv, Bounds
<1> QED
  BY <1>2, <1>5, <1>6, RowsStand, RowStep

(* What is left after a fault, or an arrival.                              *)
LEMMA FaultTaken ==
  ASSUME DispatchInv, Fault
  PROVE  /\ left' \in Bounds /\ left'.faults \in 0..left.faults
         /\ left.faults \in Nat /\ left'.faults = left.faults - 1
<1> DEFINE f == left.faults - 1
<1>1. left.faults > 0 /\ left' = [left EXCEPT !.faults = f]
  BY DEF Fault
<1>2. left.faults \in 0..MaxDispatchFaults
  BY DEF DispatchInv, Bounds
<1>3. f \in 0..left.faults /\ f \in 0..MaxDispatchFaults
  BY <1>1, <1>2, DispatchAssumption
<1> HIDE DEF f
<1>4. left' \in Bounds /\ left'.faults = f
  BY <1>1, <1>3 DEF DispatchInv, Bounds
<1> QED
  BY <1>2, <1>3, <1>4, DispatchAssumption DEF f

(* What is left after an arrival.                                          *)
LEMMA ArrivalTaken ==
  ASSUME DispatchInv, left.arrivals > 0, left' = [left EXCEPT !.arrivals = @ - 1]
  PROVE  left' \in Bounds /\ left'.faults \in 0..left.faults
<1> DEFINE a == left.arrivals - 1
<1>1. a \in Nat
  BY DEF DispatchInv, Bounds
<1>2. left' = [left EXCEPT !.arrivals = a]
  OBVIOUS
<1> HIDE DEF a
<1>3. left' \in Bounds /\ left'.faults = left.faults
  BY <1>1, <1>2 DEF DispatchInv, Bounds
<1> QED
  BY <1>3 DEF Bounds

(* An event arrives: the call can charge nothing before it has reserved.   *)
LEMMA DispatchEventKeeps ==
  ASSUME DispatchInv, NEW c \in Dispatchers, NEW e \in Events, DispatchEvent(c, e)
  PROVE  DispatchInv' /\ RowsKeep
<1> DEFINE S == {<<e, t>> : t \in {t \in Triggers : trigger[t].state = "enabled" /\ <<e, t>> \in Matching}}
           L == MatchTriggers(e)
           p == [IdleCall EXCEPT !.pc = "reserve", !.todo = L]
<1>1. S \subseteq Pairs /\ IsFiniteSet(S)
  <2>1. \A t \in Triggers : <<e, t>> \in Pairs
    BY DEF Pairs
  <2>2. S \subseteq Pairs
    BY <2>1, Zenon
  <2>3. IsFiniteSet(Pairs)
    BY DispatchAssumption, FS_Product DEF Pairs
  <2> HIDE DEF S
  <2> QED
    BY <2>2, <2>3, FS_Subset
<1>2. L = SetToSeq(S)
  BY DEF MatchTriggers
<1>3. L \in Seq(Pairs) /\ \A m, n \in 1..Len(L) : L[m] = L[n] => m = n
  <2> HIDE DEF S, L
  <2>1. L \in Seq(S) /\ \A m, n \in 1..Len(L) : L[m] = L[n] => m = n
    BY <1>1, <1>2, ListOfSet
  <2> QED
    BY <2>1, <1>1
<1>4. /\ L # <<>> /\ call' = [call EXCEPT ![c] = p] /\ UNCHANGED <<trigger, dispatch, keys, made>>
      /\ left.arrivals > 0 /\ left' = [left EXCEPT !.arrivals = @ - 1]
  BY DEF DispatchEvent
<1> HIDE DEF L
<1>5. p \in CallRow /\ p.pc = "reserve" /\ p.todo = L /\ p.redrive = FALSE /\ p.gen = 0
  BY <1>3, IdleCalls DEF CallRow
<1> HIDE DEF p
<1>6. /\ call' \in [Dispatchers -> CallRow] /\ call'[c] = p
      /\ \A h \in Dispatchers \ {c} : call'[h] = call[h]
  BY <1>4, <1>5 DEF DispatchInv
<1>7. CallFits(c)'
  BY <1>3, <1>4, <1>5, <1>6 DEF CallFits
<1>8. \A d : ~Twice(call'[c], d) /\ ~Once(call'[c], d)
  BY <1>5, <1>6 DEF Once, Twice
<1>9. \A d \in Pairs : Afforded(c, d)
  <2>1. \A d \in Pairs : dispatch[d] # NoDispatch => dispatch[d].attempts \in Nat
    BY RowTyped
  <2> QED
    BY <1>4, <1>8, <2>1 DEF Afforded
<1>10. left' \in Bounds /\ left'.faults \in 0..left.faults
  BY <1>4, ArrivalTaken
<1>11. dispatch' \in [Pairs -> Dispatch \cup {NoDispatch}] /\ RowsKeep
  BY <1>4, RowsStand
<1> QED
  BY <1>4, <1>6, <1>7, <1>9, <1>10, <1>11, CallStep

(* A redrive lists what is stranded: what it may charge is below the cap   *)
(* as it reads it.                                                         *)
LEMMA RedriveStrandedKeeps ==
  ASSUME DispatchInv, NEW c \in Dispatchers, NEW owner \in PassNames, RedriveStranded(c, owner)
  PROVE  DispatchInv' /\ RowsKeep
<1> DEFINE S == {d \in Pairs : dispatch[d] # NoDispatch /\ dispatch[d].state \notin TERMINAL_DISPATCH_STATES}
           L == ListStrandedDispatches
           f == [d \in Range(L) |-> dispatch[d]]
           p == [IdleCall EXCEPT !.pc = "claim", !.redrive = TRUE, !.owner = owner, !.todo = L, !.seen = f]
<1>1. S \subseteq Pairs /\ IsFiniteSet(S)
  <2>1. IsFiniteSet(Pairs)
    BY DispatchAssumption, FS_Product DEF Pairs
  <2> QED
    BY <2>1, FS_Subset
<1>2. L = SetToSeq(S)
  BY DEF ListStrandedDispatches, Pairs
<1>3. \A d \in S : dispatch[d] \in Dispatch /\ dispatch[d] # NoDispatch
                   /\ dispatch[d].state \notin TERMINAL_DISPATCH_STATES
  BY RowTyped
<1>4. /\ L # <<>> /\ call' = [call EXCEPT ![c] = p] /\ UNCHANGED <<trigger, dispatch, keys, made>>
      /\ left.arrivals > 0 /\ left' = [left EXCEPT !.arrivals = @ - 1]
  BY DEF RedriveStranded
<1> HIDE DEF S, L
<1>5. L \in Seq(S) /\ \A m, n \in 1..Len(L) : L[m] = L[n] => m = n
  BY <1>1, <1>2, ListOfSet
<1>6. L \in Seq(Pairs) /\ (\A n \in 1..Len(L) : L[n] \in S /\ L[n] \in Range(L)) /\ Range(L) \subseteq S
      /\ Head(L) = L[1] /\ 1 \in 1..Len(L)
  BY <1>1, <1>4, <1>5 DEF Range
<1>7. f \in Readings /\ \A n \in 1..Len(L) : f[L[n]] = dispatch[L[n]]
  <2>1. f \in [Range(L) -> Dispatch]
    BY <1>3, <1>6
  <2>2. Range(L) \in SUBSET Pairs
    BY <1>1, <1>6
  <2>3. f \in Readings
    <3> HIDE DEF f
    <3> QED
      BY <2>1, <2>2 DEF Readings
  <2> QED
    BY <2>3, <1>6
<1> HIDE DEF f
<1>8. p \in CallRow /\ p.pc = "claim" /\ p.todo = L /\ p.redrive = TRUE /\ p.gen = 0 /\ p.seen = f
  <2> DEFINE u == [IdleCall EXCEPT !.pc = "claim", !.redrive = TRUE, !.owner = owner]
  <2>1. u \in CallRow /\ u.pc = "claim" /\ u.redrive = TRUE /\ u.gen = 0
    BY IdleCalls DEF CallRow
  <2>2. p = [u EXCEPT !.todo = L, !.seen = f]
    OBVIOUS
  <2> HIDE DEF u, p
  <2> QED
    BY <2>1, <2>2, <1>6, <1>7 DEF CallRow
<1> HIDE DEF p
<1>9. /\ call' \in [Dispatchers -> CallRow] /\ call'[c] = p
      /\ \A h \in Dispatchers \ {c} : call'[h] = call[h]
  BY <1>4, <1>8 DEF DispatchInv
<1>10. CallFits(c)'
  <2>1. \A n \in 1..Len(L) : dispatch'[L[n]] # NoDispatch /\ f[L[n]].state \notin TERMINAL_DISPATCH_STATES
    BY <1>3, <1>4, <1>6, <1>7
  <2> QED
    BY <2>1, <1>4, <1>5, <1>8, <1>9 DEF CallFits
<1>11. ASSUME NEW d \in Pairs PROVE Afforded(c, d)
  <2>1. CASE dispatch[d] = NoDispatch
    BY <1>4, <2>1 DEF Afforded
  <2>2. CASE dispatch[d] # NoDispatch
    <3>1. dispatch[d].attempts \in Nat /\ MaxDispatchAttempts \in Nat
      BY <2>2, RowTyped, DispatchAssumption
    <3>2. CASE Once(call'[c], d)
      <4>1. ~Spent(f[d]) /\ \E n \in 1..Len(L) : L[n] = d
        <5>1. Twice(p, d)
          BY <3>2, <1>8, <1>9 DEF Once
        <5>2. ~Spent(f[d]) /\ ((\E n \in 2..Len(L) : L[n] = d) \/ Head(L) = d)
          BY <5>1, <1>8 DEF Twice
        <5> QED
          BY <5>2, <1>6
      <4>2. f[d] = dispatch[d]
        BY <4>1, <1>7
      <4>3. dispatch[d].attempts <= MaxDispatchAttempts - 1
        BY <3>1, <4>1, <4>2 DEF Spent
      <4> QED
        BY <4>3, <1>4 DEF Afforded
    <3>3. CASE ~Once(call'[c], d)
      BY <1>4, <2>2, <3>1, <3>3 DEF Afforded, Once
    <3> QED
      BY <3>2, <3>3
  <2> QED
    BY <2>1, <2>2
<1>12. left' \in Bounds /\ left'.faults \in 0..left.faults
  BY <1>4, ArrivalTaken
<1>13. dispatch' \in [Pairs -> Dispatch \cup {NoDispatch}] /\ RowsKeep
  BY <1>4, RowsStand
<1> QED
  BY <1>4, <1>9, <1>10, <1>11, <1>12, <1>13, CallStep

(* A call that is under way keeps what it lists when it takes its next     *)
(* step inside a dispatch.                                                 *)
LEMMA ReserveKeeps ==
  ASSUME DispatchInv, NEW c \in Dispatchers, ReserveDispatch(c)
  PROVE  DispatchInv' /\ RowsKeep
<1> DEFINE q == call[c]
           d == Head(q.todo)
<1>1. /\ q \in CallRow /\ CallFits(c) /\ q.pc = "reserve" /\ q.todo # <<>> /\ d \in Pairs
      /\ ~q.redrive /\ q.gen = 0 /\ UNCHANGED <<trigger, keys, made, left>>
  BY CallTyped DEF ReserveDispatch, CallFits
<1>2. left' \in Bounds /\ left'.faults \in 0..left.faults
  BY <1>1 DEF DispatchInv, Bounds
<1>3. CASE dispatch[d] = NoDispatch
  <2> DEFINE g == [x \in {d} |-> NewDispatch]
             p == [q EXCEPT !.pc = "drive", !.seen = g]
  <2>1. /\ dispatch' = [dispatch EXCEPT ![d] = NewDispatch]
        /\ call' = [call EXCEPT ![c] = p]
    BY <1>1, <1>3 DEF ReserveDispatch, DispatchInv
  <2>2. /\ NewDispatch \in Dispatch /\ NewDispatch.state = "matched" /\ NewDispatch.attempts = 0
        /\ NewDispatch.generation = 0 /\ NewDispatch.lease = "none" /\ NewDispatch # NoDispatch
    BY DispatchRowAbsent DEF NewDispatch, Dispatch, DispatchStates
  <2>3. g \in Readings /\ g[d] = NewDispatch
    <3>1. g \in [{d} -> Dispatch] /\ {d} \in SUBSET Pairs
      BY <1>1, <2>2
    <3>2. g[d] = NewDispatch
      OBVIOUS
    <3> HIDE DEF g
    <3> QED
      BY <3>1, <3>2 DEF Readings
  <2> HIDE DEF g
  <2>4. p \in CallRow /\ p.pc = "drive" /\ p.seen = g /\ p.todo = q.todo /\ p.redrive = q.redrive /\ p.gen = q.gen
    BY <1>1, <2>3 DEF CallRow
  <2> HIDE DEF p, d
  <2>5. /\ call' \in [Dispatchers -> CallRow] /\ call'[c] = p
        /\ \A h \in Dispatchers \ {c} : call'[h] = call[h]
    BY <2>1, <2>4 DEF DispatchInv
  <2>6. /\ dispatch' \in [Pairs -> Dispatch \cup {NoDispatch}] /\ dispatch'[d] = NewDispatch
        /\ \A e \in Pairs \ {d} : dispatch'[e] = dispatch[e]
    BY <1>1, <2>1, <2>2 DEF DispatchInv
  <2>7. RowsKeep
    BY <1>3, <2>6 DEF RowsKeep
  <2>8. d = Head(p.todo)
    BY <2>4 DEF d
  <2>9. CallFits(c)'
    <3>1. InsideFits(c)'
      BY <1>1, <2>2, <2>4, <2>5, <2>6, <2>8 DEF InsideFits
    <3>2. p.seen[Head(p.todo)].state \notin TERMINAL_DISPATCH_STATES
      BY <2>2, <2>3, <2>4, <2>8 DEF TERMINAL_DISPATCH_STATES
    <3>3. \A m, n \in 1..Len(p.todo) : p.todo[m] = p.todo[n] => m = n
      BY <1>1, <2>4 DEF CallFits
    <3> QED
      BY <1>1, <2>4, <2>5, <3>1, <3>2, <3>3 DEF CallFits
  <2>10. ASSUME NEW e \in Pairs PROVE Afforded(c, e)
    <3>1. CASE e = d
      BY <3>1, <2>2, <2>6, DispatchAssumption DEF Afforded
    <3>2. CASE e # d
      <4>1. ~Once(p, e) /\ ~Twice(p, e)
        BY <1>1, <2>4, <2>8, <3>2 DEF Once, Twice
      <4>2. dispatch[e] # NoDispatch => dispatch[e].attempts \in Nat
        BY RowTyped
      <4> QED
        BY <2>5, <2>6, <3>2, <4>1, <4>2 DEF Afforded
    <3> QED
      BY <3>1, <3>2
  <2> QED
    BY <1>1, <1>2, <2>5, <2>6, <2>7, <2>9, <2>10, CallStep
<1>4. CASE dispatch[d] # NoDispatch
  <2>1. dispatch' = dispatch /\ call' = [call EXCEPT ![c] = NextDispatch(call[c])]
    BY <1>4 DEF ReserveDispatch
  <2>2. dispatch' \in [Pairs -> Dispatch \cup {NoDispatch}] /\ RowsKeep
    BY <2>1, RowsStand
  <2>3. /\ call' \in [Dispatchers -> CallRow] /\ CallFits(c)'
        /\ \A h \in Dispatchers \ {c} : call'[h] = call[h]
        /\ \A e \in Pairs : Twice(call'[c], e) => Twice(call[c], e)
        /\ \A e \in Pairs : Once(call'[c], e) => Once(call[c], e)
    BY <1>1, <2>1, <2>2, NextFits
  <2>4. \A e \in Pairs : Afforded(c, e)
    <3>1. \A e \in Pairs : dispatch[e] # NoDispatch => dispatch[e].attempts \in Nat
      BY RowTyped
    <3> QED
      BY <2>1, <2>3, <3>1 DEF Afforded
  <2> QED
    BY <1>1, <1>2, <2>2, <2>3, <2>4, CallStep
<1> QED
  BY <1>3, <1>4

(* The call writes its dispatch's row, claims nothing, and goes on.        *)
LEMMA PassOn ==
  ASSUME DispatchInv, NEW c \in Dispatchers, call[c].pc # "idle",
         NEW s, NEW k \in {0, 1}, dispatch[Head(call[c].todo)] # NoDispatch,
         Writes(dispatch[Head(call[c].todo)], s, k),
         k = 0 \/ Once(call[c], Head(call[c].todo)),
         dispatch' = [dispatch EXCEPT ![Head(call[c].todo)] = s],
         call' = [call EXCEPT ![c] = NextDispatch(call[c])],
         UNCHANGED <<trigger, keys, made, left>>
  PROVE  DispatchInv' /\ RowsKeep
<1> DEFINE q == call[c]
           d == Head(q.todo)
<1>1. d \in Pairs
  BY CallTyped DEF CallFits
<1>2. left' \in Bounds /\ left'.faults \in 0..left.faults
  BY DEF DispatchInv, Bounds
<1>3. /\ dispatch' \in [Pairs -> Dispatch \cup {NoDispatch}] /\ RowsKeep
      /\ dispatch'[d] = s /\ s # NoDispatch /\ s.attempts \in Nat /\ s.attempts <= dispatch[d].attempts + k
      /\ \A e \in Pairs \ {d} : dispatch'[e] = dispatch[e]
  <2> HIDE DEF d, q
  <2>1. /\ dispatch[d] # NoDispatch /\ Writes(dispatch[d], s, k)
        /\ dispatch' = [dispatch EXCEPT ![d] = s]
    BY DEF d, q
  <2> QED
    BY <1>1, <2>1, RowWritten
<1>4. /\ call' \in [Dispatchers -> CallRow] /\ CallFits(c)'
      /\ \A h \in Dispatchers \ {c} : call'[h] = call[h]
      /\ \A e \in Pairs : Twice(call'[c], e) => Twice(call[c], e)
      /\ \A e \in Pairs : Once(call'[c], e) => Once(call[c], e)
      /\ ~Once(call'[c], d)
  BY <1>3, NextFits
<1>5. dispatch[d] # NoDispatch /\ (k = 0 \/ Once(call[c], d))
  OBVIOUS
<1> HIDE DEF d, q
<1>6. ASSUME NEW e \in Pairs PROVE Afforded(c, e)
  <2>1. CASE e = d
    <3>1. dispatch[d].attempts \in Nat
      BY <1>1, <1>5, RowTyped
    <3>2. \/ dispatch'[d].attempts <= dispatch[d].attempts
          \/ /\ dispatch'[d].attempts <= dispatch[d].attempts + 1
             /\ Once(call[c], d)
      BY <3>1, <1>3, <1>5
    <3> QED
      BY <1>1, <1>4, <1>5, <2>1, <3>2 DEF Afforded
  <2>2. CASE e # d
    <3>1. dispatch[e] # NoDispatch => dispatch[e].attempts \in Nat
      BY RowTyped
    <3> QED
      BY <1>3, <1>4, <2>2, <3>1 DEF Afforded
  <2> QED
    BY <2>1, <2>2
<1> QED
  BY <1>2, <1>3, <1>4, <1>6, CallStep

(* The row of a claim, the attempts of it unchanged.                       *)
Reclaim(r, owner) == [r EXCEPT !.generation = @ + 1, !.owner = owner, !.lease = "live"]

(* The row of a claim.                                                     *)
LEMMA ReclaimRow ==
  ASSUME NEW owner \in PassNames \cup {NoDispatch}, NEW r \in Dispatch
  PROVE  /\ Reclaim(r, owner) \in Dispatch /\ Reclaim(r, owner).attempts = r.attempts /\ Reclaim(r, owner).run = r.run
         /\ Reclaim(r, owner).state = r.state /\ Reclaim(r, owner).generation = r.generation + 1
         /\ Reclaim(r, owner).owner = owner /\ Reclaim(r, owner).lease = "live"
<1> DEFINE g == r.generation + 1
<1>1. g \in Nat
  BY DEF Dispatch
<1>2. Reclaim(r, owner) = [r EXCEPT !.generation = g, !.owner = owner, !.lease = "live"]
  BY DEF Reclaim
<1> HIDE DEF g
<1>3. /\ Reclaim(r, owner) \in Dispatch /\ Reclaim(r, owner).attempts = r.attempts /\ Reclaim(r, owner).run = r.run
      /\ Reclaim(r, owner).state = r.state /\ Reclaim(r, owner).generation = g /\ Reclaim(r, owner).owner = owner
      /\ Reclaim(r, owner).lease = "live"
  BY <1>1, <1>2 DEF Dispatch
<1> QED
  BY <1>3 DEF g

(* A claim: no pass of another name has the dispatch under a live lease of *)
(* this generation.                                                        *)
LEMMA ClaimKeeps ==
  ASSUME DispatchInv, NEW c \in Dispatchers, ClaimRedrive(c)
  PROVE  DispatchInv' /\ RowsKeep
<1> DEFINE q == call[c]
           d == Head(q.todo)
           r == dispatch[d]
           taken == Reclaim(r, q.owner)
<1>1. /\ q \in CallRow /\ CallFits(c) /\ q.pc = "claim" /\ q.todo # <<>> /\ d \in Pairs
      /\ q.redrive /\ d = q.todo[1] /\ 1 \in 1..Len(q.todo)
      /\ UNCHANGED <<trigger, keys, made, left>>
  BY CallTyped DEF ClaimRedrive, CallFits
<1>2. r # NoDispatch /\ q.seen[d].state \notin TERMINAL_DISPATCH_STATES
  BY <1>1 DEF CallFits
<1>3. r \in Dispatch /\ r.attempts \in Nat /\ r.generation \in Nat
  BY <1>1, <1>2, RowTyped
<1>4. left' \in Bounds /\ left'.faults \in 0..left.faults
  BY <1>1 DEF DispatchInv, Bounds
<1>5. /\ taken \in Dispatch /\ taken.attempts = r.attempts /\ taken.run = r.run
      /\ taken.state = r.state /\ taken.generation = r.generation + 1 /\ taken.owner = q.owner
      /\ taken.lease = "live"
  <2>1. q.owner \in PassNames \cup {NoDispatch}
    BY <1>1 DEF CallRow
  <2> HIDE DEF r, q
  <2> QED
    BY <1>3, <2>1, ReclaimRow
<1>6. CASE ~MayRedrive(c, r)
  <2>1. dispatch' = dispatch /\ call' = [call EXCEPT ![c] = NextDispatch(call[c])]
    BY <1>6 DEF ClaimRedrive
  <2>2. dispatch' = [dispatch EXCEPT ![d] = r]
    BY <1>1, <2>1 DEF DispatchInv
  <2>3. Writes(r, r, 0)
    <3> HIDE DEF r
    <3> QED
      BY <1>3, SameWrite
  <2> QED
    BY <1>1, <1>2, <2>1, <2>2, <2>3, PassOn
<1>7. CASE MayRedrive(c, r)
  <2>1. r.state \notin TERMINAL_DISPATCH_STATES /\ (r.lease = "live" => r.owner = q.owner)
    BY <1>7 DEF MayRedrive
  <2>2. CASE Spent(q.seen[d])
    <3> DEFINE s == [Released(taken) EXCEPT !.state = "dead_letter"]
    <3>1. /\ dispatch' = [dispatch EXCEPT ![d] = s]
          /\ call' = [call EXCEPT ![c] = NextDispatch(call[c])]
      BY <1>7, <2>2 DEF ClaimRedrive, Reclaim
    <3>2. s \in Dispatch /\ s.attempts = r.attempts /\ s.generation = r.generation + 1 /\ s # NoDispatch
      <4> DEFINE v == Released(taken)
      <4>1. v \in Dispatch /\ v.attempts = r.attempts /\ v.generation = r.generation + 1
        <5> HIDE DEF taken, r
        <5> QED
          BY <1>5, ReleasedWrites DEF Writes
      <4>2. s = [v EXCEPT !.state = "dead_letter"]
        OBVIOUS
      <4> HIDE DEF v, s
      <4>3. s \in Dispatch /\ s.attempts = v.attempts /\ s.generation = v.generation
        BY <4>1, <4>2 DEF Dispatch, DispatchStates
      <4> QED
        BY <4>1, <4>3, DispatchRowAbsent
    <3> HIDE DEF s, taken
    <3>3. /\ dispatch' \in [Pairs -> Dispatch \cup {NoDispatch}] /\ dispatch'[d] = s
          /\ \A e \in Pairs \ {d} : dispatch'[e] = dispatch[e]
      BY <1>1, <3>1, <3>2 DEF DispatchInv
    <3>4. RowsKeep
      <4> SUFFICES ASSUME NEW e \in Pairs, dispatch[e] # NoDispatch
          PROVE  /\ dispatch'[e] # NoDispatch
                 /\ \/ /\ dispatch'[e].generation = dispatch[e].generation
                       /\ dispatch'[e].lease = "live" => dispatch[e].lease = "live" /\ dispatch'[e].owner = dispatch[e].owner
                    \/ /\ dispatch'[e].generation > dispatch[e].generation
                       /\ dispatch[e].lease = "live" => ClaimedByName(e)
                 /\ dispatch[e].state \in {"run_created", "rejected"} =>
                      dispatch'[e].state = dispatch[e].state /\ dispatch'[e].run = dispatch[e].run
        BY DEF RowsKeep
      <4>1. CASE e = d
        <5>1. dispatch'[e].generation > dispatch[e].generation
          BY <4>1, <1>3, <3>2, <3>3
        <5>2. r.state \notin {"run_created", "rejected"}
          BY <2>1 DEF TERMINAL_DISPATCH_STATES
        <5>3. dispatch[e].lease = "live" => ClaimedByName(e)
          BY <4>1, <2>1, <1>1 DEF ClaimedByName
        <5> QED
          BY <4>1, <5>1, <5>2, <5>3, <2>1, <1>1, <3>2, <3>3
      <4>2. CASE e # d
        BY <4>2, <3>3
      <4> QED
        BY <4>1, <4>2
    <3>5. /\ call' \in [Dispatchers -> CallRow] /\ CallFits(c)'
          /\ \A h \in Dispatchers \ {c} : call'[h] = call[h]
          /\ \A e \in Pairs : Twice(call'[c], e) => Twice(call[c], e)
          /\ \A e \in Pairs : Once(call'[c], e) => Once(call[c], e)
      BY <1>1, <3>1, <3>3, <3>4, NextFits
    <3>6. \A e \in Pairs : Afforded(c, e)
      <4>1. \A e \in Pairs : dispatch[e] # NoDispatch => dispatch[e].attempts \in Nat
        BY RowTyped
      <4>2. \A e \in Pairs : e # d => dispatch'[e] = dispatch[e]
        BY <3>3
      <4>3. dispatch[d] # NoDispatch /\ dispatch'[d].attempts <= dispatch[d].attempts
        BY <1>2, <1>3, <3>2, <3>3
      <4> QED
        BY <3>5, <4>1, <4>2, <4>3 DEF Afforded
    <3> QED
      BY <1>1, <1>4, <3>3, <3>4, <3>5, <3>6, CallStep
  <2>3. CASE ~Spent(q.seen[d])
    <3> DEFINE g == taken.generation
               p == [q EXCEPT !.pc = "drive", !.gen = g]
    <3>1. /\ dispatch' = [dispatch EXCEPT ![d] = taken]
          /\ call' = [call EXCEPT ![c] = p]
      BY <1>7, <2>3 DEF ClaimRedrive, DispatchInv, Reclaim
    <3>2. g = r.generation + 1 /\ g \in Nat /\ taken # NoDispatch /\ taken.generation = g
      BY <1>3, <1>5, DispatchRowAbsent
    <3> HIDE DEF g, taken
    <3>3. p \in CallRow /\ p.pc = "drive" /\ p.gen = g /\ p.owner = q.owner /\ p.seen = q.seen /\ p.todo = q.todo /\ p.redrive = q.redrive
      BY <1>1, <3>2 DEF CallRow
    <3> HIDE DEF p
    <3>4. /\ call' \in [Dispatchers -> CallRow] /\ call'[c] = p
          /\ \A h \in Dispatchers \ {c} : call'[h] = call[h]
      BY <3>1, <3>3 DEF DispatchInv
    <3>5. /\ dispatch' \in [Pairs -> Dispatch \cup {NoDispatch}] /\ dispatch'[d] = taken
          /\ \A e \in Pairs \ {d} : dispatch'[e] = dispatch[e]
      BY <1>1, <1>5, <3>1 DEF DispatchInv
    <3>6. RowsKeep
      <4> SUFFICES ASSUME NEW e \in Pairs, dispatch[e] # NoDispatch
          PROVE  /\ dispatch'[e] # NoDispatch
                 /\ \/ /\ dispatch'[e].generation = dispatch[e].generation
                       /\ dispatch'[e].lease = "live" => dispatch[e].lease = "live" /\ dispatch'[e].owner = dispatch[e].owner
                    \/ /\ dispatch'[e].generation > dispatch[e].generation
                       /\ dispatch[e].lease = "live" => ClaimedByName(e)
                 /\ dispatch[e].state \in {"run_created", "rejected"} =>
                      dispatch'[e].state = dispatch[e].state /\ dispatch'[e].run = dispatch[e].run
        BY DEF RowsKeep
      <4>1. CASE e = d
        <5>1. dispatch'[e].generation > dispatch[e].generation
          BY <4>1, <1>3, <1>5, <3>5
        <5>2. dispatch[e].lease = "live" => ClaimedByName(e)
          BY <4>1, <2>1, <1>1 DEF ClaimedByName
        <5> QED
          BY <4>1, <5>1, <5>2, <2>1, <1>1, <1>5, <3>2, <3>5
      <4>2. CASE e # d
        BY <4>2, <3>5
      <4> QED
        BY <4>1, <4>2
    <3>7. CallFits(c)'
      <4>1. InsideFits(c)'
        BY <1>3, <1>5, <3>2, <3>3, <3>4, <3>5 DEF InsideFits
      <4>2. p.seen[Head(p.todo)].state \notin TERMINAL_DISPATCH_STATES
        BY <1>2, <3>3
      <4>3. \A m, n \in 1..Len(p.todo) : p.todo[m] = p.todo[n] => m = n
        BY <1>1, <3>3 DEF CallFits
      <4>4. \A n \in 1..Len(p.todo) :
              dispatch'[p.todo[n]] # NoDispatch /\ p.seen[p.todo[n]].state \notin TERMINAL_DISPATCH_STATES
        <5>1. \A n \in 1..Len(q.todo) : /\ q.todo[n] \in Pairs /\ dispatch[q.todo[n]] # NoDispatch
                                         /\ q.seen[q.todo[n]].state \notin TERMINAL_DISPATCH_STATES
          BY <1>1, CallTyped DEF CallFits
        <5> QED
          BY <5>1, <3>3, <3>6 DEF RowsKeep
      <4> QED
        BY <1>1, <3>3, <3>4, <4>1, <4>2, <4>3, <4>4 DEF CallFits
    <3>8. /\ \A e \in Pairs : Twice(p, e) => Twice(q, e)
          /\ \A e \in Pairs : Once(p, e) => Once(q, e)
      <4>1. \A e \in Pairs : Twice(p, e) => Twice(q, e)
        BY <1>1, <2>3, <3>3 DEF Twice
      <4>2. \A e \in Pairs : Once(p, e) => Twice(p, e)
        BY <3>3 DEF Once
      <4> QED
        BY <4>1, <4>2 DEF Once
    <3>9. \A e \in Pairs : Afforded(c, e)
      <4>1. \A e \in Pairs : dispatch[e] # NoDispatch => dispatch[e].attempts \in Nat
        BY RowTyped
      <4>2. \A e \in Pairs : e # d => dispatch'[e] = dispatch[e]
        BY <3>5
      <4>3. dispatch[d] # NoDispatch /\ dispatch'[d].attempts <= dispatch[d].attempts
        BY <1>2, <1>3, <1>5, <3>5
      <4> QED
        BY <3>4, <3>8, <4>1, <4>2, <4>3 DEF Afforded
    <3> QED
      BY <1>1, <1>4, <3>4, <3>5, <3>6, <3>7, <3>9, CallStep
  <2> QED
    BY <2>2, <2>3
<1> QED
  BY <1>6, <1>7

(* A call inside a dispatch: its row is there.                             *)
LEMMA Inside ==
  ASSUME DispatchInv, NEW c \in Dispatchers, call[c].pc \in {"drive", "sink", "record"}
  PROVE  /\ call[c] \in CallRow /\ CallFits(c) /\ call[c].todo # <<>>
         /\ call[c].todo \in Seq(Pairs) /\ Head(call[c].todo) = call[c].todo[1]
         /\ 1 \in 1..Len(call[c].todo)
         /\ Head(call[c].todo) \in Pairs /\ dispatch[Head(call[c].todo)] \in Dispatch
         /\ dispatch[Head(call[c].todo)] # NoDispatch
         /\ call[c].pc = "drive" => call[c].seen[Head(call[c].todo)].state \notin TERMINAL_DISPATCH_STATES
<1>1. /\ call[c] \in CallRow /\ CallFits(c) /\ call[c].todo # <<>>
      /\ call[c].todo \in Seq(Pairs) /\ Head(call[c].todo) = call[c].todo[1]
      /\ 1 \in 1..Len(call[c].todo)
      /\ Head(call[c].todo) \in Pairs
  BY CallTyped DEF CallFits
<1>2. /\ dispatch[Head(call[c].todo)] # NoDispatch
      /\ call[c].pc = "drive" => call[c].seen[Head(call[c].todo)].state \notin TERMINAL_DISPATCH_STATES
  BY <1>1 DEF CallFits, InsideFits
<1> QED
  BY <1>1, <1>2, RowTyped

(* A call inside a dispatch that moves on within it.                       *)
LEMMA OnInside ==
  ASSUME DispatchInv, NEW c \in Dispatchers, call[c].pc \in {"drive", "sink"},
         NEW p \in CallRow, p.pc \in {"sink", "record"}, p.todo = call[c].todo,
         p.redrive = call[c].redrive, p.owner = call[c].owner, p.seen = call[c].seen, p.gen = call[c].gen,
         p.pc = "record" => p.result \in {"run", "rejection", "error"},
         call' = [call EXCEPT ![c] = p],
         dispatch' \in [Pairs -> Dispatch \cup {NoDispatch}], RowsKeep,
         \A e \in Pairs \ {Head(call[c].todo)} : dispatch'[e] = dispatch[e],
         \/ dispatch'[Head(call[c].todo)].attempts <= dispatch[Head(call[c].todo)].attempts
         \/ /\ call[c].pc = "drive"
            /\ dispatch'[Head(call[c].todo)].attempts <= dispatch[Head(call[c].todo)].attempts + 1,
         /\ dispatch'[Head(call[c].todo)].generation = dispatch[Head(call[c].todo)].generation
         /\ dispatch'[Head(call[c].todo)].lease = "live" =>
              /\ dispatch[Head(call[c].todo)].lease = "live"
              /\ dispatch'[Head(call[c].todo)].owner = dispatch[Head(call[c].todo)].owner
  PROVE  /\ call' \in [Dispatchers -> CallRow] /\ CallFits(c)'
         /\ \A h \in Dispatchers \ {c} : call'[h] = call[h]
         /\ \A d \in Pairs : Afforded(c, d)
<1> DEFINE q == call[c]
           d == Head(q.todo)
<1>1. /\ q \in CallRow /\ CallFits(c) /\ q.todo # <<>> /\ d = q.todo[1] /\ d \in Pairs
      /\ dispatch[d] # NoDispatch /\ dispatch[d] \in Dispatch /\ 1 \in 1..Len(q.todo)
      /\ InsideFits(c)
  BY Inside DEF CallFits
<1>2. /\ call' \in [Dispatchers -> CallRow] /\ call'[c] = p
      /\ \A h \in Dispatchers \ {c} : call'[h] = call[h]
  BY DEF DispatchInv
<1>3. InsideFits(c)'
  <2>1. dispatch'[d] # NoDispatch
    BY <1>1 DEF RowsKeep
  <2> QED
    BY <1>1, <1>2, <2>1 DEF InsideFits
<1>4. CallFits(c)'
  <2>1. \A m, n \in 1..Len(q.todo) : q.todo[m] = q.todo[n] => m = n
    BY <1>1 DEF CallFits
  <2>2. q.redrive => \A n \in 1..Len(q.todo) :
          dispatch'[q.todo[n]] # NoDispatch /\ q.seen[q.todo[n]].state \notin TERMINAL_DISPATCH_STATES
    <3>1. q.redrive => \A n \in 1..Len(q.todo) : /\ q.todo[n] \in Pairs /\ dispatch[q.todo[n]] # NoDispatch
                                     /\ q.seen[q.todo[n]].state \notin TERMINAL_DISPATCH_STATES
      BY <1>1, CallTyped DEF CallFits
    <3> QED
      BY <3>1 DEF RowsKeep
  <2>3. q.seen = p.seen /\ q.todo = p.todo /\ q.redrive = p.redrive
    OBVIOUS
  <2> HIDE DEF q, d
  <2>4. \A m, n \in 1..Len(p.todo) : p.todo[m] = p.todo[n] => m = n
    BY <2>1, <2>3
  <2>5. p.redrive => \A n \in 1..Len(p.todo) :
          dispatch'[p.todo[n]] # NoDispatch /\ p.seen[p.todo[n]].state \notin TERMINAL_DISPATCH_STATES
    BY <2>2, <2>3
  <2>6. p.todo # <<>> /\ call'[c] = p
    BY <1>1, <1>2, <2>3
  <2>7. p.pc \notin {"claim", "reserve", "drive"} /\ (p.pc = "record" => p.result \in {"run", "rejection", "error"})
    OBVIOUS
  <2>8. call'[c].pc # "idle" => call'[c].todo # <<>>
    BY <2>6
  <2>9. \A m, n \in 1..Len(call'[c].todo) : call'[c].todo[m] = call'[c].todo[n] => m = n
    BY <2>4, <2>6
  <2>10. call'[c].redrive => \A n \in 1..Len(call'[c].todo) :
           dispatch'[call'[c].todo[n]] # NoDispatch /\ call'[c].seen[call'[c].todo[n]].state \notin TERMINAL_DISPATCH_STATES
    BY <2>5, <2>6
  <2>11. call'[c].pc \notin {"claim", "reserve", "drive"}
         /\ (call'[c].pc = "record" => call'[c].result \in {"run", "rejection", "error"})
    BY <2>6, <2>7
  <2> QED
    BY <1>3, <2>8, <2>9, <2>10, <2>11, Zenon DEF CallFits
<1>5. \A e \in Pairs : Twice(p, e) => Twice(q, e)
  BY <1>1 DEF Twice
<1>6. \A e \in Pairs : Once(p, e) => Once(q, e)
  BY <1>5 DEF Once, Twice
<1>7. q.pc = "drive" => Twice(q, d) /\ ~Twice(p, d)
  <2>1. \A n \in 2..Len(q.todo) : q.todo[n] # d
    <3>1. \A m, n \in 1..Len(q.todo) : q.todo[m] = q.todo[n] => m = n
      BY <1>1 DEF CallFits
    <3>2. Len(q.todo) \in Nat
      BY Inside
    <3>3. \A n \in 2..Len(q.todo) : n \in 1..Len(q.todo) /\ n # 1
      BY <3>2
    <3> HIDE DEF q
    <3> QED
      BY <1>1, <3>1, <3>3
  <2> QED
    BY <2>1 DEF Twice
<1>8. \A e \in Pairs : Afforded(c, e)
  <2>1. \A e \in Pairs : dispatch[e] # NoDispatch => dispatch[e].attempts \in Nat
    BY RowTyped
  <2>2. \A e \in Pairs : e # d => dispatch'[e] = dispatch[e]
    OBVIOUS
  <2>3. \/ dispatch'[d].attempts <= dispatch[d].attempts
        \/ /\ dispatch'[d].attempts <= dispatch[d].attempts + 1
           /\ Twice(q, d) /\ ~Twice(p, d)
    BY <1>7
  <2> HIDE DEF d
  <2> QED
    BY <1>1, <1>2, <1>5, <1>6, <2>1, <2>2, <2>3 DEF Afforded
<1> QED
  BY <1>2, <1>4, <1>8

(* A drive up to the sink charges the first of its two attempts.           *)
LEMMA DriveKeeps ==
  ASSUME DispatchInv, NEW c \in Dispatchers, DriveDispatch(c)
  PROVE  DispatchInv' /\ RowsKeep
<1> DEFINE q == call[c]
           d == Head(q.todo)
           r == dispatch[d]
<1>1. /\ q.pc = "drive" /\ UNCHANGED <<trigger, keys, made, left>>
  BY DEF DriveDispatch
<1>2. /\ q \in CallRow /\ d \in Pairs /\ r \in Dispatch /\ r # NoDispatch
      /\ q.seen[d].state \notin TERMINAL_DISPATCH_STATES
  BY <1>1, Inside
<1>3. left' \in Bounds /\ left'.faults \in 0..left.faults
  BY <1>1 DEF DispatchInv, Bounds
<1>4. CASE q.redrive /\ trigger[d[2]].state = "disabled"
  <2> DEFINE s == ReleaseRedriveLease(c, MarkRejected(r))
  <2>1. /\ dispatch' = [dispatch EXCEPT ![d] = s]
        /\ call' = [call EXCEPT ![c] = NextDispatch(call[c])]
    BY <1>2, <1>4 DEF DriveDispatch, DispatchInv
  <2>2. Writes(r, s, 0)
    <3> HIDE DEF r, d, q
    <3> QED
      BY <1>2, MarkRejectedWrites, ReleaseAfter
  <2> HIDE DEF s
  <2> QED
    BY <1>1, <1>2, <2>1, <2>2, PassOn
<1>5. CASE ~(q.redrive /\ trigger[d[2]].state = "disabled")
  <2> DEFINE s == TransitionDispatch(r, q.seen[d].state)
             p == [q EXCEPT !.pc = "sink"]
  <2>1. /\ dispatch' = [dispatch EXCEPT ![d] = s]
        /\ call' = [call EXCEPT ![c] = p]
    BY <1>2, <1>5 DEF DriveDispatch, DispatchInv
  <2>2. Writes(r, s, 1)
    <3> HIDE DEF r, d, q
    <3> QED
      BY <1>2, TransitionWrites
  <2>3. p \in CallRow /\ p.pc = "sink" /\ p.gen = q.gen /\ p.owner = q.owner /\ p.seen = q.seen /\ p.todo = q.todo /\ p.redrive = q.redrive
    BY <1>2 DEF CallRow
  <2> HIDE DEF s, p
  <2>4. /\ dispatch' \in [Pairs -> Dispatch \cup {NoDispatch}] /\ RowsKeep
        /\ dispatch'[d] = s /\ s.attempts <= dispatch[d].attempts + 1
        /\ \A e \in Pairs \ {d} : dispatch'[e] = dispatch[e]
    <3> HIDE DEF d
    <3> QED
      BY <1>2, <2>1, <2>2, RowWritten
  <2>5. s.generation = r.generation /\ (s.lease = "live" => r.lease = "live" /\ s.owner = r.owner)
    BY <2>2 DEF Writes
  <2>6. /\ call' \in [Dispatchers -> CallRow] /\ CallFits(c)'
        /\ \A h \in Dispatchers \ {c} : call'[h] = call[h]
        /\ \A e \in Pairs : Afforded(c, e)
    BY <1>1, <2>1, <2>3, <2>4, <2>5, OnInside
  <2> QED
    BY <1>1, <1>3, <2>4, <2>6, CallStep
<1> QED
  BY <1>4, <1>5

(* The outcome is recorded: the second attempt, if it failed.              *)
LEMMA OutcomeKeeps ==
  ASSUME DispatchInv, NEW c \in Dispatchers, RecordOutcome(c)
  PROVE  DispatchInv' /\ RowsKeep
<1> DEFINE q == call[c]
           d == Head(q.todo)
           r == dispatch[d]
           written == CASE q.result = "run" -> MarkRunCreated(r, keys[c][d])
                        [] q.result = "rejection" -> MarkRejected(r)
                        [] q.result = "error" -> MarkRetryable(r)
           s == ReleaseRedriveLease(c, written)
<1>1. /\ q.pc = "record" /\ UNCHANGED <<trigger, keys, made, left>>
      /\ dispatch' = [dispatch EXCEPT ![d] = s]
      /\ call' = [call EXCEPT ![c] = NextDispatch(call[c])]
  BY DEF RecordOutcome
<1>2. /\ d \in Pairs /\ r \in Dispatch /\ r # NoDispatch /\ q.result \in {"run", "rejection", "error"}
      /\ keys[c][d] \in Nat
  BY <1>1, Inside DEF CallFits, DispatchInv
<1>3. Writes(r, written, 0) \/ Writes(r, written, 1)
  <2>1. CASE q.result = "run"
    <3>1. written = MarkRunCreated(r, keys[c][d])
      BY <2>1
    <3> HIDE DEF r, d, q, written
    <3> QED
      BY <1>2, <3>1, MarkRunCreatedWrites
  <2>2. CASE q.result = "rejection"
    <3>1. written = MarkRejected(r)
      BY <2>2
    <3> HIDE DEF r, d, q, written
    <3> QED
      BY <1>2, <3>1, MarkRejectedWrites
  <2>3. CASE q.result = "error"
    <3>1. written = MarkRetryable(r)
      BY <2>3
    <3> HIDE DEF r, d, q, written
    <3> QED
      BY <1>2, <3>1, MarkRetryableWrites
  <2> QED
    BY <1>2, <2>1, <2>2, <2>3
<1>4. PICK k \in {0, 1} : Writes(r, written, k)
  BY <1>3
<1>5. Writes(r, s, k)
  <2> HIDE DEF r, written
  <2> QED
    BY <1>2, <1>4, ReleaseAfter
<1>6. Once(q, d)
  BY <1>1 DEF Once
<1> HIDE DEF s
<1> QED
  BY <1>1, <1>2, <1>5, <1>6, PassOn

(* The sink answers: a run this process remembers, a new one, or none.     *)
LEMMA SinkKeeps ==
  ASSUME DispatchInv, NEW c \in Dispatchers, NEW result \in {"rejection", "error"},
         CreateRunForTrigger(c) \/ SinkRefuses(c, result)
  PROVE  DispatchInv' /\ RowsKeep
<1> DEFINE q == call[c]
           d == Head(q.todo)
<1>1. q.pc = "sink" /\ UNCHANGED <<trigger, dispatch, left>>
  BY DEF CreateRunForTrigger, SinkRefuses
<1>2. PICK o \in {"run", "rejection", "error"} :
        call' = [call EXCEPT ![c] = [q EXCEPT !.pc = "record", !.result = o]]
  BY DEF CreateRunForTrigger, SinkRefuses, DispatchInv
<1>3. /\ q \in CallRow /\ d \in Pairs /\ dispatch[d] \in Dispatch /\ dispatch[d] # NoDispatch
  BY <1>1, Inside
<1> DEFINE p == [q EXCEPT !.pc = "record", !.result = o]
<1>4. p \in CallRow /\ p.pc = "record" /\ p.gen = q.gen /\ p.owner = q.owner /\ p.seen = q.seen /\ p.todo = q.todo
      /\ p.redrive = q.redrive /\ p.result = o
  <2> DEFINE u == [q EXCEPT !.pc = "record"]
  <2>1. u \in CallRow /\ u.pc = "record" /\ u.gen = q.gen /\ u.owner = q.owner /\ u.seen = q.seen /\ u.todo = q.todo
        /\ u.redrive = q.redrive
    BY <1>3 DEF CallRow
  <2>2. p = [u EXCEPT !.result = o]
    OBVIOUS
  <2> HIDE DEF u, p
  <2> QED
    BY <2>1, <2>2 DEF CallRow
<1>5. call' = [call EXCEPT ![c] = p]
  BY <1>2
<1> HIDE DEF p
<1>6. dispatch' \in [Pairs -> Dispatch \cup {NoDispatch}] /\ RowsKeep
  BY <1>1, RowsStand
<1>7. dispatch[d].attempts \in Nat
  BY <1>3, RowTyped
<1>8. /\ call' \in [Dispatchers -> CallRow] /\ CallFits(c)'
      /\ \A h \in Dispatchers \ {c} : call'[h] = call[h]
      /\ \A e \in Pairs : Afforded(c, e)
  <2>1. /\ \A e \in Pairs \ {d} : dispatch'[e] = dispatch[e]
        /\ dispatch'[d].attempts <= dispatch[d].attempts
        /\ dispatch'[d].generation = dispatch[d].generation
        /\ dispatch'[d].lease = "live" => dispatch[d].lease = "live" /\ dispatch'[d].owner = dispatch[d].owner
        /\ p.pc = "record" => p.result \in {"run", "rejection", "error"}
        /\ q.pc \in {"drive", "sink"} /\ p.pc \in {"sink", "record"}
    BY <1>1, <1>4, <1>7
  <2> QED
    BY <1>4, <1>5, <1>6, <2>1, OnInside
<1>9. left' \in Bounds /\ left'.faults \in 0..left.faults
  BY <1>1 DEF DispatchInv, Bounds
<1>10. CASE UNCHANGED <<keys, made>>
  BY <1>1, <1>6, <1>8, <1>9, <1>10, CallStep
<1>11. CASE ~UNCHANGED <<keys, made>>
  <2> DEFINE n == made[d] + 1
  <2>1. keys[c][d] = 0 /\ made' = [made EXCEPT ![d] = n] /\ keys' = [keys EXCEPT ![c][d] = n]
    BY <1>3, <1>11 DEF CreateRunForTrigger, SinkRefuses, DispatchInv
  <2>2. n \in Nat /\ n # 0 /\ n = made[d] + 1 /\ made[d] \in Nat
    BY <1>3 DEF DispatchInv
  <2> HIDE DEF n, d
  <2>3. keys' \in [Dispatchers -> [Pairs -> Nat]] /\ made' \in [Pairs -> Nat]
    BY <1>3, <2>1, <2>2 DEF DispatchInv
  <2>4. /\ keys'[c][d] = n /\ made'[d] = n
        /\ \A h \in Dispatchers, e \in Pairs : h # c \/ e # d => keys'[h][e] = keys[h][e]
        /\ \A e \in Pairs \ {d} : made'[e] = made[e]
    BY <1>3, <2>1, <2>2 DEF DispatchInv
  <2>5. RunPerProcessLife'
    <3> SUFFICES ASSUME NEW e \in Pairs
                 PROVE  made'[e] <= Cardinality({h \in Dispatchers : keys'[h][e] # 0}) + (MaxDispatchFaults - left'.faults)
      BY DEF RunPerProcessLife, Pairs
    <3> DEFINE K == {h \in Dispatchers : keys[h][e] # 0}
               M == {h \in Dispatchers : keys'[h][e] # 0}
    <3>1. made[e] <= Cardinality(K) + (MaxDispatchFaults - left.faults)
      BY DEF DispatchInv, RunPerProcessLife, Pairs
    <3>2. CASE e # d
      <4>1. K = M
        BY <2>4, <3>2
      <4> QED
        BY <1>1, <2>4, <3>1, <3>2, <4>1
    <3>3. CASE e = d
      <4>1. K \in SUBSET M /\ K # M /\ M \in SUBSET Dispatchers
        <5>1. c \in M /\ c \notin K
          BY <2>1, <2>2, <2>4, <3>3
        <5>2. \A h \in K : h \in M
          BY <2>4, <3>3, <5>1
        <5> QED
          BY <5>1, <5>2
      <4> HIDE DEF K, M
      <4>2. Cardinality(K) \in Nat /\ Cardinality(M) \in Nat /\ Cardinality(K) <= Cardinality(M) - 1
        BY <4>1, Lose
      <4>3. left.faults \in Nat /\ MaxDispatchFaults \in Nat /\ left' = left
        BY <1>1, DispatchAssumption DEF DispatchInv, Bounds
      <4>4. made'[e] = made[e] + 1 /\ made[e] \in Nat
        BY <2>2, <2>4, <3>3
      <4>5. made'[e] <= Cardinality(M) + (MaxDispatchFaults - left'.faults)
        BY <3>1, <4>2, <4>3, <4>4
      <4> QED
        BY <4>5 DEF M
    <3> QED
      BY <3>2, <3>3
  <2> QED
    BY <1>1, <1>6, <1>8, <1>9, <2>3, <2>5, CallMove
<1> QED
  BY <1>10, <1>11

(* A process dies and forgets its keys: one fault for at most one run.     *)
LEMMA CrashKeeps ==
  ASSUME DispatchInv, NEW c \in Dispatchers, ServerCrash(c)
  PROVE  DispatchInv' /\ RowsKeep
<1>1. /\ Fault /\ call' = [call EXCEPT ![c] = IdleCall] /\ UNCHANGED <<trigger, dispatch, made>>
      /\ keys' = [keys EXCEPT ![c] = [d \in Pairs |-> 0]]
  BY DEF ServerCrash, Pairs
<1>2. /\ left' \in Bounds /\ left'.faults \in 0..left.faults
      /\ left.faults \in Nat /\ left'.faults = left.faults - 1
  BY <1>1, FaultTaken
<1>3. /\ call' \in [Dispatchers -> CallRow] /\ call'[c] = IdleCall
      /\ \A h \in Dispatchers \ {c} : call'[h] = call[h]
  BY <1>1, IdleCalls DEF DispatchInv
<1>4. dispatch' \in [Pairs -> Dispatch \cup {NoDispatch}] /\ RowsKeep
  BY <1>1, RowsStand
<1>5. CallFits(c)'
  <2>1. Len(<<>>) = 0
    OBVIOUS
  <2> QED
    BY <1>3, <2>1, IdleCalls DEF CallFits
<1>6. \A d \in Pairs : Afforded(c, d)
  <2>1. \A d : ~Twice(call'[c], d) /\ ~Once(call'[c], d)
    BY <1>3, IdleCalls DEF Once, Twice
  <2>2. \A d \in Pairs : dispatch[d] # NoDispatch => dispatch[d].attempts \in Nat
    BY RowTyped
  <2> QED
    BY <1>1, <2>1, <2>2 DEF Afforded
<1>7. /\ keys' \in [Dispatchers -> [Pairs -> Nat]] /\ made' \in [Pairs -> Nat]
      /\ \A h \in Dispatchers \ {c} : keys'[h] = keys[h]
      /\ \A d \in Pairs : keys'[c][d] = 0
  BY <1>1 DEF DispatchInv
<1>8. RunPerProcessLife'
  <2> SUFFICES ASSUME NEW d \in Pairs
               PROVE  made'[d] <= Cardinality({h \in Dispatchers : keys'[h][d] # 0}) + (MaxDispatchFaults - left'.faults)
    BY DEF RunPerProcessLife, Pairs
  <2> DEFINE K == {h \in Dispatchers : keys[h][d] # 0}
             M == {h \in Dispatchers : keys'[h][d] # 0}
  <2>1. made[d] <= Cardinality(K) + (MaxDispatchFaults - left.faults)
    BY DEF DispatchInv, RunPerProcessLife, Pairs
  <2>2. M = K \ {c} /\ K \in SUBSET Dispatchers
    BY <1>7
  <2> HIDE DEF K, M
  <2>3. IsFiniteSet(K) /\ Cardinality(K) \in Nat
    BY <2>2, DispatchAssumption, FS_Subset, FS_CardinalityType
  <2>4. Cardinality(M) = Cardinality(K) \/ Cardinality(M) = Cardinality(K) - 1
    BY <2>2, <2>3, FS_RemoveElement
  <2>5. Cardinality(M) \in Nat /\ Cardinality(K) <= Cardinality(M) + 1
    BY <2>2, <2>3, <2>4, FS_RemoveElement, FS_CardinalityType
  <2>6. made'[d] = made[d] /\ made[d] \in Nat /\ MaxDispatchFaults \in Nat
    BY <1>1, DispatchAssumption DEF DispatchInv
  <2>7. made'[d] <= Cardinality(M) + (MaxDispatchFaults - left'.faults)
    BY <1>2, <2>1, <2>3, <2>5, <2>6
  <2> QED
    BY <2>7 DEF M
<1> QED
  BY <1>1, <1>2, <1>3, <1>4, <1>5, <1>6, <1>7, <1>8, CallMove

(* A lease lapses, an operator redrives a dead letter.                     *)
LEMMA RowFaultKeeps ==
  ASSUME DispatchInv, NEW d \in Pairs, RedriveLeaseLapses(d) \/ RedriveDeadLetter(d)
  PROVE  DispatchInv' /\ RowsKeep
<1> DEFINE r == dispatch[d]
<1>1. Fault /\ r # NoDispatch /\ UNCHANGED <<trigger, call, keys, made>>
  BY DEF RedriveLeaseLapses, RedriveDeadLetter
<1>2. r \in Dispatch /\ r.attempts \in Nat
  BY <1>1, RowTyped
<1>3. left' \in Bounds /\ left'.faults \in 0..left.faults
  BY <1>1, FaultTaken
<1>4. trigger' \in [Triggers -> TriggerDefinition]
  BY <1>1 DEF DispatchInv
<1>5. PICK s : /\ dispatch' = [dispatch EXCEPT ![d] = s] /\ Writes(r, s, 0)
               /\ s.attempts = r.attempts \/ s.attempts = 0
  <2>1. CASE RedriveLeaseLapses(d)
    <3> DEFINE s == [r EXCEPT !.lease = "lapsed"]
    <3>1. dispatch' = [dispatch EXCEPT ![d] = s]
      BY <2>1 DEF RedriveLeaseLapses, DispatchInv
    <3>2. Writes(r, s, 0) /\ s.attempts = r.attempts
      BY <1>2 DEF Writes, Dispatch
    <3> HIDE DEF s
    <3> QED
      BY <3>1, <3>2
  <2>2. CASE RedriveDeadLetter(d)
    <3> DEFINE v == Released(r)
               s == [v EXCEPT !.state = "retryable_failure", !.attempts = 0]
    <3>1. dispatch' = [dispatch EXCEPT ![d] = s] /\ r.state = "dead_letter"
      BY <2>2 DEF RedriveDeadLetter, DispatchInv
    <3>2. v \in Dispatch /\ Writes(r, v, 0)
      <4> HIDE DEF r
      <4> QED
        BY <1>2, ReleasedWrites DEF Writes
    <3> HIDE DEF v
    <3>3. /\ s \in Dispatch /\ s.attempts = 0 /\ s.generation = v.generation /\ s.lease = v.lease
          /\ s.owner = v.owner
      BY <3>2 DEF Dispatch, DispatchStates
    <3> HIDE DEF s
    <3>4. Writes(r, s, 0)
      BY <1>2, <3>1, <3>2, <3>3 DEF Writes
    <3> QED
      BY <3>1, <3>3, <3>4
  <2> QED
    BY <2>1, <2>2
<1>6. /\ dispatch' \in [Pairs -> Dispatch \cup {NoDispatch}] /\ RowsKeep
      /\ dispatch'[d] = s /\ \A e \in Pairs \ {d} : dispatch'[e] = dispatch[e]
  <2> HIDE DEF r
  <2>1. dispatch[d] # NoDispatch /\ Writes(dispatch[d], s, 0)
    BY <1>1, <1>5 DEF r
  <2> QED
    BY <1>5, <2>1, RowWritten
<1>7. \A e \in Pairs : \/ dispatch'[e] = dispatch[e]
                       \/ dispatch[e] # NoDispatch /\ dispatch'[e].attempts = dispatch[e].attempts
                       \/ dispatch'[e].attempts = 0
  BY <1>1, <1>5, <1>6
<1> QED
  BY <1>1, <1>3, <1>4, <1>6, <1>7, RowStep

-----------------------------------------------------------------------------
(* Every step of the dispatches preserves the invariant and moves the rows *)
(* as they may.                                                            *)
LEMMA DispatchSteps ==
  ASSUME DispatchInv, [DispatchNext]_dispatchVars
  PROVE  DispatchInv' /\ RowsKeep
<1>1. ASSUME NEW t \in Triggers, PublishTrigger(t) PROVE DispatchInv' /\ RowsKeep
  BY <1>1, TriggerSteps DEF TriggerStates
<1>2. ASSUME NEW t \in Triggers, NEW state \in TriggerStates, SetTriggerState(t, state)
      PROVE  DispatchInv' /\ RowsKeep
  BY <1>2, TriggerSteps
<1>3. ASSUME NEW d \in Events \X Triggers, RedriveLeaseLapses(d) \/ RedriveDeadLetter(d)
      PROVE  DispatchInv' /\ RowsKeep
  BY <1>3, RowFaultKeeps DEF Pairs
<1>4. ASSUME NEW c \in Dispatchers,
             \/ ReserveDispatch(c) \/ ClaimRedrive(c) \/ DriveDispatch(c)
             \/ CreateRunForTrigger(c) \/ RecordOutcome(c) \/ ServerCrash(c)
      PROVE  DispatchInv' /\ RowsKeep
  BY <1>4, ReserveKeeps, ClaimKeeps, DriveKeeps, SinkKeeps, OutcomeKeeps, CrashKeeps
<1>5. ASSUME NEW c \in Dispatchers, NEW e \in Events, DispatchEvent(c, e)
      PROVE  DispatchInv' /\ RowsKeep
  BY <1>5, DispatchEventKeeps
<1>6. ASSUME NEW c \in Dispatchers, NEW result \in {"rejection", "error"}, SinkRefuses(c, result)
      PROVE  DispatchInv' /\ RowsKeep
  BY <1>6, SinkKeeps
<1>7. ASSUME NEW c \in Dispatchers, NEW owner \in PassNames, RedriveStranded(c, owner)
      PROVE  DispatchInv' /\ RowsKeep
  BY <1>7, RedriveStrandedKeeps
<1>8. CASE UNCHANGED dispatchVars
  <2>1. trigger' = trigger /\ dispatch' = dispatch /\ call' = call /\ keys' = keys /\ made' = made /\ left' = left
    BY <1>8 DEF dispatchVars
  <2>2. dispatch' \in [Pairs -> Dispatch \cup {NoDispatch}] /\ RowsKeep
    BY <2>1, RowsStand
  <2>3. left' \in Bounds /\ left'.faults \in 0..left.faults /\ trigger' \in [Triggers -> TriggerDefinition]
    BY <2>1 DEF DispatchInv, Bounds
  <2> QED
    BY <2>1, <2>2, <2>3, RowStep
<1> QED
  BY <1>1, <1>2, <1>3, <1>4, <1>5, <1>6, <1>7, <1>8 DEF DispatchNext

(* In every behaviour of dispatching the invariant holds (dispatch.ts      *)
(* dispatchEvent, redrive; trigger-store.ts).                              *)
THEOREM DispatchKept == DispatchSpec => []DispatchInv
<1>1. DispatchInit => DispatchInv
  BY DispatchStarts
<1>2. DispatchInv /\ [DispatchNext]_dispatchVars => DispatchInv'
  BY DispatchSteps
<1> QED
  BY <1>1, <1>2, PTL DEF DispatchSpec

(* The invariant bounds the attempts of a dispatch and its runs            *)
(* (dispatch.ts:201, service.ts:340).                                      *)
LEMMA BudgetBounds ==
  ASSUME DispatchInv
  PROVE  AttemptsBounded /\ RunPerProcessLife
<1>1. ASSUME NEW d \in Pairs, dispatch[d] # NoDispatch
      PROVE  dispatch[d].attempts <= MaxDispatchAttempts - 1 + 2 * Cardinality(Dispatchers)
  <2> DEFINE O == {c \in Dispatchers : Once(call[c], d)}
             T == {c \in Dispatchers : Twice(call[c], d)}
             D2 == 2 * Cardinality(Dispatchers)
  <2>1. dispatch[d].attempts + Cardinality(O) + Cardinality(T) <= MaxDispatchAttempts - 1 + D2
    BY <1>1 DEF DispatchInv, Budget
  <2>2. O \in SUBSET Dispatchers /\ T \in SUBSET Dispatchers
    OBVIOUS
  <2> HIDE DEF O, T
  <2>3. Cardinality(O) \in Nat /\ Cardinality(T) \in Nat /\ Cardinality(Dispatchers) \in Nat
    BY <2>2, Lose
  <2>4. D2 \in Nat
    BY <2>3
  <2>5. dispatch[d].attempts \in Nat /\ MaxDispatchAttempts \in Nat
    BY <1>1, RowTyped, DispatchAssumption
  <2> HIDE DEF D2
  <2>6. dispatch[d].attempts <= MaxDispatchAttempts - 1 + D2
    BY <2>1, <2>3, <2>4, <2>5
  <2> QED
    BY <2>6 DEF D2
<1> QED
  BY <1>1 DEF DispatchInv, AttemptsBounded, Pairs

(* What is decided of a dispatch stands, whoever writes its row late       *)
(* (trigger-store.ts markRunCreated, markRejected, markRetryable).         *)
THEOREM DecisionsOfDispatches == DispatchSpec => DecidedForGood
<1>1. ASSUME DispatchInv, [DispatchNext]_dispatchVars
      PROVE  \A d \in Events \X Triggers :
               dispatch[d] # NoDispatch /\ dispatch[d].state \in {"run_created", "rejected"} =>
                 /\ dispatch'[d].state = dispatch[d].state
                 /\ dispatch'[d].run = dispatch[d].run
  BY <1>1, DispatchSteps DEF RowsKeep, Pairs
<1> QED
  BY <1>1, DispatchKept, PTL DEF DispatchSpec, DecidedForGood

(* A live lease of its generation keeps a dispatch for its redriver, but   *)
(* from a pass that goes by the same name.                                 *)
LEMMA LeaseStands ==
  ASSUME DispatchInv, RowsKeep, NEW c \in Dispatchers, call[c].pc \in {"drive", "sink", "record"},
         dispatch[Head(call[c].todo)].lease = "live",
         dispatch[Head(call[c].todo)].generation = call[c].gen
  PROVE  \/ dispatch'[Head(call[c].todo)].generation = dispatch[Head(call[c].todo)].generation
         \/ ClaimedByNamesake(c)
<1> DEFINE d == Head(call[c].todo)
<1>1. /\ d \in Pairs /\ dispatch[d] # NoDispatch /\ InsideFits(c)
  BY Inside DEF CallFits
<1>2. dispatch[d].owner = call[c].owner
  BY <1>1 DEF InsideFits
<1>3. ASSUME ClaimedByName(d)
      PROVE  ClaimedByNamesake(c)
  <2>1. PICK h \in Dispatchers : /\ call[h].pc = "claim" /\ call[h].owner = dispatch[d].owner
                                 /\ Head(call[h].todo) = d
    BY <1>3 DEF ClaimedByName
  <2>2. h # c
    BY <2>1
  <2> QED
    BY <1>2, <2>1, <2>2 DEF ClaimedByNamesake
<1> HIDE DEF d
<1>4. dispatch[d].lease = "live"
  BY DEF d
<1>5. dispatch'[d].generation = dispatch[d].generation \/ ClaimedByName(d)
  BY <1>1, <1>4 DEF RowsKeep
<1> QED
  BY <1>3, <1>5 DEF d

(* A redriver with a live lease keeps its dispatch until it leaves it,     *)
(* unless a pass that started in the same millisecond claims it too: the   *)
(* store tells passes apart by a name made of the time of their start      *)
(* (dispatch.ts:189, trigger-store.ts:517 claimRedriveDispatch).           *)
THEOREM LeasesKeepDispatches == DispatchSpec => LiveLeaseKeepsDispatch
<1>1. ASSUME DispatchInv, [DispatchNext]_dispatchVars
      PROVE  \A c \in Dispatchers : call[c].pc \in {"drive", "sink", "record"} =>
               LET d == Head(call[c].todo)
               IN dispatch[d].lease = "live" /\ dispatch[d].generation = call[c].gen =>
                    \/ dispatch'[d].generation = dispatch[d].generation
                    \/ ClaimedByNamesake(c)
  BY <1>1, DispatchSteps, LeaseStands
<1> QED
  BY <1>1, DispatchKept, PTL DEF DispatchSpec, LiveLeaseKeepsDispatch

-----------------------------------------------------------------------------
(***************************************************************************)
(* Stored artifacts.                                                       *)
(*                                                                         *)
(* At most one call is between opening a file and writing its sidecar for  *)
(* a key that is not shared, and what the file holds then is known from    *)
(* where that call stands (ContentFits, SidecarFits); without a directory  *)
(* there are no files (DirHolds).                                          *)
(***************************************************************************)
(* The rows of the calls, and the calls on a content.                      *)
ArtCallRow == [pc : ArtPc, key : ArtKeys \cup {0}]
On(c, k) == artCall[c].pc # "idle" /\ artCall[c].key = k
Doubtful(k) == k \in (IF backend = "s3" THEN raced ELSE disturbed)
Match(k) == sidecar[k] = "whole" <=> content[k] = "whole"

(* What overlaps on a content is known, and what is deleted is not kept.   *)
CallsFit(k) ==
  /\ k \in raced => k \in disturbed
  /\ k \notin disturbed => \A c, d \in ArtCalls : On(c, k) /\ On(d, k) => c = d
  /\ \A c, d \in ArtCalls : On(c, k) /\ On(d, k) /\ Deleting(c) /\ c # d => k \in raced
  /\ \A c \in ArtCalls : On(c, k) /\ Deleting(c) => k \notin kept
  /\ \A c \in ArtCalls : On(c, k) /\ artCall[c].pc = "writing" => backend = "local"

(* Where there is no doubt a kept content is whole, and so is one whose    *)
(* sidecar is about to be written; a cut file has its writer.              *)
ContentFits(k) ==
  /\ backend = "s3" => content[k] # "torn"
  /\ k \in kept /\ ~Doubtful(k) => content[k] = "whole"
  /\ \A c \in ArtCalls : On(c, k) /\ artCall[c].pc = "meta" /\ ~Doubtful(k) => content[k] = "whole"
  /\ \A c \in ArtCalls : On(c, k) /\ artCall[c].pc \in {"mkdir", "write"} /\ backend = "local"
                         /\ k \notin disturbed => content[k] = "none"
  /\ k \notin disturbed /\ content[k] = "torn" => \E c \in ArtCalls : On(c, k) /\ artCall[c].pc = "writing"

(* Without a failure the sidecar follows the content, call by call.        *)
SidecarFits(k) ==
  k \notin disturbed /\ artFaults = 0 /\ backend # "memory" =>
    /\ (\A c \in ArtCalls : On(c, k) => artCall[c].pc \in {"look", "unlook", "unlink", "rmdir"}) => Match(k)
    /\ \A c \in ArtCalls : On(c, k) /\ artCall[c].pc \in {"mkdir", "write", "writing"} =>
         sidecar[k] # "whole" /\ content[k] # "whole"
    /\ \A c \in ArtCalls : On(c, k) /\ artCall[c].pc = "unlinkMeta" => content[k] = "none"

(* Files are in the directory.                                             *)
DirHolds ==
  backend = "local" /\ ~ownerDir =>
    \A k \in ArtKeys : content[k] = "none" /\ sidecar[k] = "none"

(* What is so of one key.                                                  *)
ArtFits(k) == CallsFit(k) /\ ContentFits(k) /\ SidecarFits(k)

(* The inductive invariant of the artifact stores.                         *)
ArtInv ==
  /\ backend \in {"memory", "local", "s3"}
  /\ content \in [ArtKeys -> Stored] /\ sidecar \in [ArtKeys -> Stored]
  /\ artCall \in [ArtCalls -> ArtCallRow]
  /\ \A c \in ArtCalls : artCall[c].pc # "idle" => artCall[c].key \in ArtKeys /\ backend # "memory"
  /\ kept \subseteq ArtKeys
  /\ artFaults \in Nat
  /\ DirHolds
  /\ \A k \in ArtKeys : ArtFits(k)

-----------------------------------------------------------------------------
(* Call c, on content k, is now at pc.                                     *)
ArtMoves(c, k, pc) ==
  /\ artCall' \in [ArtCalls -> ArtCallRow]
  /\ \A h \in ArtCalls \ {c} : artCall'[h] = artCall[h]
  /\ artCall'[c].pc = pc
  /\ pc # "idle" => artCall'[c].key = k /\ backend # "memory"

(* What a step on content k leaves alone.                                  *)
OnlyAbout(k) ==
  /\ backend' = backend
  /\ content' \in [ArtKeys -> Stored] /\ sidecar' \in [ArtKeys -> Stored]
  /\ kept' \subseteq ArtKeys
  /\ artFaults' \in {artFaults, artFaults + 1}
  /\ \A j \in ArtKeys \ {k} :
       /\ content'[j] = content[j] /\ sidecar'[j] = sidecar[j]
       /\ j \in kept' <=> j \in kept
       /\ j \in disturbed' <=> j \in disturbed
       /\ j \in raced' <=> j \in raced

(* A step of one call on one content leaves the others as they were.       *)
LEMMA ArtStep ==
  ASSUME ArtInv, NEW c \in ArtCalls, NEW k \in ArtKeys, NEW p,
         On(c, k) \/ artCall[c].pc = "idle",
         ArtMoves(c, k, p), OnlyAbout(k), ArtFits(k)', DirHolds'
  PROVE  ArtInv'
<1>1. ASSUME NEW j \in ArtKeys PROVE ArtFits(j)'
  <2>1. CASE j = k
    BY <2>1
  <2>2. CASE j # k
    <3>1. \A h \in ArtCalls : On(h, j)' <=> On(h, j)
      BY <2>2 DEF On, ArtMoves
    <3>2. \A h \in ArtCalls : On(h, j) => artCall'[h] = artCall[h]
      BY <2>2 DEF On, ArtMoves
    <3>3. /\ content'[j] = content[j] /\ sidecar'[j] = sidecar[j] /\ backend' = backend
          /\ j \in kept' <=> j \in kept
          /\ j \in disturbed' <=> j \in disturbed
          /\ j \in raced' <=> j \in raced
          /\ artFaults' = 0 => artFaults = 0
      BY <2>2 DEF OnlyAbout, ArtInv
    <3>4. CallsFit(j) /\ ContentFits(j) /\ SidecarFits(j)
      BY DEF ArtInv, ArtFits
    <3>5. CallsFit(j)'
      BY <3>1, <3>2, <3>3, <3>4 DEF CallsFit, Deleting
    <3>6. Doubtful(j)' <=> Doubtful(j)
      BY <3>3 DEF Doubtful
    <3>7. ContentFits(j)'
      BY <3>1, <3>2, <3>3, <3>4, <3>6 DEF ContentFits
    <3>8. Match(j)' <=> Match(j)
      BY <3>3 DEF Match
    <3>9. SidecarFits(j)'
      BY <3>1, <3>2, <3>3, <3>4, <3>8 DEF SidecarFits
    <3> QED
      BY <3>5, <3>7, <3>9 DEF ArtFits
  <2> QED
    BY <2>1, <2>2
<1>2. \A h \in ArtCalls : artCall'[h].pc # "idle" => artCall'[h].key \in ArtKeys /\ backend' # "memory"
  BY DEF ArtMoves, OnlyAbout, ArtInv
<1>3. artFaults' \in Nat
  BY DEF OnlyAbout, ArtInv
<1> QED
  BY <1>1, <1>2, <1>3 DEF ArtInv, ArtMoves, OnlyAbout

(* A call under way, its content and what fits them.                       *)
LEMMA ArtCallOf ==
  ASSUME ArtInv, NEW c \in ArtCalls, artCall[c].pc # "idle"
  PROVE  /\ artCall[c].key \in ArtKeys /\ backend # "memory" /\ On(c, artCall[c].key)
         /\ artCall[c] \in ArtCallRow /\ artCall[c].pc \in ArtPc
         /\ CallsFit(artCall[c].key) /\ ContentFits(artCall[c].key) /\ SidecarFits(artCall[c].key)
         /\ content[artCall[c].key] \in Stored /\ sidecar[artCall[c].key] \in Stored /\ artFaults \in Nat
BY DEF ArtInv, ArtFits, ArtCallRow, On

(* The idle call.                                                          *)
LEMMA IdleArt == NoArtCall \in ArtCallRow /\ NoArtCall.pc = "idle"
BY DEF NoArtCall, ArtCallRow, ArtPc

(* The three ways a call moves: on, to its end, and from the start.        *)
LEMMA GoesOn ==
  ASSUME ArtInv, NEW c \in ArtCalls, NEW k \in ArtKeys, On(c, k), NEW p \in ArtPc, ArtGo(c, p)
  PROVE  ArtMoves(c, k, p)
<1> DEFINE q == [artCall[c] EXCEPT !.pc = p]
<1>1. artCall[c] \in ArtCallRow /\ backend # "memory" /\ artCall[c].key = k
  BY ArtCallOf DEF On
<1>2. q \in ArtCallRow /\ q.pc = p /\ q.key = k
  BY <1>1 DEF ArtCallRow
<1>3. artCall' = [artCall EXCEPT ![c] = q]
  BY DEF ArtGo
<1> HIDE DEF q
<1> QED
  BY <1>1, <1>2, <1>3 DEF ArtMoves, ArtInv

(* A call ends.                                                            *)
LEMMA GoesIdle ==
  ASSUME ArtInv, NEW c \in ArtCalls, NEW k \in ArtKeys, artCall' = [artCall EXCEPT ![c] = NoArtCall]
  PROVE  ArtMoves(c, k, "idle")
BY IdleArt DEF ArtMoves, ArtInv

(* A call begins.                                                          *)
LEMMA Begins ==
  ASSUME ArtInv, NEW c \in ArtCalls, NEW k \in ArtKeys, NEW p \in ArtPc, backend # "memory",
         artCall' = [artCall EXCEPT ![c] = [pc |-> p, key |-> k]]
  PROVE  ArtMoves(c, k, p)
<1> DEFINE q == [pc |-> p, key |-> k]
<1>1. q \in ArtCallRow /\ q.pc = p /\ q.key = k
  BY DEF ArtCallRow
<1>2. artCall' = [artCall EXCEPT ![c] = q]
  OBVIOUS
<1> HIDE DEF q
<1> QED
  BY <1>1, <1>2 DEF ArtMoves, ArtInv

(* Nothing is stored at the start.                                         *)
LEMMA ArtStarts == ArtifactsInit => ArtInv
<1> SUFFICES ASSUME ArtifactsInit PROVE ArtInv
  OBVIOUS
<1>1. artCall \in [ArtCalls -> ArtCallRow] /\ \A c \in ArtCalls : artCall[c].pc = "idle"
  BY IdleArt DEF ArtifactsInit
<1>2. /\ \A k \in ArtKeys : content[k] = "none" /\ sidecar[k] = "none"
      /\ content \in [ArtKeys -> Stored] /\ sidecar \in [ArtKeys -> Stored]
      /\ kept = {} /\ raced = {} /\ artFaults = 0
  BY DEF ArtifactsInit, Stored
<1>3. \A k \in ArtKeys : ArtFits(k)
  BY <1>1, <1>2 DEF ArtFits, CallsFit, ContentFits, SidecarFits, On, Match
<1> QED
  BY <1>1, <1>2, <1>3 DEF ArtInv, ArtifactsInit, DirHolds

(* Who works on the content after a move.                                  *)
LEMMA AfterMove ==
  ASSUME NEW c \in ArtCalls, NEW k \in ArtKeys, NEW p, ArtMoves(c, k, p)
  PROVE  /\ \A h \in ArtCalls \ {c} : (On(h, k)' <=> On(h, k)) /\ artCall'[h] = artCall[h]
                                       /\ (Deleting(h)' <=> Deleting(h))
         /\ On(c, k)' <=> p # "idle"
         /\ artCall'[c].pc = p
         /\ Deleting(c)' <=> p \in {"unlook", "unlink", "unlinkMeta"}
BY DEF ArtMoves, On, Deleting

(* Beginning to store: what is already under way is an overlap.            *)
LEMMA PutKeeps ==
  ASSUME ArtInv, NEW c \in ArtCalls, NEW k \in ArtKeys, Put(c, k)
  PROVE  ArtInv'
<1>1. /\ artCall[c].pc = "idle" /\ backend # "memory" /\ CallsFit(k) /\ ContentFits(k) /\ SidecarFits(k)
      /\ content[k] \in Stored /\ artFaults \in Nat /\ ~On(c, k)
  BY DEF Put, BeginArt, ArtAt, ArtInv, ArtFits, On
<1>2. ArtMoves(c, k, "look")
  BY <1>1, Begins DEF Put, BeginArt, ArtPc
<1>3. /\ UNCHANGED <<backend, content, sidecar, kept, artFaults>>
      /\ disturbed' \in {disturbed, disturbed \cup {k}} /\ raced' \in {raced, raced \cup {k}}
      /\ k \notin disturbed' => \A h \in ArtCalls \ {c} : ~On(h, k)
      /\ k \notin raced' => \A h \in ArtCalls \ {c} : ~(On(h, k) /\ Deleting(h))
      /\ k \in raced' => k \in raced \/ \E h \in ArtCalls \ {c} : On(h, k)
      /\ (\E h \in ArtCalls \ {c} : On(h, k)) => k \in disturbed'
  BY DEF Put, BeginArt, OthersOn, ArtAt, ArtKey, On
<1>4. /\ \A h \in ArtCalls \ {c} : (On(h, k)' <=> On(h, k)) /\ artCall'[h] = artCall[h]
                                    /\ (Deleting(h)' <=> Deleting(h))
      /\ On(c, k)' <=> "look" # "idle"
      /\ artCall'[c].pc = "look"
      /\ Deleting(c)' <=> "look" \in {"unlook", "unlink", "unlinkMeta"}
  BY <1>2, AfterMove
<1>5. Doubtful(k) => Doubtful(k)'
  BY <1>3 DEF Doubtful
<1>6. CallsFit(k)'
  BY <1>1, <1>3, <1>4 DEF CallsFit, Deleting
<1>7. ContentFits(k)'
  BY <1>1, <1>3, <1>4, <1>5 DEF ContentFits, Stored
<1>8. SidecarFits(k)'
  BY <1>1, <1>3, <1>4 DEF SidecarFits, Match, Stored
<1>9. OnlyAbout(k)
  BY <1>3 DEF OnlyAbout, ArtInv, Stored
<1>11. DirHolds'
  BY <1>1 DEF DirHolds, ArtInv, Put
<1> QED
  BY <1>1, <1>2, <1>6, <1>7, <1>8, <1>9, <1>11, ArtStep DEF ArtFits, On

(* Beginning to delete: every other call on the content races with it.     *)
LEMMA DeleteKeeps ==
  ASSUME ArtInv, NEW c \in ArtCalls, NEW k \in ArtKeys, Delete(c, k)
  PROVE  ArtInv'
<1>1. /\ artCall[c].pc = "idle" /\ backend # "memory" /\ CallsFit(k) /\ ContentFits(k) /\ SidecarFits(k)
      /\ content[k] \in Stored /\ artFaults \in Nat /\ ~On(c, k)
  BY DEF Delete, BeginArt, ArtAt, ArtInv, ArtFits, On
<1>2. ArtMoves(c, k, "unlook")
  BY <1>1, Begins DEF Delete, BeginArt, ArtPc
<1>3. /\ UNCHANGED <<backend, content, sidecar, artFaults>> /\ kept' = kept \ {k}
      /\ disturbed' \in {disturbed, disturbed \cup {k}} /\ raced' \in {raced, raced \cup {k}}
      /\ k \notin disturbed' => \A h \in ArtCalls \ {c} : ~On(h, k)
      /\ k \notin raced' => \A h \in ArtCalls \ {c} : ~On(h, k)
      /\ k \in raced' => k \in raced \/ \E h \in ArtCalls \ {c} : On(h, k)
      /\ (\E h \in ArtCalls \ {c} : On(h, k)) => k \in disturbed'
  BY DEF Delete, BeginArt, OthersOn, ArtAt, ArtKey, On
<1>4. /\ \A h \in ArtCalls \ {c} : (On(h, k)' <=> On(h, k)) /\ artCall'[h] = artCall[h]
                                    /\ (Deleting(h)' <=> Deleting(h))
      /\ On(c, k)' <=> "unlook" # "idle"
      /\ artCall'[c].pc = "unlook"
      /\ Deleting(c)' <=> "unlook" \in {"unlook", "unlink", "unlinkMeta"}
  BY <1>2, AfterMove
<1>5. Doubtful(k) => Doubtful(k)'
  BY <1>3 DEF Doubtful
<1>6. CallsFit(k)'
  BY <1>1, <1>3, <1>4 DEF CallsFit, Deleting
<1>7. ContentFits(k)'
  BY <1>1, <1>3, <1>4, <1>5 DEF ContentFits, Stored
<1>8. SidecarFits(k)'
  BY <1>1, <1>3, <1>4 DEF SidecarFits, Match, Stored
<1>9. OnlyAbout(k)
  BY <1>3 DEF OnlyAbout, ArtInv, Stored
<1>11. DirHolds'
  BY <1>1 DEF DirHolds, ArtInv, Delete
<1> QED
  BY <1>1, <1>2, <1>6, <1>7, <1>8, <1>9, <1>11, ArtStep DEF ArtFits, On

(* delete looks for the file.                                              *)
LEMMA DeleteLooksKeeps ==
  ASSUME ArtInv, NEW c \in ArtCalls, NEW k \in ArtKeys, k = artCall[c].key, DeleteLooks(c)
  PROVE  ArtInv'
<1>1. /\ artCall[c].pc = "unlook" /\ backend # "memory" /\ On(c, k)
      /\ CallsFit(k) /\ ContentFits(k) /\ SidecarFits(k)
      /\ content[k] \in Stored /\ sidecar[k] \in Stored /\ artFaults \in Nat
  BY ArtCallOf DEF DeleteLooks, ArtAt, ArtKey
<1>2. ArtMoves(c, k, "unlink")
  BY <1>1, GoesOn DEF DeleteLooks, ArtPc
<1>3. UNCHANGED <<backend, disturbed, raced>> /\ UNCHANGED <<content, sidecar, kept, artFaults>>
  BY DEF DeleteLooks
<1>4. /\ \A h \in ArtCalls \ {c} : (On(h, k)' <=> On(h, k)) /\ artCall'[h] = artCall[h]
                                    /\ (Deleting(h)' <=> Deleting(h))
      /\ On(c, k)' <=> "unlink" # "idle"
      /\ artCall'[c].pc = "unlink"
      /\ Deleting(c)' <=> "unlink" \in {"unlook", "unlink", "unlinkMeta"}
  BY <1>2, AfterMove
<1>5. Doubtful(k) => Doubtful(k)'
  BY <1>3 DEF Doubtful
<1>6. CallsFit(k)'
  BY <1>1, <1>3, <1>4 DEF CallsFit, Deleting
<1>7. ContentFits(k)'
  BY <1>1, <1>3, <1>4, <1>5 DEF ContentFits, Stored
<1>8. SidecarFits(k)'
  BY <1>1, <1>3, <1>4 DEF SidecarFits, Match, Stored
<1>9. OnlyAbout(k)
  BY <1>3 DEF OnlyAbout, ArtInv, Stored
<1>11. DirHolds'
  BY <1>1 DEF DirHolds, ArtInv, DeleteLooks
<1> QED
  BY <1>1, <1>2, <1>6, <1>7, <1>8, <1>9, <1>11, ArtStep DEF ArtFits, On

(* The file is removed.                                                    *)
LEMMA UnlinkKeeps ==
  ASSUME ArtInv, NEW c \in ArtCalls, NEW k \in ArtKeys, k = artCall[c].key, Unlink(c)
  PROVE  ArtInv'
<1>1. /\ artCall[c].pc = "unlink" /\ backend # "memory" /\ On(c, k)
      /\ CallsFit(k) /\ ContentFits(k) /\ SidecarFits(k)
      /\ content[k] \in Stored /\ sidecar[k] \in Stored /\ artFaults \in Nat
  BY ArtCallOf DEF Unlink, ArtAt, ArtKey
<1>2. ArtMoves(c, k, "unlinkMeta")
  BY <1>1, GoesOn DEF Unlink, ArtPc
<1>3. /\ UNCHANGED <<backend, disturbed, raced>> /\ UNCHANGED <<sidecar, kept>>
      /\ \/ content'[k] = "none" /\ artFaults' = artFaults
         \/ content' = content /\ artFaults' = artFaults + 1
      /\ content' \in [ArtKeys -> Stored] /\ (\A j \in ArtKeys \ {k} : content'[j] = content[j])
  BY DEF Unlink, ArtKey, ArtFault, ArtInv, Stored
<1>4. /\ \A h \in ArtCalls \ {c} : (On(h, k)' <=> On(h, k)) /\ artCall'[h] = artCall[h]
                                    /\ (Deleting(h)' <=> Deleting(h))
      /\ On(c, k)' <=> "unlinkMeta" # "idle"
      /\ artCall'[c].pc = "unlinkMeta"
      /\ Deleting(c)' <=> "unlinkMeta" \in {"unlook", "unlink", "unlinkMeta"}
  BY <1>2, AfterMove
<1>5. Doubtful(k) => Doubtful(k)'
  BY <1>3 DEF Doubtful
<1>6. CallsFit(k)'
  BY <1>1, <1>3, <1>4 DEF CallsFit, Deleting
<1>7. ContentFits(k)'
  BY <1>1, <1>3, <1>4, <1>5 DEF ContentFits, Stored, CallsFit, Deleting, Doubtful
<1>8. SidecarFits(k)'
  BY <1>1, <1>3, <1>4 DEF SidecarFits, Match, Stored, CallsFit
<1>9. OnlyAbout(k)
  BY <1>3 DEF OnlyAbout, ArtInv, Stored
<1>11. DirHolds'
  BY <1>1 DEF DirHolds, ArtInv, Unlink, ArtKey, Stored
<1> QED
  BY <1>1, <1>2, <1>6, <1>7, <1>8, <1>9, <1>11, ArtStep DEF ArtFits, On

(* The sidecar is removed.                                                 *)
LEMMA UnlinkMetaKeeps ==
  ASSUME ArtInv, NEW c \in ArtCalls, NEW k \in ArtKeys, k = artCall[c].key, UnlinkMeta(c)
  PROVE  ArtInv'
<1>1. /\ artCall[c].pc = "unlinkMeta" /\ backend # "memory" /\ On(c, k)
      /\ CallsFit(k) /\ ContentFits(k) /\ SidecarFits(k)
      /\ content[k] \in Stored /\ sidecar[k] \in Stored /\ artFaults \in Nat
  BY ArtCallOf DEF UnlinkMeta, ArtAt, ArtKey
<1>2. PICK p \in {"idle", "rmdir"} : ArtMoves(c, k, p)
  <2>1. CASE backend = "local"
    <3>1. ArtGo(c, "rmdir")
      BY <2>1 DEF UnlinkMeta, ArtGo
    <3> QED
      BY <1>1, <3>1, GoesOn DEF ArtPc
  <2>2. CASE backend # "local"
    BY <2>2, GoesIdle DEF UnlinkMeta
  <2> QED
    BY <2>1, <2>2
<1>3. /\ UNCHANGED <<backend, disturbed, raced>> /\ UNCHANGED <<content, kept>>
      /\ \/ sidecar'[k] = "none" /\ artFaults' = artFaults
         \/ sidecar' = sidecar /\ artFaults' = artFaults + 1
      /\ sidecar' \in [ArtKeys -> Stored] /\ (\A j \in ArtKeys \ {k} : sidecar'[j] = sidecar[j])
  BY DEF UnlinkMeta, ArtKey, ArtFault, ArtInv, Stored
<1>4. /\ \A h \in ArtCalls \ {c} : (On(h, k)' <=> On(h, k)) /\ artCall'[h] = artCall[h]
                                    /\ (Deleting(h)' <=> Deleting(h))
      /\ On(c, k)' <=> p # "idle"
      /\ artCall'[c].pc = p
      /\ ~Deleting(c)'
  BY <1>2, AfterMove
<1>5. Doubtful(k) => Doubtful(k)'
  BY <1>3 DEF Doubtful
<1>6. CallsFit(k)'
  BY <1>1, <1>3, <1>4 DEF CallsFit, Deleting
<1>7. ContentFits(k)'
  BY <1>1, <1>3, <1>4, <1>5 DEF ContentFits, Stored
<1>8. SidecarFits(k)'
  BY <1>1, <1>3, <1>4 DEF SidecarFits, Match, Stored
<1>9. OnlyAbout(k)
  BY <1>3 DEF OnlyAbout, ArtInv, Stored
<1>11. DirHolds'
  BY <1>1 DEF DirHolds, ArtInv, UnlinkMeta, ArtKey, Stored
<1> QED
  BY <1>1, <1>2, <1>6, <1>7, <1>8, <1>9, <1>11, ArtStep DEF ArtFits, On

(* The directory is removed when it is empty.                              *)
LEMMA RemoveDirKeeps ==
  ASSUME ArtInv, NEW c \in ArtCalls, NEW k \in ArtKeys, k = artCall[c].key, RemoveDir(c)
  PROVE  ArtInv'
<1>1. /\ artCall[c].pc = "rmdir" /\ backend # "memory" /\ On(c, k)
      /\ CallsFit(k) /\ ContentFits(k) /\ SidecarFits(k)
      /\ content[k] \in Stored /\ sidecar[k] \in Stored /\ artFaults \in Nat
  BY ArtCallOf DEF RemoveDir, ArtAt, ArtKey
<1>2. ArtMoves(c, k, "idle")
  BY GoesIdle DEF RemoveDir
<1>3. UNCHANGED <<backend, disturbed, raced>> /\ UNCHANGED <<content, sidecar, kept>>
      /\ artFaults' \in {artFaults, artFaults + 1}
  BY <1>1 DEF RemoveDir, ArtFault
<1>4. /\ \A h \in ArtCalls \ {c} : (On(h, k)' <=> On(h, k)) /\ artCall'[h] = artCall[h]
                                    /\ (Deleting(h)' <=> Deleting(h))
      /\ On(c, k)' <=> "idle" # "idle"
      /\ artCall'[c].pc = "idle"
      /\ Deleting(c)' <=> "idle" \in {"unlook", "unlink", "unlinkMeta"}
  BY <1>2, AfterMove
<1>5. Doubtful(k) => Doubtful(k)'
  BY <1>3 DEF Doubtful
<1>6. CallsFit(k)'
  BY <1>1, <1>3, <1>4 DEF CallsFit, Deleting
<1>7. ContentFits(k)'
  BY <1>1, <1>3, <1>4, <1>5 DEF ContentFits, Stored
<1>8. SidecarFits(k)'
  BY <1>1, <1>3, <1>4 DEF SidecarFits, Match, Stored
<1>9. OnlyAbout(k)
  BY <1>3 DEF OnlyAbout, ArtInv, Stored
<1>11. DirHolds'
  BY <1>1 DEF DirHolds, ArtInv, RemoveDir
<1> QED
  BY <1>1, <1>2, <1>6, <1>7, <1>8, <1>9, <1>11, ArtStep DEF ArtFits, On

(* The directory is made.                                                  *)
LEMMA MakeDirKeeps ==
  ASSUME ArtInv, NEW c \in ArtCalls, NEW k \in ArtKeys, k = artCall[c].key, MakeDir(c)
  PROVE  ArtInv'
<1>1. /\ artCall[c].pc = "mkdir" /\ backend # "memory" /\ On(c, k)
      /\ CallsFit(k) /\ ContentFits(k) /\ SidecarFits(k)
      /\ content[k] \in Stored /\ sidecar[k] \in Stored /\ artFaults \in Nat
  BY ArtCallOf DEF MakeDir, ArtAt, ArtKey
<1>2. ArtMoves(c, k, "write")
  BY <1>1, GoesOn DEF MakeDir, ArtPc
<1>3. UNCHANGED <<backend, disturbed, raced>> /\ UNCHANGED <<content, sidecar, kept, artFaults>>
  BY DEF MakeDir
<1>4. /\ \A h \in ArtCalls \ {c} : (On(h, k)' <=> On(h, k)) /\ artCall'[h] = artCall[h]
                                    /\ (Deleting(h)' <=> Deleting(h))
      /\ On(c, k)' <=> "write" # "idle"
      /\ artCall'[c].pc = "write"
      /\ Deleting(c)' <=> "write" \in {"unlook", "unlink", "unlinkMeta"}
  BY <1>2, AfterMove
<1>5. Doubtful(k) => Doubtful(k)'
  BY <1>3 DEF Doubtful
<1>6. CallsFit(k)'
  BY <1>1, <1>3, <1>4 DEF CallsFit, Deleting
<1>7. ContentFits(k)'
  BY <1>1, <1>3, <1>4, <1>5 DEF ContentFits, Stored
<1>8. SidecarFits(k)'
  BY <1>1, <1>3, <1>4 DEF SidecarFits, Match, Stored
<1>9. OnlyAbout(k)
  BY <1>3 DEF OnlyAbout, ArtInv, Stored
<1>11. DirHolds'
  BY <1>1 DEF DirHolds, ArtInv, MakeDir
<1> QED
  BY <1>1, <1>2, <1>6, <1>7, <1>8, <1>9, <1>11, ArtStep DEF ArtFits, On

(* put opens, and truncates, the file.                                     *)
LEMMA OpenFileKeeps ==
  ASSUME ArtInv, NEW c \in ArtCalls, NEW k \in ArtKeys, k = artCall[c].key, OpenFile(c)
  PROVE  ArtInv'
<1>1. /\ artCall[c].pc = "write" /\ backend # "memory" /\ On(c, k)
      /\ CallsFit(k) /\ ContentFits(k) /\ SidecarFits(k)
      /\ content[k] \in Stored /\ sidecar[k] \in Stored /\ artFaults \in Nat
  BY ArtCallOf DEF OpenFile, ArtAt, ArtKey
<1>2. ArtMoves(c, k, "writing")
  BY <1>1, GoesOn DEF OpenFile, ArtPc
<1>3. /\ UNCHANGED <<backend, disturbed, raced>> /\ UNCHANGED <<sidecar, kept, artFaults>>
      /\ content'[k] = "torn" /\ backend = "local"
      /\ content' \in [ArtKeys -> Stored] /\ (\A j \in ArtKeys \ {k} : content'[j] = content[j])
  BY DEF OpenFile, ArtKey, ArtInv, Stored
<1>4. /\ \A h \in ArtCalls \ {c} : (On(h, k)' <=> On(h, k)) /\ artCall'[h] = artCall[h]
                                    /\ (Deleting(h)' <=> Deleting(h))
      /\ On(c, k)' <=> "writing" # "idle"
      /\ artCall'[c].pc = "writing"
      /\ Deleting(c)' <=> "writing" \in {"unlook", "unlink", "unlinkMeta"}
  BY <1>2, AfterMove
<1>5. Doubtful(k) => Doubtful(k)'
  BY <1>3 DEF Doubtful
<1>6. CallsFit(k)'
  BY <1>1, <1>3, <1>4 DEF CallsFit, Deleting
<1>7. ContentFits(k)'
  BY <1>1, <1>3, <1>4, <1>5 DEF ContentFits, Stored, Doubtful, CallsFit
<1>8. SidecarFits(k)'
  BY <1>1, <1>3, <1>4 DEF SidecarFits, Match, Stored, CallsFit
<1>9. OnlyAbout(k)
  BY <1>3 DEF OnlyAbout, ArtInv, Stored
<1>11. DirHolds'
  BY <1>1 DEF DirHolds, ArtInv, OpenFile
<1> QED
  BY <1>1, <1>2, <1>6, <1>7, <1>8, <1>9, <1>11, ArtStep DEF ArtFits, On

(* The bytes are there.                                                    *)
LEMMA StoreBytesKeeps ==
  ASSUME ArtInv, NEW c \in ArtCalls, NEW k \in ArtKeys, k = artCall[c].key, StoreBytes(c)
  PROVE  ArtInv'
<1>1. /\ artCall[c].pc \in {"write", "writing"} /\ backend # "memory" /\ On(c, k)
      /\ CallsFit(k) /\ ContentFits(k) /\ SidecarFits(k)
      /\ content[k] \in Stored /\ sidecar[k] \in Stored /\ artFaults \in Nat
  BY ArtCallOf DEF StoreBytes, ArtAt, ArtKey
<1>2. ArtMoves(c, k, "meta")
  BY <1>1, GoesOn DEF StoreBytes, ArtPc
<1>3. /\ UNCHANGED <<backend, disturbed, raced>> /\ UNCHANGED <<sidecar, kept, artFaults>>
      /\ content'[k] = "whole" \/ (content'[k] = content[k] /\ backend = "local" /\ k \in raced)
      /\ content' \in [ArtKeys -> Stored] /\ (\A j \in ArtKeys \ {k} : content'[j] = content[j])
  BY DEF StoreBytes, ArtKey, ArtInv, Stored
<1>4. /\ \A h \in ArtCalls \ {c} : (On(h, k)' <=> On(h, k)) /\ artCall'[h] = artCall[h]
                                    /\ (Deleting(h)' <=> Deleting(h))
      /\ On(c, k)' <=> "meta" # "idle"
      /\ artCall'[c].pc = "meta"
      /\ Deleting(c)' <=> "meta" \in {"unlook", "unlink", "unlinkMeta"}
  BY <1>2, AfterMove
<1>5. Doubtful(k) => Doubtful(k)'
  BY <1>3 DEF Doubtful
<1>6. CallsFit(k)'
  BY <1>1, <1>3, <1>4 DEF CallsFit, Deleting
<1>7. ContentFits(k)'
  BY <1>1, <1>3, <1>4, <1>5 DEF ContentFits, Stored, CallsFit, Doubtful
<1>8. SidecarFits(k)'
  BY <1>1, <1>3, <1>4 DEF SidecarFits, Match, Stored, CallsFit
<1>9. OnlyAbout(k)
  BY <1>3 DEF OnlyAbout, ArtInv, Stored
<1>11. DirHolds'
  BY <1>1 DEF DirHolds, ArtInv, StoreBytes, ArtKey
<1> QED
  BY <1>1, <1>2, <1>6, <1>7, <1>8, <1>9, <1>11, ArtStep DEF ArtFits, On

(* The sidecar is written.                                                 *)
LEMMA PutMetaKeeps ==
  ASSUME ArtInv, NEW c \in ArtCalls, NEW k \in ArtKeys, k = artCall[c].key, PutMeta(c)
  PROVE  ArtInv'
<1>1. /\ artCall[c].pc = "meta" /\ backend # "memory" /\ On(c, k)
      /\ CallsFit(k) /\ ContentFits(k) /\ SidecarFits(k)
      /\ content[k] \in Stored /\ sidecar[k] \in Stored /\ artFaults \in Nat
  BY ArtCallOf DEF PutMeta, ArtAt, ArtKey
<1>2. ArtMoves(c, k, "idle")
  BY GoesIdle DEF PutMeta
<1>3. /\ UNCHANGED <<backend, disturbed, raced>> /\ UNCHANGED <<content, artFaults>>
      /\ sidecar'[k] = "whole"
      /\ sidecar' \in [ArtKeys -> Stored] /\ (\A j \in ArtKeys \ {k} : sidecar'[j] = sidecar[j])
      /\ kept' \in {kept, kept \cup {k}}
      /\ kept' # kept => \A h \in ArtCalls \ {c} : ~(On(h, k) /\ Deleting(h))
  BY DEF PutMeta, ArtKey, ArtInv, Stored, OthersOn, On, ArtAt
<1>4. /\ \A h \in ArtCalls \ {c} : (On(h, k)' <=> On(h, k)) /\ artCall'[h] = artCall[h]
                                    /\ (Deleting(h)' <=> Deleting(h))
      /\ On(c, k)' <=> "idle" # "idle"
      /\ artCall'[c].pc = "idle"
      /\ Deleting(c)' <=> "idle" \in {"unlook", "unlink", "unlinkMeta"}
  BY <1>2, AfterMove
<1>5. Doubtful(k) => Doubtful(k)'
  BY <1>3 DEF Doubtful
<1>6. CallsFit(k)'
  BY <1>1, <1>3, <1>4 DEF CallsFit, Deleting
<1>7. ContentFits(k)'
  BY <1>1, <1>3, <1>4, <1>5 DEF ContentFits, Stored, Doubtful
<1>8. SidecarFits(k)'
  BY <1>1, <1>3, <1>4 DEF SidecarFits, Match, Stored, ContentFits, Doubtful, CallsFit
<1>9. OnlyAbout(k)
  BY <1>3 DEF OnlyAbout, ArtInv, Stored
<1>11. DirHolds'
  BY <1>1 DEF DirHolds, ArtInv, PutMeta
<1> QED
  BY <1>1, <1>2, <1>6, <1>7, <1>8, <1>9, <1>11, ArtStep DEF ArtFits, On

(* A write fails: a file it cut is disturbed, one it could not open is as  *)
(* it was.                                                                 *)
LEMMA PutFailsKeeps ==
  ASSUME ArtInv, NEW c \in ArtCalls, NEW k \in ArtKeys, k = artCall[c].key, PutFails(c)
  PROVE  ArtInv'
<1>1. /\ artCall[c].pc \in {"mkdir", "write", "writing", "meta"} /\ backend # "memory" /\ On(c, k)
      /\ CallsFit(k) /\ ContentFits(k) /\ SidecarFits(k)
      /\ content[k] \in Stored /\ sidecar[k] \in Stored /\ artFaults \in Nat
  BY ArtCallOf DEF PutFails, ArtAt, ArtKey
<1>2. ArtMoves(c, k, "idle")
  BY GoesIdle DEF PutFails
<1>3. /\ UNCHANGED <<backend, raced, content, kept>>
      /\ disturbed' = (IF artCall[c].pc = "writing" THEN disturbed \cup {k} ELSE disturbed)
      /\ artFaults' \in {artFaults, artFaults + 1}
      /\ artFaults' = artFaults => CannotPut(c) /\ sidecar' = sidecar
      /\ sidecar' \in [ArtKeys -> Stored] /\ (\A j \in ArtKeys \ {k} : sidecar'[j] = sidecar[j])
  <2>1. /\ UNCHANGED <<backend, raced, content, kept>>
        /\ disturbed' = (IF artCall[c].pc = "writing" THEN disturbed \cup {k} ELSE disturbed)
    BY DEF PutFails, ArtAt, ArtKey
  <2>2. /\ artFaults' \in {artFaults, artFaults + 1}
        /\ artFaults' = artFaults => CannotPut(c)
    BY <1>1 DEF PutFails, ArtFault
  <2>3. sidecar' = sidecar \/ (~CannotPut(c) /\ sidecar' = [sidecar EXCEPT ![k] = "torn"])
    BY DEF PutFails, ArtKey
  <2>4. sidecar' \in [ArtKeys -> Stored] /\ (\A j \in ArtKeys \ {k} : sidecar'[j] = sidecar[j])
    BY <2>3 DEF ArtInv, Stored
  <2> QED
    BY <2>1, <2>2, <2>3, <2>4
<1>4. /\ \A h \in ArtCalls \ {c} : (On(h, k)' <=> On(h, k)) /\ artCall'[h] = artCall[h]
                                    /\ (Deleting(h)' <=> Deleting(h))
      /\ On(c, k)' <=> "idle" # "idle"
      /\ artCall'[c].pc = "idle"
      /\ Deleting(c)' <=> "idle" \in {"unlook", "unlink", "unlinkMeta"}
  BY <1>2, AfterMove
<1>5. Doubtful(k) => Doubtful(k)'
  BY <1>3 DEF Doubtful
<1>6. CallsFit(k)'
  BY <1>1, <1>3, <1>4 DEF CallsFit, Deleting
<1>7. ContentFits(k)'
  BY <1>1, <1>3, <1>4, <1>5 DEF ContentFits, Stored
<1>8. SidecarFits(k)'
  <2> SUFFICES ASSUME k \notin disturbed', artFaults' = 0, backend' # "memory"
               PROVE  SidecarFits(k)'
    BY DEF SidecarFits
  <2>1. k \notin disturbed /\ artFaults = 0 /\ CannotPut(c) /\ sidecar' = sidecar
    BY <1>1, <1>3
  <2>2. \A h \in ArtCalls : ~On(h, k)'
    BY <1>1, <1>4, <2>1 DEF CallsFit
  <2>3. Match(k)
    <3>1. CASE artCall[c].pc = "write"
      BY <1>1, <2>1, <3>1 DEF SidecarFits, Match
    <3>2. CASE artCall[c].pc # "write"
      <4>1. backend = "local" /\ ~ownerDir
        BY <2>1, <3>2 DEF CannotPut, ArtAt
      <4> QED
        BY <4>1 DEF ArtInv, DirHolds, Match
    <3> QED
      BY <3>1, <3>2
  <2>4. Match(k)'
    BY <1>3, <2>1, <2>3 DEF Match
  <2> QED
    BY <2>2, <2>4 DEF SidecarFits
<1>9. OnlyAbout(k)
  BY <1>3 DEF OnlyAbout, ArtInv, Stored
<1>11. DirHolds'
  BY <1>1 DEF DirHolds, ArtInv, PutFails, CannotPut, ArtAt, ArtKey
<1> QED
  BY <1>1, <1>2, <1>6, <1>7, <1>8, <1>9, <1>11, ArtStep DEF ArtFits, On

(* Looking: what is there is not written again, unless HEAD failed.        *)
LEMMA LookKeeps ==
  ASSUME ArtInv, NEW c \in ArtCalls, NEW k \in ArtKeys, k = artCall[c].key, Look(c)
  PROVE  ArtInv'
<1>1. /\ artCall[c].pc = "look" /\ backend # "memory" /\ On(c, k)
      /\ CallsFit(k) /\ ContentFits(k) /\ SidecarFits(k)
      /\ content[k] \in Stored /\ sidecar[k] \in Stored /\ artFaults \in Nat
  BY ArtCallOf DEF Look, ArtAt, ArtKey
<1>2. PICK p \in {"meta", "mkdir", "write"} :
        /\ ArtGo(c, p) /\ (p = "meta" => content[k] # "none")
        /\ artFaults' \in {artFaults, artFaults + 1}
        /\ artFaults' = artFaults => (p = "meta" <=> content[k] # "none")
        /\ backend # "s3" => artFaults' = artFaults
  <2>1. PICK answered \in BOOLEAN :
          /\ IF answered THEN UNCHANGED artFaults ELSE backend = "s3" /\ ArtFault
          /\ ArtGo(c, IF AlreadyStored(c, answered) THEN "meta"
                      ELSE IF backend = "local" THEN "mkdir" ELSE "write")
    BY DEF Look
  <2>2. AlreadyStored(c, answered) <=> answered /\ content[k] # "none"
    BY DEF AlreadyStored, ArtKey
  <2>3. artFaults' \in {artFaults, artFaults + 1} /\ (artFaults' = artFaults => answered) /\ (backend # "s3" => artFaults' = artFaults)
    BY <1>1, <2>1 DEF ArtFault
  <2>4. CASE AlreadyStored(c, answered)
    BY <2>1, <2>2, <2>3, <2>4
  <2>5. CASE ~AlreadyStored(c, answered)
    BY <2>1, <2>2, <2>3, <2>5
  <2> QED
    BY <2>4, <2>5
<1>10. ArtMoves(c, k, p) /\ p # "idle"
  BY <1>1, <1>2, GoesOn DEF ArtPc
<1>3. UNCHANGED <<backend, disturbed, raced, content, sidecar, kept>>
  BY DEF Look
<1>4. /\ \A h \in ArtCalls \ {c} : (On(h, k)' <=> On(h, k)) /\ artCall'[h] = artCall[h]
                                    /\ (Deleting(h)' <=> Deleting(h))
      /\ On(c, k)'
      /\ artCall'[c].pc = p
      /\ ~Deleting(c)'
  BY <1>10, AfterMove
<1>5. k \notin disturbed => content[k] # "torn"
  BY <1>1 DEF ContentFits, CallsFit
<1>6. CallsFit(k)'
  BY <1>1, <1>2, <1>3, <1>4 DEF CallsFit, Deleting
<1>7. ContentFits(k)'
  <2>1. Doubtful(k)' <=> Doubtful(k)
    BY <1>3 DEF Doubtful
  <2>2. p = "meta" /\ ~Doubtful(k) => content[k] = "whole"
    BY <1>1, <1>2, <1>5 DEF ContentFits, Doubtful, Stored
  <2>3. p \in {"mkdir", "write"} /\ backend = "local" => content[k] = "none"
    BY <1>2
  <2>4. k \notin disturbed => content[k] # "torn"
    BY <1>5
  <2> QED
    BY <1>1, <1>3, <1>4, <2>1, <2>2, <2>3, <2>4 DEF ContentFits
<1>8. SidecarFits(k)'
  <2> SUFFICES ASSUME k \notin disturbed', artFaults' = 0, backend' # "memory"
               PROVE  SidecarFits(k)'
    BY DEF SidecarFits
  <2>1. \A h \in ArtCalls : On(h, k) => h = c
    BY <1>1, <1>3 DEF CallsFit
  <2>2. artFaults = 0 /\ artFaults' = artFaults
    BY <1>1, <1>2
  <2>3. Match(k)
    BY <1>1, <1>3, <2>1, <2>2 DEF SidecarFits
  <2>4. p \in {"mkdir", "write"} => content[k] = "none" /\ sidecar[k] # "whole"
    BY <1>2, <2>2, <2>3 DEF Match
  <2> QED
    BY <1>2, <1>3, <1>4, <2>1, <2>4 DEF SidecarFits
<1>9. OnlyAbout(k)
  BY <1>2, <1>3 DEF OnlyAbout, ArtInv
<1>11. DirHolds'
  BY <1>1 DEF DirHolds, ArtInv, Look
<1> QED
  BY <1>1, <1>6, <1>7, <1>8, <1>9, <1>10, <1>11, ArtStep DEF ArtFits

(* In memory no call is ever under way.                                    *)
LEMMA PutInMemoryKeeps ==
  ASSUME ArtInv, NEW k \in ArtKeys, PutInMemory(k)
  PROVE  ArtInv'
<1>1. backend = "memory" /\ UNCHANGED <<backend, sidecar, artCall, disturbed, raced, artFaults>>
  BY DEF PutInMemory
<1>2. \A c \in ArtCalls, j \in ArtKeys : ~On(c, j) /\ ~On(c, j)'
  BY <1>1 DEF ArtInv, On
<1>3. /\ content' \in [ArtKeys -> Stored] /\ content'[k] = "whole"
      /\ \A j \in ArtKeys \ {k} : content'[j] = content[j]
      /\ kept' = kept \cup {k}
  BY DEF PutInMemory, ArtInv, Stored
<1>4. ASSUME NEW j \in ArtKeys PROVE ArtFits(j)'
  <2>1. CallsFit(j) /\ ContentFits(j)
    BY DEF ArtInv, ArtFits
  <2>2. CallsFit(j)'
    BY <1>1, <1>2, <2>1 DEF CallsFit
  <2>3. Doubtful(j)' <=> Doubtful(j)
    BY <1>1 DEF Doubtful
  <2>4. ContentFits(j)'
    BY <1>1, <1>2, <1>3, <2>1, <2>3 DEF ContentFits
  <2>5. SidecarFits(j)'
    BY <1>1 DEF SidecarFits
  <2> QED
    BY <2>2, <2>4, <2>5 DEF ArtFits
<1> QED
  BY <1>1, <1>3, <1>4 DEF ArtInv, DirHolds

(* The process dies: what was under way is disturbed, and there is a       *)
(* failure to account for.                                                 *)
LEMMA ArtDiesKeeps ==
  ASSUME ArtInv, ArtDies
  PROVE  ArtInv'
<1>1. /\ backend' = backend /\ raced' = raced /\ artFaults' = artFaults + 1 /\ artFaults \in Nat
      /\ artCall' = [c \in ArtCalls |-> NoArtCall]
      /\ disturbed' = disturbed \cup {ArtKey(c) : c \in {d \in ArtCalls : ~ArtAt(d, "idle")}}
      /\ backend # "memory" => UNCHANGED <<content, kept>>
      /\ backend = "memory" => kept' = {} /\ content' = [k \in ArtKeys |-> "none"]
  BY DEF ArtDies, ArtFault, ArtInv
<1>2. sidecar' \in [ArtKeys -> Stored]
  BY DEF ArtDies, ArtInv, Stored
<1>3. content' \in [ArtKeys -> Stored] /\ kept' \subseteq kept
  BY <1>1 DEF ArtInv, Stored
<1>4. /\ artCall' \in [ArtCalls -> ArtCallRow] /\ \A c \in ArtCalls : artCall'[c].pc = "idle"
      /\ \A c \in ArtCalls, k \in ArtKeys : ~On(c, k)'
  BY <1>1, IdleArt DEF On
<1>5. ASSUME NEW k \in ArtKeys PROVE ArtFits(k)'
  <2>1. CallsFit(k) /\ ContentFits(k)
    BY DEF ArtInv, ArtFits
  <2>2. k \in disturbed => k \in disturbed'
    BY <1>1
  <2>3. k \notin disturbed' => \A c \in ArtCalls : ~On(c, k)
    BY <1>1 DEF On, ArtAt, ArtKey
  <2>4. CallsFit(k)'
    BY <1>1, <1>4, <2>1, <2>2 DEF CallsFit
  <2>5. Doubtful(k) => Doubtful(k)'
    BY <1>1, <2>2 DEF Doubtful
  <2>6. ContentFits(k)'
    <3>1. CASE backend = "memory"
      BY <1>1, <1>4, <3>1 DEF ContentFits
    <3>2. CASE backend # "memory"
      <4>1. content' = content /\ kept' = kept
        BY <1>1, <3>2
      <4>2. k \notin disturbed' => content[k] # "torn"
        BY <2>1, <2>2, <2>3 DEF ContentFits
      <4> QED
        BY <1>1, <1>4, <2>1, <2>5, <4>1, <4>2 DEF ContentFits
    <3> QED
      BY <3>1, <3>2
  <2>7. SidecarFits(k)'
    BY <1>1 DEF SidecarFits
  <2> QED
    BY <2>4, <2>6, <2>7 DEF ArtFits
<1>6. DirHolds'
  BY DEF DirHolds, ArtDies, ArtInv
<1> QED
  BY <1>1, <1>2, <1>3, <1>4, <1>5, <1>6 DEF ArtInv

(* Every step keeps the invariant.                                         *)
LEMMA ArtSteps == ArtInv /\ [ArtifactsNext]_artVars => ArtInv'
<1> SUFFICES ASSUME ArtInv, [ArtifactsNext]_artVars
             PROVE  ArtInv'
  OBVIOUS
<1>1. CASE UNCHANGED artVars
  BY <1>1 DEF artVars, ArtInv, ArtFits, CallsFit, ContentFits, SidecarFits, On, Doubtful, Match, Deleting,
            DirHolds
<1>2. ASSUME NEW c \in ArtCalls, NEW k \in ArtKeys, Put(c, k) \/ Delete(c, k)
      PROVE  ArtInv'
  BY <1>2, PutKeeps, DeleteKeeps
<1>3. ASSUME NEW c \in ArtCalls,
             \/ Look(c) \/ MakeDir(c) \/ OpenFile(c) \/ StoreBytes(c) \/ PutMeta(c) \/ PutFails(c)
             \/ DeleteLooks(c) \/ Unlink(c) \/ UnlinkMeta(c) \/ RemoveDir(c)
      PROVE  ArtInv'
  <2>1. artCall[c].pc # "idle"
    BY <1>3 DEF Look, MakeDir, OpenFile, StoreBytes, PutMeta, PutFails, DeleteLooks, Unlink,
                UnlinkMeta, RemoveDir, ArtAt
  <2>2. PICK k \in ArtKeys : k = artCall[c].key
    BY <2>1, ArtCallOf
  <2> QED
    BY <1>3, <2>2, LookKeeps, MakeDirKeeps, OpenFileKeeps, StoreBytesKeeps, PutMetaKeeps,
       PutFailsKeeps, DeleteLooksKeeps, UnlinkKeeps, UnlinkMetaKeeps, RemoveDirKeeps
<1>4. ASSUME NEW k \in ArtKeys, PutInMemory(k)
      PROVE  ArtInv'
  BY <1>4, PutInMemoryKeeps
<1>5. CASE ArtDies
  BY <1>5, ArtDiesKeeps
<1> QED
  BY <1>1, <1>2, <1>3, <1>4, <1>5 DEF ArtifactsNext

(* In every behaviour of any number of contents and calls, of requests and *)
(* writes that fail and of deaths, the invariant holds (put and delete of  *)
(* local-store.ts, s3-store.ts; artifact.ts).                              *)
THEOREM ArtifactsKept == ArtifactsInit /\ [][ArtifactsNext]_artVars => []ArtInv
BY ArtStarts, ArtSteps, PTL

(* What a put answered for is whole, and a sidecar describes it, wherever  *)
(* no calls overlapped and none was cut or failed while writing            *)
(* (local-store.ts:88, s3-store.ts put and delete).                        *)
LEMMA ArtifactsAreSafe == ArtInv => KeptIsWhole /\ HeadMatchesContent
<1> SUFFICES ASSUME ArtInv PROVE KeptIsWhole /\ HeadMatchesContent
  OBVIOUS
<1>1. KeptIsWhole
  <2>1. \A k \in kept : k \in ArtKeys /\ ContentFits(k)
    BY DEF ArtInv, ArtFits
  <2> QED
    BY <2>1 DEF KeptIsWhole, ContentFits, Doubtful, VerifyOf, GetOf
<1>2. HeadMatchesContent
  <2>1. \A k \in ArtKeys : SidecarFits(k)
    BY DEF ArtInv, ArtFits
  <2> QED
    BY <2>1 DEF HeadMatchesContent, SidecarFits, Match, HeadOf, VerifyOf, GetOf, On, ArtAt, ArtKey
<1> QED
  BY <1>1, <1>2

-----------------------------------------------------------------------------
(***************************************************************************)
(* Deliveries.                                                             *)
(*                                                                         *)
(* A key is excused by calls that overlap, a lost answer, a restart, or a  *)
(* provider without memory; without an excuse one call at a time works on  *)
(* the key, and nothing has been accepted for it while another attempt may *)
(* follow (OnceOnly).                                                      *)
(***************************************************************************)
(* The delays the policy can draw, and the rows by their types.            *)
Delays == {0} \cup UNION {NextDelay(n, cls) : n \in 0..MaxDeliveryAttempts, cls \in RetryClasses}
AttemptRow ==
  [status : DeliveryAttemptStatuses, attempt : 0..MaxDeliveryAttempts, delay : Delays,
   provider : DeliveryProviders, url : DeliveryUrls]
(* The answers of a destination.                                           *)
Answers == {0, 200, 302, 404, 503}
DeliverRow ==
  [pc : {"idle", "check", "send", "waiting", "redirect"}, key : DeliveryKeys \cup {0},
   url : DeliveryUrls \cup {0}, hops : Nat, status : Answers]

(* Call c is at work on key k.                                             *)
AtWorkOn(c, k) == deliverCall[c].pc # "idle" /\ deliverCall[c].key = k

(* A key without an excuse: one call at most, and nothing accepted yet     *)
(* while there may be another attempt.                                     *)
OnceOnly(k) ==
  /\ received[k] <= 1
  /\ \A c, d \in DeliveryCalls : AtWorkOn(c, k) /\ AtWorkOn(d, k) => c = d
  /\ \A c \in DeliveryCalls : AtWorkOn(c, k) => attemptOf[k].status = "in_progress"
  /\ attemptOf[k].status \in {"none", "pending", "failed_retriable"} => received[k] = 0
  /\ attemptOf[k].status = "in_progress" /\ (\A c \in DeliveryCalls : ~AtWorkOn(c, k)) => k \in settledKeys

(* What a key's record, memory and count say together.                     *)
KeyFits(k) ==
  /\ attemptOf[k].status \in {"none", "pending"} => attemptOf[k].attempt = 0
  /\ attemptOf[k].status = "failed_retriable" => attemptOf[k].attempt < MaxDeliveryAttempts
  /\ attemptOf[k].status = "delivered" => received[k] > 0
  /\ k \in settledKeys => received[k] > 0
  /\ k \notin excused => OnceOnly(k)

(* A call under way has a scheduled key, sends only what was checked, and  *)
(* has an acceptance to show for an accepting answer; without an excuse    *)
(* there is none before.                                                   *)
DeliverFits(c) ==
  LET q == deliverCall[c]
  IN q.pc # "idle" =>
       /\ q.key \in DeliveryKeys /\ q.url \in DeliveryUrls
       /\ attemptOf[q.key].status # "none"
       /\ q.pc = "send" => attemptOf[q.key].provider = "email" \/ Check(q.url)
       /\ q.pc = "waiting" /\ Accepted(q.status) => received[q.key] > 0
       /\ q.key \notin excused /\ ~(q.pc = "waiting" /\ Accepted(q.status)) => received[q.key] = 0

(* The inductive invariant of deliveries.                                  *)
DeliveryInv ==
  /\ deliverCall \in [DeliveryCalls -> DeliverRow]
  /\ attemptOf \in [DeliveryKeys -> AttemptRow]
  /\ received \in [DeliveryKeys -> Nat]
  /\ settledKeys \subseteq DeliveryKeys
  /\ contacted \subseteq DeliveryUrls
  /\ OnlyCheckedContacted
  /\ \A k \in DeliveryKeys : KeyFits(k)
  /\ \A c \in DeliveryCalls : DeliverFits(c)

-----------------------------------------------------------------------------
(* What the guard lets through is outside the internal networks, but for   *)
(* addresses that map one of theirs.                                       *)
LEMMA CheckedIsOutside ==
  ASSUME NEW u \in DeliveryUrls, Check(u)
  PROVE  \A ip \in u.addrs : Internal(ip) => ip.kind = "mapped" /\ ~ip.metadata
<1> SUFFICES ASSUME NEW ip \in u.addrs, Internal(ip)
             PROVE  ip.kind = "mapped" /\ ~ip.metadata
  OBVIOUS
<1>1. ip.v \in {0, 4, 6}
  BY DeliveryUrlsAssumption
<1>2. ~IsForbiddenIp(ip, FALSE)
  BY DEF Check, Forbidden
<1>3. ip.v = 6 /\ ~PrivateV6(ip.kind) /\ ~ip.metadata
  BY <1>1, <1>2 DEF IsForbiddenIp, MetadataHost, Internal
<1> QED
  BY <1>3 DEF Internal

(* The refusal of a redirect has a class the policy knows.                 *)
LEMMA RefusalsAreClassified ==
  ASSUME NEW u \in DeliveryUrls
  PROVE  ClassOfRefusal(u) \in RetryClasses
BY DeliveryUrlsAssumption DEF ClassOfRefusal, ClassesOfError, RetryClasses

-----------------------------------------------------------------------------
(* A step about one key k and the calls C for it.                          *)
LEMMA KeyStep ==
  ASSUME DeliveryInv, NEW k \in DeliveryKeys, NEW C \in SUBSET DeliveryCalls,
         deliverCall' \in [DeliveryCalls -> DeliverRow],
         attemptOf' \in [DeliveryKeys -> AttemptRow],
         received' \in [DeliveryKeys -> Nat],
         settledKeys' \subseteq DeliveryKeys,
         contacted' \subseteq DeliveryUrls, OnlyCheckedContacted',
         \A h \in DeliveryCalls \ C : deliverCall'[h] = deliverCall[h],
         \A h \in C : DeliverFits(h)' /\ (AtWorkOn(h, k)' \/ deliverCall'[h].pc = "idle")
                      /\ (AtWorkOn(h, k) \/ deliverCall[h].pc = "idle"),
         \A j \in DeliveryKeys \ {k} :
           /\ attemptOf'[j] = attemptOf[j] /\ received'[j] = received[j]
           /\ j \in settledKeys' <=> j \in settledKeys
           /\ j \in excused' <=> j \in excused,
         KeyFits(k)',
         \A h \in DeliveryCalls \ C : AtWorkOn(h, k) =>
           /\ attemptOf'[k].status # "none" /\ attemptOf'[k].provider = attemptOf[k].provider
           /\ received'[k] >= received[k] /\ k \in excused'
  PROVE  DeliveryInv'
<1>1. ASSUME NEW h \in DeliveryCalls PROVE DeliverFits(h)'
  <2>1. CASE h \in C
    BY <2>1
  <2>2. CASE h \notin C
    <3> DEFINE q == deliverCall[h]
    <3>1. deliverCall'[h] = q /\ DeliverFits(h)
      BY <2>2 DEF DeliveryInv
    <3>2. CASE q.pc = "idle"
      BY <3>1, <3>2 DEF DeliverFits
    <3>3. CASE q.pc # "idle" /\ q.key = k
      <4>1. AtWorkOn(h, k) /\ received[k] \in Nat /\ received'[k] \in Nat
        BY <3>3 DEF AtWorkOn, DeliveryInv
      <4>2. /\ attemptOf'[k].status # "none" /\ attemptOf'[k].provider = attemptOf[k].provider
            /\ received'[k] >= received[k] /\ k \in excused'
        BY <2>2, <4>1
      <4> HIDE DEF q
      <4> QED
        BY <3>1, <3>3, <4>1, <4>2 DEF DeliverFits, q
    <3>4. CASE q.pc # "idle" /\ q.key # k
      <4>1. q.key \in DeliveryKeys \ {k}
        BY <3>1, <3>4 DEF DeliverFits
      <4>2. /\ attemptOf'[q.key] = attemptOf[q.key] /\ received'[q.key] = received[q.key]
            /\ q.key \in excused' <=> q.key \in excused
        BY <4>1
      <4> QED
        BY <3>1, <3>4, <4>2 DEF DeliverFits
    <3> QED
      BY <3>2, <3>3, <3>4
  <2> QED
    BY <2>1, <2>2
<1>2. ASSUME NEW j \in DeliveryKeys PROVE KeyFits(j)'
  <2>1. CASE j = k
    BY <2>1
  <2>2. CASE j # k
    <3>1. \A h \in DeliveryCalls : AtWorkOn(h, j)' <=> AtWorkOn(h, j)
      BY <2>2 DEF AtWorkOn
    <3>2. /\ attemptOf'[j] = attemptOf[j] /\ received'[j] = received[j]
          /\ j \in settledKeys' <=> j \in settledKeys
          /\ j \in excused' <=> j \in excused
      BY <2>2
    <3>3. KeyFits(j)
      BY DEF DeliveryInv
    <3>4. OnceOnly(j) => OnceOnly(j)'
      BY <3>1, <3>2 DEF OnceOnly
    <3> QED
      BY <3>2, <3>3, <3>4 DEF KeyFits
  <2> QED
    BY <2>1, <2>2
<1> QED
  BY <1>1, <1>2 DEF DeliveryInv

(* What the invariant says of the rows.                                    *)
LEMMA RowsOfDelivery ==
  ASSUME DeliveryInv
  PROVE  /\ \A k \in DeliveryKeys : /\ attemptOf[k] \in AttemptRow /\ KeyFits(k) /\ received[k] \in Nat
                                    /\ attemptOf[k].attempt \in 0..MaxDeliveryAttempts
                                    /\ attemptOf[k].url \in DeliveryUrls
                                    /\ attemptOf[k].status \in DeliveryAttemptStatuses
                                    /\ attemptOf[k].provider \in DeliveryProviders
                                    /\ attemptOf[k].delay \in Delays
         /\ \A c \in DeliveryCalls : deliverCall[c] \in DeliverRow /\ DeliverFits(c)
BY DEF DeliveryInv, AttemptRow

(* The idle call.                                                          *)
LEMMA IdleDeliver == NoDeliver \in DeliverRow /\ NoDeliver.pc = "idle"
BY DEF NoDeliver, DeliverRow, Answers

(* The delays of a failure, and whether it ends the delivery.              *)
LEMMA DelayDrawn ==
  ASSUME NEW n \in 0..MaxDeliveryAttempts, NEW cls \in RetryClasses, NEW d \in NextDelay(n, cls)
  PROVE  d \in Delays /\ 0 \in Delays /\ (d # -1 => n < MaxDeliveryAttempts)
<1>1. d \in Delays /\ 0 \in Delays
  BY DEF Delays
<1>2. d # -1 => ~(n >= MaxDeliveryAttempts)
  BY DEF NextDelay
<1> QED
  BY <1>1, <1>2, DeliveryAssumption

(* What a failure makes of the record: a closed one stays closed.          *)
LEMMA FailedRow ==
  ASSUME DeliveryInv, NEW c \in DeliveryCalls, NEW k \in DeliveryKeys, NEW cls \in RetryClasses,
         Failed(c, k, cls)
  PROVE  /\ deliverCall' = [deliverCall EXCEPT ![c] = NoDeliver]
         /\ attemptOf' \in [DeliveryKeys -> AttemptRow]
         /\ \A j \in DeliveryKeys \ {k} : attemptOf'[j] = attemptOf[j]
         /\ attemptOf'[k].provider = attemptOf[k].provider
         /\ attemptOf'[k].attempt = attemptOf[k].attempt
         /\ attemptOf'[k].status \in {"delivered", "failed_terminal", "failed_retriable"}
         /\ attemptOf'[k].status = "delivered" => attemptOf[k].status = "delivered"
         /\ attemptOf'[k].status = "failed_retriable" => attemptOf[k].attempt < MaxDeliveryAttempts
<1> DEFINE r == attemptOf[k]
<1>1. r \in AttemptRow /\ r.attempt \in 0..MaxDeliveryAttempts /\ deliverCall' = [deliverCall EXCEPT ![c] = NoDeliver]
  BY RowsOfDelivery DEF Failed
<1>2. CASE r.status \in {"delivered", "failed_terminal"}
  BY <1>1, <1>2 DEF Failed, DeliveryInv
<1>3. CASE r.status \notin {"delivered", "failed_terminal"}
  <2>1. PICK d \in NextDelay(r.attempt, cls) :
          attemptOf' = [attemptOf EXCEPT ![k].status = IF d = -1 THEN "failed_terminal" ELSE "failed_retriable",
                                         ![k].delay = IF d = -1 THEN 0 ELSE d]
    BY <1>3 DEF Failed
  <2>2. d \in Delays /\ 0 \in Delays /\ (d # -1 => r.attempt < MaxDeliveryAttempts)
    <3> HIDE DEF r
    <3> QED
      BY <1>1, DelayDrawn
  <2> DEFINE x == IF d = -1 THEN "failed_terminal" ELSE "failed_retriable"
             y == IF d = -1 THEN 0 ELSE d
             u == [r EXCEPT !.status = x, !.delay = y]
  <2>3. x \in {"failed_terminal", "failed_retriable"} /\ y \in Delays
        /\ (x = "failed_retriable" => r.attempt < MaxDeliveryAttempts)
    BY <2>2
  <2>4. attemptOf' = [attemptOf EXCEPT ![k].status = x, ![k].delay = y]
    BY <2>1
  <2> HIDE DEF x, y
  <2>5. attemptOf' = [attemptOf EXCEPT ![k] = u]
    BY <2>4 DEF DeliveryInv, AttemptRow
  <2>6. u \in AttemptRow /\ u.status = x /\ u.attempt = r.attempt /\ u.provider = r.provider
    BY <1>1, <2>3 DEF AttemptRow, DeliveryAttemptStatuses
  <2> HIDE DEF u
  <2> QED
    BY <1>1, <2>3, <2>5, <2>6 DEF DeliveryInv
<1> QED
  BY <1>2, <1>3

(* A call whose attempt fails for a reason that says nothing of the        *)
(* destination, or after an answer that was no acceptance.                 *)
LEMMA FailedKeeps ==
  ASSUME DeliveryInv, NEW c \in DeliveryCalls, NEW k \in DeliveryKeys, NEW cls \in RetryClasses,
         AtWorkOn(c, k), Failed(c, k, cls),
         k \in excused' \/ (k \notin excused /\ received[k] = 0 /\ settledKeys' = settledKeys),
         UNCHANGED <<received, contacted>>,
         settledKeys' \subseteq settledKeys,
         \A j \in DeliveryKeys \ {k} : (j \in excused' <=> j \in excused) /\ (j \in settledKeys' <=> j \in settledKeys),
         k \in excused => k \in excused'
  PROVE  DeliveryInv'
<1>1. /\ deliverCall' = [deliverCall EXCEPT ![c] = NoDeliver]
      /\ attemptOf' \in [DeliveryKeys -> AttemptRow]
      /\ \A j \in DeliveryKeys \ {k} : attemptOf'[j] = attemptOf[j]
      /\ attemptOf'[k].provider = attemptOf[k].provider
      /\ attemptOf'[k].attempt = attemptOf[k].attempt
      /\ attemptOf'[k].status \in {"delivered", "failed_terminal", "failed_retriable"}
      /\ attemptOf'[k].status = "delivered" => attemptOf[k].status = "delivered"
      /\ attemptOf'[k].status = "failed_retriable" => attemptOf[k].attempt < MaxDeliveryAttempts
  BY FailedRow
<1>2. /\ deliverCall' \in [DeliveryCalls -> DeliverRow] /\ deliverCall'[c].pc = "idle"
      /\ \A h \in DeliveryCalls \ {c} : deliverCall'[h] = deliverCall[h]
  BY <1>1, IdleDeliver DEF DeliveryInv
<1>3. DeliverFits(c)'
  BY <1>2 DEF DeliverFits
<1>4. k \notin excused => \A h \in DeliveryCalls : AtWorkOn(h, k) => h = c
  BY RowsOfDelivery DEF KeyFits, OnceOnly
<1>5. KeyFits(k)'
  <2>1. KeyFits(k) /\ received[k] \in Nat /\ received'[k] = received[k]
    BY RowsOfDelivery
  <2>2. k \notin excused' => OnceOnly(k)'
    <3> SUFFICES ASSUME k \notin excused' PROVE OnceOnly(k)'
      OBVIOUS
    <3>1. \A h \in DeliveryCalls : ~AtWorkOn(h, k)'
      BY <1>2, <1>4 DEF AtWorkOn
    <3>2. received'[k] = 0
      BY <2>1
    <3> QED
      BY <1>1, <3>1, <3>2 DEF OnceOnly
  <2> QED
    BY <1>1, <2>1, <2>2 DEF KeyFits
<1>6. /\ contacted' \subseteq DeliveryUrls /\ OnlyCheckedContacted' /\ received' \in [DeliveryKeys -> Nat]
      /\ settledKeys' \subseteq DeliveryKeys
  BY DEF DeliveryInv, OnlyCheckedContacted
<1>7. \A h \in DeliveryCalls \ {c} : AtWorkOn(h, k) => k \in excused'
  BY <1>4
<1>8. \A h \in DeliveryCalls \ {c} : AtWorkOn(h, k) =>
        /\ attemptOf'[k].status # "none" /\ attemptOf'[k].provider = attemptOf[k].provider
        /\ received'[k] >= received[k] /\ k \in excused'
  BY <1>1, <1>7, RowsOfDelivery
<1>9. {c} \in SUBSET DeliveryCalls
  OBVIOUS
<1>10. \A h \in {c} : DeliverFits(h)' /\ (AtWorkOn(h, k)' \/ deliverCall'[h].pc = "idle")
                      /\ (AtWorkOn(h, k) \/ deliverCall[h].pc = "idle")
  BY <1>2, <1>3
<1>11. \A j \in DeliveryKeys \ {k} :
           /\ attemptOf'[j] = attemptOf[j] /\ received'[j] = received[j]
           /\ j \in settledKeys' <=> j \in settledKeys
           /\ j \in excused' <=> j \in excused
  BY <1>1
<1> QED
  BY <1>1, <1>2, <1>5, <1>6, <1>8, <1>9, <1>10, <1>11, KeyStep

(* At the start nothing is recorded, nor sent.                             *)
LEMMA DeliveryStarts == DeliveryInit => DeliveryInv
<1> SUFFICES ASSUME DeliveryInit PROVE DeliveryInv
  OBVIOUS
<1>1. deliverCall \in [DeliveryCalls -> DeliverRow] /\ \A c \in DeliveryCalls : deliverCall[c].pc = "idle"
  BY IdleDeliver DEF DeliveryInit
<1>2. NoAttempt \in AttemptRow /\ NoAttempt.status = "none" /\ NoAttempt.attempt = 0
  <2>1. (CHOOSE u \in DeliveryUrls : TRUE) \in DeliveryUrls
    BY DeliveryAssumption
  <2>2. 0 \in Delays /\ 0 \in 0..MaxDeliveryAttempts
    BY DeliveryAssumption DEF Delays
  <2> DEFINE u == CHOOSE v \in DeliveryUrls : TRUE
  <2>3. NoAttempt = [status |-> "none", attempt |-> 0, delay |-> 0, provider |-> "fake", url |-> u]
    BY DEF NoAttempt
  <2>4. u \in DeliveryUrls
    BY <2>1
  <2> HIDE DEF u
  <2> QED
    BY <2>2, <2>3, <2>4 DEF AttemptRow, DeliveryAttemptStatuses, DeliveryProviders
<1>3. attemptOf \in [DeliveryKeys -> AttemptRow]
      /\ \A k \in DeliveryKeys : attemptOf[k].status = "none" /\ attemptOf[k].attempt = 0
  BY <1>2 DEF DeliveryInit
<1>4. settledKeys = {} /\ \A k \in DeliveryKeys : received[k] = 0
  BY DEF DeliveryInit
<1>5. \A c \in DeliveryCalls : DeliverFits(c)
  BY <1>1 DEF DeliverFits
<1>6. \A k \in DeliveryKeys : KeyFits(k)
  BY <1>1, <1>3, <1>4 DEF KeyFits, OnceOnly, AtWorkOn
<1> QED
  BY <1>1, <1>3, <1>5, <1>6 DEF DeliveryInit, DeliveryInv, OnlyCheckedContacted

(* schedule: a key gets its record.                                        *)
LEMMA ScheduleKeeps ==
  ASSUME DeliveryInv, NEW k \in DeliveryKeys, NEW p \in DeliveryProviders, NEW u \in DeliveryUrls,
         Schedule(k, p, u)
  PROVE  DeliveryInv'
<1> DEFINE r == attemptOf[k]
           f1 == [r EXCEPT !.status = "pending"]
           f2 == [f1 EXCEPT !.provider = p]
           s == [f2 EXCEPT !.url = u]
<1>1. r \in AttemptRow /\ KeyFits(k) /\ r.status = "none"
  BY RowsOfDelivery DEF Schedule
<1>2. f1 \in AttemptRow /\ f1.status = "pending" /\ f1.attempt = r.attempt
  BY <1>1 DEF AttemptRow, DeliveryAttemptStatuses
<1>3. attemptOf' = [attemptOf EXCEPT ![k] = s]
  BY <1>1 DEF Schedule, DeliveryInv, AttemptRow
<1> HIDE DEF f1
<1>4. f2 \in AttemptRow /\ f2.status = "pending" /\ f2.attempt = r.attempt
  BY <1>2 DEF AttemptRow
<1> HIDE DEF f2
<1>5. s \in AttemptRow /\ s.status = "pending" /\ s.attempt = r.attempt
  BY <1>4 DEF AttemptRow
<1> HIDE DEF s
<1>6. /\ attemptOf' \in [DeliveryKeys -> AttemptRow] /\ attemptOf'[k] = s
      /\ \A j \in DeliveryKeys \ {k} : attemptOf'[j] = attemptOf[j]
  BY <1>3, <1>5 DEF DeliveryInv
<1>7. \A c \in DeliveryCalls : ~AtWorkOn(c, k) /\ ~AtWorkOn(c, k)'
  BY <1>1, RowsOfDelivery DEF AtWorkOn, DeliverFits, Schedule
<1>8. KeyFits(k)'
  BY <1>1, <1>5, <1>6, <1>7 DEF KeyFits, OnceOnly, Schedule
<1>9. /\ UNCHANGED <<settledKeys, deliverCall, received, contacted, excused>>
      /\ contacted' \subseteq DeliveryUrls /\ OnlyCheckedContacted' /\ received' \in [DeliveryKeys -> Nat]
      /\ settledKeys' \subseteq DeliveryKeys /\ deliverCall' \in [DeliveryCalls -> DeliverRow]
  BY DEF DeliveryInv, OnlyCheckedContacted, Schedule
<1>10. \A j \in DeliveryKeys \ {k} :
           /\ attemptOf'[j] = attemptOf[j] /\ received'[j] = received[j]
           /\ j \in settledKeys' <=> j \in settledKeys
           /\ j \in excused' <=> j \in excused
  BY <1>6, <1>9
<1>11. {} \in SUBSET DeliveryCalls
  OBVIOUS
<1>12. \A h \in DeliveryCalls \ {} : AtWorkOn(h, k) =>
        /\ attemptOf'[k].status # "none" /\ attemptOf'[k].provider = attemptOf[k].provider
        /\ received'[k] >= received[k] /\ k \in excused'
  BY <1>7
<1>13. \A h \in {} : DeliverFits(h)' /\ (AtWorkOn(h, k)' \/ deliverCall'[h].pc = "idle")
                      /\ (AtWorkOn(h, k) \/ deliverCall[h].pc = "idle")
  OBVIOUS
<1>14. \A h \in DeliveryCalls \ {} : deliverCall'[h] = deliverCall[h]
  BY <1>9
<1> QED
  BY <1>6, <1>8, <1>9, <1>10, <1>11, <1>12, <1>13, <1>14, KeyStep

(* A row with another status, and what it keeps.                           *)
LEMMA RowStatus ==
  ASSUME DeliveryInv, NEW k \in DeliveryKeys, NEW x \in DeliveryAttemptStatuses,
         attemptOf' = [attemptOf EXCEPT ![k].status = x]
  PROVE  /\ attemptOf' \in [DeliveryKeys -> AttemptRow]
         /\ attemptOf'[k].status = x /\ attemptOf'[k].attempt = attemptOf[k].attempt
         /\ attemptOf'[k].provider = attemptOf[k].provider
         /\ \A j \in DeliveryKeys \ {k} : attemptOf'[j] = attemptOf[j]
<1> DEFINE r == attemptOf[k]
           s == [r EXCEPT !.status = x]
<1>1. r \in AttemptRow
  BY RowsOfDelivery
<1>2. attemptOf' = [attemptOf EXCEPT ![k] = s]
  BY DEF DeliveryInv, AttemptRow
<1>3. s \in AttemptRow /\ s.status = x /\ s.attempt = r.attempt /\ s.provider = r.provider
  BY <1>1 DEF AttemptRow
<1> HIDE DEF s
<1> QED
  BY <1>2, <1>3 DEF DeliveryInv

(* A call that ends with an acceptance: nothing else is owed to the key.   *)
LEMMA DeliveredKeeps ==
  ASSUME DeliveryInv, NEW c \in DeliveryCalls, NEW k \in DeliveryKeys,
         AtWorkOn(c, k) \/ deliverCall[c].pc = "idle",
         Delivered(c, k), received[k] > 0, attemptOf[k].status # "none",
         UNCHANGED <<received, contacted>>,
         k \notin excused' => k \notin excused /\ \A h \in DeliveryCalls \ {c} : ~AtWorkOn(h, k),
         settledKeys' \in {settledKeys, settledKeys \cup {k}},
         \A j \in DeliveryKeys \ {k} : j \in excused' <=> j \in excused
  PROVE  DeliveryInv'
<1>1. /\ attemptOf' \in [DeliveryKeys -> AttemptRow]
      /\ attemptOf'[k].status = "delivered" /\ attemptOf'[k].attempt = attemptOf[k].attempt
      /\ attemptOf'[k].provider = attemptOf[k].provider
      /\ \A j \in DeliveryKeys \ {k} : attemptOf'[j] = attemptOf[j]
  <2>1. attemptOf' = [attemptOf EXCEPT ![k].status = "delivered"] /\ "delivered" \in DeliveryAttemptStatuses
    BY DEF Delivered, DeliveryAttemptStatuses
  <2> QED
    BY <2>1, RowStatus
<1>2. /\ deliverCall' \in [DeliveryCalls -> DeliverRow] /\ deliverCall'[c].pc = "idle"
      /\ \A h \in DeliveryCalls \ {c} : deliverCall'[h] = deliverCall[h]
  BY IdleDeliver DEF DeliveryInv, Delivered
<1>3. DeliverFits(c)'
  BY <1>2 DEF DeliverFits
<1>4. /\ contacted' \subseteq DeliveryUrls /\ OnlyCheckedContacted' /\ received' \in [DeliveryKeys -> Nat]
      /\ settledKeys' \subseteq DeliveryKeys
      /\ received'[k] = received[k] /\ received[k] \in Nat
  BY DEF DeliveryInv, OnlyCheckedContacted
<1>5. KeyFits(k)'
  <2>1. KeyFits(k)
    BY RowsOfDelivery
  <2>2. k \notin excused' => OnceOnly(k)'
    <3> SUFFICES ASSUME k \notin excused' PROVE OnceOnly(k)'
      OBVIOUS
    <3>1. \A h \in DeliveryCalls : ~AtWorkOn(h, k)'
      BY <1>2 DEF AtWorkOn
    <3>2. received[k] <= 1
      BY <2>1 DEF KeyFits, OnceOnly
    <3> QED
      BY <1>1, <1>4, <3>1, <3>2 DEF OnceOnly
  <2> QED
    BY <1>1, <1>4, <2>1, <2>2 DEF KeyFits
<1>6. \A h \in DeliveryCalls \ {c} : AtWorkOn(h, k) =>
        /\ attemptOf'[k].status # "none" /\ attemptOf'[k].provider = attemptOf[k].provider
        /\ received'[k] >= received[k] /\ k \in excused'
  BY <1>1, <1>4
<1>7. {c} \in SUBSET DeliveryCalls
  OBVIOUS
<1>8. \A h \in {c} : DeliverFits(h)' /\ (AtWorkOn(h, k)' \/ deliverCall'[h].pc = "idle")
                      /\ (AtWorkOn(h, k) \/ deliverCall[h].pc = "idle")
  BY <1>2, <1>3
<1>9. \A j \in DeliveryKeys \ {k} :
           /\ attemptOf'[j] = attemptOf[j] /\ received'[j] = received[j]
           /\ j \in settledKeys' <=> j \in settledKeys
           /\ j \in excused' <=> j \in excused
  BY <1>1
<1> QED
  BY <1>1, <1>2, <1>4, <1>5, <1>6, <1>7, <1>8, <1>9, KeyStep

(* The record when an attempt starts.                                      *)
LEMMA AttemptStarts ==
  ASSUME DeliveryInv, NEW k \in DeliveryKeys,
         attemptOf[k].status \in {"pending", "failed_retriable", "in_progress"},
         attemptOf' = [attemptOf EXCEPT ![k].status = "in_progress",
               ![k].attempt = IF attemptOf[k].status = "in_progress" THEN @ ELSE @ + 1]
  PROVE  /\ attemptOf' \in [DeliveryKeys -> AttemptRow]
         /\ attemptOf'[k].status = "in_progress"
         /\ attemptOf'[k].provider = attemptOf[k].provider
         /\ \A j \in DeliveryKeys \ {k} : attemptOf'[j] = attemptOf[j]
<1> DEFINE r == attemptOf[k]
           n == IF r.status = "in_progress" THEN r.attempt ELSE r.attempt + 1
           f1 == [r EXCEPT !.status = "in_progress"]
           s == [f1 EXCEPT !.attempt = n]
<1>1. r \in AttemptRow /\ r.attempt \in 0..MaxDeliveryAttempts /\ KeyFits(k)
  BY RowsOfDelivery
<1>2. r.status # "in_progress" => r.attempt < MaxDeliveryAttempts
  BY <1>1, DeliveryAssumption DEF KeyFits
<1>3. n \in 0..MaxDeliveryAttempts
  BY <1>1, <1>2, DeliveryAssumption
<1>4. attemptOf' = [attemptOf EXCEPT ![k] = s]
  BY <1>1 DEF DeliveryInv, AttemptRow
<1> HIDE DEF n
<1>5. f1 \in AttemptRow /\ f1.status = "in_progress" /\ f1.provider = r.provider
  BY <1>1 DEF AttemptRow, DeliveryAttemptStatuses
<1> HIDE DEF f1
<1>6. s \in AttemptRow /\ s.status = "in_progress" /\ s.provider = r.provider
  BY <1>3, <1>5 DEF AttemptRow
<1> HIDE DEF s
<1> QED
  BY <1>4, <1>6 DEF DeliveryInv

(* An attempt starts, of a record that is due.                             *)
LEMMA StartKeeps ==
  ASSUME DeliveryInv, NEW c \in DeliveryCalls, NEW k \in DeliveryKeys, StartDeliver(c, k)
  PROVE  DeliveryInv'
<1> DEFINE a == attemptOf[k]
<1>1. /\ a \in AttemptRow /\ KeyFits(k) /\ received[k] \in Nat
      /\ a.status \in {"pending", "failed_retriable", "in_progress"}
      /\ deliverCall[c].pc = "idle" /\ UNCHANGED <<settledKeys, received, contacted>>
  BY RowsOfDelivery DEF StartDeliver, DeliverAt
<1>2. excused' \in {excused, excused \cup {k}}
  BY DEF StartDeliver
<1>3. a.status = "in_progress" /\ (\E h \in DeliveryCalls : AtWorkOn(h, k)) => k \in excused'
  BY DEF StartDeliver, Calling, AtWorkOn, DeliverAt
<1>4. k \notin excused' => k \notin excused /\ \A h \in DeliveryCalls : ~AtWorkOn(h, k)
  BY <1>1, <1>2, <1>3 DEF KeyFits, OnceOnly
<1>5. k \notin excused' /\ k \notin settledKeys => a.status # "in_progress" /\ received[k] = 0
  BY <1>1, <1>4 DEF KeyFits, OnceOnly
<1>6. CASE Known(k)
  <2>1. Delivered(c, k) /\ received[k] > 0 /\ a.status # "none"
    BY <1>1, <1>6 DEF StartDeliver, KeyFits, Known
  <2>2. k \notin excused' => k \notin excused /\ \A h \in DeliveryCalls \ {c} : ~AtWorkOn(h, k)
    BY <1>4
  <2>3. UNCHANGED <<received, contacted>> /\ settledKeys' \in {settledKeys, settledKeys \cup {k}}
        /\ \A j \in DeliveryKeys \ {k} : j \in excused' <=> j \in excused
    BY <1>1, <1>2
  <2>4. AtWorkOn(c, k) \/ deliverCall[c].pc = "idle"
    BY <1>1
  <2> HIDE DEF a
  <2> QED
    BY <2>1, <2>2, <2>3, <2>4, DeliveredKeeps DEF a
<1>7. CASE ~Known(k)
  <2> DEFINE q == [NoDeliver EXCEPT !.pc = "check", !.key = k, !.url = a.url]
  <2>1. /\ deliverCall' = [deliverCall EXCEPT ![c] = q]
        /\ attemptOf' = [attemptOf EXCEPT ![k].status = "in_progress",
               ![k].attempt = IF attemptOf[k].status = "in_progress" THEN @ ELSE @ + 1]
    BY <1>7 DEF StartDeliver
  <2>2. /\ attemptOf' \in [DeliveryKeys -> AttemptRow]
        /\ attemptOf'[k].status = "in_progress"
        /\ attemptOf'[k].provider = attemptOf[k].provider
        /\ \A j \in DeliveryKeys \ {k} : attemptOf'[j] = attemptOf[j]
    BY <1>1, <2>1, AttemptStarts
  <2>3. q \in DeliverRow /\ q.pc = "check" /\ q.key = k /\ q.url = a.url /\ a.url \in DeliveryUrls
    BY <1>1 DEF Answers, DeliverRow, NoDeliver, AttemptRow
  <2> HIDE DEF q
  <2>4. /\ deliverCall' \in [DeliveryCalls -> DeliverRow] /\ deliverCall'[c] = q
        /\ \A h \in DeliveryCalls \ {c} : deliverCall'[h] = deliverCall[h]
    BY <2>1, <2>3 DEF DeliveryInv
  <2>5. DeliverFits(c)' /\ AtWorkOn(c, k)'
    BY <1>1, <1>5, <1>7, <2>2, <2>3, <2>4 DEF DeliverFits, AtWorkOn, Known
  <2>6. /\ contacted' \subseteq DeliveryUrls /\ OnlyCheckedContacted' /\ received' \in [DeliveryKeys -> Nat]
        /\ settledKeys' \subseteq DeliveryKeys /\ received'[k] = received[k]
    BY <1>1 DEF DeliveryInv, OnlyCheckedContacted
  <2>7. KeyFits(k)'
    <3>1. k \notin excused' => OnceOnly(k)'
      <4> SUFFICES ASSUME k \notin excused' PROVE OnceOnly(k)'
        OBVIOUS
      <4>1. \A h \in DeliveryCalls : AtWorkOn(h, k)' => h = c
        BY <1>4, <2>4 DEF AtWorkOn
      <4>2. received'[k] = 0
        BY <1>5, <1>7, <2>6 DEF Known
      <4> QED
        BY <2>2, <2>5, <4>1, <4>2 DEF OnceOnly
    <3>2. k \notin settledKeys'
      BY <1>1, <1>7 DEF Known
    <3> QED
      BY <2>2, <3>1, <3>2 DEF KeyFits
  <2>8. \A h \in DeliveryCalls \ {c} : AtWorkOn(h, k) =>
          /\ attemptOf'[k].status # "none" /\ attemptOf'[k].provider = attemptOf[k].provider
          /\ received'[k] >= received[k] /\ k \in excused'
    BY <1>1, <1>4, <2>2, <2>6
  <2>9. \A j \in DeliveryKeys \ {k} :
           /\ attemptOf'[j] = attemptOf[j] /\ received'[j] = received[j]
           /\ j \in settledKeys' <=> j \in settledKeys
           /\ j \in excused' <=> j \in excused
    BY <1>1, <1>2, <2>2
  <2>10. {c} \in SUBSET DeliveryCalls
    OBVIOUS
  <2>11. \A h \in {c} : DeliverFits(h)' /\ (AtWorkOn(h, k)' \/ deliverCall'[h].pc = "idle")
                      /\ (AtWorkOn(h, k) \/ deliverCall[h].pc = "idle")
    BY <1>1, <2>5
  <2> QED
    BY <2>2, <2>4, <2>6, <2>7, <2>8, <2>9, <2>10, <2>11, KeyStep
<1> QED
  BY <1>6, <1>7

(* A call that goes a step on and leaves the rest alone.                   *)
LEMMA CallMoves ==
  ASSUME DeliveryInv, NEW c \in DeliveryCalls, NEW k \in DeliveryKeys, NEW q \in DeliverRow,
         AtWorkOn(c, k), q.pc # "idle", q.key = k,
         deliverCall' = [deliverCall EXCEPT ![c] = q], DeliverFits(c)',
         UNCHANGED <<attemptOf, settledKeys, received, contacted, excused>>
  PROVE  DeliveryInv'
<1>1. /\ deliverCall' \in [DeliveryCalls -> DeliverRow] /\ deliverCall'[c] = q
      /\ \A h \in DeliveryCalls \ {c} : deliverCall'[h] = deliverCall[h]
  BY DEF DeliveryInv
<1>2. \A h \in DeliveryCalls, j \in DeliveryKeys : AtWorkOn(h, j)' <=> AtWorkOn(h, j)
  BY <1>1 DEF AtWorkOn
<1>3. \A j \in DeliveryKeys : OnceOnly(j) => OnceOnly(j)'
  BY <1>2 DEF OnceOnly
<1>4. \A j \in DeliveryKeys : KeyFits(j)'
  BY <1>3 DEF DeliveryInv, KeyFits
<1>5. \A h \in DeliveryCalls : DeliverFits(h)'
  BY <1>1 DEF DeliveryInv, DeliverFits
<1> QED
  BY <1>1, <1>4, <1>5 DEF DeliveryInv, OnlyCheckedContacted

(* What a call under way has to itself, unless its key is excused.         *)
LEMMA CallOf ==
  ASSUME DeliveryInv, NEW c \in DeliveryCalls, deliverCall[c].pc # "idle"
  PROVE  LET k == deliverCall[c].key
         IN /\ k \in DeliveryKeys /\ AtWorkOn(c, k) /\ deliverCall[c] \in DeliverRow /\ DeliverFits(c)
            /\ attemptOf[k] \in AttemptRow /\ KeyFits(k) /\ received[k] \in Nat
            /\ attemptOf[k].status # "none"
            /\ k \notin excused => attemptOf[k].status = "in_progress"
                                   /\ \A h \in DeliveryCalls \ {c} : ~AtWorkOn(h, k)
BY RowsOfDelivery DEF AtWorkOn, DeliverFits, KeyFits, OnceOnly

(* The destination is checked.                                             *)
LEMMA CheckKeeps ==
  ASSUME DeliveryInv, NEW c \in DeliveryCalls, CheckDestination(c)
  PROVE  DeliveryInv'
<1> DEFINE q == deliverCall[c]
           k == q.key
<1>1. /\ q.pc = "check" /\ k \in DeliveryKeys /\ AtWorkOn(c, k) /\ q \in DeliverRow /\ DeliverFits(c)
      /\ attemptOf[k].status # "none"
  BY CallOf DEF CheckDestination, DeliverAt
<1>2. UNCHANGED <<settledKeys, received, contacted, excused>>
  BY DEF CheckDestination
<1>3. k \notin excused => received[k] = 0
  BY <1>1 DEF DeliverFits
<1>4. CASE DestinationOk(attemptOf[k].provider, q.url)
  <2> DEFINE s == [q EXCEPT !.pc = "send"]
  <2>1. deliverCall' = [deliverCall EXCEPT ![c] = s] /\ UNCHANGED attemptOf
    BY <1>4 DEF CheckDestination, DeliveryInv, DeliverRow
  <2>2. s \in DeliverRow /\ s.pc = "send" /\ s.key = k /\ s.url = q.url
    BY <1>1 DEF DeliverRow
  <2>3. attemptOf[k].provider = "email" \/ Check(q.url)
    BY <1>4 DEF DestinationOk
  <2> HIDE DEF s
  <2>4. deliverCall'[c] = s
    BY <2>1 DEF DeliveryInv
  <2>5. DeliverFits(c)'
    BY <1>1, <1>2, <2>1, <2>2, <2>3, <2>4 DEF DeliverFits
  <2> HIDE DEF k
  <2> QED
    BY <1>1, <1>2, <2>1, <2>2, <2>5, CallMoves
<1>5. CASE ~DestinationOk(attemptOf[k].provider, q.url)
  <2>1. Failed(c, k, "permanent_validation") /\ "permanent_validation" \in RetryClasses
    BY <1>5 DEF CheckDestination, RetryClasses
  <2> HIDE DEF k
  <2> QED
    BY <1>1, <1>2, <1>3, <2>1, FailedKeeps
<1> QED
  BY <1>4, <1>5

(* The request is sent, to what was checked.                               *)
LEMMA TransportKeeps ==
  ASSUME DeliveryInv, NEW c \in DeliveryCalls, NEW s \in Answers,
         NEW k \in DeliveryKeys, k = deliverCall[c].key, Transport(c, s)
  PROVE  DeliveryInv'
<1> DEFINE q == deliverCall[c]
           w1 == [deliverCall[c] EXCEPT !.pc = "waiting"]
           w == [w1 EXCEPT !.status = s]
           n == IF Accepted(s) THEN received[k] + 1 ELSE received[k]
<1>1. /\ q.pc = "send" /\ q.key = k /\ AtWorkOn(c, k) /\ q \in DeliverRow /\ DeliverFits(c)
      /\ attemptOf[k].status # "none" /\ KeyFits(k) /\ received[k] \in Nat
      /\ k \notin excused => attemptOf[k].status = "in_progress"
                             /\ \A h \in DeliveryCalls \ {c} : ~AtWorkOn(h, k)
  BY CallOf DEF Transport, DeliverAt
<1>2. UNCHANGED <<settledKeys, attemptOf, excused>>
  BY DEF Transport
<1>3. received' = [received EXCEPT ![k] = n]
  BY DEF Transport
<1>4. n \in Nat /\ n >= received[k] /\ n <= received[k] + 1 /\ (Accepted(s) => n > 0) /\ (~Accepted(s) => n = received[k])
  BY <1>1
<1>5. w1 \in DeliverRow /\ w1.key = k /\ w1.url = q.url /\ w1.pc = "waiting"
  BY <1>1 DEF DeliverRow
<1>6. deliverCall' = [deliverCall EXCEPT ![c] = w]
  <2>1. deliverCall' = [deliverCall EXCEPT ![c].pc = "waiting", ![c].status = s]
    BY DEF Transport
  <2>2. deliverCall \in [DeliveryCalls -> DeliverRow]
    BY DEF DeliveryInv
  <2> QED
    BY <2>1, <2>2
<1> HIDE DEF n, w1
<1>7. w \in DeliverRow /\ w.key = k /\ w.url = q.url /\ w.pc = "waiting" /\ w.status = s
  BY <1>5 DEF DeliverRow
<1> HIDE DEF w
<1>8. /\ deliverCall' \in [DeliveryCalls -> DeliverRow] /\ deliverCall'[c] = w
      /\ \A h \in DeliveryCalls \ {c} : deliverCall'[h] = deliverCall[h]
  BY <1>6, <1>7 DEF DeliveryInv
<1>9. /\ received' \in [DeliveryKeys -> Nat] /\ received'[k] = n
      /\ \A j \in DeliveryKeys \ {k} : received'[j] = received[j]
  BY <1>1, <1>3, <1>4 DEF DeliveryInv
<1>10. contacted' \subseteq DeliveryUrls /\ OnlyCheckedContacted'
  <2>1. attemptOf[k].provider = "email" \/ (Check(q.url) /\ q.url \in DeliveryUrls)
    BY <1>1 DEF DeliverFits
  <2>2. contacted' = IF attemptOf[k].provider = "email" THEN contacted ELSE contacted \cup {q.url}
    BY DEF Transport
  <2> HIDE DEF q
  <2>3. contacted' = contacted \/ (contacted' = contacted \cup {q.url} /\ Check(q.url) /\ q.url \in DeliveryUrls)
    BY <2>1, <2>2
  <2> QED
    BY <2>3, CheckedIsOutside DEF DeliveryInv, OnlyCheckedContacted
<1>11. k \notin excused => received[k] = 0
  BY <1>1 DEF DeliverFits
<1>12. DeliverFits(c)' /\ AtWorkOn(c, k)'
  BY <1>1, <1>2, <1>4, <1>7, <1>8, <1>9, <1>11 DEF DeliverFits, AtWorkOn
<1>13. KeyFits(k)'
  <2>1. k \notin excused' => OnceOnly(k)'
    <3> SUFFICES ASSUME k \notin excused' PROVE OnceOnly(k)'
      OBVIOUS
    <3>1. \A h \in DeliveryCalls : AtWorkOn(h, k)' => h = c
      BY <1>1, <1>2, <1>8 DEF AtWorkOn
    <3>2. n <= 1 /\ attemptOf'[k].status = "in_progress"
      BY <1>1, <1>2, <1>4, <1>11
    <3> QED
      BY <1>9, <1>12, <3>1, <3>2 DEF OnceOnly
  <2> QED
    BY <1>1, <1>2, <1>4, <1>9, <2>1 DEF KeyFits
<1>14. \A h \in DeliveryCalls \ {c} : AtWorkOn(h, k) =>
          /\ attemptOf'[k].status # "none" /\ attemptOf'[k].provider = attemptOf[k].provider
          /\ received'[k] >= received[k] /\ k \in excused'
  BY <1>1, <1>2, <1>4, <1>9
<1>15. \A j \in DeliveryKeys \ {k} :
           /\ attemptOf'[j] = attemptOf[j] /\ received'[j] = received[j]
           /\ j \in settledKeys' <=> j \in settledKeys
           /\ j \in excused' <=> j \in excused
  BY <1>2, <1>9
<1>16. {c} \in SUBSET DeliveryCalls
  OBVIOUS
<1>17. \A h \in {c} : DeliverFits(h)' /\ (AtWorkOn(h, k)' \/ deliverCall'[h].pc = "idle")
                      /\ (AtWorkOn(h, k) \/ deliverCall[h].pc = "idle")
  BY <1>1, <1>12
<1>18. attemptOf' \in [DeliveryKeys -> AttemptRow] /\ settledKeys' \subseteq DeliveryKeys
       /\ received' \in [DeliveryKeys -> Nat]
  BY <1>2, <1>9 DEF DeliveryInv
<1>19. \A h \in DeliveryCalls \ {c} : deliverCall'[h] = deliverCall[h]
  BY <1>8
<1>20. deliverCall' \in [DeliveryCalls -> DeliverRow]
  BY <1>8
<1> HIDE DEF q
<1> QED
  BY <1>19, <1>20, <1>10, <1>13, <1>14, <1>15, <1>16, <1>17, <1>18, KeyStep

(* A redirect is followed, to be checked again.                            *)
LEMMA FollowKeeps ==
  ASSUME DeliveryInv, NEW c \in DeliveryCalls, FollowRedirect(c)
  PROVE  DeliveryInv'
<1> DEFINE q == deliverCall[c]
           k == q.key
<1>1. /\ q.pc = "redirect" /\ k \in DeliveryKeys /\ AtWorkOn(c, k) /\ q \in DeliverRow /\ DeliverFits(c)
      /\ attemptOf[k].status # "none"
  BY CallOf DEF FollowRedirect, DeliverAt
<1>2. UNCHANGED <<settledKeys, received, contacted, excused>>
  BY DEF FollowRedirect
<1>3. k \notin excused => received[k] = 0
  BY <1>1 DEF DeliverFits
<1>4. CASE CheckRedirect(q.url)
  <2> DEFINE n == q.hops + 1
             f1 == [q EXCEPT !.pc = "send"]
             s == [f1 EXCEPT !.hops = n]
  <2>1. deliverCall' = [deliverCall EXCEPT ![c] = s] /\ UNCHANGED attemptOf
    BY <1>4 DEF FollowRedirect, DeliveryInv, DeliverRow
  <2>2. n \in Nat
    BY <1>1 DEF DeliverRow
  <2>3. f1 \in DeliverRow /\ f1.pc = "send" /\ f1.key = k /\ f1.url = q.url
    BY <1>1 DEF DeliverRow
  <2> HIDE DEF n, f1
  <2>4. s \in DeliverRow /\ s.pc = "send" /\ s.key = k /\ s.url = q.url
    BY <2>2, <2>3 DEF DeliverRow
  <2>5. Check(q.url)
    BY <1>4 DEF CheckRedirect
  <2> HIDE DEF s
  <2>6. deliverCall'[c] = s
    BY <2>1 DEF DeliveryInv
  <2>7. DeliverFits(c)'
    BY <1>1, <1>2, <2>1, <2>4, <2>5, <2>6 DEF DeliverFits
  <2> HIDE DEF k
  <2> QED
    BY <1>1, <1>2, <2>1, <2>4, <2>7, CallMoves
<1>5. CASE ~CheckRedirect(q.url)
  <2>1. Failed(c, k, ClassOfRefusal(q.url)) /\ ClassOfRefusal(q.url) \in RetryClasses
    BY <1>1, <1>5, RefusalsAreClassified DEF FollowRedirect, DeliverFits
  <2> HIDE DEF k
  <2> QED
    BY <1>1, <1>2, <1>3, <2>1, FailedKeeps
<1> QED
  BY <1>4, <1>5

(* Every failure has one of the policy's classes.                          *)
LEMMA ClassesAreRetryClasses ==
  ASSUME NEW k, NEW s \in Answers, NEW cls \in FailureClasses(k, s)
  PROVE  cls \in RetryClasses
<1>1. ClassesOfError \subseteq RetryClasses
  BY DEF ClassesOfError, RetryClasses
<1>2. ClassOfStatus(s) \in RetryClasses
  BY DEF ClassOfStatus, RetryClasses, Answers
<1> QED
  BY <1>1, <1>2 DEF FailureClasses

(* The answer is recorded.                                                 *)
LEMMA RespondKeeps ==
  ASSUME DeliveryInv, NEW c \in DeliveryCalls, Respond(c),
         NEW k \in DeliveryKeys, k = deliverCall[c].key, deliverCall[c].pc = "waiting"
  PROVE  DeliveryInv'
<1> DEFINE q == deliverCall[c]
           s == q.status
<1>1. /\ q.pc = "waiting" /\ q.key = k /\ AtWorkOn(c, k) /\ q \in DeliverRow /\ DeliverFits(c) /\ s \in Answers
      /\ attemptOf[k].status # "none" /\ KeyFits(k) /\ received[k] \in Nat
      /\ k \notin excused => \A h \in DeliveryCalls \ {c} : ~AtWorkOn(h, k)
  BY CallOf DEF DeliverRow
<1>2. UNCHANGED <<received, contacted, excused>>
  BY DEF Respond
<1>3. k \notin excused /\ ~Accepted(s) => received[k] = 0
  BY <1>1 DEF DeliverFits
<1>4. ASSUME NEW u \in DeliveryUrls, MayFollow(c),
             deliverCall' = [deliverCall EXCEPT ![c].pc = "redirect", ![c].url = u],
             UNCHANGED <<attemptOf, settledKeys>>
      PROVE  DeliveryInv'
  <2> DEFINE w1 == [q EXCEPT !.pc = "redirect"]
             w == [w1 EXCEPT !.url = u]
  <2>1. deliverCall' = [deliverCall EXCEPT ![c] = w]
    BY <1>4 DEF DeliveryInv, DeliverRow
  <2>2. w1 \in DeliverRow /\ w1.pc = "redirect" /\ w1.key = k
    BY <1>1 DEF DeliverRow
  <2> HIDE DEF w1
  <2>3. w \in DeliverRow /\ w.pc = "redirect" /\ w.key = k /\ w.url = u
    BY <2>2, <1>4 DEF DeliverRow
  <2>4. ~Accepted(s)
    <3>1. s \in 300..399
      BY <1>4 DEF MayFollow
    <3> QED
      BY <3>1 DEF Accepted
  <2> HIDE DEF w
  <2>5. deliverCall'[c] = w
    BY <2>1 DEF DeliveryInv
  <2>6. DeliverFits(c)'
    BY <1>1, <1>2, <1>3, <1>4, <2>3, <2>4, <2>5 DEF DeliverFits
  <2> QED
    BY <1>1, <1>2, <1>4, <2>1, <2>3, <2>6, CallMoves
<1>5. ASSUME settledKeys' = (IF Settles(k, s) THEN settledKeys \cup {k} ELSE settledKeys),
             Accepted(s), Delivered(c, k)
      PROVE  DeliveryInv'
  <2>1. received[k] > 0
    BY <1>1, <1>5 DEF DeliverFits
  <2>2. settledKeys' \in {settledKeys, settledKeys \cup {k}}
    BY <1>5
  <2>3. /\ k \notin excused' => k \notin excused /\ \A h \in DeliveryCalls \ {c} : ~AtWorkOn(h, k)
        /\ \A j \in DeliveryKeys \ {k} : j \in excused' <=> j \in excused
        /\ UNCHANGED <<received, contacted>>
    BY <1>1, <1>2
  <2>4. AtWorkOn(c, k) \/ deliverCall[c].pc = "idle"
    BY <1>1
  <2> HIDE DEF q, s
  <2> QED
    BY <1>1, <1>5, <2>1, <2>2, <2>3, <2>4, DeliveredKeeps
<1>6. ASSUME settledKeys' = (IF Settles(k, s) THEN settledKeys \cup {k} ELSE settledKeys),
             ~Accepted(s), NEW cls \in FailureClasses(k, s), Failed(c, k, cls)
      PROVE  DeliveryInv'
  <2>1. settledKeys' = settledKeys
    BY <1>6 DEF Settles
  <2>2. cls \in RetryClasses
    <3> HIDE DEF s
    <3> QED
      BY <1>1, <1>6, ClassesAreRetryClasses
  <2>3. k \in excused' \/ (k \notin excused /\ received[k] = 0 /\ settledKeys' = settledKeys)
    BY <1>2, <1>3, <1>6, <2>1
  <2>4. \A j \in DeliveryKeys \ {k} : (j \in excused' <=> j \in excused) /\ (j \in settledKeys' <=> j \in settledKeys)
    BY <1>2, <2>1
  <2>5. settledKeys' \subseteq settledKeys /\ UNCHANGED <<received, contacted>> /\ (k \in excused => k \in excused')
    BY <1>2, <2>1
  <2> HIDE DEF q, s
  <2> QED
    BY <1>1, <1>6, <2>2, <2>3, <2>4, <2>5, FailedKeeps
<1>7. \/ \E u \in DeliveryUrls :
          /\ MayFollow(c)
          /\ deliverCall' = [deliverCall EXCEPT ![c].pc = "redirect", ![c].url = u]
          /\ UNCHANGED <<attemptOf, settledKeys>>
      \/ /\ settledKeys' = IF Settles(k, s) THEN settledKeys \cup {k} ELSE settledKeys
         /\ IF Accepted(s) THEN Delivered(c, k) ELSE \E cls \in FailureClasses(k, s) : Failed(c, k, cls)
  BY DEF Respond
<1> HIDE DEF q, s
<1> QED
  BY <1>4, <1>5, <1>6, <1>7

(* An answer that is not recorded: the process dies after the acceptance.  *)
LEMMA UnrecordedKeeps ==
  ASSUME DeliveryInv, NEW c \in DeliveryCalls, SuccessUnrecorded(c),
         NEW k \in DeliveryKeys, k = deliverCall[c].key, deliverCall[c].pc = "waiting"
  PROVE  DeliveryInv'
<1> DEFINE q == deliverCall[c]
<1>1. /\ q.pc = "waiting" /\ q.key = k /\ AtWorkOn(c, k) /\ q \in DeliverRow /\ DeliverFits(c) /\ Accepted(q.status)
      /\ attemptOf[k].status # "none" /\ KeyFits(k) /\ received[k] \in Nat
      /\ k \notin excused => attemptOf[k].status = "in_progress"
                             /\ \A h \in DeliveryCalls \ {c} : ~AtWorkOn(h, k)
  BY CallOf DEF SuccessUnrecorded
<1>2. UNCHANGED <<attemptOf, received, contacted>>
  BY DEF SuccessUnrecorded
<1>3. /\ deliverCall' \in [DeliveryCalls -> DeliverRow] /\ deliverCall'[c].pc = "idle"
      /\ \A h \in DeliveryCalls \ {c} : deliverCall'[h] = deliverCall[h]
  BY IdleDeliver DEF DeliveryInv, SuccessUnrecorded
<1>4. /\ excused' \in {excused, excused \cup {k}} /\ settledKeys' \in {settledKeys, settledKeys \cup {k}}
      /\ attemptOf[k].provider = "http" => k \in excused'
      /\ attemptOf[k].provider # "http" => k \in settledKeys'
  BY <1>1 DEF SuccessUnrecorded, Settles
<1>5. received[k] > 0
  BY <1>1 DEF DeliverFits
<1>6. KeyFits(k)'
  <2>1. k \notin excused' => OnceOnly(k)'
    <3> SUFFICES ASSUME k \notin excused' PROVE OnceOnly(k)'
      OBVIOUS
    <3>1. \A h \in DeliveryCalls : ~AtWorkOn(h, k)'
      BY <1>1, <1>3, <1>4 DEF AtWorkOn
    <3>2. received[k] <= 1 /\ attemptOf[k].status = "in_progress" /\ k \in settledKeys'
      BY <1>1, <1>4 DEF KeyFits, OnceOnly
    <3> QED
      BY <1>2, <3>1, <3>2 DEF OnceOnly
  <2> QED
    BY <1>1, <1>2, <1>5, <2>1 DEF KeyFits
<1>7. \A h \in DeliveryCalls \ {c} : AtWorkOn(h, k) =>
        /\ attemptOf'[k].status # "none" /\ attemptOf'[k].provider = attemptOf[k].provider
        /\ received'[k] >= received[k] /\ k \in excused'
  BY <1>1, <1>2, <1>4
<1>8. \A j \in DeliveryKeys \ {k} :
           /\ attemptOf'[j] = attemptOf[j] /\ received'[j] = received[j]
           /\ j \in settledKeys' <=> j \in settledKeys
           /\ j \in excused' <=> j \in excused
  BY <1>2, <1>4
<1>9. {c} \in SUBSET DeliveryCalls
  OBVIOUS
<1>10. \A h \in {c} : DeliverFits(h)' /\ (AtWorkOn(h, k)' \/ deliverCall'[h].pc = "idle")
                      /\ (AtWorkOn(h, k) \/ deliverCall[h].pc = "idle")
  BY <1>1, <1>3 DEF DeliverFits
<1>11. /\ attemptOf' \in [DeliveryKeys -> AttemptRow] /\ settledKeys' \subseteq DeliveryKeys
       /\ received' \in [DeliveryKeys -> Nat] /\ contacted' \subseteq DeliveryUrls /\ OnlyCheckedContacted'
  BY <1>2, <1>4 DEF DeliveryInv, OnlyCheckedContacted
<1> HIDE DEF q
<1> QED
  BY <1>3, <1>6, <1>7, <1>8, <1>9, <1>10, <1>11, KeyStep

(* An answer that is lost.                                                 *)
LEMMA LostKeeps ==
  ASSUME DeliveryInv, NEW c \in DeliveryCalls, NEW cls \in ClassesOfError, AnswerLost(c, cls)
  PROVE  DeliveryInv'
<1>1. PICK k \in DeliveryKeys : k = deliverCall[c].key /\ AtWorkOn(c, k)
  BY CallOf DEF AnswerLost, DeliverAt
<1>2. /\ Failed(c, k, cls) /\ excused' = excused \cup {k} /\ UNCHANGED <<settledKeys, received, contacted>>
  BY <1>1 DEF AnswerLost
<1>3. cls \in RetryClasses
  BY DEF ClassesOfError, RetryClasses
<1>4. \A j \in DeliveryKeys \ {k} : (j \in excused' <=> j \in excused) /\ (j \in settledKeys' <=> j \in settledKeys)
  BY <1>2
<1>5. settledKeys' \subseteq settledKeys /\ k \in excused'
  BY <1>2
<1> QED
  BY <1>1, <1>2, <1>3, <1>4, <1>5, FailedKeeps

(* A step about a key nobody delivers, or an excused one, that leaves the  *)
(* calls alone.                                                            *)
LEMMA RowKeeps ==
  ASSUME DeliveryInv, NEW k \in DeliveryKeys, NEW s \in AttemptRow,
         attemptOf' = [attemptOf EXCEPT ![k] = s],
         s.status # "none", s.provider = attemptOf[k].provider,
         received' \in [DeliveryKeys -> Nat], received'[k] >= received[k],
         \A j \in DeliveryKeys \ {k} : received'[j] = received[j],
         settledKeys' \in {settledKeys, settledKeys \cup {k}},
         UNCHANGED <<deliverCall, contacted, excused>>,
         k \notin excused => \A h \in DeliveryCalls : ~AtWorkOn(h, k),
         KeyFits(k)'
  PROVE  DeliveryInv'
<1>1. /\ attemptOf' \in [DeliveryKeys -> AttemptRow] /\ attemptOf'[k] = s
      /\ \A j \in DeliveryKeys \ {k} : attemptOf'[j] = attemptOf[j]
  BY DEF DeliveryInv
<1>2. /\ contacted' \subseteq DeliveryUrls /\ OnlyCheckedContacted'
      /\ settledKeys' \subseteq DeliveryKeys /\ deliverCall' \in [DeliveryCalls -> DeliverRow]
  BY DEF DeliveryInv, OnlyCheckedContacted
<1>3. \A j \in DeliveryKeys \ {k} :
           /\ attemptOf'[j] = attemptOf[j] /\ received'[j] = received[j]
           /\ j \in settledKeys' <=> j \in settledKeys
           /\ j \in excused' <=> j \in excused
  BY <1>1
<1>4. {} \in SUBSET DeliveryCalls
  OBVIOUS
<1>5. \A h \in DeliveryCalls \ {} : AtWorkOn(h, k) =>
        /\ attemptOf'[k].status # "none" /\ attemptOf'[k].provider = attemptOf[k].provider
        /\ received'[k] >= received[k] /\ k \in excused'
  BY <1>1
<1>6. \A h \in {} : DeliverFits(h)' /\ (AtWorkOn(h, k)' \/ deliverCall'[h].pc = "idle")
                      /\ (AtWorkOn(h, k) \/ deliverCall[h].pc = "idle")
  OBVIOUS
<1>7. \A h \in DeliveryCalls \ {} : deliverCall'[h] = deliverCall[h]
  OBVIOUS
<1> QED
  BY <1>1, <1>2, <1>3, <1>4, <1>5, <1>6, <1>7, KeyStep

(* The provider for tests, which remembers its keys.                       *)
LEMMA FakeKeeps ==
  ASSUME DeliveryInv, NEW k \in DeliveryKeys, NEW fails \in BOOLEAN, FakeDeliver(k, fails)
  PROVE  DeliveryInv'
<1> DEFINE r == attemptOf[k]
           n == r.attempt + 1
<1>1. /\ r \in AttemptRow /\ KeyFits(k) /\ received[k] \in Nat /\ r.attempt \in 0..MaxDeliveryAttempts
      /\ r.status \in {"pending", "failed_retriable"}
  BY RowsOfDelivery DEF FakeDeliver
<1>2. UNCHANGED <<deliverCall, contacted, excused>>
  BY DEF FakeDeliver
<1>3. n \in 0..MaxDeliveryAttempts
  BY <1>1, DeliveryAssumption DEF KeyFits
<1>4. k \notin excused => received[k] = 0 /\ (\A h \in DeliveryCalls : ~AtWorkOn(h, k))
  BY <1>1 DEF KeyFits, OnceOnly
<1>5. k \in settledKeys => received[k] > 0
  BY <1>1 DEF KeyFits
<1>6. \A h \in DeliveryCalls : AtWorkOn(h, k)' <=> AtWorkOn(h, k)
  BY <1>2 DEF AtWorkOn
<1>7. CASE fails /\ ~Known(k)
  <2>1. PICK d \in NextDelay(n, "unknown_uncertain") :
          attemptOf' = [attemptOf EXCEPT ![k] =
                 [@ EXCEPT !.status = IF d = -1 THEN "failed_terminal" ELSE "failed_retriable",
                           !.attempt = n, !.delay = IF d = -1 THEN 0 ELSE d]]
    BY <1>7 DEF FakeDeliver
  <2>2. UNCHANGED <<settledKeys, received>>
    BY <1>7 DEF FakeDeliver
  <2>3. d \in Delays /\ 0 \in Delays /\ (d # -1 => n < MaxDeliveryAttempts)
    <3>1. "unknown_uncertain" \in RetryClasses
      BY DEF RetryClasses
    <3> HIDE DEF n
    <3> QED
      BY <1>3, <3>1, DelayDrawn
  <2> DEFINE x == IF d = -1 THEN "failed_terminal" ELSE "failed_retriable"
             y == IF d = -1 THEN 0 ELSE d
             f1 == [r EXCEPT !.status = x]
             f2 == [f1 EXCEPT !.attempt = n]
             s == [f2 EXCEPT !.delay = y]
  <2>4. x \in {"failed_terminal", "failed_retriable"} /\ y \in Delays
        /\ (x = "failed_retriable" => n < MaxDeliveryAttempts)
    BY <2>3
  <2>5. attemptOf' = [attemptOf EXCEPT ![k] = [@ EXCEPT !.status = x, !.attempt = n, !.delay = y]]
    BY <2>1
  <2> HIDE DEF x, y, n
  <2>6. attemptOf' = [attemptOf EXCEPT ![k] = s]
    BY <2>5 DEF DeliveryInv
  <2>7. f1 \in AttemptRow /\ f1.status = x /\ f1.provider = r.provider
    BY <1>1, <2>4 DEF AttemptRow, DeliveryAttemptStatuses
  <2> HIDE DEF f1
  <2>8. f2 \in AttemptRow /\ f2.status = x /\ f2.provider = r.provider /\ f2.attempt = n
    BY <1>3, <2>7 DEF AttemptRow
  <2> HIDE DEF f2
  <2>9. s \in AttemptRow /\ s.status = x /\ s.provider = r.provider /\ s.attempt = n
    BY <2>4, <2>8 DEF AttemptRow
  <2> HIDE DEF s
  <2>10. attemptOf'[k] = s
    BY <2>6 DEF DeliveryInv
  <2>11. KeyFits(k)'
    BY <1>2, <1>4, <1>5, <1>6, <2>2, <2>4, <2>9, <2>10 DEF KeyFits, OnceOnly
  <2>12. /\ received' \in [DeliveryKeys -> Nat] /\ received'[k] >= received[k]
         /\ \A j \in DeliveryKeys \ {k} : received'[j] = received[j]
    BY <1>1, <2>2 DEF DeliveryInv
  <2>13. s.status # "none" /\ s.provider = attemptOf[k].provider
    BY <2>4, <2>9
  <2>14. settledKeys' \in {settledKeys, settledKeys \cup {k}}
    BY <2>2
  <2>15. k \notin excused => \A h \in DeliveryCalls : ~AtWorkOn(h, k)
    BY <1>4
  <2> HIDE DEF r
  <2> QED
    BY <1>2, <2>6, <2>9, <2>11, <2>12, <2>13, <2>14, <2>15, RowKeeps
<1>8. CASE ~(fails /\ ~Known(k))
  <2> DEFINE m == IF Known(k) THEN received[k] ELSE received[k] + 1
             f1 == [r EXCEPT !.status = "delivered"]
             s == [f1 EXCEPT !.attempt = n]
  <2>1. /\ settledKeys' = settledKeys \cup {k}
        /\ received' = [received EXCEPT ![k] = m]
        /\ attemptOf' = [attemptOf EXCEPT ![k].status = "delivered", ![k].attempt = n]
    BY <1>8 DEF FakeDeliver
  <2>2. m \in Nat /\ m >= received[k] /\ m > 0 /\ (k \notin excused => m <= 1)
    BY <1>1, <1>4, <1>5 DEF Known
  <2> HIDE DEF n, m
  <2>3. attemptOf' = [attemptOf EXCEPT ![k] = s]
    BY <2>1 DEF DeliveryInv, AttemptRow
  <2>4. f1 \in AttemptRow /\ f1.status = "delivered" /\ f1.provider = r.provider
    BY <1>1 DEF AttemptRow, DeliveryAttemptStatuses
  <2> HIDE DEF f1
  <2>5. s \in AttemptRow /\ s.status = "delivered" /\ s.provider = r.provider
    BY <1>3, <2>4 DEF AttemptRow
  <2> HIDE DEF s
  <2>6. attemptOf'[k] = s
    BY <2>3 DEF DeliveryInv
  <2>7. /\ received' \in [DeliveryKeys -> Nat] /\ received'[k] = m
        /\ \A j \in DeliveryKeys \ {k} : received'[j] = received[j]
    BY <2>1, <2>2 DEF DeliveryInv
  <2>8. KeyFits(k)'
    BY <1>2, <1>4, <1>6, <2>2, <2>5, <2>6, <2>7 DEF KeyFits, OnceOnly
  <2>9. received'[k] >= received[k] /\ s.status # "none" /\ s.provider = attemptOf[k].provider
    BY <2>2, <2>5, <2>7
  <2>10. settledKeys' \in {settledKeys, settledKeys \cup {k}}
    BY <2>1
  <2>11. k \notin excused => \A h \in DeliveryCalls : ~AtWorkOn(h, k)
    BY <1>4
  <2> HIDE DEF r
  <2> QED
    BY <1>2, <2>3, <2>5, <2>7, <2>8, <2>9, <2>10, <2>11, RowKeeps
<1> QED
  BY <1>7, <1>8

(* A delay passes.                                                         *)
LEMMA DelayKeeps ==
  ASSUME DeliveryInv, NEW k \in DeliveryKeys, DelayPasses(k)
  PROVE  DeliveryInv'
<1> DEFINE r == attemptOf[k]
           s == [r EXCEPT !.delay = 0]
<1>1. r \in AttemptRow /\ 0 \in Delays
  BY RowsOfDelivery DEF Delays
<1>2. s \in AttemptRow /\ s.status = r.status /\ s.provider = r.provider /\ s.attempt = r.attempt
  BY <1>1 DEF AttemptRow
<1>3. attemptOf' = [attemptOf EXCEPT ![k] = s] /\ UNCHANGED <<settledKeys, deliverCall, received, contacted, excused>>
  BY DEF DelayPasses
<1> HIDE DEF s
<1>4. /\ attemptOf' \in [DeliveryKeys -> AttemptRow]
      /\ \A j \in DeliveryKeys : /\ attemptOf'[j].status = attemptOf[j].status
                                 /\ attemptOf'[j].provider = attemptOf[j].provider
                                 /\ attemptOf'[j].attempt = attemptOf[j].attempt
  BY <1>2, <1>3 DEF DeliveryInv
<1>5. \A j \in DeliveryKeys : KeyFits(j)'
  <2>1. \A j \in DeliveryKeys : OnceOnly(j) => OnceOnly(j)'
    BY <1>3, <1>4 DEF OnceOnly, AtWorkOn
  <2> QED
    BY <1>3, <1>4, <2>1 DEF KeyFits, DeliveryInv
<1>6. \A c \in DeliveryCalls : DeliverFits(c)'
  BY <1>3, <1>4 DEF DeliverFits, DeliveryInv
<1> QED
  BY <1>3, <1>4, <1>5, <1>6 DEF DeliveryInv, OnlyCheckedContacted

(* A restart, after which settled keys are no longer remembered.           *)
LEMMA RestartKeeps ==
  ASSUME DeliveryInv, DeliveryRestart
  PROVE  DeliveryInv'
<1>1. /\ settledKeys' = {} /\ UNCHANGED <<attemptOf, received, contacted>>
      /\ excused' = excused \cup {k \in DeliveryKeys : attemptOf[k].status = "in_progress" \/ Calling(k) # {}}
  BY DEF DeliveryRestart
<1>2. deliverCall' \in [DeliveryCalls -> DeliverRow] /\ \A c \in DeliveryCalls : deliverCall'[c].pc = "idle"
  BY IdleDeliver DEF DeliveryRestart
<1>3. \A c \in DeliveryCalls : DeliverFits(c)'
  BY <1>2 DEF DeliverFits
<1>4. \A k \in DeliveryKeys : KeyFits(k)'
  BY <1>1, <1>2 DEF DeliveryInv, KeyFits, OnceOnly, AtWorkOn
<1> QED
  BY <1>1, <1>2, <1>3, <1>4 DEF DeliveryInv, OnlyCheckedContacted

(* Every step keeps the invariant.                                         *)
LEMMA DeliverySteps == DeliveryInv /\ [DeliveryNext]_deliveryVars => DeliveryInv'
<1> SUFFICES ASSUME DeliveryInv, [DeliveryNext]_deliveryVars
             PROVE  DeliveryInv'
  OBVIOUS
<1>1. CASE UNCHANGED deliveryVars
  BY <1>1 DEF deliveryVars, DeliveryInv, OnlyCheckedContacted, KeyFits, OnceOnly, DeliverFits, AtWorkOn
<1>2. ASSUME NEW c \in DeliveryCalls, NEW k \in DeliveryKeys, StartDeliver(c, k)
      PROVE  DeliveryInv'
  BY <1>2, StartKeeps
<1>3. ASSUME NEW c \in DeliveryCalls, CheckDestination(c)
      PROVE  DeliveryInv'
  BY <1>3, CheckKeeps
<1>4. ASSUME NEW c \in DeliveryCalls, NEW s \in {200, 302, 404, 503}, Transport(c, s)
      PROVE  DeliveryInv'
  <2>1. PICK k \in DeliveryKeys : k = deliverCall[c].key
    BY <1>4, CallOf DEF Transport, DeliverAt
  <2>2. s \in Answers
    BY DEF Answers
  <2> QED
    BY <1>4, <2>1, <2>2, TransportKeeps
<1>5. ASSUME NEW c \in DeliveryCalls, Respond(c) \/ SuccessUnrecorded(c)
      PROVE  DeliveryInv'
  <2>1. deliverCall[c].pc = "waiting"
    BY <1>5 DEF Respond, SuccessUnrecorded, DeliverAt
  <2>2. PICK k \in DeliveryKeys : k = deliverCall[c].key
    BY <2>1, CallOf
  <2> QED
    BY <1>5, <2>1, <2>2, RespondKeeps, UnrecordedKeeps
<1>6. ASSUME NEW c \in DeliveryCalls, FollowRedirect(c)
      PROVE  DeliveryInv'
  BY <1>6, FollowKeeps
<1>7. ASSUME NEW c \in DeliveryCalls, NEW cls \in ClassesOfError, AnswerLost(c, cls)
      PROVE  DeliveryInv'
  BY <1>7, LostKeeps
<1>8. ASSUME NEW k \in DeliveryKeys,
             DelayPasses(k) \/ (\E f \in BOOLEAN : FakeDeliver(k, f))
               \/ \E p \in DeliveryProviders, u \in DeliveryUrls : Schedule(k, p, u)
      PROVE  DeliveryInv'
  BY <1>8, DelayKeeps, FakeKeeps, ScheduleKeeps
<1>9. CASE DeliveryRestart
  BY <1>9, RestartKeeps
<1> QED
  BY <1>1, <1>2, <1>3, <1>4, <1>5, <1>6, <1>7, <1>8, <1>9 DEF DeliveryNext

(* In every behaviour of any number of keys, destinations, calls and       *)
(* attempts the invariant holds (providers.ts deliver, ssrf.ts check and   *)
(* checkRedirect, retry.ts decide).                                        *)
THEOREM DeliveryKept == DeliveryInit /\ [][DeliveryNext]_deliveryVars => []DeliveryInv
BY DeliveryStarts, DeliverySteps, PTL

(* A second acceptance has its cause, a delivery recorded was received,    *)
(* and nothing is contacted unchecked (providers.ts, ssrf.ts).             *)
LEMMA DeliveryIsSafe == DeliveryInv => DuplicateHasCause /\ DeliveredWasReceived /\ OnlyCheckedContacted
<1> SUFFICES ASSUME DeliveryInv PROVE DuplicateHasCause /\ DeliveredWasReceived /\ OnlyCheckedContacted
  OBVIOUS
<1>1. \A k \in DeliveryKeys : KeyFits(k) /\ received[k] \in Nat
  BY DEF DeliveryInv
<1> QED
  BY <1>1 DEF DeliveryInv, KeyFits, OnceOnly, DuplicateHasCause, DeliveredWasReceived

(* What a step does to the count of attempts of a record that is closed    *)
(* as failed: nothing.                                                     *)
LEMMA ClosedStands ==
  ASSUME DeliveryInv, DeliveryNext, NEW j \in DeliveryKeys, attemptOf[j].status = "failed_terminal"
  PROVE  attemptOf'[j].attempt = attemptOf[j].attempt
<1> DEFINE Goal == attemptOf'[j].attempt = attemptOf[j].attempt
<1>. SUFFICES Goal OBVIOUS
<1>1. ASSUME NEW c \in DeliveryCalls, NEW k \in DeliveryKeys, Delivered(c, k) PROVE Goal
  <2>1. attemptOf' = [attemptOf EXCEPT ![k].status = "delivered"] /\ "delivered" \in DeliveryAttemptStatuses
    BY <1>1 DEF Delivered, DeliveryAttemptStatuses
  <2>2. /\ attemptOf'[k].attempt = attemptOf[k].attempt
        /\ \A i \in DeliveryKeys \ {k} : attemptOf'[i] = attemptOf[i]
    BY <2>1, RowStatus
  <2> QED
    BY <2>2
<1>2. ASSUME NEW c \in DeliveryCalls, NEW k \in DeliveryKeys, NEW cls \in RetryClasses, Failed(c, k, cls) PROVE Goal
  <2>1. /\ attemptOf'[k].attempt = attemptOf[k].attempt
        /\ \A i \in DeliveryKeys \ {k} : attemptOf'[i] = attemptOf[i]
    BY <1>2, FailedRow
  <2> QED
    BY <2>1
<1>3. ASSUME UNCHANGED attemptOf PROVE Goal
  BY <1>3
<1>4. ASSUME NEW k \in DeliveryKeys, k # j, \A i \in DeliveryKeys \ {k} : attemptOf'[i] = attemptOf[i] PROVE Goal
  BY <1>4
<1>5. ASSUME NEW c \in DeliveryCalls, NEW k \in DeliveryKeys, StartDeliver(c, k) PROVE Goal
  <2>1. k # j /\ attemptOf[k].status \in {"pending", "failed_retriable", "in_progress"}
    BY <1>5 DEF StartDeliver
  <2>2. CASE Known(k)
    BY <1>1, <1>5, <2>2 DEF StartDeliver
  <2>3. CASE ~Known(k)
    <3>1. attemptOf' = [attemptOf EXCEPT ![k].status = "in_progress",
               ![k].attempt = IF attemptOf[k].status = "in_progress" THEN @ ELSE @ + 1]
      BY <1>5, <2>3 DEF StartDeliver
    <3>2. \A i \in DeliveryKeys \ {k} : attemptOf'[i] = attemptOf[i]
      BY <2>1, <3>1, AttemptStarts
    <3> QED
      BY <1>4, <2>1, <3>2
  <2> QED
    BY <2>2, <2>3
<1> HIDE DEF Goal
<1>6. ASSUME NEW c \in DeliveryCalls, CheckDestination(c) PROVE Goal
  <2>1. PICK k \in DeliveryKeys : k = deliverCall[c].key
    BY <1>6, CallOf DEF CheckDestination, DeliverAt
  <2>2. "permanent_validation" \in RetryClasses
    BY DEF RetryClasses
  <2>3. UNCHANGED attemptOf \/ Failed(c, k, "permanent_validation")
    BY <1>6, <2>1 DEF CheckDestination
  <2> QED
    BY <1>2, <1>3, <2>2, <2>3
<1>7. ASSUME NEW c \in DeliveryCalls, NEW s \in {200, 302, 404, 503}, Transport(c, s) PROVE Goal
  <2>1. UNCHANGED attemptOf
    BY <1>7 DEF Transport
  <2> QED
    BY <1>3, <2>1
<1>8. ASSUME NEW c \in DeliveryCalls, Respond(c) PROVE Goal
  <2>1. deliverCall[c].pc = "waiting"
    BY <1>8 DEF Respond, DeliverAt
  <2>2. PICK k \in DeliveryKeys : k = deliverCall[c].key
    BY <2>1, CallOf
  <2>3. \/ UNCHANGED attemptOf \/ Delivered(c, k)
        \/ \E cls \in FailureClasses(k, deliverCall[c].status) : Failed(c, k, cls)
    BY <1>8, <2>2 DEF Respond
  <2>4. deliverCall[c].status \in Answers
    BY DEF DeliveryInv, DeliverRow
  <2> QED
    BY <1>1, <1>2, <1>3, <2>3, <2>4, ClassesAreRetryClasses
<1>9. ASSUME NEW c \in DeliveryCalls, FollowRedirect(c) PROVE Goal
  <2>1. PICK k \in DeliveryKeys : k = deliverCall[c].key /\ deliverCall[c].url \in DeliveryUrls
    BY <1>9, CallOf DEF FollowRedirect, DeliverAt, DeliverFits
  <2>2. ClassOfRefusal(deliverCall[c].url) \in RetryClasses
    BY <2>1, RefusalsAreClassified
  <2>3. UNCHANGED attemptOf \/ Failed(c, k, ClassOfRefusal(deliverCall[c].url))
    BY <1>9, <2>1 DEF FollowRedirect
  <2> QED
    BY <1>2, <1>3, <2>2, <2>3
<1>10. ASSUME NEW c \in DeliveryCalls, SuccessUnrecorded(c) PROVE Goal
  BY <1>3, <1>10 DEF SuccessUnrecorded
<1>11. ASSUME NEW c \in DeliveryCalls, NEW cls \in ClassesOfError, AnswerLost(c, cls) PROVE Goal
  <2>1. PICK k \in DeliveryKeys : k = deliverCall[c].key
    BY <1>11, CallOf DEF AnswerLost, DeliverAt
  <2>2. cls \in RetryClasses
    BY DEF ClassesOfError, RetryClasses
  <2>3. Failed(c, k, cls)
    BY <1>11, <2>1 DEF AnswerLost
  <2> QED
    BY <1>2, <2>2, <2>3
<1>12. ASSUME NEW k \in DeliveryKeys, DelayPasses(k) PROVE Goal
  <2>1. attemptOf' = [attemptOf EXCEPT ![k].delay = 0]
    BY <1>12 DEF DelayPasses
  <2> QED
    BY <2>1 DEF DeliveryInv, AttemptRow, Goal
<1>13. ASSUME NEW k \in DeliveryKeys, NEW f \in BOOLEAN, FakeDeliver(k, f) PROVE Goal
  <2>1. k # j
    BY <1>13 DEF FakeDeliver
  <2>2. \A i \in DeliveryKeys \ {k} : attemptOf'[i] = attemptOf[i]
    BY <1>13 DEF FakeDeliver, DeliveryInv
  <2> QED
    BY <1>4, <2>1, <2>2
<1>14. ASSUME NEW k \in DeliveryKeys, NEW p \in DeliveryProviders, NEW u \in DeliveryUrls, Schedule(k, p, u) PROVE Goal
  <2>1. k # j
    BY <1>14 DEF Schedule
  <2>2. \A i \in DeliveryKeys \ {k} : attemptOf'[i] = attemptOf[i]
    BY <1>14 DEF Schedule, DeliveryInv
  <2> QED
    BY <1>4, <2>1, <2>2
<1>15. CASE DeliveryRestart
  BY <1>3, <1>15 DEF DeliveryRestart
<1> QED
  BY <1>5, <1>6, <1>7, <1>8, <1>9, <1>10, <1>11, <1>12, <1>13, <1>14, <1>15 DEF DeliveryNext

(* A delivery has its attempts counted and no more than it may have; one   *)
(* that ended in a class that is not retriable, as a redirect to a         *)
(* forbidden address does, has no further one (retry.ts decide,            *)
(* defaultClassifier).                                                     *)
THEOREM AttemptsStop == DeliveryInit /\ [][DeliveryNext]_deliveryVars => AttemptsEnd
<1>1. DeliveryInv /\ DeliveryInv' /\ [DeliveryNext]_deliveryVars =>
        [\A k \in DeliveryKeys :
           /\ attemptOf'[k].attempt <= MaxDeliveryAttempts
           /\ attemptOf[k].status = "failed_terminal" => attemptOf'[k].attempt = attemptOf[k].attempt]_deliveryVars
  <2>1. ASSUME DeliveryInv, DeliveryInv', DeliveryNext, NEW k \in DeliveryKeys
        PROVE  /\ attemptOf'[k].attempt <= MaxDeliveryAttempts
               /\ attemptOf[k].status = "failed_terminal" => attemptOf'[k].attempt = attemptOf[k].attempt
    <3>1. attemptOf'[k].attempt \in 0..MaxDeliveryAttempts
      BY <2>1 DEF DeliveryInv, AttemptRow
    <3>2. attemptOf'[k].attempt <= MaxDeliveryAttempts
      BY <3>1, DeliveryAssumption
    <3> QED
      BY <2>1, <3>2, ClosedStands
  <2> QED
    BY <2>1
<1> QED
  BY <1>1, DeliveryStarts, DeliverySteps, PTL DEF AttemptsEnd
=============================================================================
