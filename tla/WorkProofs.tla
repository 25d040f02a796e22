----------------------------- MODULE WorkProofs -----------------------------
(***************************************************************************)
(* Work that is queued, scheduled or repaired in the background, and the   *)
(* runs of automations, for every number of items, workers, schedules,     *)
(* processes and faults.                                                   *)
(***************************************************************************)
EXTENDS Scheduler, OpsQueue, Reliability, Automation, FiniteSetTheorems, WellFoundedInduction, TLAPS

-----------------------------------------------------------------------------
(***************************************************************************)
(* One admission per occurrence, for every number of schedules, scheduler  *)
(* processes, versions and ticks of the clock, however many processes die  *)
(* inside a tick.                                                          *)
(*                                                                         *)
(* The row of recordOccurrence decides: whoever inserts it goes on to      *)
(* admit, and from then on the row is there (RecordedInHand).  Two ticks   *)
(* at the same occurrence would need two inserts of one row.  That a row   *)
(* is not mistaken for an absent one needs the listed versions, which      *)
(* start at 1, and that the earliest of the planned times is one of them.  *)
(***************************************************************************)
(* A schedule as a tick listed it.                                         *)
Listing == [id : Schedules, version : Nat \ {0}, watermark : Times \cup {Never}]

(* What a tick under way remembers.                                        *)
Tick == [pc : {"idle", "plan", "record", "admit"}, now : Times,
         todo : Seq(Listing), times : SUBSET Times]

(* A schedule points at a version that was published for it.               *)
VersionsPublished ==
  \A s \in Schedules : sched[s].version \in 1..Len(ScheduleVersions[s])

(* A tick that is under way has a schedule at hand, and a time for it once *)
(* it has planned.                                                         *)
TickUnderWay(q) ==
  /\ q.now <= clock
  /\ q.pc # "idle" => q.todo # <<>> /\ q.now >= StartTime
  /\ q.pc \in {"record", "admit"} => q.times # {}

(* An occurrence being admitted has its row and not yet its run.           *)
RecordedInHand(q) ==
  q.pc = "admit" => occ[InHand(q)] # NoOccurrence /\ ~occ[InHand(q)].run

(* Two ticks never hold one recorded occurrence for admission.             *)
OneInHand ==
  \A p, q \in SchedulerProcs :
    p # q /\ proc[p].pc = "admit" /\ proc[q].pc = "admit" =>
      InHand(proc[p]) # InHand(proc[q])

(* The inductive invariant of the scheduler.                               *)
SchedulerInv ==
  /\ clock \in StartTime..MaxTime
  /\ sched \in [Schedules -> ScheduleRow] /\ VersionsPublished
  /\ occ \in [Schedules \X Times -> Occurrence]
  /\ proc \in [SchedulerProcs -> Tick]
  /\ \A p \in SchedulerProcs : TickUnderWay(proc[p]) /\ RecordedInHand(proc[p])
  /\ OneInHand

-----------------------------------------------------------------------------
(* Sets of times, and the listing as a sequence.                           *)
LEMMA SmallestNat ==
  ASSUME NEW T, T \subseteq Nat, T # {}
  PROVE  \E x \in T : \A y \in T : x <= y
<1>1. PICK x \in T : \A y \in T : ~(<<y, x>> \in OpToRel(<, Nat))
  BY NatLessThanWellFounded, WFMin
<1>2. ASSUME NEW y \in T PROVE x <= y
  <2>1. y \in Nat /\ x \in Nat
    OBVIOUS
  <2>2. y < x => <<y, x>> \in OpToRel(<, Nat)
    BY <2>1 DEF OpToRel
  <2>3. ~(y < x)
    BY <1>1, <2>2, Zenon
  <2> QED
    BY <2>1, <2>3
<1> QED
  BY <1>2

(* A nonempty set of times has a largest one.                              *)
LEMMA LargestTime ==
  ASSUME NEW T, T \subseteq Times, T # {}
  PROVE  \E x \in T : \A y \in T : x >= y
<1> DEFINE Mirror == {MaxTime - t : t \in T}
<1>1. MaxTime \in Nat /\ \A t \in T : t \in Nat /\ t <= MaxTime
  BY SchedulerAssumption DEF Times
<1>2. Mirror \subseteq Nat /\ Mirror # {}
  BY <1>1
<1>3. PICK m \in Mirror : \A n \in Mirror : m <= n
  BY <1>2, SmallestNat
<1>4. PICK x \in T : m = MaxTime - x
  BY <1>3
<1>5. \A y \in T : MaxTime - x <= MaxTime - y
  BY <1>3, <1>4
<1> QED
  BY <1>1, <1>5

(* The earliest and the latest of a set of times belong to it.             *)
LEMMA ExtremesOfTimes ==
  ASSUME NEW T, T \subseteq Times, T # {}
  PROVE  Min(T) \in T /\ Max(T) \in T
<1>1. T \subseteq Nat
  BY SchedulerAssumption DEF Times
<1>2. Min(T) \in T
  BY <1>1, SmallestNat DEF Min
<1>3. Max(T) \in T
  BY LargestTime DEF Max
<1> QED
  BY <1>2, <1>3

(* Listing a finite set yields a sequence of its members.                  *)
LEMMA SeqOfSet ==
  ASSUME NEW S, IsFiniteSet(S)
  PROVE  SetToSeq(S) \in Seq(S)
<1>1. Cardinality(S) \in Nat /\ ExistsBijection(1..Cardinality(S), S)
  BY FS_CardinalityType
<1>2. PICK f \in [1..Cardinality(S) -> S] : IsInjective(f)
  BY <1>1 DEF ExistsBijection, Bijection, Injection
<1>3. SetToSeq(S) \in [1..Cardinality(S) -> S]
  BY <1>2 DEF SetToSeq
<1> QED
  BY <1>1, <1>3

(* listActive answers a sequence of listings.                              *)
LEMMA ListActiveTyped ==
  ASSUME SchedulerInv
  PROVE  ListActive \in Seq(Listing)
<1> DEFINE A == {s \in Schedules : sched[s].state = "active"}
           f == [s \in A |-> [id |-> s, version |-> sched[s].version,
                              watermark |-> sched[s].watermark]]
           L == {[id |-> s, version |-> sched[s].version,
                  watermark |-> sched[s].watermark] : s \in A}
<1>1. IsFiniteSet(A)
  BY SchedulerAssumption, FS_Subset
<1>2. L = {f[s] : s \in A}
  OBVIOUS
<1>3. IsFiniteSet({f[s] : s \in A})
  <2> HIDE DEF A
  <2>1. f \in Surjection(A, {f[s] : s \in A})
    BY DEF Surjection
  <2> QED
    BY <1>1, <2>1, FS_Surjection DEF ExistsSurjection
<1>4. L \subseteq Listing
  <2> SUFFICES ASSUME NEW s \in A
               PROVE [id |-> s, version |-> sched[s].version,
                      watermark |-> sched[s].watermark] \in Listing
    OBVIOUS
  <2>1. s \in Schedules /\ sched[s] \in ScheduleRow
    BY DEF SchedulerInv
  <2>2. sched[s].version \in Nat \ {0}
    BY <2>1, SchedulerAssumption DEF SchedulerInv, VersionsPublished
  <2> QED
    BY <2>1, <2>2 DEF ScheduleRow, Listing
<1>5. ListActive = SetToSeq(L)
  BY DEF ListActive
<1>6. SetToSeq(L) \in Seq(L)
  <2> HIDE DEF L, f, A
  <2> QED
    BY <1>2, <1>3, SeqOfSet
<1>7. SetToSeq(L) \in Seq(Listing)
  <2> HIDE DEF L
  <2> QED
    BY <1>4, <1>6
<1> QED
  BY <1>5, <1>7

(* computeDue answers times up to now.                                     *)
LEMMA DueAreTimes ==
  ASSUME NEW s \in Schedules, NEW i \in 1..Len(ScheduleVersions[s]),
         NEW w \in Times \cup {Never}, NEW now \in StartTime..MaxTime
  PROVE  ComputeDue(s, i, w, now) \subseteq Times
<1>1. /\ MaxTime \in Nat /\ StartTime \in Nat /\ now \in Nat /\ now <= MaxTime
      /\ StartTime <= now /\ LookBack \in Nat /\ LookBack <= StartTime + 1
      /\ w \in Int /\ w >= -1
  BY SchedulerAssumption DEF Times, Never
<1>2. CASE OneTime(s, i)
  <2>1. ScheduleVersions[s][i].scheduledAt \in Int
    BY SchedulerAssumption
  <2>2. ComputeDue(s, i, w, now) =
          {t \in {ScheduleVersions[s][i].scheduledAt} :
             t <= now /\ t > IF w = Never THEN 0 ELSE w}
    BY <1>2 DEF ComputeDue, OneTimeDue
  <2>3. w = Never \/ w >= 0
    BY <1>1 DEF Times, Never
  <2> QED
    BY <1>1, <2>1, <2>2, <2>3 DEF Times
<1>3. CASE ~OneTime(s, i)
  <2> DEFINE after == After(w, now)
  <2>1. ComputeDue(s, i, w, now) = CronDue(MatchingTimes[s][i], after, now)
    BY <1>3 DEF ComputeDue
  <2>2. after \in Int /\ after >= -1
    BY <1>1 DEF After
  <2>3. CronDue(MatchingTimes[s][i], after, now) \subseteq (after + 1)..now
    BY DEF CronDue, CronTimes, OldestOf
  <2>4. (after + 1)..now \subseteq Times
    <3> HIDE DEF after
    <3> QED
      BY <1>1, <2>2 DEF Times
  <2> QED
    BY <2>1, <2>3, <2>4
<1> QED
  BY <1>2, <1>3

(* The missed-run policy picks among the due times.                        *)
LEMMA ToAdmitAreDue ==
  ASSUME NEW v, NEW due, due \subseteq Times, due # {}
  PROVE  ToAdmit(v, due) \subseteq due
  BY ExtremesOfTimes DEF ToAdmit, OldestOf

-----------------------------------------------------------------------------
(* The tick's own moves: it idles, or goes on with a schedule at hand.     *)
LEMMA IdleTickTyped ==
  /\ IdleTick \in Tick /\ IdleTick.pc = "idle" /\ IdleTick.now = 0
  <1>1. 0 \in Times
    BY SchedulerAssumption DEF Times
  <1> QED
    BY <1>1 DEF IdleTick, Tick

(* A process between two ticks satisfies what is asked of a tick.          *)
LEMMA IdleTickUnderWay ==
  ASSUME clock \in StartTime..MaxTime
  PROVE  TickUnderWay(IdleTick) /\ ~(IdleTick.pc = "admit")
<1>1. 0 <= clock
  BY SchedulerAssumption
<1> QED
  BY <1>1, IdleTickTyped DEF TickUnderWay

(* Going on to the next listed schedule keeps the tick well-formed and     *)
(* leaves nothing in hand.                                                 *)
LEMMA NextScheduleTyped ==
  ASSUME clock \in StartTime..MaxTime, NEW q \in Tick, TickUnderWay(q), q.pc # "idle"
  PROVE  /\ NextSchedule(q) \in Tick
         /\ TickUnderWay(NextSchedule(q))
         /\ NextSchedule(q).pc # "admit"
<1>1. CASE Len(q.todo) = 1
  BY <1>1, IdleTickTyped, IdleTickUnderWay DEF NextSchedule
<1>2. CASE Len(q.todo) # 1
  <2> DEFINE r == [q EXCEPT !.pc = "plan", !.todo = Tail(q.todo), !.times = {}]
  <2>1. NextSchedule(q) = r
    BY <1>2 DEF NextSchedule
  <2>2. q.todo \in Seq(Listing) /\ q.todo # <<>>
    BY DEF Tick, TickUnderWay
  <2>3. Tail(q.todo) \in Seq(Listing) /\ Len(Tail(q.todo)) = Len(q.todo) - 1
    BY <2>2
  <2>4. Tail(q.todo) # <<>>
    <3>1. Len(q.todo) \in Nat /\ Len(q.todo) # 0
      BY <2>2
    <3>2. Len(Tail(q.todo)) # 0
      BY <1>2, <2>3, <3>1
    <3>3. Len(<<>>) = 0
      OBVIOUS
    <3> QED
      BY <3>2, <3>3
  <2>5. /\ r \in Tick /\ r.pc = "plan" /\ r.now = q.now /\ r.todo = Tail(q.todo)
    BY <2>3 DEF Tick
  <2> HIDE DEF r
  <2> QED
    BY <2>1, <2>4, <2>5 DEF TickUnderWay
<1> QED
  BY <1>1, <1>2

(* Going on to the next missed time keeps the tick well-formed and leaves  *)
(* nothing in hand.                                                        *)
LEMMA NextTimeTyped ==
  ASSUME clock \in StartTime..MaxTime, NEW q \in Tick, TickUnderWay(q),
         q.pc \in {"record", "admit"}
  PROVE  /\ NextTime(q) \in Tick
         /\ TickUnderWay(NextTime(q))
         /\ NextTime(q).pc # "admit"
<1> DEFINE rest == q.times \ {Min(q.times)}
           r == [q EXCEPT !.pc = "record", !.times = rest]
<1>1. CASE rest = {}
  BY <1>1, NextScheduleTyped DEF NextTime
<1>2. CASE rest # {}
  <2>1. NextTime(q) = r
    BY <1>2 DEF NextTime
  <2>2. rest \subseteq Times
    BY DEF Tick
  <2>3. r \in Tick /\ r.pc = "record" /\ r.now = q.now /\ r.todo = q.todo /\ r.times = rest
    <3> HIDE DEF rest
    <3> QED
      BY <2>2 DEF Tick
  <2> HIDE DEF r, rest
  <2> QED
    BY <1>2, <2>1, <2>3 DEF TickUnderWay
<1> QED
  BY <1>1, <1>2

(* An occurrence at hand is one of the table.                              *)
LEMMA InHandTyped ==
  ASSUME NEW q \in Tick, TickUnderWay(q), q.pc \in {"record", "admit"}
  PROVE  /\ InHand(q) \in Schedules \X Times
         /\ q.todo[1] \in Listing /\ Min(q.times) \in Times
<1>1. q.todo \in Seq(Listing) /\ q.todo # <<>> /\ q.times \subseteq Times /\ q.times # {}
  BY DEF Tick, TickUnderWay
<1>2. q.todo[1] \in Listing
  BY <1>1
<1>3. Min(q.times) \in Times
  BY <1>1, ExtremesOfTimes
<1> QED
  BY <1>2, <1>3 DEF InHand, Listing

-----------------------------------------------------------------------------
(* A step of one process that leaves the table of occurrences alone and    *)
(* does not bring it to "admit".                                           *)
LEMMA ProcMoves ==
  ASSUME SchedulerInv, UNCHANGED <<clock, sched, occ>>, NEW p \in SchedulerProcs,
         NEW r \in Tick, proc' = [proc EXCEPT ![p] = r], TickUnderWay(r), r.pc # "admit"
  PROVE  SchedulerInv'
<1>1. proc' \in [SchedulerProcs -> Tick]
  BY DEF SchedulerInv
<1>2. proc'[p] = r /\ \A q \in SchedulerProcs \ {p} : proc'[q] = proc[q]
  BY DEF SchedulerInv
<1>3. ASSUME NEW q \in SchedulerProcs PROVE TickUnderWay(proc[q])'
  BY <1>2 DEF SchedulerInv, TickUnderWay
<1>4. ASSUME NEW q \in SchedulerProcs PROVE RecordedInHand(proc[q])'
  BY <1>2 DEF SchedulerInv, RecordedInHand, InHand
<1>5. OneInHand'
  BY <1>2 DEF SchedulerInv, OneInHand
<1>6. VersionsPublished'
  BY DEF SchedulerInv, VersionsPublished
<1> QED
  BY <1>1, <1>3, <1>4, <1>5, <1>6 DEF SchedulerInv

(* Listing the due schedules keeps the invariant.                          *)
LEMMA TickStartKeeps ==
  ASSUME SchedulerInv, NEW p \in SchedulerProcs, TickStart(p)
  PROVE  SchedulerInv'
<1> DEFINE r == [pc |-> "plan", now |-> clock, todo |-> ListActive, times |-> {}]
<1>1. clock \in Times /\ clock >= StartTime /\ clock <= clock
  BY SchedulerAssumption DEF SchedulerInv, Times
<1>2. r \in Tick
  BY <1>1, ListActiveTyped DEF Tick
<1>3. TickUnderWay(r)
  BY <1>1 DEF TickUnderWay, TickStart
<1>4. proc' = [proc EXCEPT ![p] = r] /\ UNCHANGED <<clock, sched, occ>>
  BY DEF TickStart
<1>5. r.pc # "admit"
  OBVIOUS
<1> HIDE DEF r
<1> QED
  BY <1>2, <1>3, <1>4, <1>5, ProcMoves

(* Computing the missed times from the listed row keeps the invariant.     *)
LEMMA PlanKeeps ==
  ASSUME SchedulerInv, NEW p \in SchedulerProcs, Plan(p)
  PROVE  SchedulerInv'
<1> DEFINE q == proc[p]
           s == q.todo[1].id
           v == CurrentVersion(s)
           due == ComputeDue(s, sched[s].version, q.todo[1].watermark, q.now)
<1>1. /\ q \in Tick /\ TickUnderWay(q) /\ q.pc = "plan" /\ clock \in StartTime..MaxTime
      /\ UNCHANGED <<clock, sched, occ>>
  BY DEF SchedulerInv, Plan
<1>2. q.todo \in Seq(Listing) /\ q.todo # <<>> /\ q.now \in Times
      /\ q.now <= clock /\ q.now >= StartTime
  BY <1>1 DEF Tick, TickUnderWay
<1>3. q.todo[1] \in Listing
  BY <1>2
<1>4. s \in Schedules /\ q.todo[1].watermark \in Times \cup {Never}
  BY <1>3 DEF Listing
<1>5. sched[s].version \in 1..Len(ScheduleVersions[s])
  BY <1>4 DEF SchedulerInv, VersionsPublished
<1>6. q.now \in StartTime..MaxTime
  BY <1>2, SchedulerAssumption DEF Times
<1>7. due \subseteq Times
  BY <1>4, <1>5, <1>6, DueAreTimes
<1>8. PICK r : /\ proc' = [proc EXCEPT ![p] = r]
               /\ \/ r = IdleTick
                  \/ r = NextSchedule(q)
                  \/ /\ due # {} /\ ToAdmit(v, due) # {}
                     /\ r = [q EXCEPT !.pc = "record", !.times = ToAdmit(v, due)]
  BY DEF Plan
<1>9. r \in Tick /\ TickUnderWay(r) /\ r.pc # "admit"
  <2>1. CASE r = IdleTick
    BY <1>1, <2>1, IdleTickTyped, IdleTickUnderWay
  <2>2. CASE r = NextSchedule(q)
    BY <1>1, <2>2, NextScheduleTyped
  <2>3. CASE /\ due # {} /\ ToAdmit(v, due) # {}
             /\ r = [q EXCEPT !.pc = "record", !.times = ToAdmit(v, due)]
    <3>1. ToAdmit(v, due) \subseteq Times
      BY <1>7, <2>3, ToAdmitAreDue, ZenonT(40)
    <3>2. r \in Tick /\ r.pc = "record" /\ r.now = q.now /\ r.todo = q.todo
          /\ r.times = ToAdmit(v, due)
      <4> HIDE DEF v, due
      <4> QED
        BY <1>1, <2>3, <3>1 DEF Tick
    <3> QED
      BY <1>2, <2>3, <3>2 DEF TickUnderWay
  <2> QED
    BY <1>8, <2>1, <2>2, <2>3
<1> QED
  BY <1>1, <1>8, <1>9, ProcMoves

(* recordOccurrence: the winner of the insert is alone with the row.       *)
LEMMA RecordKeeps ==
  ASSUME SchedulerInv, NEW p \in SchedulerProcs, RecordOccurrence(p)
  PROVE  SchedulerInv'
<1> DEFINE q == proc[p]
<1>1. /\ q \in Tick /\ TickUnderWay(q) /\ q.pc = "record" /\ clock \in StartTime..MaxTime
      /\ UNCHANGED <<clock, sched>>
  BY DEF SchedulerInv, RecordOccurrence
<1>2. CASE ~MayAdmit(InHand(q))
  BY <1>1, <1>2, NextTimeTyped, ProcMoves DEF RecordOccurrence
<1>3. CASE MayAdmit(InHand(q))
  <2> DEFINE r == [q EXCEPT !.pc = "admit"]
             o == [version |-> q.todo[1].version, run |-> FALSE]
  <2>1. InHand(q) \in Schedules \X Times /\ q.todo[1].version \in Nat \ {0}
    BY <1>1, InHandTyped DEF Listing
  <2>2. occ' = [occ EXCEPT ![InHand(q)] = o]
    BY <1>3 DEF RecordOccurrence
  <2>3. proc' = [proc EXCEPT ![p] = r]
    BY <1>3 DEF RecordOccurrence, SchedulerInv
  <2>4. /\ r \in Tick /\ r.pc = "admit" /\ r.now = q.now /\ r.todo = q.todo
        /\ r.times = q.times
    BY <1>1 DEF Tick
  <2>5. o \in Occurrence /\ o # NoOccurrence /\ ~o.run
    BY <2>1 DEF Occurrence, NoOccurrence
  <2>6. occ[InHand(q)] = NoOccurrence
    BY <1>3 DEF MayAdmit
  <2> HIDE DEF r, o
  <2>7. /\ occ' \in [Schedules \X Times -> Occurrence] /\ occ'[InHand(q)] = o
        /\ \A x \in Schedules \X Times : x # InHand(q) => occ'[x] = occ[x]
    BY <2>1, <2>2, <2>5 DEF SchedulerInv
  <2>8. /\ proc' \in [SchedulerProcs -> Tick] /\ proc'[p] = r
        /\ \A d \in SchedulerProcs \ {p} : proc'[d] = proc[d]
    BY <2>3, <2>4 DEF SchedulerInv
  <2>9. InHand(r) = InHand(q)
    BY <2>4 DEF InHand
  <2>10. ASSUME NEW d \in SchedulerProcs \ {p}, proc[d].pc = "admit"
         PROVE  /\ InHand(proc[d]) \in Schedules \X Times
                /\ InHand(proc[d]) # InHand(q)
                /\ occ[InHand(proc[d])] # NoOccurrence /\ ~occ[InHand(proc[d])].run
    <3>1. RecordedInHand(proc[d]) /\ TickUnderWay(proc[d]) /\ proc[d] \in Tick
      BY DEF SchedulerInv
    <3>2. occ[InHand(proc[d])] # NoOccurrence /\ ~occ[InHand(proc[d])].run
      BY <2>10, <3>1 DEF RecordedInHand
    <3> QED
      BY <2>6, <2>10, <3>1, <3>2, InHandTyped
  <2>11. TickUnderWay(r)
    BY <1>1, <2>4 DEF TickUnderWay
  <2>12. ASSUME NEW d \in SchedulerProcs PROVE TickUnderWay(proc[d])'
    BY <1>1, <2>8, <2>11 DEF SchedulerInv, TickUnderWay
  <2>13. ASSUME NEW d \in SchedulerProcs PROVE RecordedInHand(proc[d])'
    <3>1. CASE d = p
      BY <2>5, <2>7, <2>8, <2>9, <3>1 DEF RecordedInHand, InHand
    <3>2. CASE d # p
      BY <2>7, <2>8, <2>10, <3>2 DEF RecordedInHand, InHand
    <3> QED
      BY <3>1, <3>2
  <2>14. OneInHand'
    <3> SUFFICES ASSUME NEW a \in SchedulerProcs, NEW b \in SchedulerProcs, a # b,
                        proc'[a].pc = "admit", proc'[b].pc = "admit"
                 PROVE  InHand(proc'[a]) # InHand(proc'[b])
      BY DEF OneInHand, InHand
    <3>1. CASE a = p
      BY <2>8, <2>9, <2>10, <3>1
    <3>2. CASE b = p
      BY <2>8, <2>9, <2>10, <3>2
    <3>3. CASE a # p /\ b # p
      BY <2>8, <3>3 DEF SchedulerInv, OneInHand
    <3> QED
      BY <3>1, <3>2, <3>3
  <2>15. VersionsPublished'
    BY <1>1 DEF SchedulerInv, VersionsPublished
  <2> QED
    BY <1>1, <2>7, <2>8, <2>12, <2>13, <2>14, <2>15 DEF SchedulerInv
<1> QED
  BY <1>2, <1>3

(* setAdmittedRun and advanceWatermark: the run goes to a row nobody else  *)
(* has at hand.                                                            *)
LEMMA AdmitKeeps ==
  ASSUME SchedulerInv, NEW p \in SchedulerProcs, AdmitOccurrence(p)
  PROVE  SchedulerInv'
<1> DEFINE q == proc[p]
           s == q.todo[1].id
           r == NextTime(q)
           w == IF sched[s].version = q.todo[1].version THEN Min(q.times)
                ELSE sched[s].watermark
<1>1. /\ q \in Tick /\ TickUnderWay(q) /\ q.pc = "admit" /\ clock \in StartTime..MaxTime
      /\ clock' = clock
  BY DEF SchedulerInv, AdmitOccurrence
<1>2. /\ InHand(q) \in Schedules \X Times /\ q.todo[1] \in Listing /\ Min(q.times) \in Times
  BY <1>1, InHandTyped
<1>3. s \in Schedules /\ sched[s] \in ScheduleRow
  BY <1>2 DEF Listing, SchedulerInv
<1>4. w \in Times \cup {Never}
  BY <1>2, <1>3 DEF ScheduleRow
<1>5. /\ sched' \in [Schedules -> ScheduleRow]
      /\ \A x \in Schedules : sched'[x].version = sched[x].version
  <2>1. sched' = [sched EXCEPT ![s] = [sched[s] EXCEPT !.watermark = w]]
    BY <1>3 DEF AdmitOccurrence, SchedulerInv
  <2>2. /\ [sched[s] EXCEPT !.watermark = w] \in ScheduleRow
        /\ [sched[s] EXCEPT !.watermark = w].version = sched[s].version
    <3> HIDE DEF w
    <3> QED
      BY <1>3, <1>4 DEF ScheduleRow
  <2> HIDE DEF w
  <2> QED
    BY <1>3, <2>1, <2>2 DEF SchedulerInv
<1>6. /\ occ' \in [Schedules \X Times -> Occurrence]
      /\ \A x \in Schedules \X Times : x # InHand(q) => occ'[x] = occ[x]
  <2>1. occ[InHand(q)] \in Occurrence
    BY <1>2 DEF SchedulerInv
  <2>2. occ' = [occ EXCEPT ![InHand(q)] = [occ[InHand(q)] EXCEPT !.run = TRUE]]
    BY <1>2 DEF AdmitOccurrence, SchedulerInv
  <2>3. [occ[InHand(q)] EXCEPT !.run = TRUE] \in Occurrence
    BY <2>1 DEF Occurrence
  <2> QED
    BY <1>2, <2>2, <2>3 DEF SchedulerInv
<1>7. r \in Tick /\ TickUnderWay(r) /\ r.pc # "admit"
  BY <1>1, NextTimeTyped
<1>8. proc' = [proc EXCEPT ![p] = r]
  BY DEF AdmitOccurrence
<1> HIDE DEF r
<1>9. /\ proc' \in [SchedulerProcs -> Tick] /\ proc'[p] = r
      /\ \A d \in SchedulerProcs \ {p} : proc'[d] = proc[d]
  BY <1>7, <1>8 DEF SchedulerInv
<1>10. ASSUME NEW d \in SchedulerProcs PROVE TickUnderWay(proc[d])'
  BY <1>1, <1>7, <1>9 DEF SchedulerInv, TickUnderWay
<1>11. ASSUME NEW d \in SchedulerProcs PROVE RecordedInHand(proc[d])'
  <2> SUFFICES ASSUME proc'[d].pc = "admit"
               PROVE  /\ occ'[InHand(proc'[d])] # NoOccurrence
                      /\ ~occ'[InHand(proc'[d])].run
    BY DEF RecordedInHand, InHand
  <2>1. d # p /\ proc'[d] = proc[d] /\ proc[d].pc = "admit"
    BY <1>7, <1>9
  <2>2. InHand(proc[d]) # InHand(q)
    BY <1>1, <2>1 DEF SchedulerInv, OneInHand
  <2>3. InHand(proc[d]) \in Schedules \X Times
    BY <2>1, InHandTyped DEF SchedulerInv
  <2>4. RecordedInHand(proc[d])
    BY DEF SchedulerInv
  <2> QED
    BY <1>6, <2>1, <2>2, <2>3, <2>4 DEF RecordedInHand
<1>12. OneInHand'
  BY <1>7, <1>9 DEF SchedulerInv, OneInHand, InHand
<1>13. VersionsPublished'
  BY <1>5 DEF SchedulerInv, VersionsPublished
<1> QED
  BY <1>1, <1>5, <1>6, <1>9, <1>10, <1>11, <1>12, <1>13 DEF SchedulerInv

(* The owners' calls and the clock leave the ticks alone.                  *)
LEMMA OwnersKeep ==
  ASSUME SchedulerInv, UNCHANGED <<occ, proc>>,
         clock' \in StartTime..MaxTime, clock <= clock',
         sched' \in [Schedules -> ScheduleRow], VersionsPublished'
  PROVE  SchedulerInv'
<1>1. ASSUME NEW p \in SchedulerProcs PROVE TickUnderWay(proc[p])'
  <2>1. proc[p].now \in Int /\ clock \in Int /\ clock' \in Int
    BY SchedulerAssumption DEF SchedulerInv, Tick, Times
  <2>2. TickUnderWay(proc[p])
    BY DEF SchedulerInv
  <2> QED
    BY <2>1, <2>2 DEF TickUnderWay
<1>2. \A p \in SchedulerProcs : RecordedInHand(proc[p])'
  BY DEF SchedulerInv, RecordedInHand, InHand
<1>3. OneInHand'
  BY DEF SchedulerInv, OneInHand, InHand
<1> QED
  BY <1>1, <1>2, <1>3 DEF SchedulerInv

(* Publishing a version between two steps of a tick keeps the invariant.   *)
LEMMA PublishKeeps ==
  ASSUME SchedulerInv, NEW s \in Schedules, PublishScheduleVersion(s)
  PROVE  SchedulerInv'
<1>1. sched[s] \in ScheduleRow /\ sched[s].version \in 1..Len(ScheduleVersions[s])
  BY DEF SchedulerInv, VersionsPublished
<1>2. Len(ScheduleVersions[s]) \in Nat
  BY SchedulerAssumption
<1>3. sched[s].version + 1 \in 1..Len(ScheduleVersions[s]) /\ sched[s].version + 1 \in Nat
  BY <1>1, <1>2 DEF PublishScheduleVersion
<1>4. sched' = [sched EXCEPT ![s] = [sched[s] EXCEPT !.version = sched[s].version + 1]]
  BY DEF PublishScheduleVersion, SchedulerInv
<1>5. /\ [sched[s] EXCEPT !.version = sched[s].version + 1] \in ScheduleRow
      /\ [sched[s] EXCEPT !.version = sched[s].version + 1].version = sched[s].version + 1
  BY <1>1, <1>3 DEF ScheduleRow
<1>6. sched' \in [Schedules -> ScheduleRow]
  BY <1>4, <1>5 DEF SchedulerInv
<1>7. VersionsPublished'
  BY <1>3, <1>4, <1>5 DEF SchedulerInv, VersionsPublished
<1>8. clock' = clock /\ clock \in StartTime..MaxTime /\ clock <= clock
  BY SchedulerAssumption DEF PublishScheduleVersion, SchedulerInv
<1> QED
  BY <1>6, <1>7, <1>8, OwnersKeep DEF PublishScheduleVersion

(* Pausing, resuming or archiving between two steps of a tick keeps the    *)
(* invariant.                                                              *)
LEMMA SetStateKeeps ==
  ASSUME SchedulerInv, NEW s \in Schedules, NEW state \in ScheduleStates,
         SetScheduleState(s, state)
  PROVE  SchedulerInv'
<1>1. sched[s] \in ScheduleRow
  BY DEF SchedulerInv
<1>2. sched' = [sched EXCEPT ![s] = [sched[s] EXCEPT !.state = state]]
  BY DEF SetScheduleState, SchedulerInv
<1>3. /\ [sched[s] EXCEPT !.state = state] \in ScheduleRow
      /\ [sched[s] EXCEPT !.state = state].version = sched[s].version
  BY <1>1 DEF ScheduleRow
<1>4. sched' \in [Schedules -> ScheduleRow]
  BY <1>2, <1>3 DEF SchedulerInv
<1>5. VersionsPublished'
  BY <1>2, <1>3 DEF SchedulerInv, VersionsPublished
<1>6. clock' = clock /\ clock \in StartTime..MaxTime /\ clock <= clock
  BY SchedulerAssumption DEF SetScheduleState, SchedulerInv
<1> QED
  BY <1>4, <1>5, <1>6, OwnersKeep DEF SetScheduleState

(* The clock moving under a tick keeps the invariant.                      *)
LEMMA TimeKeeps == SchedulerInv /\ TimePasses => SchedulerInv'
<1> SUFFICES ASSUME SchedulerInv, TimePasses PROVE SchedulerInv'
  OBVIOUS
<1>1. clock' \in StartTime..MaxTime /\ clock <= clock'
  BY SchedulerAssumption DEF SchedulerInv, TimePasses
<1>2. sched' \in [Schedules -> ScheduleRow] /\ VersionsPublished'
  BY DEF SchedulerInv, TimePasses, VersionsPublished
<1> QED
  BY <1>1, <1>2, OwnersKeep DEF TimePasses

-----------------------------------------------------------------------------
(* The invariant holds before the first tick.                              *)
LEMMA SchedulerInitInv == SchedulerInit => SchedulerInv
<1> SUFFICES ASSUME SchedulerInit PROVE SchedulerInv
  OBVIOUS
<1>1. clock \in StartTime..MaxTime
  BY SchedulerAssumption DEF SchedulerInit
<1>2. sched \in [Schedules -> ScheduleRow]
  BY DEF SchedulerInit, ScheduleRow, ScheduleStates
<1>3. VersionsPublished
  BY SchedulerAssumption DEF SchedulerInit, VersionsPublished
<1>4. occ \in [Schedules \X Times -> Occurrence]
  BY DEF SchedulerInit, Occurrence, NoOccurrence
<1>5. proc \in [SchedulerProcs -> Tick] /\ \A p \in SchedulerProcs : proc[p] = IdleTick
  BY IdleTickTyped DEF SchedulerInit
<1>6. \A p \in SchedulerProcs : TickUnderWay(proc[p]) /\ proc[p].pc # "admit"
  BY <1>1, <1>5, IdleTickUnderWay
<1> QED
  BY <1>1, <1>2, <1>3, <1>4, <1>5, <1>6 DEF SchedulerInv, RecordedInHand, OneInHand

(* Every step of the scheduler keeps the invariant.                        *)
LEMMA SchedulerStepInv == SchedulerInv /\ [SchedulerNext]_schedulerVars => SchedulerInv'
<1> SUFFICES ASSUME SchedulerInv, [SchedulerNext]_schedulerVars PROVE SchedulerInv'
  OBVIOUS
<1>1. CASE TimePasses
  BY <1>1, TimeKeeps
<1>2. ASSUME NEW s \in Schedules, PublishScheduleVersion(s) PROVE SchedulerInv'
  BY <1>2, PublishKeeps
<1>3. ASSUME NEW s \in Schedules, NEW state \in ScheduleStates, SetScheduleState(s, state)
      PROVE SchedulerInv'
  BY <1>3, SetStateKeeps
<1>4. ASSUME NEW p \in SchedulerProcs, TickStep(p) PROVE SchedulerInv'
  BY <1>4, TickStartKeeps, PlanKeeps, RecordKeeps, AdmitKeeps DEF TickStep
<1>5. ASSUME NEW p \in SchedulerProcs, TickAborts(p) PROVE SchedulerInv'
  <2>1. clock \in StartTime..MaxTime
    BY DEF SchedulerInv
  <2> QED
    BY <1>5, <2>1, IdleTickTyped, IdleTickUnderWay, ProcMoves DEF TickAborts
<1>6. CASE UNCHANGED schedulerVars
  <2>1. clock \in StartTime..MaxTime /\ clock <= clock
    BY SchedulerAssumption DEF SchedulerInv
  <2> QED
    BY <1>6, <2>1, OwnersKeep DEF schedulerVars, SchedulerInv, VersionsPublished
<1> QED
  BY <1>1, <1>2, <1>3, <1>4, <1>5, <1>6 DEF SchedulerNext

(* The scheduler's rows and ticks keep their types, and a tick that admits *)
(* an occurrence has its row (scheduler.ts tick, store.ts                  *)
(* recordOccurrence).                                                      *)
THEOREM SchedulerTypeCorrect == SchedulerSpec => []SchedulerTypeOK
<1>1. SchedulerInv => SchedulerTypeOK
  <2> SUFFICES ASSUME SchedulerInv PROVE SchedulerTypeOK
    OBVIOUS
  <2>1. clock \in Times
    BY SchedulerAssumption DEF SchedulerInv, Times
  <2>2. ASSUME NEW p \in SchedulerProcs
        PROVE /\ proc[p].pc \in {"idle", "plan", "record", "admit"}
              /\ proc[p].now \in 0..clock
              /\ proc[p].pc = "admit" => occ[InHand(proc[p])] # NoOccurrence
    <3>1. proc[p] \in Tick /\ TickUnderWay(proc[p]) /\ RecordedInHand(proc[p])
      BY DEF SchedulerInv
    <3>2. proc[p].now \in 0..clock
      BY <2>1, <3>1, SchedulerAssumption DEF TickUnderWay, Tick, Times
    <3> QED
      BY <3>1, <3>2 DEF Tick, RecordedInHand
  <2> QED
    BY <2>1, <2>2 DEF SchedulerInv, SchedulerTypeOK
<1> QED
  BY <1>1, SchedulerInitInv, SchedulerStepInv, PTL DEF SchedulerSpec

(* No occurrence is admitted twice, whatever scheduler processes race for  *)
(* it or die inside a tick (store.ts recordOccurrence, scheduler.ts tick). *)
THEOREM AdmittedOnce == SchedulerSpec => []OneAdmissionPerOccurrence
<1>1. SchedulerInv => OneAdmissionPerOccurrence
  BY DEF SchedulerInv, OneInHand, RecordedInHand, OneAdmissionPerOccurrence
<1> QED
  BY <1>1, SchedulerInitInv, SchedulerStepInv, PTL DEF SchedulerSpec

-----------------------------------------------------------------------------
(***************************************************************************)
(* The operational work queue: one holder per item, attempts within the    *)
(* cap, finished work left alone.                                          *)
(*                                                                         *)
(* The generation decides. A claim takes a new one, above every generation *)
(* a worker still has in hand (HeldIsStored), so no two workers share one  *)
(* (GenerationsApart); whoever completes, retries or renews compares its   *)
(* own. A worker that still holds its item can charge one more attempt     *)
(* (HeldIsOpen), because a row that can be claimed has one left (Room) and *)
(* the charge is made by the completion that ends the hold.                *)
(***************************************************************************)
(* What no transaction leaves again, unless an operator redrives it.       *)
Finished == {"succeeded", "failed_terminal"}

(* What a worker holds is a stored row, at its generation or a later one.  *)
HeldIsStored ==
  \A w \in OpsWorkers : worker[w].item # NoItem =>
    /\ item[worker[w].item] # NoItem
    /\ worker[w].generation <= item[worker[w].item].generation

(* Two workers at one item hold it under different generations.            *)
GenerationsApart ==
  \A v, w \in OpsWorkers :
    v # w /\ worker[v].item = worker[w].item /\ worker[v].item # NoItem =>
      worker[v].generation # worker[w].generation

(* A worker that still holds its item can charge one more attempt to it.   *)
HeldIsOpen ==
  \A w \in OpsWorkers : Holds(w) =>
    /\ item[worker[w].item].attempts < MaxAttempts
    /\ item[worker[w].item].state \notin Finished

(* A worker at work has an item, and one that reports has a result.        *)
BusyHolds ==
  \A w \in OpsWorkers :
    /\ worker[w].pc \in {"processing", "reporting"} => worker[w].item # NoItem
    /\ worker[w].pc = "reporting" => worker[w].result \in OpsWorkResults

(* The inductive invariant of the work queue.                              *)
OpsInv ==
  OpsTypeOK /\ HeldIsStored /\ GenerationsApart /\ RetriesBounded /\ HeldIsOpen /\ BusyHolds

(* A row that can be claimed has an attempt left.                          *)
Room(r) ==
  /\ r.attempts <= MaxAttempts
  /\ r.state \in {"pending", "claimed", "failed_retriable"} => r.attempts < MaxAttempts

(* What any transaction makes of a row. *)
RowMoves(r, s) ==
  /\ s \in OpsWorkItem \cup {NoItem}
  /\ r # NoItem => s # NoItem /\ r.generation <= s.generation
  /\ s # NoItem => Room(s)
  /\ r # NoItem /\ s.generation = r.generation =>
       /\ s.attempts = r.attempts
       /\ s.state \in Finished => r.state \in Finished
  /\ r # NoItem /\ r.state \in Finished => s.state = r.state

(* Every row moves as a transaction moves it, or stands.                   *)
RowsMove == \A i \in Items : RowMoves(item[i], item'[i])

(* The rows and the workers are typed.                                     *)
LEMMA OpsTypes ==
  ASSUME OpsTypeOK
  PROVE  /\ \A i \in Items : item[i] # NoItem => item[i] \in OpsWorkItem
         /\ \A w \in OpsWorkers : worker[w] \in Worker
  BY DEF OpsTypeOK

(* The fields of a worker.                                                 *)
LEMMA WorkerFields ==
  ASSUME NEW r \in Worker
  PROVE  /\ r.pc \in {"idle", "processing", "reporting", "down"}
         /\ r.item \in Items \cup {NoItem} /\ r.generation \in Nat
         /\ r.result \in OpsWorkResults \cup {NoItem} /\ r.fenced \in BOOLEAN
  BY DEF Worker

(* The fields of a row.                                                    *)
LEMMA RowFields ==
  ASSUME NEW r \in OpsWorkItem
  PROVE  /\ r.state \in OpsWorkStates /\ r.generation \in Nat
         /\ r.claimed \in OpsWorkers \cup {NoItem}
         /\ r.lease \in {"none", "live", "lapsed"} /\ r.attempts \in Nat /\ r.due \in BOOLEAN
  BY DEF OpsWorkItem

(* A row that is not written moves as it may.                              *)
LEMMA RowStays ==
  ASSUME OpsInv, NEW i \in Items
  PROVE  RowMoves(item[i], item[i])
  BY OpsTypes, RowFields, RowAbsent DEF OpsInv, OpsTypeOK, RowMoves, RetriesBounded, Room

(* The row that enqueue inserts.                                           *)
LEMMA NewItemIsRow == NewItem \in OpsWorkItem /\ Room(NewItem) /\ NewItem # NoItem
<1>1. NewItem \in OpsWorkItem
  BY DEF NewItem, OpsWorkItem, OpsWorkStates
<1>2. NewItem.attempts = 0
  BY DEF NewItem
<1>3. 0 < MaxAttempts /\ MaxAttempts \in Nat
  BY OpsAssumption
<1>. QED  BY <1>1, <1>2, <1>3, RowAbsent DEF Room

(* Reaping an expired lease is a move of its row.                          *)
LEMMA ReapedMoves ==
  ASSUME OpsInv, NEW i \in Items
  PROVE  RowMoves(item[i], Reaped(item[i]))
<1>1. CASE item[i] # NoItem /\ item[i].state = "claimed" /\ item[i].lease = "lapsed"
  <2> DEFINE s == [item[i] EXCEPT !.state = "failed_retriable", !.due = TRUE]
  <2>1. item[i] \in OpsWorkItem BY <1>1, OpsTypes DEF OpsInv
  <2>2. s \in OpsWorkItem /\ s.state = "failed_retriable" /\ s.generation = item[i].generation
        /\ s.attempts = item[i].attempts
    BY <2>1 DEF OpsWorkItem, OpsWorkStates
  <2>3. Reaped(item[i]) = s BY <1>1 DEF Reaped
  <2> QED BY <1>1, <2>1, <2>2, <2>3, RowAbsent, RowFields DEF RowMoves, OpsInv, RetriesBounded, Room, Finished
<1>2. CASE ~(item[i] # NoItem /\ item[i].state = "claimed" /\ item[i].lease = "lapsed")
  BY <1>2, RowStays DEF Reaped
<1> QED BY <1>1, <1>2

(* Every worker keeps what it holds or lets it go.                         *)
WorkersKeepOrLet ==
  \A w \in OpsWorkers :
    \/ worker'[w].item = NoItem
    \/ worker'[w].item = worker[w].item /\ worker'[w].generation = worker[w].generation

(* What a worker holds is still stored after the rows have moved, at no    *)
(* earlier generation.                                                     *)
LEMMA StoredGeneration ==
  ASSUME OpsInv, OpsTypeOK', RowsMove, NEW w \in OpsWorkers, worker[w].item # NoItem
  PROVE  LET i == worker[w].item IN
         /\ i \in Items /\ item[i] # NoItem /\ item'[i] # NoItem
         /\ worker[w].generation \in Nat /\ item[i].generation \in Nat /\ item'[i].generation \in Nat
         /\ worker[w].generation <= item[i].generation
         /\ item[i].generation <= item'[i].generation
         /\ RowMoves(item[i], item'[i])
<1>. DEFINE i == worker[w].item
<1>1. i \in Items /\ worker[w].generation \in Nat
  BY OpsTypes, WorkerFields DEF OpsInv
<1>2. item[i] # NoItem /\ worker[w].generation <= item[i].generation
  BY DEF OpsInv, HeldIsStored
<1>3. RowMoves(item[i], item'[i])
  BY <1>1 DEF RowsMove
<1>4. item'[i] # NoItem /\ item[i].generation <= item'[i].generation
  BY <1>2, <1>3 DEF RowMoves
<1>5. item[i] \in OpsWorkItem /\ item'[i] \in OpsWorkItem
  BY <1>1, <1>2, <1>4 DEF OpsInv, OpsTypeOK
<1>. QED  BY <1>1, <1>2, <1>3, <1>4, <1>5, RowFields

(* A worker whose generation is still the row's after a step held it       *)
(* before, and nothing was charged meanwhile.                              *)
LEMMA HeldBefore ==
  ASSUME OpsInv, OpsTypeOK', RowsMove, NEW w \in OpsWorkers,
         worker[w].item # NoItem, item'[worker[w].item].generation = worker[w].generation
  PROVE  LET i == worker[w].item IN
         /\ Holds(w) /\ item'[i].attempts = item[i].attempts
         /\ item'[i].attempts < MaxAttempts /\ item'[i].state \notin Finished
<1>. DEFINE i == worker[w].item
<1>1. /\ item[i] # NoItem /\ item[i].generation = worker[w].generation
      /\ item'[i].generation = item[i].generation /\ RowMoves(item[i], item'[i])
  BY StoredGeneration
<1>2. Holds(w)
  BY <1>1 DEF Holds
<1>. QED  BY <1>1, <1>2 DEF OpsInv, HeldIsOpen, RowMoves

(* Moves of rows keep the invariant when no worker takes a new item.       *)
LEMMA RowsMovedKeep ==
  ASSUME OpsInv, OpsTypeOK', RowsMove, WorkersKeepOrLet, BusyHolds'
  PROVE  OpsInv'
<1>1. HeldIsStored'
  <2>. SUFFICES ASSUME NEW w \in OpsWorkers, worker'[w].item # NoItem
                PROVE  /\ item'[worker'[w].item] # NoItem
                       /\ worker'[w].generation <= item'[worker'[w].item].generation
    BY DEF HeldIsStored
  <2>1. worker'[w].item = worker[w].item /\ worker'[w].generation = worker[w].generation
    BY DEF WorkersKeepOrLet
  <2>. QED  BY <2>1, StoredGeneration
<1>2. GenerationsApart'
  BY DEF OpsInv, GenerationsApart, WorkersKeepOrLet
<1>3. RetriesBounded'
  BY DEF OpsInv, RetriesBounded, RowsMove, RowMoves, Room
<1>4. HeldIsOpen'
  <2>. SUFFICES ASSUME NEW w \in OpsWorkers, Holds(w)'
                PROVE  (/\ item[worker[w].item].attempts < MaxAttempts
                        /\ item[worker[w].item].state \notin Finished)'
    BY DEF HeldIsOpen
  <2>1. worker'[w].item = worker[w].item /\ worker'[w].generation = worker[w].generation
        /\ worker'[w].item # NoItem /\ item'[worker'[w].item].generation = worker'[w].generation
    BY DEF Holds, WorkersKeepOrLet
  <2>. QED  BY <2>1, HeldBefore
<1>. QED  BY <1>1, <1>2, <1>3, <1>4 DEF OpsInv

(* A worker takes a row under a generation nobody has.                     *)
LEMMA RowTaken ==
  ASSUME OpsInv, OpsTypeOK', RowsMove, NEW w \in OpsWorkers, NEW i \in Items,
         NEW x \in Worker, worker' = [worker EXCEPT ![w] = x], BusyHolds',
         x.item = i, item[i] # NoItem, item'[i] # NoItem,
         x.generation = item'[i].generation, item[i].generation < item'[i].generation,
         item'[i].attempts < MaxAttempts, item'[i].state \notin Finished
  PROVE  OpsInv'
<1>1. worker'[w] = x /\ \A v \in OpsWorkers \ {w} : worker'[v] = worker[v]
  BY DEF OpsInv, OpsTypeOK
<1>2. x.generation \in Nat /\ item[i] \in OpsWorkItem /\ item[i].generation \in Nat
  BY WorkerFields, RowFields, OpsTypes DEF OpsInv
<1>3. HeldIsStored'
  <2>. SUFFICES ASSUME NEW v \in OpsWorkers, worker'[v].item # NoItem
                PROVE  /\ item'[worker'[v].item] # NoItem
                       /\ worker'[v].generation <= item'[worker'[v].item].generation
    BY DEF HeldIsStored
  <2>1. CASE v = w
    BY <1>1, <1>2, <2>1
  <2>2. CASE v # w
    BY <1>1, <2>2, StoredGeneration
  <2>. QED  BY <2>1, <2>2
<1>4. \A v \in OpsWorkers \ {w} : worker[v].item = i /\ i # NoItem =>
        worker[v].generation # x.generation /\ worker[v].generation \in Nat
  BY <1>2, StoredGeneration
<1>5. GenerationsApart'
  BY <1>1, <1>4 DEF OpsInv, GenerationsApart
<1>6. RetriesBounded'
  BY DEF OpsInv, RetriesBounded, RowsMove, RowMoves, Room
<1>7. HeldIsOpen'
  <2>. SUFFICES ASSUME NEW v \in OpsWorkers, Holds(v)'
                PROVE  (/\ item[worker[v].item].attempts < MaxAttempts
                        /\ item[worker[v].item].state \notin Finished)'
    BY DEF HeldIsOpen
  <2>1. CASE v = w
    BY <1>1, <2>1
  <2>2. CASE v # w
    <3>1. worker'[v] = worker[v] /\ worker[v].item # NoItem
          /\ item'[worker[v].item].generation = worker[v].generation
      BY <1>1, <2>2 DEF Holds
    <3>. QED  BY <3>1, HeldBefore
  <2>. QED  BY <2>1, <2>2
<1>. QED  BY <1>3, <1>5, <1>6, <1>7 DEF OpsInv

(* Moves that never touch the item table. *)
LEMMA RowsStay ==
  ASSUME OpsInv, UNCHANGED item
  PROVE  RowsMove
  BY RowStays DEF RowsMove

(* Writing one row is a move of all.                                       *)
LEMMA OneRowMoves ==
  ASSUME OpsInv, NEW i \in Items, NEW s, RowMoves(item[i], s), item' = [item EXCEPT ![i] = s]
  PROVE  RowsMove /\ item' \in [Items -> OpsWorkItem \cup {NoItem}]
  BY RowStays DEF RowsMove, RowMoves, OpsInv, OpsTypeOK

(* The rows that the transactions write.                                   *)
LEMMA RowLapses ==
  ASSUME OpsInv, NEW i \in Items, item[i] # NoItem, NEW lease \in {"none", "live", "lapsed"},
         NEW due \in BOOLEAN
  PROVE  /\ RowMoves(item[i], [item[i] EXCEPT !.lease = lease])
         /\ RowMoves(item[i], [item[i] EXCEPT !.due = due])
         /\ item[i].state \notin TERMINAL_OPS_STATES =>
              RowMoves(item[i], [item[i] EXCEPT !.state = "dead_letter", !.claimed = NoItem,
                                                !.lease = "none", !.due = TRUE])
<1>1. item[i] \in OpsWorkItem /\ item[i].generation \in Nat /\ item[i].attempts \in Nat
  BY OpsTypes, RowFields DEF OpsInv
<1>2. Room(item[i])
  BY DEF OpsInv, RetriesBounded, Room
<1>3. ASSUME NEW s \in OpsWorkItem, s.generation = item[i].generation,
             s.attempts = item[i].attempts, s.state = item[i].state
      PROVE  RowMoves(item[i], s)
  BY <1>1, <1>2, <1>3, RowAbsent DEF RowMoves, Room, Finished, TERMINAL_OPS_STATES
<1>9. ASSUME NEW s \in OpsWorkItem, s.generation = item[i].generation,
             s.attempts = item[i].attempts,
             s.state = "dead_letter" /\ item[i].state \notin TERMINAL_OPS_STATES
      PROVE  RowMoves(item[i], s)
  BY <1>1, <1>2, <1>9, RowAbsent DEF RowMoves, Room, Finished, TERMINAL_OPS_STATES
<1>. DEFINE a == [item[i] EXCEPT !.lease = lease]
            b == [item[i] EXCEPT !.due = due]
            c == [item[i] EXCEPT !.state = "dead_letter", !.claimed = NoItem,
                                 !.lease = "none", !.due = TRUE]
<1>4. /\ a \in OpsWorkItem /\ a.generation = item[i].generation
      /\ a.attempts = item[i].attempts /\ a.state = item[i].state
  BY <1>1 DEF OpsWorkItem, OpsWorkStates
<1>5. /\ b \in OpsWorkItem /\ b.generation = item[i].generation
      /\ b.attempts = item[i].attempts /\ b.state = item[i].state
  BY <1>1 DEF OpsWorkItem, OpsWorkStates
<1>6. /\ c \in OpsWorkItem /\ c.generation = item[i].generation
      /\ c.attempts = item[i].attempts /\ c.state = "dead_letter"
  BY <1>1 DEF OpsWorkItem, OpsWorkStates
<1>. HIDE DEF a, b, c
<1>7. RowMoves(item[i], a) /\ RowMoves(item[i], b)
  <2>1. RowMoves(item[i], a)
    BY <1>3, <1>4
  <2>2. RowMoves(item[i], b)
    BY <1>3, <1>5
  <2>. QED  BY <2>1, <2>2
<1>8. item[i].state \notin TERMINAL_OPS_STATES => RowMoves(item[i], c)
  BY <1>6, <1>9
<1>. QED  BY <1>7, <1>8 DEF a, b, c

(* A completion of a row with an attempt left.                             *)
LEMMA RowCompletes ==
  ASSUME NEW r \in OpsWorkItem, NEW result \in OpsWorkResults, r.attempts < MaxAttempts,
         r.state \notin Finished
  PROVE  /\ Completed(r, result) \in OpsWorkItem /\ Room(Completed(r, result))
         /\ Completed(r, result).generation = r.generation + 1
<1>1. r.attempts \in Nat /\ r.generation \in Nat /\ MaxAttempts \in Nat
  BY RowFields, OpsAssumption
<1>. DEFINE o == Outcome(r, result)
            b == o # "failed_retriable"
            s == Completed(r, result)
<1>2. o \in OpsWorkStates
  BY DEF Outcome, OpsWorkResults, OpsWorkStates
<1>. DEFINE m == r.attempts + 1
            g == r.generation + 1
<1>3. s = [r EXCEPT !.state = o, !.attempts = m, !.due = b, !.claimed = NoItem,
                    !.lease = "none", !.generation = g]
  BY DEF Completed, OpsWorkItem
<1>8. m \in Nat /\ g \in Nat
  BY <1>1
<1>4. o \in {"pending", "claimed", "failed_retriable"} => m < MaxAttempts
  BY <1>1 DEF Outcome, Exhausted, OpsWorkResults
<1>5. b \in BOOLEAN
  OBVIOUS
<1>. HIDE DEF o, b, s, m, g
<1>6. s \in OpsWorkItem /\ s.state = o /\ s.attempts = m /\ s.generation = g
  BY <1>2, <1>3, <1>5, <1>8 DEF OpsWorkItem
<1>7. Room(s)
  BY <1>1, <1>4, <1>6 DEF Room, m
<1>. QED  BY <1>6, <1>7 DEF s, g

(* Producers, clocks and operators.                                        *)
LEMMA WorkStepsKeep ==
  ASSUME OpsInv, NEW i \in Items,
         Break(i) \/ Enqueue(i) \/ LeaseLapses(i) \/ RetryDue(i) \/ DeadLetter(i) \/ Redrive(i)
  PROVE  OpsInv' /\ RowsMove
<1>1. UNCHANGED worker
  BY DEF Break, Enqueue, LeaseLapses, RetryDue, DeadLetter, Redrive
<1>2. WorkersKeepOrLet /\ BusyHolds'
  BY <1>1 DEF WorkersKeepOrLet, OpsInv, BusyHolds
<1>3. fuel' \in [breaks : 0..MaxBreaks, stalls : 0..MaxStalls, faults : 0..MaxFaults]
  <2>1. /\ fuel \in [breaks : 0..MaxBreaks, stalls : 0..MaxStalls, faults : 0..MaxFaults]
        /\ MaxBreaks \in Nat /\ MaxStalls \in Nat /\ MaxFaults \in Nat
    BY OpsAssumption DEF OpsInv, OpsTypeOK
  <2>2. \/ UNCHANGED fuel
        \/ fuel.breaks > 0 /\ fuel' = [fuel EXCEPT !.breaks = @ - 1]
        \/ fuel.stalls > 0 /\ fuel' = [fuel EXCEPT !.stalls = @ - 1]
        \/ fuel.faults > 0 /\ fuel' = [fuel EXCEPT !.faults = @ - 1]
    BY DEF Break, Enqueue, LeaseLapses, RetryDue, DeadLetter, Redrive
  <2>. QED  BY <2>1, <2>2
<1>4. queue' \in Seq(Items) /\ broken' \subseteq Items
  <2>1. \/ UNCHANGED queue
        \/ queue' = Append(queue, i)
    BY DEF Break, Enqueue, LeaseLapses, RetryDue, DeadLetter, Redrive
  <2>2. broken' \in {broken, broken \cup {i}}
    BY DEF Break, Enqueue, LeaseLapses, RetryDue, DeadLetter, Redrive
  <2>3. queue \in Seq(Items) /\ broken \subseteq Items
    BY DEF OpsInv, OpsTypeOK
  <2>4. Append(queue, i) \in Seq(Items)
    BY <2>3
  <2>. QED  BY <2>1, <2>2, <2>3, <2>4
<1>5. /\ RowsMove
      /\ item' \in [Items -> OpsWorkItem \cup {NoItem}]
  <2>1. CASE Break(i)
    BY <2>1, RowsStay DEF Break, OpsInv, OpsTypeOK
  <2>2. CASE Enqueue(i)
    <3>1. item' = [item EXCEPT ![i] = NewItem] /\ item[i] = NoItem
      BY <2>2 DEF Enqueue
    <3>2. RowMoves(item[i], NewItem)
      BY <3>1, NewItemIsRow DEF RowMoves
    <3>. QED  BY <3>1, <3>2, OneRowMoves
  <2>3. CASE LeaseLapses(i)
    <3>1. item' = [item EXCEPT ![i] = [item[i] EXCEPT !.lease = "lapsed"]] /\ item[i] # NoItem
      BY <2>3 DEF LeaseLapses, OpsInv, OpsTypeOK
    <3>2. RowMoves(item[i], [item[i] EXCEPT !.lease = "lapsed"])
      BY <3>1, RowLapses
    <3>. QED  BY <3>1, <3>2, OneRowMoves
  <2>4. CASE RetryDue(i)
    <3>1. item' = [item EXCEPT ![i] = [item[i] EXCEPT !.due = TRUE]] /\ item[i] # NoItem
      BY <2>4 DEF RetryDue, OpsInv, OpsTypeOK
    <3>2. RowMoves(item[i], [item[i] EXCEPT !.due = TRUE])
      BY <3>1, RowLapses
    <3>. QED  BY <3>1, <3>2, OneRowMoves
  <2>5. CASE DeadLetter(i)
    <3>. DEFINE s == [item[i] EXCEPT !.state = "dead_letter", !.claimed = NoItem,
                                     !.lease = "none", !.due = TRUE]
    <3>1. /\ item' = [item EXCEPT ![i] = s]
          /\ item[i] # NoItem /\ item[i].state \notin TERMINAL_OPS_STATES
      BY <2>5 DEF DeadLetter, OpsInv, OpsTypeOK
    <3>2. RowMoves(item[i], s)
      BY <3>1, RowLapses
    <3>. HIDE DEF s
    <3>. QED  BY <3>1, <3>2, OneRowMoves
  <2>6. CASE Redrive(i)
    <3>. DEFINE s == [NewItem EXCEPT !.generation = item[i].generation + 1]
    <3>1. item' = [item EXCEPT ![i] = s] /\ Redrivable(item[i])
      BY <2>6 DEF Redrive
    <3>2. item[i] # NoItem /\ item[i] \in OpsWorkItem /\ item[i].generation \in Nat
          /\ item[i].state \notin Finished
      BY <3>1, OpsTypes, RowFields DEF Redrivable, OpsInv, Finished
    <3>3. /\ s \in OpsWorkItem /\ s.generation = item[i].generation + 1
          /\ s.attempts = NewItem.attempts /\ s.state = NewItem.state
      BY <3>2, NewItemIsRow DEF OpsWorkItem
    <3>4. Room(s) /\ s # NoItem
      BY <3>3, NewItemIsRow, RowAbsent DEF Room
    <3>. HIDE DEF s
    <3>5. RowMoves(item[i], s)
      BY <3>2, <3>3, <3>4 DEF RowMoves
    <3>. QED  BY <3>1, <3>5, OneRowMoves
  <2>. QED  BY <2>1, <2>2, <2>3, <2>4, <2>5, <2>6
<1>6. OpsTypeOK'
  BY <1>1, <1>3, <1>4, <1>5 DEF OpsInv, OpsTypeOK
<1>. QED  BY <1>2, <1>5, <1>6, RowsMovedKeep

(* What a worker does.                                                     *)
LEMMA ReapsKeep ==
  ASSUME OpsInv, ReapExpiredClaims
  PROVE  OpsInv' /\ RowsMove
<1>1. item' = [i \in Items |-> Reaped(item[i])] /\ UNCHANGED <<queue, worker, broken, fuel>>
  BY DEF ReapExpiredClaims, AllReaped
<1>2. RowsMove
  BY <1>1, ReapedMoves DEF RowsMove
<1>3. OpsTypeOK'
  BY <1>1, ReapedMoves DEF RowMoves, OpsInv, OpsTypeOK
<1>4. WorkersKeepOrLet /\ BusyHolds'
  BY <1>1 DEF WorkersKeepOrLet, OpsInv, BusyHolds
<1>. QED  BY <1>2, <1>3, <1>4, RowsMovedKeep

(* A worker without an item.                                               *)
LEMMA IdleWorkerTyped ==
  /\ IdleWorker \in Worker /\ IdleWorker.item = NoItem /\ IdleWorker.pc = "idle"
  /\ DownWorker \in Worker /\ DownWorker.item = NoItem /\ DownWorker.pc = "down"
BY DEF IdleWorker, DownWorker, Worker

(* A worker whose rows stand lets its item go or goes on with it.          *)
LEMMA WorkerSteps ==
  ASSUME OpsInv, NEW w \in OpsWorkers, NEW x \in Worker, worker' = [worker EXCEPT ![w] = x],
         RowsMove, item' \in [Items -> OpsWorkItem \cup {NoItem}],
         UNCHANGED queue, broken' \subseteq Items,
         fuel' \in [breaks : 0..MaxBreaks, stalls : 0..MaxStalls, faults : 0..MaxFaults],
         \/ x.item = NoItem /\ x.pc \in {"idle", "down"}
         \/ /\ x.item = worker[w].item /\ x.generation = worker[w].generation
            /\ x.item # NoItem
            /\ x.pc = "reporting" => x.result \in OpsWorkResults
  PROVE  OpsInv'
<1>1. worker'[w] = x /\ \A v \in OpsWorkers \ {w} : worker'[v] = worker[v]
  BY DEF OpsInv, OpsTypeOK
<1>2. OpsTypeOK'
  BY DEF OpsInv, OpsTypeOK
<1>3. WorkersKeepOrLet
  BY <1>1 DEF WorkersKeepOrLet
<1>4. BusyHolds'
  BY <1>1 DEF OpsInv, BusyHolds
<1>. QED  BY <1>2, <1>3, <1>4, RowsMovedKeep

(* A worker inside its item: it renews, finishes, reports, dies, restarts. *)
LEMMA WorkersKeep ==
  ASSUME OpsInv, NEW w \in OpsWorkers,
         Heartbeat(w) \/ (\E result \in OpsWorkResults : Process(w, result)) \/ Report(w)
         \/ Crash(w) \/ Restart(w)
  PROVE  OpsInv' /\ RowsMove
<1>. DEFINE i == worker[w].item
<1>1. worker[w] \in Worker
  BY OpsTypes DEF OpsInv
<1>2. UNCHANGED queue /\ broken' \subseteq Items
  BY DEF Heartbeat, Process, Report, Crash, Restart, OpsInv, OpsTypeOK
<1>3. fuel' \in [breaks : 0..MaxBreaks, stalls : 0..MaxStalls, faults : 0..MaxFaults]
  <2>1. /\ fuel \in [breaks : 0..MaxBreaks, stalls : 0..MaxStalls, faults : 0..MaxFaults]
        /\ MaxFaults \in Nat
    BY OpsAssumption DEF OpsInv, OpsTypeOK
  <2>2. ~Crash(w) => UNCHANGED fuel
    BY DEF Heartbeat, Process, Report, Restart
  <2>3. Crash(w) => fuel.faults > 0 /\ fuel' = [fuel EXCEPT !.faults = @ - 1]
    BY DEF Crash
  <2>. QED  BY <2>1, <2>2, <2>3
<1>4. CASE UNCHANGED item
  <2>1. RowsMove /\ item' \in [Items -> OpsWorkItem \cup {NoItem}]
    BY <1>4, RowsStay DEF OpsInv, OpsTypeOK
  <2>2. CASE \E x \in {IdleWorker, DownWorker} : worker' = [worker EXCEPT ![w] = x]
    BY <1>2, <1>3, <2>1, <2>2, IdleWorkerTyped, WorkerSteps
  <2>3. CASE UNCHANGED worker
    <3>1. WorkersKeepOrLet /\ BusyHolds'
      BY <2>3 DEF WorkersKeepOrLet, OpsInv, BusyHolds
    <3>2. OpsTypeOK'
      BY <1>2, <1>3, <2>1, <2>3 DEF OpsInv, OpsTypeOK
    <3>. QED  BY <2>1, <3>1, <3>2, RowsMovedKeep
  <2>4. CASE Heartbeat(w) /\ worker' = [worker EXCEPT ![w].fenced = TRUE]
    <3>. DEFINE x == [worker[w] EXCEPT !.fenced = TRUE]
    <3>1. /\ x \in Worker /\ x.item = worker[w].item /\ x.generation = worker[w].generation
          /\ x.pc = "processing" /\ x.item # NoItem
      BY <1>1, <2>4 DEF Worker, Heartbeat, OpsInv, BusyHolds
    <3>2. worker' = [worker EXCEPT ![w] = x]
      BY <2>4 DEF OpsInv, OpsTypeOK
    <3>. HIDE DEF x
    <3>. QED  BY <1>2, <1>3, <2>1, <3>1, <3>2, WorkerSteps
  <2>5. CASE \E result \in OpsWorkResults : Process(w, result)
    <3>1. PICK result \in OpsWorkResults : Process(w, result)
      BY <2>5
    <3>. DEFINE x == [worker[w] EXCEPT !.pc = "reporting", !.result = result]
    <3>2. /\ x \in Worker /\ x.item = worker[w].item /\ x.generation = worker[w].generation
          /\ x.pc = "reporting" /\ x.item # NoItem /\ x.result = result
      BY <1>1, <3>1 DEF Worker, Process, OpsInv, BusyHolds
    <3>3. worker' = [worker EXCEPT ![w] = x]
      BY <3>1 DEF Process, OpsInv, OpsTypeOK
    <3>. HIDE DEF x
    <3>. QED  BY <1>2, <1>3, <2>1, <3>2, <3>3, WorkerSteps
  <2>. QED
    BY <2>2, <2>3, <2>4, <2>5 DEF Heartbeat, Report, Crash, Restart
<1>5. CASE Heartbeat(w) /\ ~UNCHANGED item
  <2>1. /\ Holds(w) /\ UNCHANGED worker
        /\ item' = [item EXCEPT ![i].lease = "live"]
    BY <1>5 DEF Heartbeat
  <2>2. i \in Items /\ item[i] # NoItem
    BY <1>1, <2>1, WorkerFields DEF Holds, OpsInv, HeldIsStored
  <2>3. item' = [item EXCEPT ![i] = [item[i] EXCEPT !.lease = "live"]]
    BY <2>1, <2>2 DEF OpsInv, OpsTypeOK
  <2>4. RowMoves(item[i], [item[i] EXCEPT !.lease = "live"])
    BY <2>2, RowLapses
  <2>5. RowsMove /\ item' \in [Items -> OpsWorkItem \cup {NoItem}]
    BY <2>2, <2>3, <2>4, OneRowMoves
  <2>6. WorkersKeepOrLet /\ BusyHolds'
    BY <2>1 DEF WorkersKeepOrLet, OpsInv, BusyHolds
  <2>7. OpsTypeOK'
    BY <1>2, <1>3, <2>1, <2>5 DEF OpsInv, OpsTypeOK
  <2>. QED  BY <2>5, <2>6, <2>7, RowsMovedKeep
<1>6. CASE Report(w) /\ ~UNCHANGED item
  <2>. DEFINE s == Completed(item[i], worker[w].result)
  <2>1. Holds(w) /\ worker' = [worker EXCEPT ![w] = IdleWorker] /\ item' = [item EXCEPT ![i] = s]
    BY <1>6 DEF Report
  <2>2. /\ i \in Items /\ item[i] # NoItem /\ item[i] \in OpsWorkItem
        /\ item[i].generation \in Nat
        /\ worker[w].result \in OpsWorkResults
        /\ item[i].attempts < MaxAttempts /\ item[i].state \notin Finished
    BY <1>1, <1>6, <2>1, WorkerFields, OpsTypes, RowFields
    DEF Report, Holds, OpsInv, HeldIsStored, HeldIsOpen, BusyHolds
  <2>3. s \in OpsWorkItem /\ Room(s) /\ s.generation = item[i].generation + 1
    BY <2>2, RowCompletes
  <2>. HIDE DEF s
  <2>4. RowMoves(item[i], s)
    BY <2>2, <2>3, RowAbsent DEF RowMoves
  <2>5. RowsMove /\ item' \in [Items -> OpsWorkItem \cup {NoItem}]
    BY <2>1, <2>2, <2>4, OneRowMoves
  <2>. QED  BY <1>2, <1>3, <2>1, <2>5, IdleWorkerTyped, WorkerSteps
<1>. QED
  BY <1>4, <1>5, <1>6 DEF Process, Crash, Restart

(* Reaping leaves the generation and the attempts.                         *)
LEMMA ReapedGeneration ==
  ASSUME OpsInv, NEW i \in Items, item[i] # NoItem
  PROVE  /\ Reaped(item[i]) \in OpsWorkItem /\ Reaped(item[i]).generation = item[i].generation
         /\ Reaped(item[i]).attempts = item[i].attempts
BY OpsTypes DEF Reaped, OpsWorkItem, OpsWorkStates, OpsInv

(* A claim of a row.                                                       *)
LEMMA ClaimedIsRow ==
  ASSUME NEW r \in OpsWorkItem, NEW w \in OpsWorkers
  PROVE  /\ Claimed(r, w) \in OpsWorkItem /\ Claimed(r, w).generation = r.generation + 1
         /\ Claimed(r, w).state = "claimed" /\ Claimed(r, w).attempts = r.attempts
<1>. DEFINE g == r.generation + 1
<1>1. g \in Nat
  BY RowFields
<1>2. Claimed(r, w) = [r EXCEPT !.state = "claimed", !.generation = g, !.claimed = w, !.lease = "live"]
  BY DEF Claimed, OpsWorkItem
<1>. HIDE DEF g
<1>3. /\ Claimed(r, w) \in OpsWorkItem /\ Claimed(r, w).generation = g
      /\ Claimed(r, w).state = "claimed" /\ Claimed(r, w).attempts = r.attempts
  BY <1>1, <1>2 DEF OpsWorkItem, OpsWorkStates
<1>. QED  BY <1>3 DEF g

(* A claim takes a generation no worker has had.                           *)
LEMMA RunsKeep ==
  ASSUME OpsInv, NEW w \in OpsWorkers, RunOnce(w)
  PROVE  OpsInv' /\ RowsMove
<1>1. PICK n \in Candidates :
        LET i == queue[n]
            taken == Claimed(AllReaped[i], w)
        IN IF i \in Unhandled
           THEN /\ item' = [AllReaped EXCEPT ![i] = Completed(taken, "failed_terminal")]
                /\ UNCHANGED worker
           ELSE /\ item' = [AllReaped EXCEPT ![i] = taken]
                /\ worker' = [worker EXCEPT ![w] =
                     [IdleWorker EXCEPT !.pc = "processing", !.item = i,
                                        !.generation = taken.generation]]
  BY DEF RunOnce
<1>. DEFINE i == queue[n]
            r == Reaped(item[i])
            taken == Claimed(r, w)
            done == Completed(taken, "failed_terminal")
<1>2. i \in Items
  BY DEF Candidates, OpsInv, OpsTypeOK
<1>3. AllReaped[i] = r /\ Claimable(r)
  BY <1>2 DEF AllReaped, Candidates
<1>4. item[i] # NoItem /\ item[i] \in OpsWorkItem /\ r \in OpsWorkItem /\ r.generation = item[i].generation
      /\ r.generation \in Nat /\ r.attempts = item[i].attempts
  <2>1. item[i] # NoItem
    BY <1>3 DEF Claimable, Reaped
  <2>. QED  BY <1>2, <2>1, ReapedGeneration, OpsTypes, RowFields DEF OpsInv
<1>5. RowMoves(item[i], r)
  BY <1>2, ReapedMoves
<1>6. r.attempts < MaxAttempts /\ item[i].state \notin Finished
  BY <1>3, <1>4, <1>5 DEF RowMoves, Room, Claimable, Finished
<1>. HIDE DEF r
<1>7. /\ taken \in OpsWorkItem /\ taken.generation = r.generation + 1 /\ taken.state = "claimed"
      /\ taken.attempts = r.attempts
  BY <1>4, ClaimedIsRow
<1>. HIDE DEF taken
<1>8. MaxAttempts \in Nat /\ r.attempts \in Nat
  BY <1>4, RowFields, OpsAssumption
<1>9. done \in OpsWorkItem /\ Room(done) /\ done.generation = r.generation + 2
  BY <1>4, <1>6, <1>7, RowCompletes DEF Finished, OpsWorkResults
<1>. HIDE DEF done
<1>10. RowMoves(item[i], taken) /\ RowMoves(item[i], done)
  BY <1>4, <1>6, <1>7, <1>8, <1>9, RowAbsent DEF RowMoves, Room
<1>11. UNCHANGED <<queue, broken, fuel>>
  BY DEF RunOnce
<1>12. ASSUME NEW s, RowMoves(item[i], s), item' = [AllReaped EXCEPT ![i] = s]
       PROVE  RowsMove /\ item' \in [Items -> OpsWorkItem \cup {NoItem}] /\ item'[i] = s
  <2>1. \A j \in Items : item'[j] = IF j = i THEN s ELSE Reaped(item[j])
    BY <1>2, <1>12 DEF AllReaped
  <2>2. RowsMove
    BY <1>12, <2>1, ReapedMoves DEF RowsMove
  <2>3. item' = [j \in Items |-> item'[j]]
    BY <1>12 DEF AllReaped
  <2>. QED  BY <1>2, <2>1, <2>2, <2>3 DEF RowsMove, RowMoves
<1>13. CASE i \in Unhandled
  <2>1. item' = [AllReaped EXCEPT ![i] = done] /\ UNCHANGED worker
    BY <1>1, <1>3, <1>13 DEF done, taken
  <2>2. RowsMove /\ item' \in [Items -> OpsWorkItem \cup {NoItem}]
    BY <1>10, <1>12, <2>1
  <2>3. OpsTypeOK' /\ WorkersKeepOrLet /\ BusyHolds'
    BY <1>11, <2>1, <2>2 DEF OpsInv, OpsTypeOK, WorkersKeepOrLet, BusyHolds
  <2>. QED  BY <2>2, <2>3, RowsMovedKeep
<1>14. CASE i \notin Unhandled
  <2>. DEFINE x == [IdleWorker EXCEPT !.pc = "processing", !.item = i,
                                      !.generation = taken.generation]
  <2>1. item' = [AllReaped EXCEPT ![i] = taken] /\ worker' = [worker EXCEPT ![w] = x]
    BY <1>1, <1>3, <1>14 DEF taken
  <2>2. RowsMove /\ item' \in [Items -> OpsWorkItem \cup {NoItem}] /\ item'[i] = taken
    BY <1>10, <1>12, <2>1
  <2>3. x \in Worker /\ x.item = i /\ x.generation = taken.generation /\ x.pc = "processing"
    <3>. DEFINE g == taken.generation
    <3>1. g \in Nat
      BY <1>7, RowFields
    <3>. HIDE DEF g
    <3>2. ASSUME NEW j \in Items
          PROVE  LET y == [IdleWorker EXCEPT !.pc = "processing", !.item = j, !.generation = g]
                 IN y \in Worker /\ y.item = j /\ y.generation = g /\ y.pc = "processing"
      BY <3>1 DEF Worker, IdleWorker
    <3>. QED  BY <1>2, <3>2 DEF g
  <2>4. i # NoItem
    BY <1>2, OpsAssumption
  <2>. HIDE DEF x
  <2>5. OpsTypeOK'
    BY <1>11, <2>1, <2>2, <2>3 DEF OpsInv, OpsTypeOK
  <2>6. BusyHolds'
    BY <2>1, <2>3, <2>4 DEF OpsInv, OpsTypeOK, BusyHolds
  <2>7. /\ item'[i] # NoItem /\ x.generation = item'[i].generation
        /\ item[i].generation < item'[i].generation
        /\ item'[i].attempts < MaxAttempts /\ item'[i].state \notin Finished
    BY <1>4, <1>6, <1>7, <2>2, <2>3, RowAbsent DEF Finished
  <2>. QED  BY <1>2, <1>4, <2>1, <2>2, <2>3, <2>5, <2>6, <2>7, RowTaken
<1>. QED  BY <1>13, <1>14

(* The queue starts empty.                                                 *)
LEMMA OpsStarts == OpsInit => OpsInv
<1>. SUFFICES ASSUME OpsInit PROVE OpsInv
  OBVIOUS
<1>1. OpsTypeOK
  BY IdleWorkerTyped, OpsAssumption DEF OpsInit, OpsTypeOK
<1>2. \A w \in OpsWorkers : worker[w] = IdleWorker /\ worker[w].item = NoItem /\ worker[w].pc = "idle"
  BY IdleWorkerTyped DEF OpsInit
<1>3. \A i \in Items : item[i] = NoItem
  BY DEF OpsInit
<1>. QED
  BY <1>1, <1>2, <1>3
  DEF OpsInv, HeldIsStored, GenerationsApart, RetriesBounded, HeldIsOpen, Holds, BusyHolds

(* Every step of the queue keeps the invariant and moves the rows as it    *)
(* may.                                                                    *)
LEMMA OpsSteps == OpsInv /\ [OpsNext]_opsVars => OpsInv' /\ RowsMove
<1>. SUFFICES ASSUME OpsInv, [OpsNext]_opsVars PROVE OpsInv' /\ RowsMove
  OBVIOUS
<1>1. CASE UNCHANGED opsVars
  <2>1. RowsMove
    BY <1>1, RowsStay DEF opsVars
  <2>2. OpsTypeOK' /\ WorkersKeepOrLet /\ BusyHolds'
    BY <1>1 DEF opsVars, OpsInv, OpsTypeOK, WorkersKeepOrLet, BusyHolds
  <2>. QED  BY <2>1, <2>2, RowsMovedKeep
<1>2. CASE OpsNext
  BY <1>2, WorkStepsKeep, ReapsKeep, WorkersKeep, RunsKeep DEF OpsNext, WorkerLoop
<1>. QED  BY <1>1, <1>2

(* In every behaviour of the queue the invariant holds (ops/store.ts       *)
(* claim, heartbeat, complete, reap).                                      *)
THEOREM OpsKept == OpsInit /\ [][OpsNext]_opsVars => []OpsInv
BY OpsStarts, OpsSteps, PTL

(* One worker holds an item, and no row is charged more than the cap       *)
(* (ops/store.ts claim, complete).                                         *)
LEMMA OpsHolders == OpsInv => OneHolder /\ RetriesBounded
BY DEF OpsInv, OneHolder, GenerationsApart, Holds

(* Finished work stays finished, whatever late workers and reapers write   *)
(* (ops/store.ts complete, reap).                                          *)
THEOREM FinishedStand == OpsInit /\ [][OpsNext]_opsVars => FinishedForGood
<1>1. OpsInv /\ [OpsNext]_opsVars =>
        [\A i \in Items :
           item[i] # NoItem /\ item[i].state \in {"succeeded", "failed_terminal"} =>
             item'[i] # NoItem /\ item'[i].state = item[i].state]_opsVars
  BY OpsSteps DEF RowsMove, RowMoves, Finished
<1>. QED  BY <1>1, OpsKept, PTL DEF FinishedForGood

-----------------------------------------------------------------------------
(***************************************************************************)
(* Repair passes and the scan for overdue runs.                            *)
(*                                                                         *)
(* A pass reads pages by (time, id) after a cursor. An item that is        *)
(* pending all the while keeps its place, because every write of the row   *)
(* is a move out of "pending" or gives it a later time; so it is either    *)
(* read or still beyond the cursor (ItemOwed), and a page that comes back  *)
(* empty ends the listing. The scan cancels by compare-and-set on the      *)
(* version it read (ScanFits).                                             *)
(***************************************************************************)
(* The rows, a pass and a scan, by their types.                            *)
RelItemRow == [state : ItemStates, at : 0..MaxRelTime, lapsed : BOOLEAN]
RelRunRow == [status : RelRunStatuses, at : 0..MaxRelTime, version : Nat]
Pass == [pc : {"idle", "reap", "page", "quota", "dispatch", "list", "runs", "over"},
         cursor : {<<>>} \cup (Nat \X Nat), batches : Nat, stale : SUBSET RelRuns,
         seen : SUBSET RelItems, throughout : SUBSET RelItems]

(* A scan of the overdue runs.                                             *)
Scan == [pc : {"idle", "next", "cancel"}, listed : SUBSET RelRuns, run : RelRuns \cup {0}, version : Nat]

(* The position a page ended at.                                           *)
AfterPage == {"quota", "dispatch", "list", "runs", "over"}

(* What the pass owes an item that was pending all the while: it was read, *)
(* or its place is after the cursor.                                       *)
ItemOwed(i) == i \in recon.seen \/ (recon.cursor # <<>> /\ Later(Position(i), recon.cursor))

(* A pass has read what was pending all the while, up to its cursor; it    *)
(* ends with the cursor back at the start.                                 *)
PassFits ==
  /\ recon.throughout \subseteq Pending
  /\ recon.cursor # <<>> \/ recon.pc \in AfterPage => \A i \in recon.throughout : ItemOwed(i)
  /\ recon.pc = "over" => recon.cursor = <<>>

(* A scan about to cancel has a run whose version, if unchanged, is of an  *)
(* open run.                                                               *)
ScanFits ==
  /\ scan \in Scan
  /\ scan.pc = "cancel" =>
       /\ scan.run \in RelRuns
       /\ scan.version <= relRun[scan.run].version
       /\ scan.version = relRun[scan.run].version => relRun[scan.run].status \notin Ended

(* The inductive invariant of the repairs and the scan for overdue runs.   *)
RelInv ==
  /\ relClock \in 0..MaxRelTime
  /\ relItem \in [RelItems -> RelItemRow]
  /\ relRun \in [RelRuns -> RelRunRow]
  /\ relDispatch \in [RelDispatches -> RelDispatchStates]
  /\ \A i \in RelItems : relItem[i].at <= relClock
  /\ recon \in Pass
  /\ redriving.pc \in {"idle", "redrive"}
  /\ redriving.pc = "redrive" => redriving.item \in RelItems
  /\ PassFits /\ ScanFits

(* The repairs and the scan: the two halves of the model share their rows. *)
RelNext == PassNext \/ ScanNext

-----------------------------------------------------------------------------
(* Items have places: numbers.                                             *)
LEMMA Places ==
  ASSUME RelInv, NEW i \in RelItems
  PROVE  /\ relItem[i].at \in Nat /\ i \in Nat
         /\ Position(i) = <<relItem[i].at, i>> /\ Position(i) \in Nat \X Nat
         /\ relItem[i] \in RelItemRow
         /\ relItem[i].at <= relClock /\ relClock \in Nat
<1>1. relItem[i] \in RelItemRow /\ i \in Nat
  BY ReliabilityAssumption DEF RelInv
<1>2. relItem[i].at \in Nat
  BY <1>1 DEF RelItemRow
<1> QED
  BY <1>1, <1>2, ReliabilityAssumption DEF Position, RelInv

(* A nonempty set of items has a first one in the order of the pages.      *)
LEMMA FirstItem ==
  ASSUME RelInv, NEW S, S \subseteq RelItems, S # {}
  PROVE  \E e \in S : \A j \in S \ {e} : Later(Position(j), Position(e))
<1>1. \A i \in S : relItem[i].at \in Nat /\ i \in Nat /\ Position(i) = <<relItem[i].at, i>>
  BY Places
<1> DEFINE T == {relItem[i].at : i \in S}
<1>2. T \subseteq Nat /\ T # {}
  BY <1>1
<1>3. PICK m \in T : \A t \in T : m <= t
  BY <1>2, SmallestNat
<1> DEFINE U == {i \in S : relItem[i].at = m}
<1>4. U \subseteq Nat /\ U # {}
  BY <1>1, <1>3
<1>5. PICK e \in U : \A u \in U : e <= u
  BY <1>4, SmallestNat
<1>6. ASSUME NEW j \in S \ {e} PROVE Later(Position(j), Position(e))
  <2>1. m <= relItem[j].at /\ relItem[e].at = m
    BY <1>3, <1>5
  <2>2. relItem[j].at = m => e <= j
    BY <1>5
  <2>3. relItem[j].at \in Nat /\ j \in Nat /\ e \in Nat /\ m \in Nat /\ j # e
    BY <1>1, <1>2, <1>5
  <2>4. Position(j)[1] = relItem[j].at /\ Position(j)[2] = j /\ Position(e)[1] = m /\ Position(e)[2] = e
    BY <1>1, <2>1
  <2> QED
    BY <2>1, <2>2, <2>3, <2>4 DEF Later
<1> QED
  BY <1>5, <1>6

(* The initial segments of a set of items.                                 *)
IsSegment(p, S) == p \subseteq S /\ \A i \in p, j \in S \ p : Later(Position(j), Position(i))

(* A finite set of items has an initial segment of every size up to its    *)
(* own.                                                                    *)
LEMMA Segments ==
  ASSUME RelInv, NEW S, S \subseteq RelItems, NEW k \in Nat, k <= Cardinality(S)
  PROVE  \E p \in SUBSET S : IsSegment(p, S) /\ Cardinality(p) = k
<1>1. IsFiniteSet(S) /\ Cardinality(S) \in Nat
  BY ReliabilityAssumption, FS_Subset, FS_CardinalityType
<1> DEFINE Has(n) == \E p \in SUBSET S : IsSegment(p, S) /\ Cardinality(p) = n
           N == {n \in Nat : n <= Cardinality(S) /\ ~Has(n)}
<1>2. SUFFICES ASSUME N # {} PROVE FALSE
  <2>1. k \notin N => Has(k)
    BY DEF N
  <2> QED
    BY <2>1
<1>3. PICK n \in N : \A x \in N : n <= x
  <2>1. N \subseteq Nat
    OBVIOUS
  <2> HIDE DEF N
  <2> QED
    BY <2>1, <1>2, SmallestNat
<1>4. n # 0
  <2>1. Has(0)
    BY FS_EmptySet, Zenon DEF IsSegment
  <2> QED
    BY <2>1
<1>5. Has(n - 1)
  <2>1. n - 1 \in Nat /\ n - 1 <= Cardinality(S) /\ ~(n <= n - 1)
    BY <1>1, <1>4
  <2>2. n - 1 \notin N
    BY <1>3, <2>1
  <2> QED
    BY <2>1, <2>2
<1>6. PICK p \in SUBSET S : IsSegment(p, S) /\ Cardinality(p) = n - 1
  BY <1>5
<1>7. S \ p # {}
  <2>1. Cardinality(S) # n - 1
    BY <1>1, <1>3
  <2> QED
    BY <1>6, <2>1
<1>8. PICK e \in S \ p : \A j \in (S \ p) \ {e} : Later(Position(j), Position(e))
  BY <1>7, FirstItem
<1>9. IsSegment(p \cup {e}, S)
  <2>1. p \cup {e} \subseteq S
    BY <1>8
  <2>2. ASSUME NEW i \in p \cup {e}, NEW j \in S \ (p \cup {e})
        PROVE  Later(Position(j), Position(i))
    <3>1. j \in S \ p /\ j \in (S \ p) \ {e}
      OBVIOUS
    <3>2. CASE i \in p
      BY <1>6, <3>1, <3>2 DEF IsSegment
    <3>3. CASE i = e
      BY <1>8, <3>1, <3>3
    <3> QED
      BY <3>2, <3>3
  <2> QED
    BY <2>1, <2>2 DEF IsSegment
<1>10. Cardinality(p \cup {e}) = n
  <2>1. IsFiniteSet(p)
    BY <1>1, FS_Subset
  <2>2. Cardinality(p \cup {e}) = Cardinality(p) + 1
    BY <2>1, <1>8, FS_AddElement
  <2> QED
    BY <2>2, <1>6, <1>3
<1>11. Has(n)
  BY <1>8, <1>9, <1>10
<1> QED
  BY <1>11

(* A nonempty set of items has a last one in the order of the pages.       *)
LEMMA LastItem ==
  ASSUME RelInv, NEW S, S \subseteq RelItems, S # {}
  PROVE  \E l \in S : \A j \in S \ {l} : Later(Position(l), Position(j))
<1>1. IsFiniteSet(S) /\ Cardinality(S) \in Nat
  BY ReliabilityAssumption, FS_Subset, FS_CardinalityType
<1>2. Cardinality(S) # 0
  BY <1>1, FS_EmptySet
<1> DEFINE k == Cardinality(S) - 1
<1>3. k \in Nat /\ k <= Cardinality(S)
  BY <1>1, <1>2
<1>4. PICK p \in SUBSET S : IsSegment(p, S) /\ Cardinality(p) = k
  <2> HIDE DEF k
  <2> QED
    BY <1>3, Segments
<1>5. S \ p # {}
  BY <1>1, <1>4
<1>6. PICK l \in S \ p : TRUE
  BY <1>5
<1>7. S = p \cup {l}
  <2>1. IsFiniteSet(p)
    BY <1>1, FS_Subset
  <2>2. Cardinality(p \cup {l}) = k + 1
    BY <2>1, <1>4, <1>6, FS_AddElement
  <2>3. Cardinality(p \cup {l}) = Cardinality(S)
    BY <2>2, <1>1
  <2>4. p \cup {l} \subseteq S
    BY <1>6
  <2> QED
    BY <1>1, <2>3, <2>4, FS_Subset
<1>8. \A j \in S \ {l} : Later(Position(l), Position(j))
  BY <1>4, <1>6, <1>7 DEF IsSegment
<1> QED
  BY <1>6, <1>8

-----------------------------------------------------------------------------
(* What a page is: an initial segment of the rows, empty only when there   *)
(* are none.                                                               *)
LEMMA PageRead ==
  ASSUME RelInv
  PROVE  LET rows == {i \in Pending : Beyond(i)} page == ListPendingBatch IN
         IsSegment(page, rows) /\ (page = {} => rows = {})
<1> DEFINE rows == {i \in Pending : Beyond(i)}
           size == IF Cardinality(rows) < BatchSize THEN Cardinality(rows) ELSE BatchSize
           IsPage(p) == Cardinality(p) = size /\ \A i \in p, j \in rows \ p : Later(Position(j), Position(i))
<1>1. rows \subseteq RelItems
  BY DEF Pending
<1>2. IsFiniteSet(rows) /\ Cardinality(rows) \in Nat
  BY <1>1, ReliabilityAssumption, FS_Subset, FS_CardinalityType
<1>3. size \in Nat /\ size <= Cardinality(rows) /\ (size = 0 => Cardinality(rows) = 0)
  BY <1>2, ReliabilityAssumption
<1>4. ListPendingBatch = CHOOSE p \in SUBSET rows : IsPage(p)
  BY DEF ListPendingBatch
<1>5. \E p \in SUBSET rows : IsPage(p)
  <2>1. \E p \in SUBSET rows : IsSegment(p, rows) /\ Cardinality(p) = size
    <3> HIDE DEF rows, size
    <3> QED
      BY <1>1, <1>3, Segments
  <2> QED
    BY <2>1 DEF IsSegment
<1>6. ListPendingBatch \in SUBSET rows /\ IsPage(ListPendingBatch)
  <2> HIDE DEF IsPage, rows
  <2> QED
    BY <1>4, <1>5, Zenon
<1>7. ListPendingBatch = {} => rows = {}
  <2>1. ListPendingBatch = {} => size = 0
    BY <1>6, FS_EmptySet
  <2>2. Cardinality(rows) = 0 => rows = {}
    BY <1>2, FS_EmptySet
  <2> QED
    BY <2>1, <2>2, <1>3
<1> QED
  BY <1>6, <1>7 DEF IsSegment

(* The cursor after a page is the place of its last item.                  *)
LEMMA CursorMoves ==
  ASSUME RelInv, NEW page, page \subseteq RelItems, page # {}
  PROVE  \E l \in page : /\ NextCursor(page) = Position(l)
                         /\ \A j \in page \ {l} : Later(Position(l), Position(j))
<1> DEFINE l == CHOOSE i \in page : \A j \in page \ {i} : Later(Position(i), Position(j))
<1>1. l \in page /\ \A j \in page \ {l} : Later(Position(l), Position(j))
  BY LastItem, Zenon
<1>2. NextCursor(page) = Position(l)
  BY DEF NextCursor
<1> QED
  BY <1>1, <1>2

-----------------------------------------------------------------------------
(* The parts of the invariant that a step which moves no item, run or      *)
(* clock keeps.                                                            *)
LEMMA RelStarts ==
  ASSUME RelInit
  PROVE  RelInv
<1>1. relItem \in [RelItems -> RelItemRow] /\ \A i \in RelItems : relItem[i].at <= relClock
  <2>1. [state : {"pending", "dead_letter"}, at : {0}, lapsed : {FALSE}] \subseteq RelItemRow
    <3>1. 0 \in 0..MaxRelTime
      BY ReliabilityAssumption
    <3>2. {"pending", "dead_letter"} \subseteq ItemStates /\ {0} \subseteq 0..MaxRelTime
      BY <3>1 DEF ItemStates
    <3> QED
      BY <3>2, Zenon DEF RelItemRow
  <2>2. \A i \in RelItems : relItem[i] \in [state : {"pending", "dead_letter"}, at : {0}, lapsed : {FALSE}]
    BY DEF RelInit
  <2>3. \A i \in RelItems : relItem[i].at = 0
    BY <2>2
  <2>4. relItem \in [RelItems -> RelItemRow]
    BY <2>1 DEF RelInit
  <2> QED
    BY <2>3, <2>4 DEF RelInit
<1>2. relRun \in [RelRuns -> RelRunRow]
  BY ReliabilityAssumption DEF RelInit, RelRunRow, RelRunStatuses
<1>3. relDispatch \in [RelDispatches -> RelDispatchStates]
  BY DEF RelInit, RelDispatchStates
<1>4. recon \in Pass /\ PassFits
  BY DEF RelInit, NoPass, Pass, PassFits, AfterPage
<1>5. redriving.pc = "idle" /\ ScanFits
  BY DEF RelInit, NoRedrive, NoScan, Scan, ScanFits
<1>6. relClock \in 0..MaxRelTime
  BY ReliabilityAssumption DEF RelInit
<1> QED
  BY <1>1, <1>2, <1>3, <1>4, <1>5, <1>6 DEF RelInv

(* An item written or reaped moves back in the order, never forward.       *)
LEMMA PlaceKept ==
  ASSUME RelInv, NEW i \in RelItems, relItem' \in [RelItems -> RelItemRow],
         relItem'[i].at = relItem[i].at \/ relItem'[i].at = relClock,
         recon'.cursor = recon.cursor, recon'.seen = recon.seen, ItemOwed(i)
  PROVE  ItemOwed(i)'
<1>1. /\ relItem[i].at \in Nat /\ i \in Nat /\ relItem[i].at <= relClock
      /\ Position(i) = <<relItem[i].at, i>> /\ relClock \in Nat
  BY Places
<1>2. CASE i \in recon.seen
  BY <1>2 DEF ItemOwed
<1>3. CASE i \notin recon.seen
  <2>1. recon.cursor # <<>> /\ Later(Position(i), recon.cursor)
    BY <1>3 DEF ItemOwed
  <2>2. recon.cursor \in Nat \X Nat
    BY <2>1 DEF RelInv, Pass
  <2> DEFINE b == relItem'[i].at
  <2>3. b \in Nat /\ relItem[i].at <= b
    BY <1>1
  <2>4. Position(i)' = <<b, i>>
    BY DEF Position
  <2>5. recon.cursor[1] \in Nat /\ recon.cursor[2] \in Nat
    BY <2>2
  <2>6. relItem[i].at > recon.cursor[1] \/ (relItem[i].at = recon.cursor[1] /\ i > recon.cursor[2])
    BY <2>1, <1>1 DEF Later
  <2> HIDE DEF b
  <2>7. b > recon.cursor[1] \/ (b = recon.cursor[1] /\ i > recon.cursor[2])
    BY <2>3, <2>5, <2>6, <1>1
  <2>8. Later(<<b, i>>, recon.cursor)
    BY <2>7 DEF Later
  <2>9. Later(Position(i), recon.cursor)'
    BY <2>4, <2>8 DEF Later
  <2> QED
    BY <2>9, <2>1 DEF ItemOwed
<1> QED
  BY <1>2, <1>3

(* Items change, the pass stays where it is but for its account of what    *)
(* was pending throughout.                                                 *)
LEMMA ItemsMove ==
  ASSUME RelInv, relItem' \in [RelItems -> RelItemRow],
         \A i \in RelItems : relItem'[i].at = relItem[i].at \/ relItem'[i].at = relClock,
         \A i \in recon'.throughout : i \in recon.throughout /\ relItem'[i].state \in NonTerminal,
         recon'.cursor = recon.cursor, recon'.seen = recon.seen,
         recon'.pc = recon.pc \/ (recon.pc = "reap" /\ recon'.pc = "page")
  PROVE  PassFits'
<1>1. recon'.throughout \subseteq Pending'
  BY DEF Pending, RelInv, Pass
<1>2. ASSUME recon'.cursor # <<>> \/ recon'.pc \in AfterPage, NEW i \in recon'.throughout
      PROVE ItemOwed(i)'
  <2>1. recon.cursor # <<>> \/ recon.pc \in AfterPage
    BY <1>2 DEF AfterPage
  <2>2. i \in recon.throughout /\ i \in RelItems
    BY DEF RelInv, Pass
  <2>3. ItemOwed(i)
    BY <2>1, <2>2 DEF RelInv, PassFits
  <2> QED
    BY <2>2, <2>3, PlaceKept
<1>3. recon'.pc = "over" => recon'.cursor = <<>>
  BY DEF RelInv, PassFits
<1> QED
  BY <1>1, <1>2, <1>3 DEF PassFits, AfterPage

(* The pass goes on to its next step after a page.                         *)
LEMMA PassGoesOn ==
  ASSUME RelInv, UNCHANGED relItem,
         recon'.throughout = recon.throughout, recon'.seen = recon.seen,
         recon'.cursor = recon.cursor,
         \/ recon.pc \in AfterPage /\ recon'.pc # "over"
         \/ recon'.pc = recon.pc
         \/ recon.pc \in AfterPage /\ recon.cursor = <<>>
  PROVE  PassFits'
<1>1. recon'.throughout \subseteq Pending'
  BY DEF Pending, RelInv, PassFits
<1>2. ASSUME recon'.cursor # <<>> \/ recon'.pc \in AfterPage, NEW i \in recon'.throughout
      PROVE ItemOwed(i)'
  <2>1. ItemOwed(i)
    BY <1>2 DEF RelInv, PassFits
  <2> QED
    BY <2>1 DEF ItemOwed, Position, Later
<1>3. recon'.pc = "over" => recon'.cursor = <<>>
  BY DEF RelInv, PassFits
<1> QED
  BY <1>1, <1>2, <1>3 DEF PassFits, AfterPage

(* A step that leaves the scan and the runs keeps what the scan has.       *)
LEMMA ScanStands ==
  ASSUME RelInv, UNCHANGED <<scan, relRun>>
  PROVE  ScanFits'
  BY DEF RelInv, ScanFits

(* A run written afresh takes a new version, unless its status stands.     *)
LEMMA RunsMove ==
  ASSUME RelInv, UNCHANGED scan, relRun' \in [RelRuns -> RelRunRow],
         \A r \in RelRuns : \/ relRun'[r] = relRun[r]
                            \/ relRun'[r].version = relRun[r].version + 1
  PROVE  ScanFits'
<1>1. \A r \in RelRuns : relRun[r].version \in Nat
  BY DEF RelInv, RelRunRow
<1>2. scan.pc = "cancel" => scan.run \in RelRuns /\ scan.version \in Nat /\ scan.version <= relRun[scan.run].version
  BY DEF RelInv, ScanFits, Scan
<1>3. scan.pc = "cancel" =>
        \/ relRun'[scan.run] = relRun[scan.run]
        \/ scan.version < relRun'[scan.run].version
  BY <1>1, <1>2
<1>4. scan.pc = "cancel" => scan.version <= relRun'[scan.run].version
  BY <1>1, <1>2, <1>3
<1> QED
  BY <1>1, <1>2, <1>3, <1>4 DEF RelInv, ScanFits

(* Everything of the invariant but the pass and the scan, for a step that  *)
(* leaves those rows alone.                                                *)
RowsFit ==
  /\ relClock \in 0..MaxRelTime
  /\ relItem \in [RelItems -> RelItemRow]
  /\ relRun \in [RelRuns -> RelRunRow]
  /\ relDispatch \in [RelDispatches -> RelDispatchStates]
  /\ \A i \in RelItems : relItem[i].at <= relClock

(* An item written now.                                                    *)
LEMMA WrittenTyped ==
  ASSUME RelInv, NEW i \in RelItems, NEW state \in ItemStates, relItem' = Written(i, state)
  PROVE  /\ relItem' \in [RelItems -> RelItemRow]
         /\ \A j \in RelItems : relItem'[j].at = relItem[j].at \/ relItem'[j].at = relClock
         /\ \A j \in RelItems \ {i} : relItem'[j] = relItem[j]
         /\ relItem'[i].state = state
<1>1. relItem' = [relItem EXCEPT ![i] = [state |-> state, at |-> relClock, lapsed |-> FALSE]]
  BY DEF Written
<1>2. [state |-> state, at |-> relClock, lapsed |-> FALSE] \in RelItemRow
  BY DEF RelInv, RelItemRow
<1> QED
  BY <1>1, <1>2 DEF RelInv

-----------------------------------------------------------------------------
(* A worker moves an item while a pass is under way.                       *)
LEMMA WorkerMovesKeep ==
  ASSUME RelInv, NEW i \in RelItems, WorkerMoves(i)
  PROVE  RelInv'
<1>1. PICK state \in NextStates(relItem[i].state) :
        /\ relItem' = Written(i, state)
        /\ recon' = [recon EXCEPT !.throughout = StillPending(i, state)]
  BY DEF WorkerMoves
<1>2. state \in ItemStates
  BY DEF NextStates, ItemStates
<1>3. /\ relItem' \in [RelItems -> RelItemRow]
      /\ \A j \in RelItems : relItem'[j].at = relItem[j].at \/ relItem'[j].at = relClock
      /\ \A j \in RelItems \ {i} : relItem'[j] = relItem[j]
      /\ relItem'[i].state = state
  BY <1>1, <1>2, WrittenTyped
<1>4. StillPending(i, state) \subseteq recon.throughout /\ (i \in StillPending(i, state) => state \in NonTerminal)
  BY DEF StillPending
<1>5. recon' \in Pass /\ recon'.throughout = StillPending(i, state)
      /\ recon'.pc = recon.pc /\ recon'.cursor = recon.cursor /\ recon'.seen = recon.seen
  BY <1>1, <1>4 DEF RelInv, Pass
<1>6. \A j \in recon'.throughout : j \in recon.throughout /\ relItem'[j].state \in NonTerminal
  <2> SUFFICES ASSUME NEW j \in recon'.throughout
               PROVE j \in recon.throughout /\ relItem'[j].state \in NonTerminal
    OBVIOUS
  <2>1. j \in recon.throughout /\ j \in Pending /\ j \in RelItems
    BY <1>4, <1>5 DEF RelInv, PassFits, Pending
  <2>2. CASE j = i
    BY <2>1, <2>2, <1>3, <1>4, <1>5
  <2>3. CASE j # i
    BY <2>1, <2>3, <1>3 DEF Pending
  <2> QED
    BY <2>2, <2>3
<1>7. PassFits'
  BY <1>3, <1>5, <1>6, ItemsMove
<1>8. ScanFits'
  BY ScanStands DEF WorkerMoves
<1>9. \A j \in RelItems : relItem'[j].at <= relClock
  BY <1>3, Places
<1> QED
  BY <1>3, <1>5, <1>7, <1>8, <1>9 DEF RelInv, WorkerMoves

(* A claim lapses.                                                         *)
LEMMA ClaimLapsesKeeps ==
  ASSUME RelInv, NEW i \in RelItems, ClaimLapses(i)
  PROVE  RelInv'
<1>1. relItem' = [relItem EXCEPT ![i].lapsed = TRUE] /\ UNCHANGED recon
  BY DEF ClaimLapses
<1>2. /\ relItem' \in [RelItems -> RelItemRow]
      /\ \A j \in RelItems : relItem'[j].at = relItem[j].at /\ relItem'[j].state = relItem[j].state
  BY <1>1 DEF RelInv, RelItemRow
<1>3. \A j \in recon'.throughout : j \in recon.throughout /\ relItem'[j].state \in NonTerminal
  BY <1>1, <1>2 DEF RelInv, PassFits, Pending
<1>4. PassFits'
  BY <1>1, <1>2, <1>3, ItemsMove
<1>5. ScanFits'
  BY ScanStands DEF ClaimLapses
<1>6. recon' \in Pass /\ \A j \in RelItems : relItem'[j].at <= relClock
  BY <1>1, <1>2 DEF RelInv
<1> QED
  BY <1>2, <1>4, <1>5, <1>6 DEF RelInv, ClaimLapses

(* A pass reaps what has lapsed.                                           *)
LEMMA ReapLapsedKeeps ==
  ASSUME RelInv, ReapLapsed
  PROVE  RelInv'
<1>1. /\ relItem' = [i \in RelItems |->
           IF relItem[i].lapsed THEN [state |-> "failed_retriable", at |-> relClock, lapsed |-> FALSE]
           ELSE relItem[i]]
      /\ recon' = [recon EXCEPT !.pc = "page"] /\ recon.pc = "reap"
  BY DEF ReapLapsed, PassAt
<1>2. [state |-> "failed_retriable", at |-> relClock, lapsed |-> FALSE] \in RelItemRow
  BY DEF RelInv, RelItemRow, ItemStates
<1>3. relItem' \in [RelItems -> RelItemRow]
  BY <1>1, <1>2 DEF RelInv
<1>4. \A j \in RelItems : /\ relItem'[j].at = relItem[j].at \/ relItem'[j].at = relClock
                          /\ relItem'[j].state = relItem[j].state \/ relItem'[j].state \in NonTerminal
  BY <1>1 DEF NonTerminal
<1>5. recon' \in Pass /\ recon'.throughout = recon.throughout /\ recon'.pc = "page"
      /\ recon'.cursor = recon.cursor /\ recon'.seen = recon.seen
  BY <1>1 DEF RelInv, Pass
<1>6. \A j \in recon'.throughout : j \in recon.throughout /\ relItem'[j].state \in NonTerminal
  BY <1>4, <1>5 DEF RelInv, PassFits, Pending
<1>7. PassFits'
  BY <1>1, <1>3, <1>4, <1>5, <1>6, ItemsMove
<1>8. ScanFits'
  BY ScanStands DEF ReapLapsed
<1>9. \A j \in RelItems : relItem'[j].at <= relClock
  BY <1>4, Places
<1> QED
  BY <1>3, <1>5, <1>7, <1>8, <1>9 DEF RelInv, ReapLapsed

(* An operator redrives what was read before.                              *)
LEMMA RedriveOpsKeeps ==
  ASSUME RelInv, RedriveOps
  PROVE  RelInv'
<1> DEFINE i == redriving.item
<1>1. i \in RelItems /\ redriving' = NoRedrive /\ UNCHANGED recon
  BY DEF RedriveOps, RelInv
<1>2. CASE relItem' = Written(i, "pending")
  <2> HIDE DEF i
  <2>1. "pending" \in ItemStates /\ "pending" \in NonTerminal
    BY DEF ItemStates, NonTerminal
  <2>2. /\ relItem' \in [RelItems -> RelItemRow]
        /\ \A j \in RelItems : relItem'[j].at = relItem[j].at \/ relItem'[j].at = relClock
        /\ \A j \in RelItems \ {i} : relItem'[j] = relItem[j]
        /\ relItem'[i].state = "pending"
    BY <1>1, <1>2, <2>1, WrittenTyped
  <2>3. \A j \in recon'.throughout : j \in recon.throughout /\ relItem'[j].state \in NonTerminal
    BY <1>1, <2>1, <2>2 DEF RelInv, PassFits, Pending
  <2>4. PassFits'
    BY <1>1, <2>2, <2>3, ItemsMove
  <2>5. ScanFits'
    BY ScanStands DEF RedriveOps
  <2>6. \A j \in RelItems : relItem'[j].at <= relClock
    BY <2>2, Places
  <2> QED
    BY <1>1, <2>2, <2>4, <2>5, <2>6 DEF RelInv, RedriveOps, NoRedrive
<1>3. CASE relItem' = relItem
  <2>1. PassFits'
    BY <1>1, <1>3, PassGoesOn
  <2>2. ScanFits'
    BY ScanStands DEF RedriveOps
  <2> QED
    BY <1>1, <1>3, <2>1, <2>2 DEF RelInv, RedriveOps, NoRedrive
<1> QED
  BY <1>2, <1>3 DEF RedriveOps

(* A pass reads its next page: the first of what is beyond the cursor.     *)
LEMMA ReadPageKeeps ==
  ASSUME RelInv, ReadPage
  PROVE  RelInv'
<1> DEFINE rows == {i \in Pending : Beyond(i)}
           page == ListPendingBatch
<1>1. IsSegment(page, rows) /\ (page = {} => rows = {})
  BY PageRead
<1>2. page \subseteq RelItems /\ rows \subseteq RelItems
  BY <1>1 DEF IsSegment, Pending
<1>3. NextCursor(page) \in {<<>>} \cup (Nat \X Nat)
  <2>1. CASE page = {}
    BY <2>1 DEF NextCursor
  <2>2. CASE page # {}
    <3> HIDE DEF page
    <3>1. PICK l \in page : NextCursor(page) = Position(l)
      BY <1>2, <2>2, CursorMoves
    <3> QED
      BY <3>1, <1>2, Places
  <2> QED
    BY <2>1, <2>2
<1>4. /\ recon' = [recon EXCEPT !.pc = "quota", !.seen = recon.seen \cup page, !.cursor = NextCursor(page)]
      /\ recon.pc = "page" /\ UNCHANGED <<relClock, relItem, relRun, relDispatch, scan, redriving>>
  BY DEF ReadPage, PassAt
<1> HIDE DEF page
<1>5. recon' \in Pass /\ recon'.pc = "quota" /\ recon'.seen = recon.seen \cup page
      /\ recon'.cursor = NextCursor(page) /\ recon'.throughout = recon.throughout
  BY <1>2, <1>3, <1>4 DEF RelInv, Pass
<1>6. ASSUME NEW i \in recon.throughout PROVE ItemOwed(i)'
  <2>1. i \in Pending /\ i \in RelItems
    BY DEF RelInv, PassFits, Pending
  <2>2. CASE i \in recon'.seen
    BY <2>2 DEF ItemOwed
  <2>3. CASE i \notin recon'.seen
    <3>1. i \notin recon.seen /\ i \notin page
      BY <2>3, <1>5
    <3>2. Beyond(i)
      <4>1. recon.cursor # <<>> => ItemOwed(i)
        BY DEF RelInv, PassFits
      <4> QED
        BY <3>1, <4>1 DEF Beyond, ItemOwed
    <3>3. i \in rows \ page /\ page # {}
      BY <2>1, <3>1, <3>2, <1>1
    <3>4. PICK l \in page : NextCursor(page) = Position(l)
      BY <1>2, <3>3, CursorMoves
    <3>5. Later(Position(i), Position(l))
      BY <1>1, <3>3, <3>4 DEF IsSegment
    <3>6. Position(l) \in Nat \X Nat
      BY <3>4, <1>2, Places
    <3>7. recon'.cursor = Position(l) /\ recon'.cursor # <<>>
      <4>1. Position(l) # <<>>
        BY <3>6
      <4> QED
        BY <3>4, <4>1, <1>5
    <3>8. Position(i)' = Position(i)
      BY <1>4 DEF Position
    <3>9. Later(Position(i), recon.cursor)'
      BY <3>5, <3>7, <3>8 DEF Later
    <3> QED
      BY <3>7, <3>9 DEF ItemOwed
  <2> QED
    BY <2>2, <2>3
<1>7. Pending' = Pending
  BY <1>4 DEF Pending
<1>8. PassFits'
  BY <1>5, <1>6, <1>7 DEF RelInv, PassFits
<1>9. ScanFits'
  BY <1>4, ScanStands
<1> QED
  BY <1>4, <1>5, <1>8, <1>9 DEF RelInv

(* The pass starts, and goes through its steps between two pages.          *)
LEMMA PassStepsKeep ==
  ASSUME RelInv, PassSteps
  PROVE  RelInv'
<1>1. CASE StartPass
  <2>1. recon' = [NoPass EXCEPT !.pc = "reap", !.throughout = Pending]
        /\ UNCHANGED <<relClock, relItem, relRun, relDispatch, scan, redriving>>
    BY <1>1 DEF StartPass
  <2>2. recon' \in Pass
    BY <2>1 DEF NoPass, Pass, Pending
  <2>3. PassFits'
    BY <2>1 DEF NoPass, PassFits, AfterPage, Pending
  <2>4. ScanFits'
    BY <2>1, ScanStands
  <2> QED
    BY <2>1, <2>2, <2>3, <2>4 DEF RelInv
<1>2. CASE ReclaimCapacity
  <2>1. PICK pc \in {"dispatch", "idle"} : recon' = IF pc = "idle" THEN NoPass ELSE [recon EXCEPT !.pc = pc]
    BY <1>2 DEF ReclaimCapacity
  <2>2. recon.pc = "quota" /\ UNCHANGED <<relClock, relItem, relRun, relDispatch, scan, redriving>>
    BY <1>2 DEF ReclaimCapacity, PassAt
  <2>3. recon' \in Pass /\ PassFits'
    <3>1. CASE pc = "idle"
      BY <2>1, <3>1 DEF NoPass, Pass, PassFits, AfterPage
    <3>2. CASE pc = "dispatch"
      <4>1. recon' = [recon EXCEPT !.pc = "dispatch"]
        BY <2>1, <3>2
      <4>2. recon' \in Pass /\ recon'.pc = "dispatch" /\ recon'.throughout = recon.throughout
            /\ recon'.seen = recon.seen /\ recon'.cursor = recon.cursor
        BY <4>1 DEF RelInv, Pass
      <4> QED
        BY <4>2, <2>2, PassGoesOn DEF AfterPage
    <3> QED
      BY <3>1, <3>2
  <2>4. ScanFits'
    BY <2>2, ScanStands
  <2> QED
    BY <2>2, <2>3, <2>4 DEF RelInv
<1>3. CASE RedriveStrandedOnes
  <2>1. recon' = [recon EXCEPT !.pc = "list"] /\ recon.pc = "dispatch"
        /\ UNCHANGED <<relClock, relItem, relRun, scan, redriving>>
    BY <1>3 DEF RedriveStrandedOnes, PassAt
  <2>2. recon' \in Pass /\ recon'.pc = "list" /\ recon'.throughout = recon.throughout
        /\ recon'.seen = recon.seen /\ recon'.cursor = recon.cursor
    BY <2>1 DEF RelInv, Pass
  <2>3. PassFits'
    BY <2>1, <2>2, PassGoesOn DEF AfterPage
  <2>4. ScanFits'
    BY <2>1, ScanStands
  <2>5. relDispatch' \in [RelDispatches -> RelDispatchStates]
    BY <1>3 DEF RedriveStrandedOnes, RelInv, RelDispatchStates
  <2> QED
    BY <2>1, <2>2, <2>3, <2>4, <2>5 DEF RelInv
<1>4. CASE ListAbandoned
  <2>1. PICK listed \in SUBSET RelRuns : recon' = [recon EXCEPT !.pc = "runs", !.stale = listed]
    BY <1>4 DEF ListAbandoned
  <2>2. recon.pc = "list" /\ UNCHANGED <<relClock, relItem, relRun, relDispatch, scan, redriving>>
    BY <1>4 DEF ListAbandoned, PassAt
  <2>3. recon' \in Pass /\ recon'.pc = "runs" /\ recon'.throughout = recon.throughout
        /\ recon'.seen = recon.seen /\ recon'.cursor = recon.cursor
    BY <2>1 DEF RelInv, Pass
  <2>4. PassFits'
    BY <2>2, <2>3, PassGoesOn DEF AfterPage
  <2>5. ScanFits'
    BY <2>2, ScanStands
  <2> QED
    BY <2>2, <2>3, <2>4, <2>5 DEF RelInv
<1>5. CASE NextBatch
  <2>1. recon.pc = "runs" /\ UNCHANGED <<relClock, relItem, relRun, relDispatch, scan, redriving>>
    BY <1>5 DEF NextBatch, PassAt
  <2>2. recon' \in Pass /\ PassFits'
    <3>1. CASE recon.cursor = <<>>
      <4>1. recon' = [recon EXCEPT !.pc = "over"]
        BY <1>5, <3>1 DEF NextBatch
      <4>2. recon' \in Pass /\ recon'.pc = "over" /\ recon'.throughout = recon.throughout
            /\ recon'.seen = recon.seen /\ recon'.cursor = recon.cursor
        BY <4>1 DEF RelInv, Pass
      <4> QED
        BY <4>2, <3>1, <2>1, PassGoesOn DEF AfterPage
    <3>2. CASE recon.cursor # <<>> /\ recon.batches + 1 < MaxBatches
      <4>1. recon' = [recon EXCEPT !.pc = "reap", !.batches = recon.batches + 1]
        BY <1>5, <3>2 DEF NextBatch
      <4>2. recon.batches + 1 \in Nat
        BY DEF RelInv, Pass
      <4>3. recon' \in Pass /\ recon'.pc = "reap" /\ recon'.throughout = recon.throughout
            /\ recon'.seen = recon.seen /\ recon'.cursor = recon.cursor
        <5> DEFINE b == recon.batches + 1
        <5> HIDE DEF b
        <5>1. recon' = [recon EXCEPT !.pc = "reap", !.batches = b] /\ b \in Nat
          BY <4>1, <4>2 DEF b
        <5> QED
          BY <5>1 DEF RelInv, Pass
      <4> QED
        BY <4>3, <2>1, PassGoesOn DEF AfterPage
    <3>3. CASE recon' = NoPass
      BY <3>3 DEF NoPass, Pass, PassFits, AfterPage
    <3> QED
      BY <1>5, <3>1, <3>2, <3>3 DEF NextBatch
  <2>3. ScanFits'
    BY <2>1, ScanStands
  <2> QED
    BY <2>1, <2>2, <2>3 DEF RelInv
<1>6. ASSUME NEW r \in RelRuns, ReconcileAbandoned(r) PROVE RelInv'
  <2>1. recon' = [recon EXCEPT !.stale = recon.stale \ {r}]
        /\ UNCHANGED <<relClock, relItem, relDispatch, scan, redriving>>
    BY <1>6 DEF ReconcileAbandoned
  <2>2. recon' \in Pass /\ recon'.pc = recon.pc /\ recon'.throughout = recon.throughout
        /\ recon'.seen = recon.seen /\ recon'.cursor = recon.cursor
    BY <2>1 DEF RelInv, Pass
  <2>3. PassFits'
    BY <2>1, <2>2, PassGoesOn
  <2>4. CASE UNCHANGED relRun
    <3>1. ScanFits'
      BY <2>1, <2>4, ScanStands
    <3> QED
      BY <2>1, <2>2, <2>3, <2>4, <3>1 DEF RelInv
  <2>5. CASE relRun' = [relRun EXCEPT ![r].at = relClock, ![r].version = @ + 1]
    <3> DEFINE v == relRun[r].version + 1
    <3>1. v \in Nat
      BY DEF RelInv, RelRunRow
    <3>2. relRun' = [relRun EXCEPT ![r] = [status |-> relRun[r].status, at |-> relClock, version |-> v]]
      BY <2>5 DEF RelInv, RelRunRow
    <3>3. v = relRun[r].version + 1
      OBVIOUS
    <3> HIDE DEF v
    <3>4. [status |-> relRun[r].status, at |-> relClock, version |-> v] \in RelRunRow
      BY <3>1 DEF RelInv, RelRunRow
    <3>5. relRun' \in [RelRuns -> RelRunRow]
      BY <3>2, <3>4 DEF RelInv
    <3>6. \A q \in RelRuns : relRun'[q] = relRun[q] \/ relRun'[q].version = relRun[q].version + 1
      BY <3>2, <3>3 DEF RelInv
    <3>7. ScanFits'
      BY <2>1, <3>5, <3>6, RunsMove
    <3> QED
      BY <2>1, <2>2, <2>3, <3>5, <3>7 DEF RelInv
  <2> QED
    BY <1>6, <2>4, <2>5 DEF ReconcileAbandoned
<1>7. CASE ReapLapsed
  BY <1>7, ReapLapsedKeeps
<1>8. CASE ReadPage
  BY <1>8, ReadPageKeeps
<1> QED
  BY <1>1, <1>2, <1>3, <1>4, <1>5, <1>6, <1>7, <1>8 DEF PassSteps

(* The rows a timeout scan or a request moves.                             *)
LEMMA ScanStepsKeep ==
  ASSUME RelInv, ScanNext, ~RelTick
  PROVE  RelInv'
<1>0. UNCHANGED <<relClock, relItem, relDispatch, recon, redriving>>
  BY DEF ScanNext, RunMoves, EnforceTimeout, RequestCancellation, StartScan, CancelListed, EndScan
<1>1. PassFits'
  BY <1>0, PassGoesOn
<1>2. ASSUME relRun' \in [RelRuns -> RelRunRow], ScanFits' PROVE RelInv'
  BY <1>0, <1>1, <1>2 DEF RelInv
<1>3. ASSUME NEW r \in RelRuns, RunMoves(r) PROVE RelInv'
  <2>1. PICK status \in {"running", "awaiting_approval", "completed"} :
          relRun' = [relRun EXCEPT ![r] = [status |-> status, at |-> relClock, version |-> @.version + 1]]
    BY <1>3 DEF RunMoves
  <2> DEFINE v == relRun[r].version + 1
  <2>2. v \in Nat /\ v = relRun[r].version + 1
    BY DEF RelInv, RelRunRow
  <2>3. relRun' = [relRun EXCEPT ![r] = [status |-> status, at |-> relClock, version |-> v]]
    BY <2>1
  <2> HIDE DEF v
  <2>4. [status |-> status, at |-> relClock, version |-> v] \in RelRunRow
    BY <2>2 DEF RelInv, RelRunRow, RelRunStatuses
  <2>5. relRun' \in [RelRuns -> RelRunRow]
    BY <2>3, <2>4 DEF RelInv
  <2>6. \A q \in RelRuns : relRun'[q] = relRun[q] \/ relRun'[q].version = relRun[q].version + 1
    BY <2>3, <2>2 DEF RelInv
  <2>7. ScanFits'
    BY <1>3, <2>5, <2>6, RunsMove DEF RunMoves
  <2> QED
    BY <2>5, <2>7, <1>2
<1>4. ASSUME NEW r \in RelRuns, EnforceTimeout(r) PROVE RelInv'
  <2>1. UNCHANGED relRun
    BY <1>4 DEF EnforceTimeout
  <2>2. relRun[r].version \in Nat
    BY DEF RelInv, RelRunRow
  <2>3. ScanFits'
    BY <1>4, <2>2 DEF EnforceTimeout, ScanFits, Scan, RelInv
  <2> QED
    BY <2>1, <2>3, <1>2 DEF RelInv
<1>5. ASSUME NEW r \in RelRuns, RequestCancellation(r) PROVE RelInv'
  <2>1. UNCHANGED relRun
    BY <1>5 DEF RequestCancellation
  <2>2. relRun[r].version \in Nat
    BY DEF RelInv, RelRunRow
  <2>3. ScanFits'
    BY <1>5, <2>2 DEF RequestCancellation, ScanFits, Scan, RelInv
  <2> QED
    BY <2>1, <2>3, <1>2 DEF RelInv
<1>6. CASE StartScan
  <2>1. UNCHANGED relRun
    BY <1>6 DEF StartScan
  <2>2. ScanFits'
    <3>1. PICK listed \in SUBSET RelRuns : scan' = [NoScan EXCEPT !.pc = "next", !.listed = listed]
      BY <1>6 DEF StartScan
    <3>2. scan' = [pc |-> "next", listed |-> listed, run |-> 0, version |-> 0]
      BY <3>1 DEF NoScan
    <3> QED
      BY <3>2 DEF ScanFits, Scan
  <2> QED
    BY <2>1, <2>2, <1>2 DEF RelInv
<1>7. CASE CancelListed
  <2>1. scan.pc = "cancel" /\ scan.run \in RelRuns /\ scan \in Scan
    BY <1>7 DEF CancelListed, RelInv, ScanFits
  <2> DEFINE r == scan.run
             v == relRun[r].version + 1
             row == [status |-> "cancelled", at |-> relClock, version |-> v]
  <2>2. v \in Nat
    BY <2>1 DEF RelInv, RelRunRow
  <2>3. relRun' = relRun \/ relRun' = [relRun EXCEPT ![r] = row]
    BY <1>7 DEF CancelListed
  <2> HIDE DEF v
  <2>4. row \in RelRunRow
    BY <2>2 DEF RelInv, RelRunRow, RelRunStatuses
  <2>5. relRun' \in [RelRuns -> RelRunRow]
    BY <2>3, <2>4, <2>1 DEF RelInv
  <2>6. ScanFits'
    <3>1. scan' = [scan EXCEPT !.pc = "next"]
      BY <1>7 DEF CancelListed
    <3>2. scan'.pc # "cancel" /\ scan' \in Scan
      BY <3>1, <2>1 DEF Scan
    <3> QED
      BY <3>2 DEF ScanFits
  <2> QED
    BY <2>5, <2>6, <1>2
<1>8. CASE EndScan
  <2>1. UNCHANGED relRun
    BY <1>8 DEF EndScan
  <2>2. ScanFits'
    BY <1>8 DEF EndScan, ScanFits, Scan, NoScan
  <2> QED
    BY <2>1, <2>2, <1>2 DEF RelInv
<1> QED
  BY <1>3, <1>4, <1>5, <1>6, <1>7, <1>8 DEF ScanNext

(* Every step keeps the invariant.                                         *)
LEMMA RelSteps ==
  ASSUME RelInv, [RelNext]_relVars
  PROVE  RelInv'
<1>1. CASE UNCHANGED relVars
  <2>1. PassFits' /\ ScanFits'
    BY <1>1, PassGoesOn, ScanStands DEF relVars
  <2> QED
    BY <1>1, <2>1 DEF RelInv, relVars
<1>2. CASE RelTick
  <2>1. UNCHANGED <<relItem, relRun, relDispatch, recon, scan, redriving>>
    BY <1>2 DEF RelTick
  <2>2. PassFits' /\ ScanFits'
    BY <2>1, PassGoesOn, ScanStands
  <2>3. relClock' \in 0..MaxRelTime /\ relClock' = relClock + 1
    BY <1>2, ReliabilityAssumption DEF RelTick, RelInv
  <2>4. \A i \in RelItems : relItem[i].at <= relClock'
    BY <2>3, Places
  <2> QED
    BY <2>1, <2>2, <2>3, <2>4 DEF RelInv
<1>3. ASSUME NEW i \in RelItems, ReadBefore(i) PROVE RelInv'
  <2>1. UNCHANGED <<relClock, relItem, relRun, relDispatch, recon, scan>>
        /\ redriving'.pc = "redrive" /\ redriving'.item = i
    BY <1>3 DEF ReadBefore
  <2>2. PassFits' /\ ScanFits'
    BY <2>1, PassGoesOn, ScanStands
  <2> QED
    BY <2>1, <2>2 DEF RelInv
<1>4. ASSUME NEW d \in RelDispatches, RedriveDispatch(d) PROVE RelInv'
  <2>1. UNCHANGED <<relClock, relItem, relRun, redriving, recon, scan>>
    BY <1>4 DEF RedriveDispatch
  <2>2. PassFits' /\ ScanFits'
    BY <2>1, PassGoesOn, ScanStands
  <2>3. relDispatch' \in [RelDispatches -> RelDispatchStates]
    BY <1>4 DEF RedriveDispatch, RelInv, RelDispatchStates
  <2> QED
    BY <2>1, <2>2, <2>3 DEF RelInv
<1> QED
  BY <1>1, <1>2, <1>3, <1>4, WorkerMovesKeep, ClaimLapsesKeeps, RedriveOpsKeeps, PassStepsKeep,
     ScanStepsKeep DEF RelNext, PassNext

(* In every behaviour of repairs and scans the invariant holds             *)
(* (reliability/reconciliation.ts reconcileOperational, timeouts.ts).      *)
THEOREM ReliabilityKept == RelInit /\ [][RelNext]_relVars => []RelInv
<1>1. RelInit => RelInv
  BY RelStarts
<1>2. RelInv /\ [RelNext]_relVars => RelInv'
  BY RelSteps
<1> QED
  BY <1>1, <1>2, PTL

(* A repair pass that is over has read every item that was pending all the *)
(* while, although items move between its pages                            *)
(* (reliability/reconciliation.ts listPendingBatch).                       *)
LEMMA PassCovers == RelInv => PassCoversPending
  BY DEF RelInv, PassFits, AfterPage, ItemOwed, PassCoversPending, PassAt

(* A step leaves a completed run completed.                                *)
LEMMA CompletedStands ==
  ASSUME RelInv, [RelNext]_relVars, NEW r \in RelRuns, relRun[r].status = "completed"
  PROVE  relRun'[r].status = "completed"
<1>1. CASE CancelListed
  <2>1. scan.pc = "cancel" /\ scan.run \in RelRuns
    BY <1>1 DEF CancelListed, RelInv, ScanFits
  <2>2. CasHolds(scan.run, scan.version) => relRun[scan.run].status \notin Ended
    BY <2>1 DEF CasHolds, RelInv, ScanFits
  <2>3. CasHolds(scan.run, scan.version) => scan.run # r
    BY <2>2 DEF Ended
  <2> QED
    BY <1>1, <2>1, <2>3 DEF CancelListed, RelInv
<1>2. ASSUME NEW q \in RelRuns, RunMoves(q) PROVE relRun'[r].status = "completed"
  BY <1>2 DEF RunMoves, Ended, RelInv
<1>3. ASSUME NEW q \in RelRuns, ReconcileAbandoned(q) PROVE relRun'[r].status = "completed"
  BY <1>3 DEF ReconcileAbandoned, RelInv
<1>4. UNCHANGED relRun => relRun'[r].status = "completed"
  OBVIOUS
<1> QED
  BY <1>1, <1>2, <1>3, <1>4
     DEF RelNext, PassNext, ScanNext, relVars, PassSteps, WorkerMoves, ClaimLapses, ReadBefore,
         RedriveDispatch, RelTick, RedriveOps, StartPass, ReapLapsed, ReadPage, ReclaimCapacity,
         RedriveStrandedOnes, ListAbandoned, NextBatch, EnforceTimeout, RequestCancellation,
         StartScan, EndScan

(* A scan with an old listing never cancels a run that has completed       *)
(* (reliability/timeouts.ts).                                              *)
THEOREM CompletedRunsStand == RelInit /\ [][RelNext]_relVars => CompletedStaysCompleted
<1>1. RelInv /\ [RelNext]_relVars =>
        [\A r \in RelRuns : relRun[r].status = "completed" => relRun'[r].status = "completed"]_relVars
  BY CompletedStands
<1> QED
  BY <1>1, ReliabilityKept, PTL DEF CompletedStaysCompleted

-----------------------------------------------------------------------------
(***************************************************************************)
(* Automation runs.                                                        *)
(*                                                                         *)
(* A call that holds the current run_version knows the current status, so  *)
(* a transition it makes is one of the table's. The call that enters       *)
(* "collecting" is the only one that ever does, since no status before it  *)
(* is reached again (Table); so are the artifacts saved once, after every  *)
(* step. A gate that is open stays open, because a decided request is      *)
(* never decided again, and the provider is called by the call that took   *)
(* the attempt out of "pending".                                           *)
(***************************************************************************)
(* The row of a call in flight.                                            *)
HandRow ==
  [pc : HandPcs, status : RunStatuses \cup {"none"}, version : Nat, at : Nat \ {0},
   seen : JobStatuses \cup ApprovalDecisions \cup {"none", "pending", "expired"},
   decision : ApprovalDecisions \cup {"none", "pending", "expired"}, dversion : Nat]

(* The job of every step has completed.                                    *)
AllDone == \A s \in StepIds : job[s] = "completed"
GateOpen == run.gated => approval = "approved"

(* Where the run stands: before its artifacts, and after.                  *)
EarlyStatuses == {"none", "created", "validating_input", "admitted", "running"}
PastRunning == {"collecting", "awaiting_approval", "delivering", "completed"}

(* The calls that go through the steps, those that come after them, and    *)
(* those that deliver.                                                     *)
WalkPcs == {"start", "step", "dispatch", "map", "upsert"}
SendPcs == {"deliver", "attempt", "progress", "provider", "delivered", "undelivered", "complete"}
DonePcs == {"collect", "save", "gate", "await"} \cup SendPcs

(* What a call in flight knows is still so: the run if its version is, the *)
(* steps it has gone through, the decision it applies, the delivery it     *)
(* completes.                                                              *)
HandOK(q) ==
  /\ q.version <= run.version
  /\ q.version = run.version => q.status = run.status
  /\ q.pc # "idle" => run.status # "none"
  /\ q.pc \in WalkPcs => \A s \in StepIds : s < q.at => job[s] = "completed"
  /\ q.pc \in {"dispatch", "map", "upsert"} => q.at \in StepIds
  /\ q.pc \in {"map", "upsert"} => q.seen \in JobStatuses
  /\ q.pc \in {"map", "upsert"} /\ q.seen = "completed" => job[q.at] = "completed"
  /\ q.pc \in DonePcs => AllDone
  /\ q.pc = "decide" => q.seen # "none" /\ q.decision \in ApprovalDecisions
  /\ q.pc = "apply" => /\ q.decision = approval /\ approval \notin {"none", "pending"}
                       /\ q.status = "awaiting_approval" => AllDone
  /\ q.pc \in SendPcs => GateOpen
  /\ q.pc = "provider" => delivery.status \notin {"none", "pending"}
  /\ q.pc = "complete" => delivery.status = "delivered"

(* What the rows of the run say together.                                  *)
RunOK ==
  /\ run.status # "suspended"
  /\ run.version = 0 <=> run.status = "none"
  /\ run.status = "none" => approval = "none" /\ sent = 0
  /\ run.status \in PastRunning => AllDone
  /\ run.status \in {"delivering", "completed"} => GateOpen
  /\ run.status = "completed" => delivery.status = "delivered"
  /\ run.status \in EarlyStatuses => artifacts = 0
  /\ sent > 0 => GateOpen
  /\ delivery.status \in {"none", "pending"} => sent = 0
  /\ \A s \in StepIds : step[s] = "completed" => job[s] = "completed"
  /\ artifacts <= 1 /\ sent <= 1

(* One call saves the artifacts and one calls the provider, and none has   *)
(* done so before.                                                         *)
OneSaves ==
  /\ \A g, h \in Hands : hand[g].pc = "save" /\ hand[h].pc = "save" => g = h
  /\ \A h \in Hands : hand[h].pc = "save" => artifacts = 0 /\ run.status \notin EarlyStatuses
(* The same of the provider.                                               *)
OneSends ==
  /\ \A g, h \in Hands : hand[g].pc = "provider" /\ hand[h].pc = "provider" => g = h
  /\ \A h \in Hands : hand[h].pc = "provider" => sent = 0

(* The inductive invariant of a run.                                       *)
RunInv ==
  /\ run \in AutomationRun
  /\ step \in [StepIds -> JobStatuses] /\ job \in [StepIds -> JobStatuses]
  /\ mapping \in [StepIds -> BOOLEAN]
  /\ artifacts \in Nat /\ sent \in Nat
  /\ approval \in ApprovalDecisions \cup {"none", "pending", "expired"}
  /\ delivery \in DeliveryAttempt
  /\ hand \in [Hands -> HandRow]
  /\ RunOK /\ OneSaves /\ OneSends
  /\ \A h \in Hands : HandOK(hand[h])

-----------------------------------------------------------------------------
(* Facts of the table of transitions (types.ts): a terminal status has     *)
(* none, the early statuses are only reached from early ones, a run that   *)
(* waits for approval is not suspended, and "collecting" is entered from   *)
(* two statuses only.                                                      *)
LEMMA Table ==
  ASSUME NEW from \in RunStatuses, NEW to \in TRANSITIONS[from]
  PROVE  /\ to \in RunStatuses
         /\ from \notin TerminalRunStatuses
         /\ to \in EarlyStatuses /\ from # "suspended" => from \in EarlyStatuses
         /\ from = "awaiting_approval" => to # "suspended"
         /\ to = "collecting" => from \in {"running", "suspended"}
BY DEF TRANSITIONS, RunStatuses, TerminalRunStatuses, EarlyStatuses

(* Steps are numbered from one.                                            *)
LEMMA StepNumbers == StepIds \subseteq Nat /\ \A n \in Nat \ {0} : n \in StepIds => n + 1 \in Nat \ {0}
<1>1. Len(Steps) \in Nat BY AutomationAssumption
<1>. QED BY <1>1 DEF StepIds

(* What happens to the rows while another call moves, so that what a call  *)
(* knows stays so.                                                         *)
Evolves ==
  /\ run' = run \/ (run'.version = run.version + 1 /\ run'.status # "none")
  /\ run.status # "none" => run'.gated = run.gated
  /\ run.status \notin EarlyStatuses => run'.status \notin EarlyStatuses
  /\ \A s \in StepIds : job[s] = "completed" => job'[s] = "completed"
  /\ approval' = approval \/ approval \in {"none", "pending"}
  /\ delivery.status = "delivered" => delivery'.status = "delivered"
  /\ delivery.status \notin {"none", "pending"} => delivery'.status \notin {"none", "pending"}

(* The types of the rows.                                                  *)
RunTypes ==
  /\ run \in AutomationRun
  /\ step \in [StepIds -> JobStatuses] /\ job \in [StepIds -> JobStatuses]
  /\ mapping \in [StepIds -> BOOLEAN]
  /\ artifacts \in Nat /\ sent \in Nat
  /\ approval \in ApprovalDecisions \cup {"none", "pending", "expired"}
  /\ delivery \in DeliveryAttempt

(* What a call knows stays so when the rows evolve.                        *)
LEMMA OtherKnows ==
  ASSUME RunTypes, RunTypes', Evolves, NEW r \in HandRow, HandOK(r)
  PROVE  HandOK(r)'
<1>. USE DEF RunTypes, Evolves, HandRow, AutomationRun, DeliveryAttempt, HandPcs
<1>1. r.version <= run'.version BY DEF HandOK
<1>2. r.version = run'.version => r.status = run'.status BY DEF HandOK
<1>3. r.pc # "idle" => run'.status # "none" BY DEF HandOK
<1>4. r.pc \in WalkPcs => \A s \in StepIds : s < r.at => job'[s] = "completed" BY DEF HandOK
<1>5. r.pc \in {"dispatch", "map", "upsert"} => r.at \in StepIds BY DEF HandOK
<1>6. r.pc \in {"map", "upsert"} /\ r.seen = "completed" => job'[r.at] = "completed" BY <1>5 DEF HandOK
<1>15. r.pc \in {"map", "upsert"} => r.seen \in JobStatuses BY DEF HandOK
<1>7. AllDone => AllDone' BY DEF AllDone
<1>8. r.pc \in DonePcs => AllDone' BY <1>7 DEF HandOK
<1>9. r.pc = "decide" => r.seen # "none" /\ r.decision \in ApprovalDecisions BY DEF HandOK
<1>10. r.pc = "apply" => /\ r.decision = approval' /\ approval' \notin {"none", "pending"}
                         /\ r.status = "awaiting_approval" => AllDone'
  BY <1>7 DEF HandOK
<1>11. r.pc \in SendPcs => r.pc # "idle" BY DEF SendPcs
<1>12. r.pc \in SendPcs => GateOpen'
  BY <1>11 DEF HandOK, GateOpen
<1>13. r.pc = "provider" => delivery'.status \notin {"none", "pending"} BY DEF HandOK
<1>14. r.pc = "complete" => delivery'.status = "delivered" BY DEF HandOK
<1>. QED BY <1>1, <1>2, <1>3, <1>4, <1>5, <1>6, <1>8, <1>9, <1>10, <1>12, <1>13, <1>14, <1>15 DEF HandOK

(* A step of call h, which becomes q.                                      *)
LEMMA RunStep ==
  ASSUME RunInv, NEW h \in Hands, NEW q \in HandRow,
         hand' = [hand EXCEPT ![h] = q], RunTypes', Evolves, HandOK(q)', RunOK',
         artifacts' = artifacts \/ hand[h].pc = "save",
         sent' = sent \/ hand[h].pc = "provider",
         q.pc = "save" => artifacts' = 0 /\ run.status \in EarlyStatuses
                                         /\ run'.status \notin EarlyStatuses,
         q.pc = "provider" => sent' = 0 /\ delivery.status \in {"none", "pending"}
  PROVE  RunInv'
<1>1. hand \in [Hands -> HandRow] /\ hand' \in [Hands -> HandRow] BY DEF RunInv
<1>2. \A g \in Hands : hand'[g] = IF g = h THEN q ELSE hand[g] BY <1>1
<1>3. RunTypes BY DEF RunInv, RunTypes
<1>4. ASSUME NEW g \in Hands PROVE HandOK(hand[g])'
  <2>1. CASE g = h
    <3>1. hand'[g] = q BY <1>2, <2>1
    <3>. QED BY <3>1 DEF HandOK
  <2>2. CASE g # h
    <3>1. hand'[g] = hand[g] BY <1>2, <2>2
    <3>2. HandOK(hand[g]) BY DEF RunInv
    <3>3. ASSUME NEW r \in HandRow, r = hand[g] PROVE HandOK(r)'
      <4>1. HandOK(r) BY <3>2, <3>3
      <4>. QED BY <1>3, <4>1, OtherKnows
    <3>4. hand[g] \in HandRow BY <1>1
    <3>5. \E r \in HandRow : r = hand[g] /\ HandOK(r)' BY <3>3, <3>4
    <3>6. PICK r \in HandRow : r = hand[g] /\ HandOK(r)' BY <3>5
    <3>7. hand'[g] = r BY <3>1, <3>6
    <3>. QED BY <3>6, <3>7 DEF HandOK
  <2>. QED BY <2>1, <2>2
<1>5. OneSaves'
  <2>1. \A g, k \in Hands : hand'[g].pc = "save" /\ hand'[k].pc = "save" => g = k
    BY <1>2 DEF RunInv, OneSaves
  <2>2. \A g \in Hands : hand'[g].pc = "save" => artifacts' = 0 /\ run'.status \notin EarlyStatuses
    BY <1>2 DEF RunInv, OneSaves, Evolves
  <2>. QED BY <2>1, <2>2 DEF OneSaves
<1>6. OneSends'
  <2>1. \A g \in Hands : hand[g].pc = "provider" => delivery.status \notin {"none", "pending"}
    BY DEF RunInv, HandOK
  <2>2. \A g, k \in Hands : hand'[g].pc = "provider" /\ hand'[k].pc = "provider" => g = k
    BY <1>2, <2>1 DEF RunInv, OneSends
  <2>3. \A g \in Hands : hand'[g].pc = "provider" => sent' = 0
    BY <1>2, <2>1 DEF RunInv, OneSends
  <2>. QED BY <2>2, <2>3 DEF OneSends
<1>. QED BY <1>1, <1>4, <1>5, <1>6 DEF RunInv, RunTypes

(* A step that only moves call h.                                          *)
LEMMA HandMoves ==
  ASSUME RunInv, NEW h \in Hands, NEW q \in HandRow, HandOK(q), q.pc \notin {"save", "provider"},
         hand' = [hand EXCEPT ![h] = q],
         UNCHANGED <<run, step, mapping, job, artifacts, approval, delivery, sent>>
  PROVE  RunInv'
<1>1. Evolves BY DEF Evolves
<1>2. RunTypes' BY DEF RunInv, RunTypes
<1>3. HandOK(q)' BY DEF HandOK, AllDone, GateOpen
<1>4. RunOK' BY DEF RunInv, RunOK, AllDone, GateOpen
<1>. QED BY <1>1, <1>2, <1>3, <1>4, RunStep

(* The idle call.                                                          *)
LEMMA Idles == RunInv => IdleHand \in HandRow /\ HandOK(IdleHand)
<1>. SUFFICES ASSUME RunInv PROVE IdleHand \in HandRow /\ HandOK(IdleHand) OBVIOUS
<1>. USE DEF RunInv
<1>1. IdleHand \in HandRow BY DEF IdleHand, HandRow, HandPcs
<1>2. run.version \in Nat BY DEF AutomationRun
<1>4. HandOK(IdleHand)
  BY <1>2 DEF IdleHand, HandOK, WalkPcs, DonePcs, SendPcs, RunOK, AutomationRun
<1>. QED BY <1>1, <1>4

(* transitionRun, by call h, to a status its case warrants.                *)
Ready(h, to, pc) ==
  /\ to # "suspended"
  /\ to \in PastRunning => AllDone
  /\ to \in {"delivering", "completed"} => GateOpen
  /\ to = "completed" => delivery.status = "delivered"
  /\ pc \in {"admit", "idle", "step", "save", "attempt"}
  /\ pc = "step" => hand[h].pc = "start"
  /\ pc = "save" => to = "collecting"
  /\ pc = "attempt" => to = "delivering"

(* A run that is there has a status of the table.                          *)
LEMMA StatusOf == RunInv /\ run.status # "none" => run.status \in RunStatuses
BY DEF RunInv, AutomationRun

(* It succeeds or ends the call, and keeps the invariant.                  *)
LEMMA TransitionStep ==
  ASSUME RunInv, NEW h \in Hands, NEW to \in RunStatuses, NEW pc \in HandPcs,
         hand[h].pc # "idle", Ready(h, to, pc), TransitionRun(h, to, pc),
         UNCHANGED <<step, mapping, job, artifacts, approval, delivery, sent>>
  PROVE  RunInv'
<1>1. hand \in [Hands -> HandRow] /\ HandOK(hand[h]) /\ hand[h] \in HandRow BY DEF RunInv
<1>2. run.status # "none" /\ run.status \in RunStatuses BY <1>1, StatusOf DEF HandOK
<1>3. CASE ~CanTransition(h, to)
  <2>1. hand' = [hand EXCEPT ![h] = IdleHand] /\ UNCHANGED run
    BY <1>3 DEF TransitionRun, HandReturns
  <2>2. IdleHand.pc \notin {"save", "provider"} BY DEF IdleHand
  <2>. QED BY <2>1, <2>2, Idles, HandMoves
<1>4. CASE CanTransition(h, to)
  <2>. DEFINE v == run.version + 1
  <2>1. v \in Nat /\ v > run.version /\ v # 0 /\ run.version \in Nat BY DEF RunInv, AutomationRun
  <2>2. run' = [run EXCEPT !.status = to, !.version = v]
    BY <1>4 DEF TransitionRun, RunInv, AutomationRun
  <2>. DEFINE q == IF pc = "idle" THEN IdleHand
                   ELSE [hand[h] EXCEPT !.pc = pc, !.status = to, !.version = v]
  <2>3. hand' = [hand EXCEPT ![h] = q]
    BY <1>4, <1>1 DEF TransitionRun
  <2>. HIDE DEF v
  <2>4. run'.status = to /\ run'.version = v /\ run'.gated = run.gated /\ run' \in AutomationRun
    BY <2>1, <2>2 DEF RunInv, AutomationRun
  <2>5. to \in TRANSITIONS[run.status] BY <1>4 DEF CanTransition
  <2>6. run.status # "suspended" BY DEF RunInv, RunOK
  <2>7. /\ run.status \notin TerminalRunStatuses
        /\ to \in EarlyStatuses => run.status \in EarlyStatuses
        /\ to = "collecting" => run.status = "running"
    BY <1>2, <2>5, <2>6, Table
  <2>8. to # "none" BY DEF RunStatuses
  <2>9. q \in HandRow
    BY <1>1, <2>1, Idles DEF HandRow
  <2>10. Evolves
    <3>1. run'.version = run.version + 1 BY <2>4 DEF v
    <3>. QED BY <2>4, <2>7, <2>8, <3>1 DEF Evolves
  <2>11. RunTypes' BY <2>4 DEF RunInv, RunTypes
  <2>12. AllDone' = AllDone /\ GateOpen' = GateOpen BY <2>4 DEF AllDone, GateOpen
  <2>13. run.status \in EarlyStatuses => artifacts = 0 BY DEF RunInv, RunOK
  <2>14. RunOK'
    <3>1. sent' > 0 => GateOpen' BY <2>12 DEF RunInv, RunOK
    <3>. QED BY <2>1, <2>4, <2>7, <2>8, <2>12, <2>13, <3>1 DEF RunInv, RunOK, Ready
  <2>15. pc = "idle" => q = IdleHand OBVIOUS
  <2>16. pc # "idle" => /\ q.pc = pc /\ q.status = to /\ q.version = v /\ q.at = hand[h].at
    BY <1>1 DEF HandRow
  <2>. HIDE DEF q
  <2>17. PICK r \in HandRow : r = q BY <2>9
  <2>18. hand' = [hand EXCEPT ![h] = r] BY <2>3, <2>17
  <2>19. HandOK(r)'
    <3>1. CASE pc = "idle"
      <4>1. r = IdleHand BY <3>1, <2>15, <2>17
      <4>. QED BY <4>1, <2>1, <2>4 DEF IdleHand, HandOK, WalkPcs, DonePcs, SendPcs
    <3>2. CASE pc # "idle"
      <4>1. r.pc = pc /\ r.status = to /\ r.version = v /\ r.at = hand[h].at
        BY <3>2, <2>16, <2>17
      <4>2. pc = "step" => \A s \in StepIds : s < r.at => job'[s] = "completed"
        BY <1>1, <4>1 DEF Ready, HandOK, WalkPcs
      <4>3. pc \in DonePcs => AllDone' BY <2>12 DEF Ready, DonePcs, SendPcs, PastRunning
      <4>4. pc \in SendPcs => GateOpen' BY <2>12 DEF Ready, SendPcs
      <4>5. pc \in {"admit", "step", "save", "attempt"} BY <3>2 DEF Ready
      <4>6. r.version <= run'.version /\ r.status = run'.status /\ run'.status # "none"
        BY <2>1, <2>4, <2>8, <4>1
      <4>7. r.pc \in WalkPcs => pc = "step" BY <4>1, <4>5 DEF WalkPcs
      <4>. QED BY <4>1, <4>2, <4>3, <4>4, <4>5, <4>6, <4>7 DEF HandOK
    <3>. QED BY <3>1, <3>2
  <2>20. r.pc = "save" => to = "collecting"
    BY <2>15, <2>16, <2>17 DEF Ready, IdleHand
  <2>21. r.pc = "save" => artifacts' = 0 /\ run.status \in EarlyStatuses /\ run'.status \notin EarlyStatuses
    BY <2>20, <2>4, <2>7, <2>13 DEF EarlyStatuses
  <2>22. r.pc = "provider" => sent' = 0 /\ delivery.status \in {"none", "pending"}
    BY <2>15, <2>16, <2>17 DEF Ready, IdleHand
  <2>23. artifacts' = artifacts \/ hand[h].pc = "save" OBVIOUS
  <2>24. sent' = sent \/ hand[h].pc = "provider" OBVIOUS
  <2>. QED BY <2>10, <2>11, <2>14, <2>18, <2>19, <2>21, <2>22, <2>23, <2>24, RunStep
<1>. QED BY <1>3, <1>4

(* createRun inserts the row.                                              *)
LEMMA CreateRunStep ==
  ASSUME RunInv, NEW h \in Hands, CreateRun(h)
  PROVE  RunInv'
<1>1. hand \in [Hands -> HandRow] BY DEF RunInv
<1>2. run.status = "none" /\ run.version = 0 /\ approval = "none" /\ sent = 0
  BY DEF CreateRun, RunInv, RunOK
<1>3. PICK gated \in ApprovalGates : run' = NewRun(gated) BY DEF CreateRun
<1>4. gated \in BOOLEAN BY AutomationAssumption
<1>5. run' \in AutomationRun /\ run'.status = "created" /\ run'.version = 1
  BY <1>3, <1>4 DEF NewRun, AutomationRun, RunStatuses
<1>. DEFINE q == [IdleHand EXCEPT !.pc = "validate", !.status = "created", !.version = 1]
<1>6. hand' = [hand EXCEPT ![h] = q] BY DEF CreateRun
<1>7. q \in HandRow
  <2>1. "validate" \in HandPcs /\ "created" \in RunStatuses /\ 1 \in Nat BY DEF HandPcs, RunStatuses
  <2>. QED BY <2>1, Idles DEF HandRow
<1>8. Evolves BY <1>2, <1>5 DEF CreateRun, Evolves, EarlyStatuses
<1>9. RunTypes' BY <1>5 DEF CreateRun, RunInv, RunTypes
<1>10. artifacts = 0 BY <1>2 DEF RunInv, RunOK, EarlyStatuses
<1>11. RunOK' BY <1>2, <1>5, <1>10 DEF CreateRun, RunInv, RunOK, PastRunning
<1>12. HandOK(q)' BY <1>5 DEF HandOK, IdleHand, WalkPcs, DonePcs, SendPcs
<1>13. q.pc \notin {"save", "provider"} BY DEF IdleHand
<1>14. artifacts' = artifacts /\ sent' = sent BY DEF CreateRun
<1>. HIDE DEF q
<1>. QED BY <1>6, <1>7, <1>8, <1>9, <1>11, <1>12, <1>13, <1>14, RunStep

(* getRun: the call holds the row's status and version.                    *)
LEMMA GetRunStep ==
  ASSUME RunInv, NEW h \in Hands, NEW pc \in {"start", "project"}, GetRun(h, pc), run.status # "none",
         UNCHANGED <<run, step, mapping, job, artifacts, approval, delivery, sent>>
  PROVE  RunInv'
<1>. DEFINE q == [IdleHand EXCEPT !.pc = pc, !.status = run.status, !.version = run.version]
<1>1. hand' = [hand EXCEPT ![h] = q] BY DEF GetRun
<1>2. run.status \in RunStatuses /\ run.version \in Nat BY StatusOf DEF RunInv, AutomationRun
<1>3. q \in HandRow
  <2>1. pc \in HandPcs BY DEF HandPcs
  <2>. QED BY <1>2, <2>1, Idles DEF HandRow
<1>4. \A s \in StepIds : ~(s < 1) BY DEF StepIds
<1>5. HandOK(q) BY <1>2, <1>4 DEF HandOK, IdleHand, WalkPcs, DonePcs, SendPcs
<1>6. q.pc \notin {"save", "provider"} BY DEF IdleHand
<1>7. PICK r \in HandRow : r = q BY <1>3
<1>. HIDE DEF q
<1>. QED BY <1>1, <1>5, <1>6, <1>7, HandMoves

(* A call that stays with the same run and steps, and goes to a place that *)
(* its own knowledge warrants.                                             *)
LEMMA ReturnStep ==
  ASSUME RunInv, NEW h \in Hands, HandReturns(h),
         UNCHANGED <<run, step, mapping, job, artifacts, approval, delivery, sent>>
  PROVE  RunInv'
<1>1. IdleHand.pc \notin {"save", "provider"} BY DEF IdleHand
<1>. QED BY <1>1, Idles, HandMoves DEF HandReturns

(* It goes on.                                                             *)
LEMMA GoOnStep ==
  ASSUME RunInv, NEW h \in Hands, NEW pc \in HandPcs, GoOn(h, pc),
         UNCHANGED <<run, step, mapping, job, artifacts, approval, delivery, sent>>,
         HandOK([hand[h] EXCEPT !.pc = pc]), pc \notin {"save", "provider"}
  PROVE  RunInv'
<1>1. hand \in [Hands -> HandRow] BY DEF RunInv
<1>. DEFINE q == [hand[h] EXCEPT !.pc = pc]
<1>2. hand' = [hand EXCEPT ![h] = q] BY <1>1 DEF GoOn
<1>3. q \in HandRow /\ q.pc = pc BY <1>1 DEF HandRow
<1>4. HandOK(q) OBVIOUS
<1>5. PICK r \in HandRow : r = q BY <1>3
<1>. HIDE DEF q
<1>. QED BY <1>2, <1>3, <1>4, <1>5, HandMoves

(* The transitions that the calls ask for, each at its place.              *)
LEMMA TransitionSteps ==
  ASSUME RunInv, NEW h \in Hands,
         \/ ValidateInput(h) \/ AdmitRun(h) \/ FailRun(h) \/ Collect(h)
         \/ AwaitApproval(h) \/ DeliverRun(h) \/ CompleteRun(h)
  PROVE  RunInv'
<1>1. HandOK(hand[h]) BY DEF RunInv
<1>. USE DEF RunStatuses, HandPcs, PastRunning
<1>2. CASE ValidateInput(h)
  <2>1. Ready(h, "validating_input", "admit") BY DEF Ready
  <2>. QED BY <1>2, <2>1, TransitionStep DEF ValidateInput
<1>3. CASE AdmitRun(h)
  <2>1. Ready(h, "admitted", "idle") BY DEF Ready
  <2>. QED BY <1>3, <2>1, TransitionStep DEF AdmitRun
<1>4. CASE FailRun(h)
  <2>1. Ready(h, "failed", "idle") BY DEF Ready
  <2>. QED BY <1>4, <2>1, TransitionStep DEF FailRun
<1>5. CASE Collect(h)
  <2>1. Ready(h, "collecting", "save") BY <1>1, <1>5 DEF Collect, Ready, HandOK, DonePcs
  <2>. QED BY <1>5, <2>1, TransitionStep DEF Collect
<1>6. CASE AwaitApproval(h)
  <2>1. Ready(h, "awaiting_approval", "idle")
    BY <1>1, <1>6 DEF AwaitApproval, Ready, HandOK, DonePcs
  <2>. QED BY <1>6, <2>1, TransitionStep DEF AwaitApproval
<1>7. CASE DeliverRun(h)
  <2>1. Ready(h, "delivering", "attempt")
    BY <1>1, <1>7 DEF DeliverRun, Ready, HandOK, DonePcs, SendPcs
  <2>. QED BY <1>7, <2>1, TransitionStep DEF DeliverRun
<1>8. CASE CompleteRun(h)
  <2>1. Ready(h, "completed", "idle")
    BY <1>1, <1>8 DEF CompleteRun, Ready, HandOK, DonePcs, SendPcs
  <2>. QED BY <1>8, <2>1, TransitionStep DEF CompleteRun
<1>. QED BY <1>2, <1>3, <1>4, <1>5, <1>6, <1>7, <1>8

(* A step that moves no call.                                              *)
LEMMA RunRowsMove ==
  ASSUME RunInv, UNCHANGED <<hand, artifacts, sent>>, RunTypes', Evolves, RunOK'
  PROVE  RunInv'
<1>1. RunTypes BY DEF RunInv, RunTypes
<1>2. ASSUME NEW g \in Hands PROVE HandOK(hand[g])'
  <2>1. hand[g] \in HandRow /\ HandOK(hand[g]) BY DEF RunInv
  <2>2. PICK r \in HandRow : r = hand[g] BY <2>1
  <2>3. HandOK(r) BY <2>1, <2>2
  <2>4. HandOK(r)' BY <1>1, <2>3, OtherKnows
  <2>5. hand'[g] = r BY <2>2
  <2>. QED BY <2>4, <2>5 DEF HandOK
<1>3. OneSaves' BY DEF RunInv, OneSaves, Evolves
<1>4. OneSends' BY DEF RunInv, OneSends
<1>. QED BY <1>2, <1>3, <1>4 DEF RunInv, RunTypes

(* cancelRun.                                                              *)
LEMMA CancelRunStep == RunInv /\ CancelRun => RunInv'
<1>. SUFFICES ASSUME RunInv, CancelRun PROVE RunInv' OBVIOUS
<1>. DEFINE v == run.version + 1
<1>1. v \in Nat /\ v # 0 /\ run.version \in Nat BY DEF RunInv, AutomationRun
<1>2. run' = [run EXCEPT !.status = "cancelled", !.version = v] BY DEF CancelRun
<1>3. run' \in AutomationRun /\ run'.status = "cancelled" /\ run'.version = v /\ run'.gated = run.gated
  <2>. HIDE DEF v
  <2>. QED BY <1>1, <1>2 DEF RunInv, AutomationRun, RunStatuses
<1>4. Evolves BY <1>3 DEF CancelRun, Evolves, EarlyStatuses
<1>. HIDE DEF v
<1>5. RunTypes' BY <1>3 DEF CancelRun, RunInv, RunTypes
<1>6. AllDone' = AllDone /\ GateOpen' = GateOpen BY <1>3 DEF CancelRun, AllDone, GateOpen
<1>7. RunOK' BY <1>1, <1>3, <1>6 DEF CancelRun, RunInv, RunOK, PastRunning, EarlyStatuses
<1>. QED BY <1>4, <1>5, <1>7, RunRowsMove DEF CancelRun

(* An approval request expires; there is no decision to lose yet.          *)
LEMMA ExpireApprovalStep == RunInv /\ ExpireApproval => RunInv'
<1>. SUFFICES ASSUME RunInv, ExpireApproval PROVE RunInv' OBVIOUS
<1>1. Evolves BY DEF ExpireApproval, Evolves
<1>2. RunTypes' BY DEF ExpireApproval, RunInv, RunTypes
<1>3. AllDone' = AllDone /\ (GateOpen => GateOpen') BY DEF ExpireApproval, AllDone, GateOpen
<1>4. RunOK' BY <1>3 DEF ExpireApproval, RunInv, RunOK
<1>. QED BY <1>1, <1>2, <1>4, RunRowsMove DEF ExpireApproval

(* A job ends.                                                             *)
LEMMA JobEndsStep ==
  ASSUME RunInv, NEW s \in StepIds, NEW status \in {"completed", "failed"}, JobEnds(s, status)
  PROVE  RunInv'
<1>1. job \in [StepIds -> JobStatuses] /\ status \in JobStatuses BY DEF RunInv, JobStatuses
<1>2. \A t \in StepIds : job[t] = "completed" => job'[t] = "completed" BY <1>1 DEF JobEnds
<1>3. Evolves BY <1>2 DEF JobEnds, Evolves
<1>4. RunTypes' BY <1>1 DEF JobEnds, RunInv, RunTypes
<1>5. (AllDone => AllDone') /\ GateOpen' = GateOpen BY <1>2 DEF JobEnds, AllDone, GateOpen
<1>6. RunOK' BY <1>2, <1>5 DEF JobEnds, RunInv, RunOK
<1>. QED BY <1>3, <1>4, <1>6, RunRowsMove DEF JobEnds

-----------------------------------------------------------------------------
(* A call begins, reads the run again, or crashes.                         *)
LEMMA RunCallSteps ==
  ASSUME RunInv, NEW h \in Hands,
         AdvanceRun(h) \/ ReconcileRun(h) \/ Projected(h) \/ HandCrash(h)
  PROVE  RunInv'
<1>1. CASE AdvanceRun(h) BY <1>1, GetRunStep DEF AdvanceRun
<1>2. CASE ReconcileRun(h) BY <1>2, GetRunStep DEF ReconcileRun
<1>3. CASE Projected(h)
  <2>1. HandOK(hand[h]) BY DEF RunInv
  <2>2. run.status # "none" BY <1>3, <2>1 DEF Projected, HandOK
  <2>. QED BY <1>3, <2>2, GetRunStep, ReturnStep DEF Projected
<1>4. CASE HandCrash(h) BY <1>4, ReturnStep DEF HandCrash
<1>. QED BY <1>1, <1>2, <1>3, <1>4

(* reconcileRun copies the state of a mapped job to its step.              *)
LEMMA ProjectStepStep ==
  ASSUME RunInv, NEW h \in Hands, ProjectStep(h)
  PROVE  RunInv'
<1>. DEFINE s == hand[h].at
            n == s + 1
            q == IF mapping[s] /\ job[s] = "failed" /\ hand[h].status \notin TerminalRunStatuses
                 THEN [hand[h] EXCEPT !.pc = "fail"] ELSE [hand[h] EXCEPT !.at = n]
<1>1. hand \in [Hands -> HandRow] /\ HandOK(hand[h]) BY DEF RunInv
<1>2. s \in StepIds /\ hand[h].pc = "project" BY DEF ProjectStep
<1>3. n \in Nat \ {0} BY <1>2, StepNumbers, <1>1 DEF HandRow
<1>4. hand' = [hand EXCEPT ![h] = q] BY <1>1 DEF ProjectStep
<1>5. step' = (IF mapping[s] THEN [step EXCEPT ![s] = job[s]] ELSE step) BY DEF ProjectStep
<1>6. UNCHANGED <<run, mapping, job, artifacts, approval, delivery, sent>> BY DEF ProjectStep
<1>. HIDE DEF n, s
<1>7. q \in HandRow BY <1>1, <1>3 DEF HandRow, HandPcs
<1>8. q.pc \in {"fail", "project"} /\ q.version = hand[h].version /\ q.status = hand[h].status
  BY <1>1, <1>2 DEF HandRow, s
<1>9. PICK r \in HandRow : r = q BY <1>7
<1>10. hand' = [hand EXCEPT ![h] = r] BY <1>4, <1>9
<1>11. r.pc \in {"fail", "project"} /\ r.version = hand[h].version /\ r.status = hand[h].status
  BY <1>8, <1>9
<1>. HIDE DEF q
<1>12. HandOK(r) BY <1>1, <1>2, <1>11 DEF HandOK, WalkPcs, DonePcs, SendPcs
<1>13. Evolves BY <1>6 DEF Evolves
<1>14. HandOK(r)' BY <1>6, <1>12 DEF HandOK, AllDone, GateOpen
<1>15. RunTypes' BY <1>2, <1>5, <1>6 DEF RunInv, RunTypes
<1>16. \A t \in StepIds : step'[t] = "completed" => job[t] = "completed"
  BY <1>2, <1>5 DEF RunInv, RunOK
<1>17. RunOK' BY <1>6, <1>16 DEF RunInv, RunOK, AllDone, GateOpen
<1>18. r.pc # "save" /\ r.pc # "provider" BY <1>11
<1>19. artifacts' = artifacts /\ sent' = sent BY <1>6
<1>. QED BY <1>10, <1>13, <1>14, <1>15, <1>17, <1>18, <1>19, RunStep

(* advanceRun starts the run or takes it up again.                         *)
LEMMA StartRunStep ==
  ASSUME RunInv, NEW h \in Hands, StartRun(h)
  PROVE  RunInv'
<1>1. hand \in [Hands -> HandRow] /\ HandOK(hand[h]) BY DEF RunInv
<1>2. UNCHANGED <<step, mapping, job, artifacts, approval, delivery, sent>> /\ hand[h].pc = "start"
  BY DEF StartRun
<1>3. CASE hand[h].status = "admitted"
  <2>1. TransitionRun(h, "running", "step") BY <1>3 DEF StartRun
  <2>2. Ready(h, "running", "step") BY <1>2 DEF Ready, PastRunning
  <2>3. "running" \in RunStatuses /\ "step" \in HandPcs BY DEF RunStatuses, HandPcs
  <2>. QED BY <1>2, <2>1, <2>2, <2>3, TransitionStep
<1>4. CASE hand[h].status \in {"running", "collecting"}
  <2>1. GoOn(h, "step") /\ UNCHANGED run BY <1>4 DEF StartRun
  <2>2. HandOK([hand[h] EXCEPT !.pc = "step"])
    BY <1>1, <1>2 DEF HandOK, HandRow, WalkPcs, DonePcs, SendPcs
  <2>3. "step" \in HandPcs BY DEF HandPcs
  <2>. QED BY <1>2, <2>1, <2>2, <2>3, GoOnStep
<1>5. CASE hand[h].status \notin {"admitted", "running", "collecting"}
  <2>1. HandReturns(h) /\ UNCHANGED run BY <1>5 DEF StartRun
  <2>. QED BY <1>2, <2>1, ReturnStep
<1>. QED BY <1>3, <1>4, <1>5

(* It passes over the steps that have completed; after the last, all have. *)
LEMMA NextStepStep ==
  ASSUME RunInv, NEW h \in Hands, NextStep(h)
  PROVE  RunInv'
<1>. DEFINE s == hand[h].at
            n == s + 1
            q == IF s \notin StepIds THEN [hand[h] EXCEPT !.pc = "collect"]
                 ELSE IF step[s] = "completed" THEN [hand[h] EXCEPT !.at = n]
                 ELSE [hand[h] EXCEPT !.pc = IF step[s] = "failed" THEN "fail" ELSE "dispatch"]
<1>1. hand \in [Hands -> HandRow] /\ HandOK(hand[h]) BY DEF RunInv
<1>2. hand[h].pc = "step" /\ hand' = [hand EXCEPT ![h] = q] BY <1>1 DEF NextStep
<1>3. UNCHANGED <<run, step, mapping, job, artifacts, approval, delivery, sent>> BY DEF NextStep
<1>4. s \in Nat \ {0} /\ n \in Nat \ {0} /\ n = s + 1 BY <1>1 DEF HandRow
<1>5. \A t \in StepIds : t < s => job[t] = "completed" BY <1>1, <1>2 DEF HandOK, WalkPcs
<1>6. s \notin StepIds => \A t \in StepIds : t < s
  <2>1. Len(Steps) \in Nat BY AutomationAssumption
  <2>. QED BY <1>4, <2>1 DEF StepIds
<1>7. s \notin StepIds => AllDone BY <1>5, <1>6 DEF AllDone
<1>8. s \in StepIds /\ step[s] = "completed" => \A t \in StepIds : t < n => job[t] = "completed"
  <2>1. \A t \in StepIds : t < n => t < s \/ t = s BY <1>4, StepNumbers
  <2>. QED BY <1>5, <2>1 DEF RunInv, RunOK
<1>. HIDE DEF n
<1>9. q \in HandRow BY <1>1, <1>4 DEF HandRow, HandPcs
<1>10. q.version = hand[h].version /\ q.status = hand[h].status BY <1>1, <1>4 DEF HandRow
<1>11. s \notin StepIds => q.pc = "collect" BY <1>1 DEF HandRow
<1>12. s \in StepIds /\ step[s] = "completed" => q.pc = "step" /\ q.at = n BY <1>1, <1>2 DEF HandRow
<1>13. s \in StepIds /\ step[s] # "completed" => q.pc \in {"fail", "dispatch"} /\ q.at = s
  BY <1>1 DEF HandRow
<1>14. PICK r \in HandRow : r = q BY <1>9
<1>. HIDE DEF q, s
<1>15. HandOK(r)
  <2>1. r.version <= run.version /\ (r.version = run.version => r.status = run.status) /\ run.status # "none"
    BY <1>1, <1>2, <1>10, <1>14 DEF HandOK
  <2>. QED BY <2>1, <1>5, <1>7, <1>8, <1>11, <1>12, <1>13, <1>14 DEF HandOK, WalkPcs, DonePcs, SendPcs
<1>16. r.pc \notin {"save", "provider"} BY <1>11, <1>12, <1>13, <1>14
<1>. QED BY <1>2, <1>3, <1>14, <1>15, <1>16, HandMoves

(* A step gets its one job, or finds the one it has.                       *)
LEMMA DispatchStepStep ==
  ASSUME RunInv, NEW h \in Hands, DispatchStep(h)
  PROVE  RunInv'
<1>. DEFINE s == hand[h].at
            known == IF job[s] = "none" THEN "active" ELSE job[s]
            to == IF mapping[s] THEN "upsert" ELSE "map"
            q == [hand[h] EXCEPT !.pc = to, !.seen = known]
<1>1. hand \in [Hands -> HandRow] /\ hand[h] \in HandRow /\ HandOK(hand[h]) BY DEF RunInv
<1>2. hand[h].pc = "dispatch" /\ s \in StepIds BY <1>1 DEF DispatchStep, HandOK
<1>3. hand' = [hand EXCEPT ![h] = q] BY <1>1 DEF DispatchStep
<1>4. UNCHANGED <<run, step, mapping, artifacts, approval, delivery, sent>> BY DEF DispatchStep
<1>5. job' = [job EXCEPT ![s] = known] BY DEF DispatchStep
<1>6. known \in JobStatuses BY <1>2 DEF RunInv, JobStatuses
<1>7. job'[s] = known /\ job' \in [StepIds -> JobStatuses] BY <1>2, <1>5, <1>6 DEF RunInv
<1>8. \A t \in StepIds : job[t] = "completed" => job'[t] = "completed" BY <1>2, <1>5 DEF RunInv
<1>9. to \in {"upsert", "map"} OBVIOUS
<1>. HIDE DEF to, known
<1>10. q \in HandRow BY <1>1, <1>6, <1>9 DEF HandRow, HandPcs
<1>11. q.pc = to /\ q.seen = known /\ q.at = s /\ q.version = hand[h].version /\ q.status = hand[h].status
  BY <1>1 DEF HandRow
<1>12. PICK r \in HandRow : r = q BY <1>10
<1>13. hand' = [hand EXCEPT ![h] = r] BY <1>3, <1>12
<1>14. r.pc = to /\ r.seen = known /\ r.at = s /\ r.version = hand[h].version /\ r.status = hand[h].status
  BY <1>11, <1>12
<1>. HIDE DEF q
<1>15. \A t \in StepIds : t < s => job[t] = "completed" BY <1>1, <1>2 DEF HandOK, WalkPcs
<1>16. r.version <= run.version /\ (r.version = run.version => r.status = run.status) /\ run.status # "none"
  BY <1>1, <1>2, <1>14 DEF HandOK
<1>. HIDE DEF s
<1>17. HandOK(r)'
  BY <1>2, <1>4, <1>6, <1>7, <1>8, <1>9, <1>14, <1>15, <1>16 DEF HandOK, WalkPcs, DonePcs, SendPcs
<1>18. Evolves BY <1>4, <1>8 DEF Evolves
<1>19. RunTypes' BY <1>4, <1>7 DEF RunInv, RunTypes
<1>20. (AllDone => AllDone') /\ GateOpen' = GateOpen BY <1>4, <1>8 DEF AllDone, GateOpen
<1>21. RunOK' BY <1>4, <1>8, <1>20 DEF RunInv, RunOK
<1>22. r.pc # "save" /\ r.pc # "provider" BY <1>9, <1>14
<1>. QED BY <1>4, <1>13, <1>17, <1>18, <1>19, <1>21, <1>22, RunStep

(* The mapping is saved.                                                   *)
LEMMA SaveJobMappingStep ==
  ASSUME RunInv, NEW h \in Hands, SaveJobMapping(h)
  PROVE  RunInv'
<1>. DEFINE q == [hand[h] EXCEPT !.pc = "upsert"]
<1>1. hand \in [Hands -> HandRow] /\ hand[h] \in HandRow /\ HandOK(hand[h]) BY DEF RunInv
<1>2. hand[h].pc = "map" /\ hand' = [hand EXCEPT ![h] = q] BY <1>1 DEF SaveJobMapping, GoOn
<1>3. UNCHANGED <<run, step, job, artifacts, approval, delivery, sent>> BY DEF SaveJobMapping
<1>4. q \in HandRow BY <1>1 DEF HandRow, HandPcs
<1>5. HandOK(q) BY <1>1, <1>2 DEF HandOK, HandRow, WalkPcs, DonePcs, SendPcs
<1>6. q.pc = "upsert" BY <1>1 DEF HandRow
<1>7. PICK r \in HandRow : r = q BY <1>4
<1>. HIDE DEF q
<1>8. HandOK(r) /\ r.pc = "upsert" /\ hand' = [hand EXCEPT ![h] = r] BY <1>2, <1>5, <1>6, <1>7
<1>9. HandOK(r)' BY <1>3, <1>8 DEF HandOK, AllDone, GateOpen
<1>10. Evolves BY <1>3 DEF Evolves
<1>11. mapping' \in [StepIds -> BOOLEAN] BY DEF RunInv, SaveJobMapping
<1>12. RunTypes' BY <1>3, <1>11 DEF RunInv, RunTypes
<1>13. RunOK' BY <1>3 DEF RunInv, RunOK, AllDone, GateOpen
<1>. QED BY <1>3, <1>8, <1>9, <1>10, <1>12, <1>13, RunStep

(* The step takes the state the job was in.                                *)
LEMMA UpsertStepStateStep ==
  ASSUME RunInv, NEW h \in Hands, UpsertStepState(h)
  PROVE  RunInv'
<1>. DEFINE s == hand[h].at
            n == s + 1
            q == CASE hand[h].seen = "failed" -> [hand[h] EXCEPT !.pc = "fail"]
                   [] hand[h].seen = "completed" -> [hand[h] EXCEPT !.pc = "step", !.at = n]
                   [] OTHER -> IdleHand
<1>1. hand \in [Hands -> HandRow] /\ hand[h] \in HandRow /\ HandOK(hand[h]) BY DEF RunInv
<1>2. hand[h].pc = "upsert" /\ s \in StepIds /\ hand[h].seen \in JobStatuses
  BY <1>1 DEF UpsertStepState, HandOK
<1>3. UNCHANGED <<run, mapping, job, artifacts, approval, delivery, sent>> BY DEF UpsertStepState
<1>4. hand' = [hand EXCEPT ![h] = q] BY <1>1 DEF UpsertStepState, AfterStep
<1>5. step' = [step EXCEPT ![s] = hand[h].seen] BY DEF UpsertStepState
<1>6. s \in Nat \ {0} /\ n \in Nat \ {0} /\ n = s + 1 BY <1>1 DEF HandRow
<1>7. hand[h].seen = "completed" => \A t \in StepIds : t < n => job[t] = "completed"
  <2>1. \A t \in StepIds : t < n => t < s \/ t = s BY <1>6, StepNumbers
  <2>. QED BY <1>1, <1>2, <2>1 DEF HandOK, WalkPcs
<1>8. \A t \in StepIds : step'[t] = "completed" => job[t] = "completed"
  BY <1>1, <1>2, <1>5 DEF RunInv, RunOK, HandOK
<1>. HIDE DEF n
<1>9. q \in HandRow
  <2>1. CASE hand[h].seen = "failed"
    <3>1. q = [hand[h] EXCEPT !.pc = "fail"] BY <2>1
    <3>. QED BY <1>1, <3>1 DEF HandRow, HandPcs
  <2>2. CASE hand[h].seen = "completed"
    <3>1. q = [hand[h] EXCEPT !.pc = "step", !.at = n] BY <2>2
    <3>2. "step" \in HandPcs BY DEF HandPcs
    <3>. HIDE DEF q
    <3>. QED BY <1>1, <1>6, <3>1, <3>2 DEF HandRow
  <2>3. CASE hand[h].seen \notin {"failed", "completed"}
    <3>1. q = IdleHand BY <2>3
    <3>. QED BY <3>1, Idles
  <2>. QED BY <2>1, <2>2, <2>3
<1>10. hand[h].seen = "failed" => q.pc = "fail" /\ q.version = hand[h].version /\ q.status = hand[h].status
  BY <1>1 DEF HandRow
<1>11. hand[h].seen = "completed" => /\ q.pc = "step" /\ q.at = n
                                     /\ q.version = hand[h].version /\ q.status = hand[h].status
  BY <1>1 DEF HandRow
<1>12. hand[h].seen \notin {"failed", "completed"} => q = IdleHand OBVIOUS
<1>13. PICK r \in HandRow : r = q BY <1>9
<1>. HIDE DEF q
<1>14. HandOK(r)
  <2>1. hand[h].version <= run.version /\ (hand[h].version = run.version => hand[h].status = run.status)
        /\ run.status # "none"
    BY <1>1, <1>2 DEF HandOK
  <2>2. CASE hand[h].seen = "failed"
    BY <2>1, <2>2, <1>10, <1>13 DEF HandOK, WalkPcs, DonePcs, SendPcs
  <2>3. CASE hand[h].seen = "completed"
    BY <2>1, <2>3, <1>7, <1>11, <1>13 DEF HandOK, WalkPcs, DonePcs, SendPcs
  <2>4. CASE hand[h].seen \notin {"failed", "completed"}
    BY <2>4, <1>12, <1>13, Idles
  <2>. QED BY <2>2, <2>3, <2>4
<1>15. HandOK(r)' BY <1>3, <1>14 DEF HandOK, AllDone, GateOpen
<1>16. Evolves BY <1>3 DEF Evolves
<1>17. RunTypes' BY <1>2, <1>3, <1>5 DEF RunInv, RunTypes
<1>18. RunOK' BY <1>3, <1>8 DEF RunInv, RunOK, AllDone, GateOpen
<1>19. r.pc # "save" /\ r.pc # "provider" BY <1>10, <1>11, <1>12, <1>13 DEF IdleHand
<1>20. hand' = [hand EXCEPT ![h] = r] BY <1>4, <1>13
<1>21. artifacts' = artifacts /\ sent' = sent BY <1>3
<1>. QED BY <1>15, <1>16, <1>17, <1>18, <1>19, <1>20, <1>21, RunStep

(* The one call that could enter "collecting" saves the artifacts.         *)
LEMMA SaveArtifactsStep ==
  ASSUME RunInv, NEW h \in Hands, SaveArtifacts(h)
  PROVE  RunInv'
<1>. DEFINE to == IF run.gated THEN "gate" ELSE "deliver"
            q == [hand[h] EXCEPT !.pc = to]
<1>1. hand \in [Hands -> HandRow] /\ hand[h] \in HandRow /\ HandOK(hand[h]) BY DEF RunInv
<1>2. hand[h].pc = "save" BY DEF SaveArtifacts
<1>3. artifacts = 0 /\ run.status \notin EarlyStatuses BY <1>2 DEF RunInv, OneSaves
<1>4. artifacts' = 1 BY <1>3 DEF SaveArtifacts
<1>5. UNCHANGED <<run, step, mapping, job, approval, delivery, sent>> BY DEF SaveArtifacts
<1>6. hand' = [hand EXCEPT ![h] = q] BY <1>1 DEF SaveArtifacts, GoOn
<1>7. to \in {"gate", "deliver"} /\ (to = "deliver" => GateOpen) BY DEF GateOpen
<1>. HIDE DEF to
<1>8. q \in HandRow BY <1>1, <1>7 DEF HandRow, HandPcs
<1>9. q.pc = to /\ q.version = hand[h].version /\ q.status = hand[h].status BY <1>1 DEF HandRow
<1>10. PICK r \in HandRow : r = q BY <1>8
<1>11. r.pc = to /\ r.version = hand[h].version /\ r.status = hand[h].status BY <1>9, <1>10
<1>12. hand' = [hand EXCEPT ![h] = r] BY <1>6, <1>10
<1>. HIDE DEF q
<1>13. HandOK(r) BY <1>1, <1>2, <1>7, <1>11 DEF HandOK, WalkPcs, DonePcs, SendPcs
<1>14. HandOK(r)' BY <1>5, <1>13 DEF HandOK, AllDone, GateOpen
<1>15. Evolves BY <1>5 DEF Evolves
<1>16. RunTypes' BY <1>4, <1>5 DEF RunInv, RunTypes
<1>17. RunOK' BY <1>3, <1>4, <1>5 DEF RunInv, RunOK, AllDone, GateOpen
<1>18. r.pc # "save" /\ r.pc # "provider" BY <1>7, <1>11
<1>. QED BY <1>2, <1>5, <1>12, <1>14, <1>15, <1>16, <1>17, <1>18, RunStep

(* The approval request is created, once.                                  *)
LEMMA CreateApprovalRequestStep ==
  ASSUME RunInv, NEW h \in Hands, CreateApprovalRequest(h)
  PROVE  RunInv'
<1>. DEFINE q == [hand[h] EXCEPT !.pc = "await"]
<1>1. hand \in [Hands -> HandRow] /\ hand[h] \in HandRow /\ HandOK(hand[h]) BY DEF RunInv
<1>2. hand[h].pc = "gate" /\ hand' = [hand EXCEPT ![h] = q]
  BY <1>1 DEF CreateApprovalRequest, GoOn
<1>3. UNCHANGED <<run, step, mapping, job, artifacts, delivery, sent>> BY DEF CreateApprovalRequest
<1>4. approval' = approval \/ (approval = "none" /\ approval' = "pending")
  BY DEF CreateApprovalRequest
<1>5. q \in HandRow BY <1>1 DEF HandRow, HandPcs
<1>6. q.pc = "await" /\ HandOK(q) BY <1>1, <1>2 DEF HandOK, HandRow, WalkPcs, DonePcs, SendPcs
<1>7. PICK r \in HandRow : r = q BY <1>5
<1>. HIDE DEF q
<1>8. HandOK(r) /\ r.pc = "await" /\ hand' = [hand EXCEPT ![h] = r] BY <1>2, <1>6, <1>7
<1>9. Evolves BY <1>3, <1>4 DEF Evolves
<1>10. RunTypes' BY <1>3, <1>4 DEF RunInv, RunTypes
<1>11. RunTypes BY DEF RunInv, RunTypes
<1>12. HandOK(r)' BY <1>8, <1>9, <1>10, <1>11, OtherKnows
<1>13. AllDone' = AllDone /\ (GateOpen => GateOpen') BY <1>3, <1>4 DEF AllDone, GateOpen
<1>14. run.status # "none" BY <1>1, <1>2 DEF HandOK
<1>15. RunOK' BY <1>3, <1>13, <1>14 DEF RunInv, RunOK
<1>. QED BY <1>3, <1>8, <1>9, <1>10, <1>12, <1>15, RunStep

-----------------------------------------------------------------------------
(* decideApproval reads the request.                                       *)
LEMMA DecideStep ==
  ASSUME RunInv, NEW h \in Hands, NEW decision \in ApprovalDecisions, Decide(h, decision)
  PROVE  RunInv'
<1>. DEFINE q == [IdleHand EXCEPT !.pc = "decide", !.decision = decision, !.seen = approval]
<1>1. hand' = [hand EXCEPT ![h] = q] BY DEF Decide
<1>2. UNCHANGED <<run, step, mapping, job, artifacts, approval, delivery, sent>> BY DEF Decide
<1>3. approval # "none" /\ run.status # "none" BY DEF Decide, RunInv, RunOK
<1>4. q \in HandRow
  <2>1. approval \in ApprovalDecisions \cup {"none", "pending", "expired"} BY DEF RunInv
  <2>2. "decide" \in HandPcs BY DEF HandPcs
  <2>. QED BY <2>1, <2>2, Idles DEF HandRow
<1>5. q.pc = "decide" /\ q.decision = decision /\ q.seen = approval /\ q.version = 0
  BY DEF IdleHand
<1>6. PICK r \in HandRow : r = q BY <1>4
<1>. HIDE DEF q
<1>7. r.pc = "decide" /\ r.decision = decision /\ r.seen = approval /\ r.version = 0
  BY <1>5, <1>6
<1>8. run.version \in Nat /\ run.version # 0 BY <1>3 DEF RunInv, RunOK, AutomationRun
<1>9. HandOK(r) BY <1>3, <1>7, <1>8 DEF HandOK, WalkPcs, DonePcs, SendPcs
<1>. QED BY <1>1, <1>2, <1>6, <1>7, <1>9, HandMoves

(* It decides a pending request, or goes by the decision there is.         *)
LEMMA DecideApprovalStep ==
  ASSUME RunInv, NEW h \in Hands, DecideApproval(h)
  PROVE  RunInv'
<1>1. hand \in [Hands -> HandRow] /\ hand[h] \in HandRow /\ HandOK(hand[h]) BY DEF RunInv
<1>2. hand[h].pc = "decide" /\ hand[h].seen # "none" /\ hand[h].decision \in ApprovalDecisions
  BY <1>1 DEF DecideApproval, HandOK
<1>3. UNCHANGED <<run, step, mapping, job, artifacts, delivery, sent>> BY DEF DecideApproval
<1>4. CASE approval # hand[h].seen BY <1>3, <1>4, ReturnStep DEF DecideApproval
<1>5. CASE approval = hand[h].seen
  <2>. DEFINE d == Decided(h)
              q == [hand[h] EXCEPT !.pc = "apply", !.decision = d,
                                   !.status = run.status, !.version = run.version]
  <2>1. approval' = IF approval = "pending" THEN hand[h].decision ELSE approval
    BY <1>5 DEF DecideApproval
  <2>2. d = approval' /\ d \notin {"none", "pending"}
        /\ d \in ApprovalDecisions \cup {"none", "pending", "expired"}
    BY <2>1, <1>2, <1>5 DEF RunInv, Decided, ApprovalDecisions
  <2>3. hand' = [hand EXCEPT ![h] = q] BY <1>5, <1>1 DEF DecideApproval
  <2>4. run.status # "none" /\ run.status \in RunStatuses /\ run.version \in Nat
    BY <1>1, <1>2, StatusOf DEF HandOK, RunInv, AutomationRun
  <2>. HIDE DEF d
  <2>5. q \in HandRow BY <1>1, <2>2, <2>4 DEF HandRow, HandPcs
  <2>6. q.pc = "apply" /\ q.decision = d /\ q.status = run.status /\ q.version = run.version
    BY <1>1 DEF HandRow
  <2>7. PICK r \in HandRow : r = q BY <2>5
  <2>8. PICK e \in ApprovalDecisions \cup {"none", "pending", "expired"} : e = d BY <2>2
  <2>. HIDE DEF q
  <2>9. r.pc = "apply" /\ r.decision = e /\ r.status = run.status /\ r.version = run.version
        /\ e = approval' /\ e \notin {"none", "pending"} /\ hand' = [hand EXCEPT ![h] = r]
    BY <2>2, <2>3, <2>6, <2>7, <2>8
  <2>10. Evolves BY <1>3, <2>1 DEF Evolves
  <2>11. RunTypes' BY <1>3, <2>9 DEF RunInv, RunTypes
  <2>12. AllDone' = AllDone /\ (GateOpen => GateOpen') BY <1>3, <2>1 DEF AllDone, GateOpen
  <2>13. RunOK' BY <1>3, <2>4, <2>12 DEF RunInv, RunOK
  <2>14. run.status = "awaiting_approval" => AllDone BY DEF RunInv, RunOK, PastRunning
  <2>15. HandOK(r)'
    BY <1>3, <2>4, <2>9, <2>12, <2>14 DEF HandOK, WalkPcs, DonePcs, SendPcs
  <2>. QED BY <1>3, <2>9, <2>10, <2>11, <2>13, <2>15, RunStep
<1>. QED BY <1>4, <1>5

(* It applies the decision: a run that waits for approval has executed its *)
(* steps.                                                                  *)
LEMMA ApplyDecisionStep ==
  ASSUME RunInv, NEW h \in Hands, ApplyDecision(h)
  PROVE  RunInv'
<1>1. hand \in [Hands -> HandRow] /\ hand[h] \in HandRow /\ HandOK(hand[h]) BY DEF RunInv
<1>2. hand[h].pc = "apply" /\ UNCHANGED <<step, mapping, job, artifacts, approval, delivery, sent>>
  BY DEF ApplyDecision
<1>3. hand[h].status = "awaiting_approval" => AllDone BY <1>1, <1>2 DEF HandOK
<1>4. CASE HandReturns(h) /\ UNCHANGED run BY <1>2, <1>4, ReturnStep
<1>5. CASE hand[h].status = "awaiting_approval" /\ hand[h].decision = "approved"
  <2>1. GoOn(h, "deliver") /\ UNCHANGED run BY <1>5 DEF ApplyDecision
  <2>2. approval = "approved" BY <1>1, <1>2, <1>5 DEF HandOK
  <2>3. HandOK([hand[h] EXCEPT !.pc = "deliver"])
    BY <1>1, <1>2, <1>3, <1>5, <2>2 DEF HandOK, HandRow, WalkPcs, DonePcs, SendPcs, GateOpen
  <2>4. "deliver" \in HandPcs BY DEF HandPcs
  <2>. QED BY <1>2, <2>1, <2>3, <2>4, GoOnStep
<1>6. CASE hand[h].status = "awaiting_approval" /\ hand[h].decision = "rejected"
  <2>1. TransitionRun(h, "rejected", "idle") BY <1>6 DEF ApplyDecision
  <2>2. Ready(h, "rejected", "idle") BY DEF Ready, PastRunning
  <2>3. "rejected" \in RunStatuses /\ "idle" \in HandPcs BY DEF RunStatuses, HandPcs
  <2>. QED BY <1>2, <2>1, <2>2, <2>3, TransitionStep
<1>7. CASE hand[h].status = "awaiting_approval" /\ hand[h].decision = "changes_requested"
  <2>1. TransitionRun(h, "suspended", "idle") BY <1>7 DEF ApplyDecision
  <2>2. ~CanTransition(h, "suspended")
    <3>1. SUFFICES ASSUME CanTransition(h, "suspended") PROVE FALSE OBVIOUS
    <3>2. run.version = hand[h].version /\ "suspended" \in TRANSITIONS[run.status]
      BY <3>1 DEF CanTransition
    <3>3. run.status = "awaiting_approval" BY <3>2, <1>1, <1>7 DEF HandOK
    <3>. QED BY <3>2, <3>3, Table DEF RunStatuses
  <2>3. HandReturns(h) /\ UNCHANGED run BY <2>1, <2>2 DEF TransitionRun
  <2>. QED BY <1>4, <2>3
<1>8. CASE hand[h].status # "awaiting_approval"
  <2>1. HandReturns(h) /\ UNCHANGED run BY <1>8, ZenonT(30) DEF ApplyDecision
  <2>. QED BY <1>4, <2>1
<1>9. CASE /\ hand[h].status = "awaiting_approval"
           /\ hand[h].decision # "approved" /\ hand[h].decision # "rejected"
           /\ hand[h].decision # "changes_requested"
  <2>1. HandReturns(h) /\ UNCHANGED run BY <1>9, ZenonT(30) DEF ApplyDecision
  <2>. QED BY <1>4, <2>1
<1>. QED BY <1>5, <1>6, <1>7, <1>8, <1>9

-----------------------------------------------------------------------------
(* The delivery attempt is created, or found.                              *)
LEMMA GetDeliveryAttemptStep ==
  ASSUME RunInv, NEW h \in Hands, GetDeliveryAttempt(h)
  PROVE  RunInv'
<1>. DEFINE d == IF delivery.status = "none" THEN NewAttempt ELSE delivery
            v == d.version
            to == IF d.status = "delivered" THEN "complete" ELSE "progress"
            q == [hand[h] EXCEPT !.pc = to, !.dversion = v]
<1>1. hand \in [Hands -> HandRow] /\ hand[h] \in HandRow /\ HandOK(hand[h]) BY DEF RunInv
<1>2. hand[h].pc = "attempt" /\ hand' = [hand EXCEPT ![h] = q] BY <1>1 DEF GetDeliveryAttempt
<1>3. UNCHANGED <<run, step, mapping, job, artifacts, approval, sent>> /\ delivery' = d
  BY DEF GetDeliveryAttempt
<1>4. d \in DeliveryAttempt
  BY DEF RunInv, DeliveryAttempt, NewAttempt, DeliveryStatuses
<1>5. /\ delivery.status # "none" => d = delivery
      /\ delivery.status = "none" => d.status = "pending"
  BY DEF NewAttempt
<1>6. to \in {"complete", "progress"} /\ (to = "complete" => d.status = "delivered") OBVIOUS
<1>7. v \in Nat BY <1>4 DEF DeliveryAttempt
<1>. HIDE DEF v, to, d
<1>8. q \in HandRow BY <1>1, <1>6, <1>7 DEF HandRow, HandPcs
<1>9. q.pc = to /\ q.version = hand[h].version /\ q.status = hand[h].status BY <1>1 DEF HandRow
<1>10. PICK r \in HandRow : r = q BY <1>8
<1>. HIDE DEF q
<1>11. r.pc = to /\ r.version = hand[h].version /\ r.status = hand[h].status
       /\ hand' = [hand EXCEPT ![h] = r]
  BY <1>2, <1>9, <1>10
<1>12. Evolves BY <1>3, <1>5 DEF Evolves
<1>13. RunTypes' BY <1>3, <1>4 DEF RunInv, RunTypes
<1>14. AllDone' = AllDone /\ GateOpen' = GateOpen BY <1>3 DEF AllDone, GateOpen
<1>15. RunOK' BY <1>3, <1>5, <1>14 DEF RunInv, RunOK
<1>16. HandOK(r)'
  BY <1>1, <1>2, <1>3, <1>6, <1>11, <1>14 DEF HandOK, WalkPcs, DonePcs, SendPcs
<1>17. r.pc # "save" /\ r.pc # "provider" BY <1>6, <1>11
<1>. QED BY <1>3, <1>11, <1>12, <1>13, <1>15, <1>16, <1>17, RunStep

(* transitionDelivery, by a call that is delivering.                       *)
LEMMA TransitionDeliveryStep ==
  ASSUME RunInv, NEW h \in Hands, NEW to \in DeliveryStatuses, NEW pc \in HandPcs,
         hand[h].pc \in SendPcs, TransitionDelivery(h, to, pc),
         \/ to = "in_progress" /\ pc = "provider"
         \/ to = "delivered" /\ pc = "complete"
         \/ to = "failed" /\ pc = "fail",
         UNCHANGED <<run, step, mapping, job, artifacts, approval, sent>>
  PROVE  RunInv'
<1>1. hand \in [Hands -> HandRow] /\ hand[h] \in HandRow /\ HandOK(hand[h]) BY DEF RunInv
<1>2. CASE ~CanDeliver(h, to)
  <2>1. HandReturns(h) /\ UNCHANGED delivery BY <1>2 DEF TransitionDelivery
  <2>. QED BY <2>1, ReturnStep
<1>3. CASE CanDeliver(h, to)
  <2>. DEFINE v == delivery.version + 1
              q == [hand[h] EXCEPT !.pc = pc, !.dversion = v]
  <2>1. v \in Nat BY DEF RunInv, DeliveryAttempt
  <2>2. delivery' = [status |-> to, version |-> v] /\ hand' = [hand EXCEPT ![h] = q]
    BY <1>1, <1>3 DEF TransitionDelivery
  <2>. HIDE DEF v
  <2>3. delivery' \in DeliveryAttempt /\ delivery'.status = to BY <2>1, <2>2 DEF DeliveryAttempt
  <2>4. delivery.status \notin {to, "delivered", "failed"} BY <1>3 DEF CanDeliver
  <2>5. q \in HandRow BY <1>1, <2>1 DEF HandRow
  <2>6. q.pc = pc /\ q.version = hand[h].version /\ q.status = hand[h].status BY <1>1 DEF HandRow
  <2>7. PICK r \in HandRow : r = q BY <2>5
  <2>. HIDE DEF q
  <2>8. r.pc = pc /\ r.version = hand[h].version /\ r.status = hand[h].status
        /\ hand' = [hand EXCEPT ![h] = r]
    BY <2>2, <2>6, <2>7
  <2>9. Evolves BY <2>3, <2>4 DEF Evolves
  <2>10. RunTypes' BY <2>3 DEF RunInv, RunTypes
  <2>11. AllDone' = AllDone /\ GateOpen' = GateOpen BY DEF AllDone, GateOpen
  <2>12. RunOK' BY <2>3, <2>4, <2>11 DEF RunInv, RunOK
  <2>13. AllDone /\ GateOpen /\ run.status # "none" BY <1>1 DEF HandOK, SendPcs, DonePcs
  <2>14. hand[h].version <= run.version /\ (hand[h].version = run.version => hand[h].status = run.status)
    BY <1>1 DEF HandOK
  <2>15. pc \in {"provider", "complete", "fail"} OBVIOUS
  <2>16. HandOK(r)'
    BY <2>3, <2>8, <2>11, <2>13, <2>14, <2>15 DEF HandOK, WalkPcs
  <2>17. r.pc = "provider" => sent' = 0 /\ delivery.status \in {"none", "pending"}
    <3>1. delivery.status \in DeliveryStatuses \cup {"none"} BY DEF RunInv, DeliveryAttempt
    <3>. QED BY <2>4, <2>8, <3>1 DEF DeliveryStatuses, RunInv, RunOK
  <2>18. r.pc # "save" BY <2>8, <2>15
  <2>. QED BY <2>8, <2>9, <2>10, <2>12, <2>16, <2>17, <2>18, RunStep
<1>. QED BY <1>2, <1>3

(* Only a pending attempt is started, so one call gets to the provider.    *)
LEMMA TransitionDeliverySteps ==
  ASSUME RunInv, NEW h \in Hands, StartDelivery(h) \/ RecordDelivered(h) \/ RecordUndelivered(h)
  PROVE  RunInv'
<1>. USE DEF DeliveryStatuses, HandPcs, SendPcs
<1>1. CASE StartDelivery(h) BY <1>1, TransitionDeliveryStep DEF StartDelivery
<1>2. CASE RecordDelivered(h) BY <1>2, TransitionDeliveryStep DEF RecordDelivered
<1>3. CASE RecordUndelivered(h) BY <1>3, TransitionDeliveryStep DEF RecordUndelivered
<1>. QED BY <1>1, <1>2, <1>3

(* The provider is called.                                                 *)
LEMMA CallProviderStep ==
  ASSUME RunInv, NEW h \in Hands, NEW ok \in BOOLEAN, CallProvider(h, ok)
  PROVE  RunInv'
<1>. DEFINE to == IF ok THEN "delivered" ELSE "undelivered"
            q == [hand[h] EXCEPT !.pc = to]
<1>1. hand \in [Hands -> HandRow] /\ hand[h] \in HandRow /\ HandOK(hand[h]) BY DEF RunInv
<1>2. hand[h].pc = "provider" /\ hand' = [hand EXCEPT ![h] = q] BY <1>1 DEF CallProvider, GoOn
<1>3. UNCHANGED <<run, step, mapping, job, artifacts, approval, delivery>> BY DEF CallProvider
<1>4. sent = 0 /\ GateOpen /\ AllDone /\ delivery.status \notin {"none", "pending"} /\ run.status # "none"
  BY <1>1, <1>2 DEF RunInv, OneSends, HandOK, SendPcs, DonePcs
<1>5. sent' = 1 BY <1>4 DEF CallProvider
<1>6. to \in {"delivered", "undelivered"} OBVIOUS
<1>. HIDE DEF to
<1>7. q \in HandRow BY <1>1, <1>6 DEF HandRow, HandPcs
<1>8. q.pc = to /\ q.version = hand[h].version /\ q.status = hand[h].status BY <1>1 DEF HandRow
<1>9. PICK r \in HandRow : r = q BY <1>7
<1>. HIDE DEF q
<1>10. r.pc = to /\ r.version = hand[h].version /\ r.status = hand[h].status
       /\ hand' = [hand EXCEPT ![h] = r]
  BY <1>2, <1>8, <1>9
<1>11. HandOK(r)
  BY <1>1, <1>4, <1>6, <1>10 DEF HandOK, WalkPcs
<1>12. HandOK(r)' BY <1>3, <1>11 DEF HandOK, AllDone, GateOpen
<1>13. Evolves BY <1>3 DEF Evolves
<1>14. RunTypes' BY <1>3, <1>5 DEF RunInv, RunTypes
<1>15. AllDone' = AllDone /\ GateOpen' = GateOpen BY <1>3 DEF AllDone, GateOpen
<1>16. RunOK' BY <1>3, <1>4, <1>5, <1>15 DEF RunInv, RunOK
<1>17. r.pc # "save" /\ r.pc # "provider" BY <1>6, <1>10
<1>. QED BY <1>2, <1>3, <1>10, <1>12, <1>13, <1>14, <1>16, <1>17, RunStep

-----------------------------------------------------------------------------
(* No run, and every call idle.                                            *)
LEMMA RunStarts == AutomationInit => RunInv
<1>. SUFFICES ASSUME AutomationInit PROVE RunInv OBVIOUS
<1>1. RunTypes
  BY DEF AutomationInit, RunTypes, AutomationRun, JobStatuses, DeliveryAttempt
<1>2. IdleHand \in HandRow BY DEF IdleHand, HandRow, HandPcs
<1>3. hand \in [Hands -> HandRow] /\ \A h \in Hands : hand[h] = IdleHand BY <1>2 DEF AutomationInit
<1>4. HandOK(IdleHand) BY DEF AutomationInit, HandOK, IdleHand, WalkPcs, DonePcs, SendPcs
<1>5. RunOK BY DEF AutomationInit, RunOK, PastRunning
<1>6. OneSaves /\ OneSends BY <1>3 DEF OneSaves, OneSends, IdleHand
<1>7. \A h \in Hands : HandOK(hand[h]) BY <1>3, <1>4
<1>. QED BY <1>1, <1>3, <1>5, <1>6, <1>7 DEF RunTypes, RunInv

(* Every step keeps the invariant.                                         *)
LEMMA RunSteps == RunInv /\ [AutomationNext]_runVars => RunInv'
<1>. SUFFICES ASSUME RunInv, [AutomationNext]_runVars PROVE RunInv' OBVIOUS
<1>1. CASE UNCHANGED runVars
  <2>1. RunTypes' BY <1>1 DEF runVars, RunInv, RunTypes
  <2>2. Evolves BY <1>1 DEF runVars, Evolves
  <2>3. RunOK' BY <1>1 DEF runVars, RunInv, RunOK, AllDone, GateOpen
  <2>. QED BY <1>1, <2>1, <2>2, <2>3, RunRowsMove DEF runVars
<1>2. CASE CancelRun BY <1>2, CancelRunStep
<1>3. CASE ExpireApproval BY <1>3, ExpireApprovalStep
<1>4. CASE \E s \in StepIds : \E status \in {"completed", "failed"} : JobEnds(s, status)
  BY <1>4, JobEndsStep
<1>5. ASSUME NEW h \in Hands,
             \/ CreateRun(h) \/ ValidateInput(h) \/ AdmitRun(h) \/ AdvanceRun(h)
             \/ ReconcileRun(h) \/ ProjectStep(h) \/ Projected(h) \/ StartRun(h)
             \/ NextStep(h) \/ DispatchStep(h) \/ SaveJobMapping(h) \/ UpsertStepState(h)
             \/ FailRun(h) \/ Collect(h) \/ SaveArtifacts(h) \/ CreateApprovalRequest(h)
             \/ AwaitApproval(h) \/ DecideApproval(h) \/ ApplyDecision(h) \/ DeliverRun(h)
             \/ GetDeliveryAttempt(h) \/ StartDelivery(h) \/ RecordDelivered(h)
             \/ RecordUndelivered(h) \/ CompleteRun(h) \/ HandCrash(h)
             \/ \E decision \in ApprovalDecisions : Decide(h, decision)
             \/ \E ok \in BOOLEAN : CallProvider(h, ok)
      PROVE  RunInv'
  BY <1>5, CreateRunStep, TransitionSteps, RunCallSteps, ProjectStepStep, StartRunStep, NextStepStep,
     DispatchStepStep, SaveJobMappingStep, UpsertStepStateStep, SaveArtifactsStep,
     CreateApprovalRequestStep, DecideStep, DecideApprovalStep, ApplyDecisionStep,
     GetDeliveryAttemptStep, TransitionDeliverySteps, CallProviderStep
<1>. QED BY <1>1, <1>2, <1>3, <1>4, <1>5 DEF AutomationNext

(* The inductive invariant of a run, whatever calls of createRun,          *)
(* advanceRun, reconcileRun and decideApproval are in flight, of a version *)
(* of any number of steps.                                                 *)
THEOREM RunKept == AutomationInit /\ [][AutomationNext]_runVars => []RunInv
BY RunStarts, RunSteps, PTL

(* A run is collected only when every job has completed, what has to be    *)
(* approved is approved before it is sent, and the provider is called once *)
(* (service.ts:416-470, service.ts:606-665, store.ts:985).                 *)
LEMMA RunIsSafe == RunInv => ExecutedBeforeCollected /\ ApprovedBeforeSent /\ SentAtMostOnce
<1>. SUFFICES ASSUME RunInv PROVE ExecutedBeforeCollected /\ ApprovedBeforeSent /\ SentAtMostOnce
  OBVIOUS
<1>1. ExecutedBeforeCollected
  BY DEF RunInv, RunOK, ExecutedBeforeCollected, AllDone, PastRunning
<1>2. ApprovedBeforeSent BY DEF RunInv, RunOK, ApprovedBeforeSent, GateOpen
<1>3. SentAtMostOnce BY DEF RunInv, RunOK, SentAtMostOnce
<1>. QED BY <1>1, <1>2, <1>3

(* Every transition of the run is one that the table allows.               *)
LEMMA TransitionAllowed ==
  ASSUME RunInv, NEW h \in Hands, NEW to \in RunStatuses, NEW pc, hand[h].pc # "idle",
         to = "completed" => delivery.status = "delivered", TransitionRun(h, to, pc)
  PROVE  /\ run.status \in TerminalRunStatuses => run' = run
         /\ run'.status = "completed" => delivery.status = "delivered"
<1>1. CASE UNCHANGED run BY <1>1 DEF RunInv, RunOK
<1>2. CASE CanTransition(h, to)
  <2>1. run.status \in RunStatuses BY StatusOf DEF RunInv, HandOK
  <2>2. to \in TRANSITIONS[run.status] BY <1>2 DEF CanTransition
  <2>3. run.status \notin TerminalRunStatuses BY <2>1, <2>2, Table
  <2>. DEFINE v == run.version + 1
  <2>4. run' = [run EXCEPT !.status = to, !.version = v]
    BY <1>2 DEF TransitionRun, RunInv, AutomationRun
  <2>. HIDE DEF v
  <2>5. run'.status = to BY <2>4 DEF RunInv, AutomationRun
  <2>. QED BY <2>3, <2>5
<1>. QED BY <1>1, <1>2 DEF TransitionRun

(* No step leaves a terminal status, and one that completes the run finds  *)
(* it delivered.                                                           *)
LEMMA FinishedSteps ==
  RunInv /\ [AutomationNext]_runVars =>
    /\ run.status \in TerminalRunStatuses => run' = run
    /\ run'.status = "completed" => delivery.status = "delivered"
<1>. DEFINE Goal == /\ run.status \in TerminalRunStatuses => run' = run
                    /\ run'.status = "completed" => delivery.status = "delivered"
<1>. SUFFICES ASSUME RunInv, [AutomationNext]_runVars PROVE Goal OBVIOUS
<1>1. CASE UNCHANGED run BY <1>1 DEF RunInv, RunOK
<1>2. CASE CancelRun
  <2>1. run.status \notin TerminalRunStatuses BY <1>2 DEF CancelRun
  <2>. DEFINE v == run.version + 1
  <2>2. run' = [run EXCEPT !.status = "cancelled", !.version = v] BY <1>2 DEF CancelRun
  <2>. HIDE DEF v
  <2>3. run'.status = "cancelled" BY <2>2 DEF RunInv, AutomationRun
  <2>. QED BY <2>1, <2>3
<1>3. ASSUME NEW h \in Hands, CreateRun(h) PROVE Goal
  <2>1. run.status = "none" BY <1>3 DEF CreateRun
  <2>2. run'.status = "created" BY <1>3 DEF CreateRun, NewRun
  <2>. QED BY <2>1, <2>2 DEF TerminalRunStatuses
<1>4. ASSUME NEW h \in Hands, NEW to \in RunStatuses, NEW pc, hand[h].pc # "idle",
             to = "completed" => delivery.status = "delivered", TransitionRun(h, to, pc)
      PROVE Goal
  BY <1>4, TransitionAllowed
<1>5. \A h \in Hands : HandOK(hand[h]) BY DEF RunInv
<1>6. ASSUME NEW h \in Hands,
             ValidateInput(h) \/ AdmitRun(h) \/ StartRun(h) \/ FailRun(h) \/ Collect(h)
             \/ AwaitApproval(h) \/ ApplyDecision(h) \/ DeliverRun(h) \/ CompleteRun(h)
      PROVE Goal
  <2>1. ASSUME NEW to \in RunStatuses, NEW pc, to # "completed", hand[h].pc # "idle",
               TransitionRun(h, to, pc)
        PROVE Goal
    BY <1>4, <2>1
  <2>. HIDE DEF Goal
  <2>. USE DEF RunStatuses
  <2>2. CASE ValidateInput(h) BY <2>1, <2>2 DEF ValidateInput
  <2>3. CASE AdmitRun(h) BY <2>1, <2>3 DEF AdmitRun
  <2>4. CASE StartRun(h)
    <3>1. CASE TransitionRun(h, "running", "step") BY <2>1, <2>4, <3>1 DEF StartRun
    <3>2. CASE UNCHANGED run BY <1>1, <3>2
    <3>3. TransitionRun(h, "running", "step") \/ UNCHANGED run
      <4>1. CASE hand[h].status = "admitted" BY <2>4, <4>1 DEF StartRun
      <4>2. CASE hand[h].status \in {"running", "collecting"} BY <2>4, <4>2 DEF StartRun
      <4>3. CASE hand[h].status \notin {"admitted", "running", "collecting"}
        BY <2>4, <4>3 DEF StartRun
      <4>. QED BY <4>1, <4>2, <4>3
    <3>. QED BY <3>1, <3>2, <3>3
  <2>5. CASE FailRun(h) BY <2>1, <2>5 DEF FailRun
  <2>6. CASE Collect(h) BY <2>1, <2>6 DEF Collect
  <2>7. CASE AwaitApproval(h) BY <2>1, <2>7 DEF AwaitApproval
  <2>8. CASE ApplyDecision(h)
    <3>1. CASE TransitionRun(h, "rejected", "idle") BY <2>1, <2>8, <3>1 DEF ApplyDecision
    <3>2. CASE TransitionRun(h, "suspended", "idle") BY <2>1, <2>8, <3>2 DEF ApplyDecision
    <3>3. CASE UNCHANGED run BY <1>1, <3>3
    <3>4. TransitionRun(h, "rejected", "idle") \/ TransitionRun(h, "suspended", "idle") \/ UNCHANGED run
      BY <2>8, ZenonT(30) DEF ApplyDecision
    <3>. QED BY <3>1, <3>2, <3>3, <3>4
  <2>9. CASE DeliverRun(h) BY <2>1, <2>9 DEF DeliverRun
  <2>10. CASE CompleteRun(h)
    <3>1. delivery.status = "delivered" BY <1>5, <2>10 DEF CompleteRun, HandOK
    <3>. QED BY <1>4, <2>10, <3>1 DEF CompleteRun
  <2>. QED BY <1>6, <2>2, <2>3, <2>4, <2>5, <2>6, <2>7, <2>8, <2>9, <2>10
<1>. HIDE DEF Goal
<1>. QED
  BY <1>1, <1>2, <1>3, <1>6
  DEF AutomationNext, runVars, ExpireApproval, JobEnds, AdvanceRun, ReconcileRun, ProjectStep,
      Projected, NextStep, DispatchStep, SaveJobMapping, UpsertStepState, SaveArtifacts,
      CreateApprovalRequest, DecideApproval, GetDeliveryAttempt, StartDelivery, RecordDelivered,
      RecordUndelivered, HandCrash, Decide, CallProvider

(* A run completes only when its delivery did, and no call in flight, nor  *)
(* a cancellation or a timeout, takes it out of a terminal status          *)
(* (cancellation.ts:8, store.ts:710).                                      *)
THEOREM FinishedRuns == AutomationInit /\ [][AutomationNext]_runVars => FinishedRunIsFinal
<1>1. RunInv /\ [AutomationNext]_runVars =>
        [/\ run.status \in TerminalRunStatuses => run' = run
         /\ run'.status = "completed" => delivery.status = "delivered"
        ]_runVars
  BY FinishedSteps
<1>. QED BY <1>1, RunKept, PTL DEF FinishedRunIsFinal
=============================================================================
