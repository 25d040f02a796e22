----------------------------- MODULE Scheduler ------------------------------
(***************************************************************************)
(* Schedules, cron and the scheduler's tick: packages/vaulltcore-scheduler. *)
(*                                                                         *)
(* Time is counted in ticks, Sub of them to the minute, because nextRun    *)
(* steps by whole minutes from a start that need not fall on a minute.     *)
(* A tick of a scheduler process awaits the admitter only; what it does    *)
(* between two awaits reads and writes the store in separate transactions, *)
(* so each of them is a step.  An occurrence's id is its schedule and its  *)
(* time, so the table is a function of the pair.                           *)
(***************************************************************************)
EXTENDS Integers, FiniteSets, SequencesExt

CONSTANTS
  Schedules,
  SchedulerProcs,
  ScheduleVersions,  \* schedule -> the versions its owner publishes, in order
  Sub,               \* ticks per minute
  LookBack,          \* ticks computeDue looks back without a watermark
  MaxPerTick,
  MaxDue,            \* occurrences computeDue collects at most, 1000
  RunScan,           \* minutes nextRun looks ahead, 366 days of them
  StartTime, MaxTime,
  MaxChanges,        \* bound: state changes by owners
  MaxSchedFaults     \* bound: crashes and failing admissions

(* Every schedule has a version; the first clock reading is a day or more  *)
(* after the epoch.                                                        *)
ASSUME SchedulerAssumption ==
  /\ IsFiniteSet(Schedules)
  /\ \A s \in Schedules :
       /\ Len(ScheduleVersions[s]) \in Nat \ {0}
       /\ \A i \in 1..Len(ScheduleVersions[s]) : ScheduleVersions[s][i].scheduledAt \in Int
  /\ MaxDue \in Nat \ {0} /\ RunScan \in Nat \ {0}
  /\ MaxTime \in Nat /\ StartTime \in 0..MaxTime
  /\ LookBack \in Nat /\ LookBack <= StartTime + 1

VARIABLES
  clock,
  sched,       \* schedules
  occ,         \* schedule_occurrences: (schedule, time) -> version, run
  proc,        \* each Scheduler's tick
  bounds

schedulerVars == <<clock, sched, occ, proc, bounds>>

Never == -1
Times == 0..MaxTime
ScheduleStates == {"active", "paused", "cancelled"}

-----------------------------------------------------------------------------
(* Cron: a field is a list of parts, each a star, a number or a range with *)
(* a step; "L" stands for the last day of the month.                       *)
FieldRanges == [minute |-> <<0, 59>>, hour |-> <<0, 23>>, dom |-> <<1, 31>>,
                month |-> <<1, 12>>, dow |-> <<0, 6>>]
Star(step) == [base |-> "*", lo |-> 0, hi |-> 0, step |-> step]
LastDay == Never

(* A lone number that has a step ("from") runs to the end of the range.    *)
PartBounds(part, range) ==
  CASE part.base = "*" -> range
    [] part.base = "range" -> <<part.lo, part.hi>>
    [] part.base = "from" -> <<part.lo, range[2]>>
    [] part.base = "number" -> <<part.lo, part.lo>>

PartValid(part, range) ==
  \/ part.base = "L" /\ range = FieldRanges.dom
  \/ /\ part.base # "L" /\ part.step >= 1
     /\ LET b == PartBounds(part, range)
        IN b[1] >= range[1] /\ b[2] <= range[2] /\ b[1] <= b[2]

PartValues(part, range) ==
  IF part.base = "L" THEN {LastDay}
  ELSE LET b == PartBounds(part, range)
       IN {v \in b[1]..b[2] : (v - b[1]) % part.step = 0}

ParseField(parts, range) == UNION {PartValues(p, range) : p \in ToSet(parts)}

ParseCron(cron) ==
  [f \in DOMAIN FieldRanges |-> ParseField(cron[f], FieldRanges[f])]

ValidCron(cron) ==
  \A f \in DOMAIN FieldRanges :
    cron[f] # <<>> /\ \A p \in ToSet(cron[f]) : PartValid(p, FieldRanges[f])

IsFullRange(values, range) == values = range[1]..range[2]

(* The wall clock of an instant, in a zone without daylight saving and     *)
(* with months of 31 days.                                                 *)
TzParts(t) ==
  LET minutes == t \div Sub
      day == minutes \div 1440
  IN [minute |-> minutes % 60, hour |-> (minutes \div 60) % 24,
      dom |-> 1 + (day % 31), month |-> 1 + ((day \div 31) % 12), dow |-> day % 7,
      daysInMonth |-> 31]

(* Both day fields restricted: either matches.                             *)
DayMatches(p, at) ==
  LET dom == at.dom \in p.dom \/ (LastDay \in p.dom /\ at.dom = at.daysInMonth)
      dow == at.dow \in p.dow
  IN IF ~IsFullRange(p.dom, FieldRanges.dom) /\ ~IsFullRange(p.dow, FieldRanges.dow)
     THEN dom \/ dow ELSE dom /\ dow

CronMatches(p, at) ==
  /\ at.month \in p.month /\ DayMatches(p, at)
  /\ at.hour \in p.hour /\ at.minute \in p.minute

(* The parsed expressions are cached, by their text in the code.           *)
ParsedCache == [s \in Schedules |-> [i \in DOMAIN ScheduleVersions[s] |->
                  ParseCron(ScheduleVersions[s][i].cron)]]

(* Nothing parses a version before a tick comes to it.                     *)
Parses == [s \in Schedules |-> [i \in DOMAIN ScheduleVersions[s] |->
             \/ ScheduleVersions[s][i].kind = "one_time"
             \/ ValidCron(ScheduleVersions[s][i].cron)]]

(* The instants each recurring version matches, as far as nextRun looks.   *)
MatchingTimes == [s \in Schedules |-> [i \in DOMAIN ScheduleVersions[s] |->
               {t \in 0..(MaxTime + RunScan * Sub) :
                  /\ ScheduleVersions[s][i].kind # "one_time"
                  /\ CronMatches(ParsedCache[s][i], TzParts(t))}]]

(* nextRun starts a minute after the cursor and moves by whole minutes.    *)
CronTimes(matching, after, now) ==
  {t \in (after + 1)..now : t \in matching /\ (t - after) % Sub = 0}

(* It throws when nothing matches within its scan.                         *)
NoNextRun(matching, cursor) == \A n \in 1..RunScan : cursor + n * Sub \notin matching

(* Those of S that fewer than n others precede.                            *)
OldestOf(S, n) == {t \in S : Cardinality({u \in S : u < t}) < n}

(* nextRun, iterated while it stays at or before now and MaxDue times at   *)
(* most: of a longer outage only the oldest occurrences are seen.          *)
CronDue(matching, after, now) == OldestOf(CronTimes(matching, after, now), MaxDue)

(* It is called once more after every time it found, unless at the cap.    *)
CronThrows(matching, after, now) ==
  \E c \in {after} \cup OldestOf(CronTimes(matching, after, now), MaxDue - 1) : NoNextRun(matching, c)

OneTime(s, i) == ScheduleVersions[s][i].kind = "one_time"
After(watermark, now) == IF watermark = Never THEN now - LookBack ELSE watermark

OneTimeDue(s, i, watermark, now) ==
  {t \in {ScheduleVersions[s][i].scheduledAt} :
     t <= now /\ t > IF watermark = Never THEN 0 ELSE watermark}

ComputeDue(s, i, watermark, now) ==
  IF OneTime(s, i) THEN OneTimeDue(s, i, watermark, now)
  ELSE CronDue(MatchingTimes[s][i], After(watermark, now), now)

(* An expression that does not parse, or that has no next run.             *)
ComputeThrows(s, i, watermark, now) ==
  \/ ~Parses[s][i]
  \/ ~OneTime(s, i) /\ CronThrows(MatchingTimes[s][i], After(watermark, now), now)

-----------------------------------------------------------------------------
ScheduleRow == [state : ScheduleStates, version : Nat, watermark : Times \cup {Never}]
Occurrence == [version : Nat, run : BOOLEAN]
NoOccurrence == [version |-> 0, run |-> FALSE]
IdleTick == [pc |-> "idle", now |-> 0, todo |-> <<>>, times |-> {}]

(* The occurrence a tick is at: of the schedule at hand, the earliest time *)
(* not yet dealt with.                                                     *)
InHand(q) == <<q.todo[1].id, Min(q.times)>>

SchedulerTypeOK ==
  /\ clock \in Times
  /\ sched \in [Schedules -> ScheduleRow]
  /\ occ \in [Schedules \X Times -> Occurrence]
  /\ \A p \in SchedulerProcs :
       /\ proc[p].pc \in {"idle", "plan", "record", "admit"}
       /\ proc[p].now \in 0..clock
       /\ proc[p].pc = "admit" => occ[InHand(proc[p])] # NoOccurrence

SchedulerInit ==
  /\ clock = StartTime
  /\ sched = [s \in Schedules |->
       [state |-> "active", version |-> 1, watermark |-> Never]]
  /\ occ = [o \in Schedules \X Times |-> NoOccurrence]
  /\ proc = [p \in SchedulerProcs |-> IdleTick]
  /\ bounds = [changes |-> MaxChanges, faults |-> MaxSchedFaults]

CurrentVersion(s) == ScheduleVersions[s][sched[s].version]

PublishScheduleVersion(s) ==
  /\ sched[s].version < Len(ScheduleVersions[s])
  /\ sched' = [sched EXCEPT ![s].version = @ + 1]
  /\ UNCHANGED <<clock, occ, proc, bounds>>

(* setState does not look at the state it replaces.                        *)
SetScheduleState(s, state) ==
  /\ bounds.changes > 0 /\ sched[s].state # state
  /\ sched' = [sched EXCEPT ![s].state = state]
  /\ bounds' = [bounds EXCEPT !.changes = @ - 1]
  /\ UNCHANGED <<clock, occ, proc>>

(* listActive of every tenant: the rows as they are now.                   *)
ListActive ==
  SetToSeq({[id |-> s, version |-> sched[s].version, watermark |-> sched[s].watermark] :
            s \in {s \in Schedules : sched[s].state = "active"}})

TickStart(p) ==
  /\ proc[p].pc = "idle"
  /\ ListActive # <<>>
  /\ proc' = [proc EXCEPT ![p] =
       [pc |-> "plan", now |-> clock, todo |-> ListActive, times |-> {}]]
  /\ UNCHANGED <<clock, sched, occ, bounds>>

NextSchedule(q) ==
  IF Len(q.todo) = 1 THEN IdleTick
  ELSE [q EXCEPT !.pc = "plan", !.todo = Tail(@), !.times = {}]

(* Mutant: the oldest of the missed occurrences is taken.                  *)
ToAdmitOldest(v, due) == {Min(due)}

(* The missed-run policy: the latest only, or the oldest few.              *)
ToAdmit(v, due) ==
  IF v.policy = "skip" THEN {Max(due)}
  ELSE OldestOf(due, Min({v.maxCatchUp, MaxPerTick}))

(* The version is the current one, the watermark the one of the listing.   *)
(* A computation that throws ends the whole tick.                          *)
Plan(p) ==
  LET q == proc[p]
      s == q.todo[1].id
      v == CurrentVersion(s)
      due == ComputeDue(s, sched[s].version, q.todo[1].watermark, q.now)
  IN /\ q.pc = "plan"
     /\ proc' = [proc EXCEPT ![p] =
          IF ComputeThrows(s, sched[s].version, q.todo[1].watermark, q.now) THEN IdleTick
          ELSE IF due = {} \/ ToAdmit(v, due) = {} THEN NextSchedule(q)
          ELSE [q EXCEPT !.pc = "record", !.times = ToAdmit(v, due)]]
     /\ UNCHANGED <<clock, sched, occ, bounds>>

NextTime(q) ==
  LET rest == q.times \ {Min(q.times)}
  IN IF rest = {} THEN NextSchedule(q)
     ELSE [q EXCEPT !.pc = "record", !.times = rest]

(* Mutant: the loser of the insert goes on to admit.                       *)
MayAdmitTwice(o) == occ[o] = NoOccurrence \/ ~occ[o].run

(* recordOccurrence inserts; the loser of the UNIQUE constraint is told.   *)
MayAdmit(o) == occ[o] = NoOccurrence

RecordOccurrence(p) ==
  LET q == proc[p] IN
  /\ q.pc = "record"
  /\ IF MayAdmit(InHand(q))
     THEN /\ occ' = [occ EXCEPT ![InHand(q)] = [version |-> q.todo[1].version, run |-> FALSE]]
          /\ proc' = [proc EXCEPT ![p].pc = "admit"]
     ELSE /\ proc' = [proc EXCEPT ![p] = NextTime(q)]
          /\ UNCHANGED occ
  /\ UNCHANGED <<clock, sched, bounds>>

(* The admitter answers: setAdmittedRun, then advanceWatermark, which is   *)
(* fenced by the version of the listing and by nothing else.               *)
AdmitOccurrence(p) ==
  LET q == proc[p]
      s == q.todo[1].id
  IN /\ q.pc = "admit"
     /\ occ' = [occ EXCEPT ![InHand(q)].run = TRUE]
     /\ sched' = [sched EXCEPT ![s].watermark =
          IF sched[s].version = q.todo[1].version THEN Min(q.times) ELSE @]
     /\ proc' = [proc EXCEPT ![p] = NextTime(q)]
     /\ UNCHANGED <<clock, bounds>>

(* The admitter throws, or the process dies: the whole tick is abandoned.  *)
TickAborts(p) ==
  /\ proc[p].pc # "idle" /\ bounds.faults > 0
  /\ proc' = [proc EXCEPT ![p] = IdleTick]
  /\ bounds' = [bounds EXCEPT !.faults = @ - 1]
  /\ UNCHANGED <<clock, sched, occ>>

TimePasses ==
  /\ clock < MaxTime
  /\ clock' = clock + 1
  /\ UNCHANGED <<sched, occ, proc, bounds>>

TickStep(p) == TickStart(p) \/ Plan(p) \/ RecordOccurrence(p) \/ AdmitOccurrence(p)

SchedulerNext ==
  \/ TimePasses
  \/ \E s \in Schedules :
       PublishScheduleVersion(s) \/ \E state \in ScheduleStates : SetScheduleState(s, state)
  \/ \E p \in SchedulerProcs : TickStep(p) \/ TickAborts(p)

(* Every scheduler process keeps ticking, and the admitter answers.        *)
SchedulerFairness ==
  /\ WF_schedulerVars(TimePasses)
  /\ \A p \in SchedulerProcs : WF_schedulerVars(TickStep(p))

SchedulerSpec == SchedulerInit /\ [][SchedulerNext]_schedulerVars /\ SchedulerFairness

-----------------------------------------------------------------------------
(* Two scheduler processes, or one that restarts inside a tick, never      *)
(* admit the same occurrence twice: an occurrence is in the hands of one   *)
(* tick at a time, and of none once it has its run (store.ts:307,          *)
(* scheduler.ts:70).                                                       *)
OneAdmissionPerOccurrence ==
  \A p, q \in SchedulerProcs : proc[p].pc = "admit" =>
    /\ ~occ[InHand(proc[p])].run
    /\ p # q /\ proc[q].pc = "admit" => InHand(proc[p]) # InHand(proc[q])

(* Every occurrence since the watermark, the ones past the cap too.        *)
AllDue(s) ==
  LET i == sched[s].version  w == sched[s].watermark
  IN IF OneTime(s, i) THEN OneTimeDue(s, i, w, clock)
     ELSE CronTimes(MatchingTimes[s][i], After(w, clock), clock)

(* A missed occurrence has neither been recorded nor given way to a later. *)
Missed(s) ==
  /\ sched[s].state = "active"
  /\ CurrentVersion(s).policy = "skip"
  /\ \E t \in AllDue(s) : \A u \in t..MaxTime : occ[s, u] = NoOccurrence

(* More was missed than a computation collects, and the latest it collects *)
(* is on record although the watermark is not past it.                     *)
Wedged(s) ==
  LET due == ComputeDue(s, sched[s].version, sched[s].watermark, clock)
  IN AllDue(s) # due /\ occ[s, Max(due)] # NoOccurrence

(* An active schedule whose computation throws ends everyone's tick.       *)
TicksEnd ==
  \E s \in Schedules : /\ sched[s].state = "active"
                       /\ ComputeThrows(s, sched[s].version, sched[s].watermark, clock)

(* A schedule under the "skip" policy gets to its latest missed            *)
(* occurrence, whatever crashed, was skipped or left the watermark behind, *)
(* unless its owner stopped it (scheduler.ts:60), with the two exceptions  *)
(* the code has: an outage longer than the cap in which an admission       *)
(* failed or a new version came between keeps it at the occurrence it      *)
(* computes last (scheduler.ts:118), and an expression that throws stops   *)
(* the ticks (cron.ts:160).                                                *)
LatestMissedIsRecorded ==
  \A s \in Schedules : []<>(~Missed(s) \/ Wedged(s) \/ TicksEnd)
=============================================================================
