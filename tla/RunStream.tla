----------------------------- MODULE RunStream ------------------------------
(***************************************************************************)
(* The event log of an automation run and a client that follows it over    *)
(* SSE: appendAutomationEvent, the projection of a step's job events, the  *)
(* store's appendEvent and GET /automation/runs/:id/stream                 *)
(* (vaulltcore-automation, vaulltcore-control).                            *)
(*                                                                         *)
(* A writer takes the next seq and appends in two calls, and changes the   *)
(* run's status before it appends the event that says so; several services *)
(* write one run.  The follower polls status and log in two calls.         *)
(***************************************************************************)
EXTENDS Integers, Sequences, FiniteSets, SequencesExt

CONSTANTS
  RunWriters,     \* services that drive, cancel or reconcile the run
  StepLog,        \* the committed events of the step's job, as their types
  AfterSeqs,      \* ?after= of the follower
  MaxRunSeq,      \* bound on the seqs of the run's log
  MaxRunWrites    \* bound on the writes started

ASSUME RunStreamAssumption == AfterSeqs \subseteq Nat /\ MaxRunSeq \in Nat /\ MaxRunWrites \in Nat

VARIABLES
  runStatus,     \* automation_runs.status
  runLog,        \* automation_events: seq -> type
  runWriter,     \* the writes in flight
  runWrites,     \* writes left
  tail           \* the SSE response

runStreamVars == <<runStatus, runLog, runWriter, runWrites, tail>>

(* "running" stands for every status from admitted to delivering, and     *)
(* "failed" for rejected as well.                                          *)
RunTransitions ==
  [running |-> {"suspended", "completed", "failed", "cancelled"},
   suspended |-> {"running", "failed", "cancelled"},
   completed |-> {}, failed |-> {}, cancelled |-> {}]

RunOver(status) == RunTransitions[status] = {}

(* The statuses after which the stream ends; a suspended run may resume.   *)
StreamTerminal == {"completed", "failed", "cancelled", "suspended"}

IdleRunWriter == [pc |-> "idle", plan |-> <<>>, seq |-> 0]
NoTail == [pc |-> "closed", after |-> 0, cursor |-> 0, seen |-> <<>>, status |-> "running", due |-> {}]

RunStreamTypeOK ==
  /\ runStatus \in DOMAIN RunTransitions
  /\ DOMAIN runLog \subseteq 1..MaxRunSeq
  /\ \A w \in RunWriters : runWriter[w].pc \in {"idle", "seq", "append"}
  /\ runWrites \in 0..MaxRunWrites
  /\ tail.pc \in {"closed", "replay", "poll", "list", "done"}
  /\ tail.due \subseteq DOMAIN runLog

RunStreamInit ==
  /\ runStatus = "running"
  /\ runLog = <<>>
  /\ runWriter = [w \in RunWriters |-> IdleRunWriter]
  /\ runWrites = MaxRunWrites
  /\ tail = NoTail

-----------------------------------------------------------------------------
(* Writers.                                                                *)
StartWrite(w, plan) ==
  /\ runWriter[w].pc = "idle"
  /\ runWrites > 0
  /\ runWrites' = runWrites - 1
  /\ runWriter' = [runWriter EXCEPT ![w] = [IdleRunWriter EXCEPT !.pc = "seq", !.plan = plan]]

(* transitionRun, with the event still to be appended.                     *)
MoveRun(w, to) ==
  /\ to \in RunTransitions[runStatus]
  /\ runStatus' = to
  /\ StartWrite(w, <<<<"run", to>>>>)
  /\ UNCHANGED <<runLog, tail>>

(* ORDER BY seq ASC: the i-th of a set of seqs has i of them up to it.     *)
Ascending(seqs) ==
  [i \in 1..Cardinality(seqs) |-> CHOOSE n \in seqs : Cardinality({m \in seqs : m <= n}) = i]

(* The first start of the job, what the assistant says, and completion.    *)
ProjectStepEvents(events) ==
  LET starts == {n \in 1..Len(events) : events[n] = "started"}
      shown == {n \in 1..Len(events) :
                  events[n] \in {"message", "completed"} \/ (n \in starts /\ n = Min(starts))}
      picked == Ascending(shown)
  IN [k \in 1..Len(picked) |-> <<"step", events[picked[k]]>>]

(* advanceRun and reconcileRun project the job's events from its first     *)
(* one, each time under new seqs.                                          *)
ProjectStep(w) ==
  /\ StartWrite(w, ProjectStepEvents(StepLog))
  /\ UNCHANGED <<runStatus, runLog, tail>>

(* Mutant: the first event of a log gets seq 0.                            *)
NextSeqFromZero == IF DOMAIN runLog = {} THEN 0 ELSE 1 + Max(DOMAIN runLog)

NextSeq == 1 + Max({0} \cup DOMAIN runLog)

TakeSeq(w) ==
  /\ runWriter[w].pc = "seq"
  /\ runWriter' = [runWriter EXCEPT ![w].pc = "append", ![w].seq = NextSeq]
  /\ UNCHANGED <<runStatus, runLog, runWrites, tail>>

(* A seq that is taken is ignored, whoever's event is under it.            *)
WithEvent(seq, type) ==
  [n \in DOMAIN runLog \cup {seq} |-> IF n \in DOMAIN runLog THEN runLog[n] ELSE type]

(* The next event of a plan goes under the next seq, unasked.              *)
WritesOn(writer) ==
  IF Len(writer.plan) = 1 THEN IdleRunWriter
  ELSE [writer EXCEPT !.plan = Tail(@), !.seq = @ + 1]

AppendRunEvent(w) ==
  /\ runWriter[w].pc = "append"
  /\ runWriter[w].seq <= MaxRunSeq
  /\ runLog' = WithEvent(runWriter[w].seq, Head(runWriter[w].plan))
  /\ runWriter' = [runWriter EXCEPT ![w] = WritesOn(runWriter[w])]
  /\ UNCHANGED <<runStatus, runWrites, tail>>

RunWriterDies(w) ==
  /\ runWriter[w].pc # "idle"
  /\ runWriter' = [runWriter EXCEPT ![w] = IdleRunWriter]
  /\ UNCHANGED <<runStatus, runLog, runWrites, tail>>

-----------------------------------------------------------------------------
(* The follower.                                                           *)
OpenRunStream(after) ==
  /\ tail = NoTail
  /\ tail' = [NoTail EXCEPT !.pc = "replay", !.after = after, !.cursor = after]
  /\ UNCHANGED <<runStatus, runLog, runWriter, runWrites>>

NewEvents(cursor) == {n \in DOMAIN runLog : n > cursor}

(* Every listed event is written out and the cursor follows.               *)
Written(t) ==
  LET new == Ascending(NewEvents(t.cursor)) IN
    [t EXCEPT !.seen = @ \o [k \in 1..Len(new) |-> <<new[k], runLog[new[k]]>>],
              !.cursor = Max({@} \cup ToSet(new))]

(* Without follow the response ends with what was there.                   *)
ReplayRun(follow) ==
  /\ tail.pc = "replay"
  /\ tail' = [Written(tail) EXCEPT !.pc = IF follow THEN "poll" ELSE "done"]
  /\ UNCHANGED <<runStatus, runLog, runWriter, runWrites>>

(* The status is read first, the log after it.                             *)
PollRun ==
  /\ tail.pc = "poll"
  /\ tail' = [tail EXCEPT !.pc = "list", !.status = runStatus, !.due = DOMAIN runLog]
  /\ UNCHANGED <<runStatus, runLog, runWriter, runWrites>>

EndsStream(t) == t.status \in StreamTerminal

ListRun ==
  /\ tail.pc = "list"
  /\ tail' = [Written(tail) EXCEPT !.pc = IF EndsStream(tail) THEN "done" ELSE "poll"]
  /\ UNCHANGED <<runStatus, runLog, runWriter, runWrites>>

CloseRunStream ==
  /\ tail.pc \in {"replay", "poll", "list"}
  /\ tail' = [tail EXCEPT !.pc = "closed"]
  /\ UNCHANGED <<runStatus, runLog, runWriter, runWrites>>

TailSteps == (\E follow \in BOOLEAN : ReplayRun(follow)) \/ PollRun \/ ListRun

RunStreamNext ==
  \/ \E w \in RunWriters :
       \/ \E to \in DOMAIN RunTransitions : MoveRun(w, to)
       \/ ProjectStep(w) \/ TakeSeq(w) \/ AppendRunEvent(w) \/ RunWriterDies(w)
  \/ \E after \in AfterSeqs : OpenRunStream(after)
  \/ TailSteps \/ CloseRunStream

-----------------------------------------------------------------------------
(* Whatever seqs racing and dying writers take, the follower has seen      *)
(* exactly the log between its starting point and its cursor, in order,    *)
(* each event once and as it is in the log: no event ever appears behind   *)
(* the cursor (phase2b-routes.ts, "no gaps"; store.ts:1006).               *)
RunStreamNoGaps ==
  LET seqs == {n \in DOMAIN runLog : n > tail.after /\ n <= tail.cursor} IN
    /\ tail.cursor - tail.after = Len(tail.seen)
    /\ \A n \in 1..Len(tail.seen) :
         /\ tail.after + n \in seqs
         /\ tail.seen[n] = <<tail.after + n, runLog[tail.after + n]>>

(* A follower that is told the run is over has every event that was in the *)
(* log when that status was read, although writers go on appending         *)
(* (phase2b-routes.ts, the order of getRun and listRunEvents).             *)
DoneCoversLog ==
  tail.pc = "done" =>
    \A n \in tail.due : n > tail.after => n - tail.after \in 1..Len(tail.seen)

(* The response to a follower of a run that is over ends, whoever died     *)
(* before writing the run's last event (the loop polls the status, not the *)
(* log).                                                                   *)
RunStreamEnds ==
  (tail.pc # "closed" /\ RunOver(runStatus)) ~> (tail.pc \in {"done", "closed"})
=============================================================================
