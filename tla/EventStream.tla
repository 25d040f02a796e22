---------------------------- MODULE EventStream ----------------------------
(***************************************************************************)
(* Following a job's events: DurableAgentRunner.streamEvents with append,  *)
(* subscribe and unsubscribe (packages/vaulltcore-runner runner.ts), as    *)
(* the events route of the control plane consumes it.                      *)
(*                                                                         *)
(* One job, one follower.  The log is shared by every process; only the    *)
(* process the follower lives in publishes to it, after its append has     *)
(* committed.  An event is its sequence number; origin says which process  *)
(* appended it.                                                            *)
(***************************************************************************)
EXTENDS Integers, Sequences, SequencesExt

CONSTANTS
  MaxStreamEvents        \* bound: length of the log

ASSUME StreamAssumption == MaxStreamEvents \in Nat

VARIABLES
  stream,         \* the job's events: their origin and whether they are final
  unpublished, \* home appends committed and not yet handed to subscribers
  jobEnded,    \* the job's record is terminal
  follower     \* the generator's state, and what it has yielded

streamVars == <<stream, unpublished, jobEnded, follower>>

JobEvent == [home : BOOLEAN, final : BOOLEAN]
FollowerSteps == {"replay", "yield", "subscribe", "gap", "fill", "drain", "wait", "done"}
Follower == [pc : FollowerSteps, batch : Seq(Nat), queue : Seq(Nat), last : Nat,
             got : Seq(Nat), aborted : BOOLEAN]

StreamTypeOK ==
  /\ stream \in Seq(JobEvent) /\ Len(stream) <= MaxStreamEvents
  /\ unpublished \in Seq(1..Len(stream))
  /\ jobEnded \in BOOLEAN
  /\ follower \in Follower
  /\ follower.last <= Len(stream)

StreamInit ==
  /\ stream = <<>> /\ unpublished = <<>> /\ jobEnded = FALSE
  /\ follower = [pc |-> "replay", batch |-> <<>>, queue |-> <<>>, last |-> 0,
                 got |-> <<>>, aborted |-> FALSE]

-----------------------------------------------------------------------------
(* appendEvents by the follower's process, or by another.                  *)
AppendEvent(home, final) ==
  /\ Len(stream) < MaxStreamEvents
  /\ stream' = Append(stream, [home |-> home, final |-> final])
  /\ unpublished' = IF home THEN Append(unpublished, Len(stream) + 1) ELSE unpublished
  /\ UNCHANGED <<jobEnded, follower>>

Subscribed == follower.pc \in {"gap", "fill", "drain", "wait"}

(* append() goes on to call the subscribers it finds.                      *)
PublishEvent ==
  /\ unpublished # <<>>
  /\ unpublished' = Tail(unpublished)
  /\ follower' = IF Subscribed
                 THEN [follower EXCEPT !.queue = Append(@, Head(unpublished)),
                                       !.pc = IF @ = "wait" THEN "drain" ELSE @]
                 ELSE follower
  /\ UNCHANGED <<stream, jobEnded>>

EndOfJob ==
  /\ ~jobEnded /\ jobEnded' = TRUE
  /\ UNCHANGED <<stream, unpublished, follower>>

-----------------------------------------------------------------------------
EventsAfter(n) == [i \in 1..(Len(stream) - n) |-> n + i]

Yielded(f, n) == [f EXCEPT !.got = Append(@, n), !.last = n]

FollowerStep(f) == follower' = f /\ UNCHANGED <<stream, unpublished, jobEnded>>

(* The first listEvents.                                                   *)
ReplayLog ==
  /\ follower.pc = "replay"
  /\ FollowerStep([follower EXCEPT !.pc = "yield", !.batch = EventsAfter(follower.last)])

YieldReplay ==
  /\ follower.pc = "yield" /\ follower.batch # <<>>
  /\ FollowerStep([Yielded(follower, Head(follower.batch)) EXCEPT !.batch = Tail(@)])

Subscribe ==
  /\ follower.pc = "yield" /\ follower.batch = <<>>
  /\ FollowerStep([follower EXCEPT !.pc = "gap"])

(* Mutant: no second read.                                                 *)
GapNone == <<>>

(* The second listEvents, after the subscription.                          *)
Gap == EventsAfter(follower.last)

FillGap ==
  /\ follower.pc = "gap"
  /\ FollowerStep([follower EXCEPT !.pc = "fill", !.batch = Gap])

YieldGap ==
  /\ follower.pc = "fill" /\ follower.batch # <<>>
  /\ FollowerStep([Yielded(follower, Head(follower.batch)) EXCEPT !.batch = Tail(@)])

GapFilled ==
  /\ follower.pc = "fill" /\ follower.batch = <<>>
  /\ FollowerStep([follower EXCEPT !.pc = "drain"])

Fresh(n) == n > follower.last

TakeQueued ==
  LET n == Head(follower.queue)
      f == [follower EXCEPT !.queue = Tail(@),
                            !.pc = IF stream[n].final THEN "done" ELSE @] IN
  /\ follower.pc = "drain" /\ follower.queue # <<>>
  /\ FollowerStep(IF Fresh(n) THEN Yielded(f, n) ELSE f)

(* Mutant: only a final event ends the stream.                             *)
OverOnlyByAbort == follower.aborted

Over == follower.aborted \/ jobEnded

(* The queue is empty: the signal and the job's record are looked at.      *)
PollRecord ==
  /\ follower.pc = "drain" /\ follower.queue = <<>>
  /\ FollowerStep([follower EXCEPT !.pc = IF Over THEN "done" ELSE "wait"])

(* The 100 ms timer.                                                       *)
WaitOver ==
  /\ follower.pc = "wait"
  /\ FollowerStep([follower EXCEPT !.pc = "drain"])

(* The client closes its connection.                                       *)
ClientCloses ==
  /\ ~follower.aborted /\ follower.pc # "done"
  /\ FollowerStep([follower EXCEPT !.aborted = TRUE,
                                   !.pc = IF @ = "wait" THEN "drain" ELSE @])

StreamSteps == \/ ReplayLog \/ YieldReplay \/ Subscribe \/ FillGap \/ YieldGap
               \/ GapFilled \/ TakeQueued \/ PollRecord \/ WaitOver

StreamNext ==
  \/ \E home, final \in BOOLEAN : AppendEvent(home, final)
  \/ PublishEvent \/ EndOfJob \/ StreamSteps \/ ClientCloses

(* The event loop runs every continuation and timer of a live process.     *)
StreamFairness ==
  WF_streamVars(StreamSteps) /\ WF_streamVars(PublishEvent)

StreamSpec == StreamInit /\ [][StreamNext]_streamVars /\ StreamFairness

-----------------------------------------------------------------------------
(* The follower sees events once and in order although replay, gap fill    *)
(* and subscription overlap (the comparison with last in streamEvents).    *)
InOrderOnce ==
  \A i, j \in DOMAIN follower.got : i < j => follower.got[i] < follower.got[j]

(* An event the follower has passed over was appended by another process:  *)
(* what its own process appends, before, while or after it subscribes, it  *)
(* is given (subscribe before the second listEvents).                      *)
OnlyForeignSkipped ==
  \A n \in 1..follower.last : stream[n].home => n \in ToSet(follower.got)

(* A follower of a job that has ended is let go, whether or not it saw the *)
(* final event (the poll of the job's record).                             *)
FollowerReleased == jobEnded ~> follower.pc = "done"

=============================================================================
