------------------------------- MODULE Runner -------------------------------
(***************************************************************************)
(* DurableAgentRunner (packages/vaulltcore-runner/src/runner.ts) and its   *)
(* ExecutionActorController (actor.ts), driving one job over JobStore.     *)
(*                                                                         *)
(* A process p owns one runner instance.  run[p] is the runJob / resumeJob *)
(* call in progress there, ctl[p] the control-plane call (cancelJob,       *)
(* a reconcile pass, submitInput) there; both die when p crashes.          *)
(* Every await on the store, the environment, the engine or a tool is the  *)
(* end of one action, so anything may happen between two of them.          *)
(*                                                                         *)
(* A tool call is identified by its step and call id (the idempotency key  *)
(* `${stepIndex}:${toolCallId}`); the tool behind a call id is fixed, so   *)
(* Idempotent and Allowed are sets of call ids.                            *)
(***************************************************************************)
EXTENDS Integers, Sequences, FiniteSets, SequencesExt

CONSTANTS
  Procs,               \* processes, each with its own runner
  Starters,            \* processes that call runJob while the job is queued
  Calls,               \* tool call ids the engine may use
  Idempotent,          \* calls of tools both definition and policy call idempotent
  Allowed,             \* calls of tools that exist and that the policy allows
  Turns,               \* the tool-call sequences a provider turn may return
  OnUncertainToolCall, \* "mark_uncertain" or "fail_job"
  MaxSteps,            \* policy.maxSteps
  MaxTokens,           \* policy.maxTokens, one token a turn; 0 stands for null
  DurationBudget,      \* TRUE iff policy.maxDurationMs is set
  HeartbeatLoss,       \* TRUE iff a live worker may miss its lease renewals
  MaxAttempt, MaxEvents,                           \* bounds of JobStore
  MaxCrashes, MaxCancels, MaxSuspends, MaxInputs,  \* bounds: how often each happens
  MaxEnvFailures

Key == (0 .. MaxSteps - 1) \X Calls
NoCall == "none"

ASSUME RunnerAssumption ==
  /\ Starters \subseteq Procs
  /\ Idempotent \subseteq Calls /\ Allowed \subseteq Calls
  /\ Turns \subseteq Seq(Calls)
  /\ OnUncertainToolCall \in {"mark_uncertain", "fail_job"}
  /\ MaxSteps \in Nat \ {0} /\ MaxTokens \in Nat
  /\ {DurationBudget, HeartbeatLoss} \subseteq BOOLEAN
  /\ {MaxCrashes, MaxCancels, MaxSuspends, MaxInputs, MaxEnvFailures} \subseteq Nat
  /\ MaxAttempt \in Nat /\ MaxEvents \in Nat \ {0}
  /\ NoCall \notin Calls

(* The provider's call ids are distinct within a turn: the table is keyed  *)
(* by them.                                                                *)
ASSUME DistinctCalls ==
  \A t \in Turns : \A i, j \in DOMAIN t : t[i] = t[j] => i = j

EventType == {"queued", "started", "resumed", "checkpoint", "user", "assistant",
              "tool_request", "tool_response", "warning", "error", "completed",
              "cancelled", "budget_exhausted"}

(* A message event is "user" or "assistant" by its role; the usage event   *)
(* travels in the same append as the assistant message and is part of it.  *)
RunEvent == [type : EventType, step : 0..MaxSteps, call : Calls \cup {NoCall}]

Ev(type) == [type |-> type, step |-> 0, call |-> NoCall]
EvKey(type, key) == [type |-> type, step |-> key[1], call |-> key[2]]
EvTurn(step) == [type |-> "assistant", step |-> step, call |-> NoCall]

CallState == [status : {"none", "recorded", "completed", "uncertain"},
              recordedAt : 0..MaxEvents, resultSeq : 0..MaxEvents]
NotCalled == [status |-> "none", recordedAt |-> 0, resultSeq |-> 0]
Recorded(seq) == [NotCalled EXCEPT !.status = "recorded", !.recordedAt = seq]
NoCalls == [k \in Key |-> NotCalled]

Continuation == [type : {"provider_turn", "settle_tools", "done"},
                 step : 0..MaxSteps, pending : Seq(Key)]
ProviderTurn(n) == [type |-> "provider_turn", step |-> n, pending |-> << >>]
SettleTools(n, keys) == [type |-> "settle_tools", step |-> n, pending |-> keys]
Done == [type |-> "done", step |-> 0, pending |-> << >>]

(* What a checkpoint carries beyond its watermark and generation: the      *)
(* continuation point, the idempotency table and the usage counter.        *)
RunBody == [cont : Continuation, calls : [Key -> CallState], steps : Nat]
NewBody == [cont |-> ProviderTurn(0), calls |-> NoCalls, steps |-> 0]

VARIABLES
  rec, log, ckpt,   \* the durable rows (JobStore)
  env,              \* the job-bound execution environment exists
  run,              \* run[p]: the runJob/resumeJob call of process p
  ctl,              \* ctl[p]: the control-plane call of process p
  spent,            \* how many crashes, cancels, ... have happened (bounds)
  execs,            \* observability: times each call's tool was really run
  orphaned          \* observability: seqs a recovery declared orphaned

INSTANCE JobStore WITH Event <- RunEvent, Body <- RunBody

vars == <<rec, log, ckpt, env, run, ctl, spent, execs, orphaned>>

-----------------------------------------------------------------------------
(* The state of one runJob/resumeJob call.                                 *)

RunPc == {"idle", "recRead", "acqRead", "acqLease", "start", "createEnv",
          "started", "drain0", "runFresh", "runResumed", "resuming", "recover",
          "resumed", "parkRelease", "parkUpdate",
          "ckStatus", "ckAppend", "ckSave", "ckResume",
          "loop", "drain", "turn", "turnAppend", "budget", "reqAppend",
          "settle", "exec", "respAppend", "uncAppend",
          "finAppend", "finUpdate", "dispose", "release"}

IdleRun == [pc |-> "idle", mode |-> "run", gen |-> 0, active |-> FALSE,
            aborted |-> FALSE, ws |-> FALSE, drafted |-> FALSE,
            body |-> NewBody, lastSeq |-> 0, session |-> << >>, applied |-> {},
            seen |-> 0, turn |-> << >>, pending |-> << >>, resume |-> FALSE,
            commitTo |-> "loop", final |-> "none", event |-> "error",
            view |-> 0, withDraft |-> FALSE, finTo |-> "release",
            snapshot |-> FALSE, threw |-> FALSE]

(* The call is over because it threw to its caller.                        *)
Rejected == [IdleRun EXCEPT !.threw = TRUE]

At(p, pc) == run[p].pc = pc
Set(p, r) == run' = [run EXCEPT ![p] = r]
Goto(p, pc) == Set(p, [run[p] EXCEPT !.pc = pc])

Spend(what) == spent' = [spent EXCEPT ![what] = @ + 1]

(* The environment provider refuses to create or to suspend a workspace.   *)
EnvironmentFails == spent["env"] < MaxEnvFailures /\ Spend("env")

(* failJob / completeJob / finalizeCancelled / finalizeBudgetExhausted as  *)
(* one terminal transition of run r: the event it appends, the status it   *)
(* ends in, the generation `view` its last compare-and-set carries, and    *)
(* whether it commits the draft on the way.                                *)
Finish(r, final, event, view, withDraft) ==
  [r EXCEPT !.pc = "finAppend", !.final = final, !.event = event,
            !.view = view, !.withDraft = withDraft]

(* An exception in the try block of runJob/resumeJob: failJob with the     *)
(* run's own generation, and with the draft only where runJob has one.     *)
Thrown(r) == Finish(r, "failed", "error", r.gen, r.drafted)

(* commitBoundary(record, draft, ...): its first await.                    *)
Commit(r, to) == [r EXCEPT !.pc = "ckStatus", !.commitTo = to]

UserSeqs(n) == {s \in 1..n : log[s].type = "user"}

(* A set of seqs in log order: the i-th of them has i up to it.            *)
Ascending(S) ==
  [i \in 1..Cardinality(S) |-> CHOOSE s \in S : Cardinality({t \in S : t <= s}) = i]

(* projectHistoryFromEvents: messages and tool responses, in log order.    *)
ProjectHistory(n) ==
  Ascending({s \in 1..n : log[s].type \in {"user", "assistant", "tool_response"}})

-----------------------------------------------------------------------------
(* Entry points: runJob and resumeJob.                                     *)

(* finalizeCancelled(record, null, null): no draft, no workspace, no lease. *)
CancelledAtEntry == Finish(IdleRun, "cancelled", "cancelled", rec.attempt, FALSE)

(* runJob on a queued job.  On a suspended job it is ResumeJob; on a       *)
(* terminal one it returns and on any other it throws, changing nothing.   *)
RunJob(p) ==
  /\ p \in Starters
  /\ At(p, "idle")
  /\ rec.status = "queued"
  /\ Set(p, IF rec.cancelRequested THEN CancelledAtEntry
            ELSE [IdleRun EXCEPT !.pc = "acqRead"])
  /\ UNCHANGED <<rec, log, ckpt, env, ctl, spent, execs, orphaned>>

(* Mutant: only a parked job is resumed, not one whose worker died.        *)
ResumeJobSuspendedOnly(p) ==
  /\ At(p, "idle")
  /\ rec.status = "suspended"
  /\ Set(p, [IdleRun EXCEPT !.pc = "recRead", !.mode = "resume"])
  /\ UNCHANGED <<rec, log, ckpt, env, ctl, spent, execs, orphaned>>

ResumeJob(p) ==
  /\ At(p, "idle")
  /\ rec.status \notin Terminal \cup {"queued"}
  /\ Set(p, IF rec.cancelRequested THEN CancelledAtEntry
            ELSE [IdleRun EXCEPT !.pc = "recRead", !.mode = "resume"])
  /\ UNCHANGED <<rec, log, ckpt, env, ctl, spent, execs, orphaned>>

(* controller.proceed: validate the record before fencing.                 *)
RecoverRead(p) ==
  /\ At(p, "recRead")
  /\ Set(p, IF rec.status \in Terminal \/ LeaseHeld THEN Rejected
            ELSE [run[p] EXCEPT !.pc = "acqRead", !.snapshot = rec.latestSnapshot])
  /\ UNCHANGED <<rec, log, ckpt, env, ctl, spent, execs, orphaned>>

(* controller.acquire: a terminal check on a record read beforehand ...    *)
AcquireRead(p) ==
  /\ At(p, "acqRead")
  /\ IF rec.status \in Terminal THEN Set(p, Rejected) ELSE Goto(p, "acqLease")
  /\ UNCHANGED <<rec, log, ckpt, env, ctl, spent, execs, orphaned>>

(* ... then store.acquireLease, which throws LEASE_HELD to the caller.     *)
Acquire(p) ==
  /\ At(p, "acqLease")
  /\ \/ /\ LeaseHeld
        /\ Set(p, Rejected)
        /\ UNCHANGED rec
     \/ /\ AcquireLease
        /\ Set(p, [run[p] EXCEPT !.gen = rec.attempt + 1,
                     !.active = run[p].mode = "run",
                     !.pc = IF run[p].mode = "run" THEN "start" ELSE "resuming"])
  /\ UNCHANGED <<log, ckpt, env, ctl, spent, execs, orphaned>>

(* A fenced status write of the run's own generation: the next pc when it  *)
(* succeeds, the run record when it throws.                                *)
WriteStatus(p, status, next, thrown) ==
  /\ \/ /\ UpdateJobRecord(run[p].gen, WithStatus(status))
        /\ Set(p, next)
     \/ /\ Fenced(run[p].gen)
        /\ Set(p, thrown)
        /\ UNCHANGED rec
  /\ UNCHANGED <<log, ckpt, env, ctl, spent, execs, orphaned>>

Start(p) ==
  /\ At(p, "start")
  /\ WriteStatus(p, "preparing", [run[p] EXCEPT !.pc = "createEnv"], Thrown(run[p]))

(* environment.create and engine.createSession, either of which may throw. *)
CreateEnvironment(p) ==
  /\ At(p, "createEnv")
  /\ \/ /\ env' = TRUE
        /\ Set(p, [run[p] EXCEPT !.pc = "started", !.ws = TRUE])
        /\ UNCHANGED spent
     \/ /\ EnvironmentFails
        /\ Set(p, Thrown(run[p]))
        /\ UNCHANGED env
  /\ UNCHANGED <<rec, log, ckpt, ctl, execs, orphaned>>

(* A fenced append of the run's own generation.                            *)
AppendOwn(p, events, next, thrown) ==
  /\ \/ /\ AppendFenced(run[p].gen, events)
        /\ Set(p, next)
     \/ /\ Fenced(run[p].gen)
        /\ Set(p, thrown)
        /\ UNCHANGED log
  /\ UNCHANGED <<rec, ckpt, env, ctl, spent, execs>>

(* The "started" event and newDraft, in runJob and in restartFromScratch;  *)
(* only runJob's catch block still sees the draft.                         *)
Started(p) ==
  /\ At(p, "started")
  /\ AppendOwn(p, <<Ev("started")>>,
       [run[p] EXCEPT !.pc = "drain0", !.body = NewBody, !.lastSeq = Len(log) + 1,
                      !.session = << >>, !.applied = {},
                      !.drafted = run[p].mode = "run"],
       Thrown(run[p]))
  /\ UNCHANGED orphaned

(* drainAdmittedInput, before the first status write and before each turn. *)
Drain(p) ==
  /\ run[p].pc \in {"drain0", "drain"}
  /\ LET fresh == UserSeqs(Len(log)) \ run[p].applied IN
     Set(p, [run[p] EXCEPT !.pc = IF @ = "drain0" THEN "runFresh" ELSE "turn",
                           !.applied = @ \cup fresh,
                           !.session = @ \o Ascending(fresh)])
  /\ UNCHANGED <<rec, log, ckpt, env, ctl, spent, execs, orphaned>>

(* Mutant: a status that is not one of JOB_STATUSES.                       *)
SetActive(p) ==
  /\ run[p].pc \in {"runFresh", "runResumed"}
  /\ WriteStatus(p, "active", [run[p] EXCEPT !.pc = "loop"], Thrown(run[p]))

SetRunning(p) ==
  \/ /\ At(p, "runFresh")
     /\ WriteStatus(p, "running", Commit(run[p], "loop"), Thrown(run[p]))
  \/ /\ At(p, "runResumed")
     /\ WriteStatus(p, "running", [run[p] EXCEPT !.pc = "loop"], Thrown(run[p]))

-----------------------------------------------------------------------------
(* Recovery: controller.proceedValidated.  An error in it releases the     *)
(* lease, parks the job suspended and is rethrown to resumeJob's caller.   *)

Resuming(p) ==
  /\ At(p, "resuming")
  /\ WriteStatus(p, "resuming", [run[p] EXCEPT !.pc = "recover"],
                 [run[p] EXCEPT !.pc = "parkRelease"])

(* validateCheckpoint: the watermark is inside the log, every call was     *)
(* recorded below it, every completed call refers to a committed           *)
(* tool_response, every pending key is in the table.                       *)
ValidCheckpoint ==
  LET body == ckpt.body IN
  /\ ckpt.lastEventSeq <= Len(log)
  /\ \A k \in Key : body.calls[k].recordedAt <= ckpt.lastEventSeq
  /\ \A k \in Key : body.calls[k].status = "completed" =>
       /\ body.calls[k].resultSeq \in 1..ckpt.lastEventSeq
       /\ log[body.calls[k].resultSeq].type = "tool_response"
  /\ body.cont.type = "settle_tools" =>
       \A i \in DOMAIN body.cont.pending : body.calls[body.cont.pending[i]].status # "none"

(* Mutant: recovery always restarts from scratch.                          *)
RecoverFromScratch(p) ==
  /\ At(p, "recover")
  /\ Set(p, [run[p] EXCEPT !.pc = "started", !.ws = TRUE, !.active = TRUE])
  /\ env' = TRUE
  /\ UNCHANGED <<rec, log, ckpt, ctl, spent, execs, orphaned>>

(* Load checkpoint and events, validate, materialize the workspace (from   *)
(* the snapshot the stale record names, or logically when there is none or *)
(* the restore fails, which appends an unfenced warning).  The reads are   *)
(* taken together: events appended between them only add to the orphans.   *)
Recover(p) ==
  /\ At(p, "recover")
  /\ \/ /\ HasCheckpoint => ValidCheckpoint
        /\ env' = TRUE
        /\ Set(p, IF HasCheckpoint
             THEN [run[p] EXCEPT !.pc = "resumed", !.ws = TRUE, !.body = ckpt.body,
                                 !.lastSeq = ckpt.lastEventSeq, !.seen = Len(log)]
             ELSE [run[p] EXCEPT !.pc = "started", !.ws = TRUE, !.active = TRUE])
        /\ \/ UNCHANGED log
           \/ HasCheckpoint /\ run[p].snapshot /\ AppendEvents(<<Ev("warning")>>)
        /\ UNCHANGED spent
     \/ /\ IF HasCheckpoint /\ ~ValidCheckpoint THEN UNCHANGED spent ELSE EnvironmentFails
        /\ Goto(p, "parkRelease")
        /\ UNCHANGED <<env, log>>
  /\ UNCHANGED <<rec, ckpt, ctl, execs, orphaned>>

(* Mutant: the inputs already in the rebuilt history are not marked as     *)
(* applied, so the next drain adds them again.                             *)
ResumedForgetful(p) ==
  /\ At(p, "resumed")
  /\ AppendOwn(p, <<Ev("resumed")>>,
       [run[p] EXCEPT !.pc = "runResumed", !.active = TRUE,
                      !.session = ProjectHistory(run[p].lastSeq), !.applied = {}],
       [run[p] EXCEPT !.pc = "parkRelease"])
  /\ UNCHANGED orphaned

(* The "resumed" event (and a warning when there are orphans), then        *)
(* resumeJob rebuilds the session from the committed prefix of the log.    *)
Resumed(p) ==
  /\ At(p, "resumed")
  /\ LET wm == run[p].lastSeq
         orphans == (wm + 1) .. run[p].seen IN
     /\ AppendOwn(p, IF orphans = {} THEN <<Ev("resumed")>>
                     ELSE <<Ev("resumed"), Ev("warning")>>,
          [run[p] EXCEPT !.pc = "runResumed", !.active = TRUE,
                         !.session = ProjectHistory(wm), !.applied = UserSeqs(wm)],
          [run[p] EXCEPT !.pc = "parkRelease"])
     /\ orphaned' = IF Fenced(run[p].gen) THEN orphaned
                    ELSE orphaned \cup {s \in orphans : log[s].type \in {"assistant", "tool_response"}}

ParkRelease(p) ==
  /\ At(p, "parkRelease")
  /\ ReleaseLease(run[p].gen)
  /\ Goto(p, "parkUpdate")
  /\ UNCHANGED <<log, ckpt, env, ctl, spent, execs, orphaned>>

ParkUpdate(p) ==
  /\ At(p, "parkUpdate")
  /\ WriteStatus(p, "suspended", Rejected, Rejected)

-----------------------------------------------------------------------------
(* commitBoundary: four store calls.  An error is swallowed by failJob and *)
(* finalizeCancelled, and thrown everywhere else.                          *)

CommitThrown(p) ==
  IF run[p].final \in {"failed", "cancelled"}
  THEN [run[p] EXCEPT !.pc = "finUpdate"] ELSE Thrown(run[p])

CheckpointStatus(p) ==
  /\ At(p, "ckStatus")
  /\ WriteStatus(p, "checkpointing", [run[p] EXCEPT !.pc = "ckAppend"], CommitThrown(p))

CheckpointAppend(p) ==
  /\ At(p, "ckAppend")
  /\ AppendOwn(p, <<Ev("checkpoint")>>,
       [run[p] EXCEPT !.pc = "ckSave", !.lastSeq = Len(log) + 1], CommitThrown(p))
  /\ UNCHANGED orphaned

CheckpointSave(p) ==
  /\ At(p, "ckSave")
  /\ \/ /\ SaveCheckpoint([attempt |-> run[p].gen, lastEventSeq |-> run[p].lastSeq,
                           body |-> run[p].body])
        /\ Goto(p, IF run[p].final = "none" THEN "ckResume" ELSE run[p].commitTo)
     \/ /\ Fenced(run[p].gen)
        /\ Set(p, CommitThrown(p))
        /\ UNCHANGED ckpt
  /\ UNCHANGED <<rec, log, env, ctl, spent, execs, orphaned>>

CheckpointResume(p) ==
  /\ At(p, "ckResume")
  /\ WriteStatus(p, "running", [run[p] EXCEPT !.pc = run[p].commitTo], Thrown(run[p]))

-----------------------------------------------------------------------------
(* The execution loop.                                                     *)

Stop(p) == rec.cancelRequested \/ run[p].aborted

(* finalizeCancelled(current, draft, workspace): the last write carries    *)
(* the attempt of the record just read, not the run's own generation.      *)
CancelledNow(p, event) == Finish(run[p], "cancelled", event, rec.attempt, TRUE)

(* Mutant: the pending settlement is looked at before the cancellation.    *)
LoopSettlingFirst(p) ==
  /\ At(p, "loop")
  /\ LET r == run[p]
         cont == r.body.cont IN
     Set(p, CASE cont.type = "settle_tools" ->
                   [r EXCEPT !.pc = "settle", !.pending = cont.pending, !.resume = TRUE]
              [] cont.type # "settle_tools" /\ Stop(p) -> CancelledNow(p, "cancelled")
              [] cont.type = "done" /\ ~Stop(p) ->
                   Finish(r, "completed", "completed", r.gen, TRUE)
              [] cont.type = "provider_turn" /\ ~Stop(p) /\ cont.step >= MaxSteps ->
                   Finish(r, "failed", "error", r.gen, TRUE)
              [] OTHER -> [r EXCEPT !.pc = "drain"])
  /\ UNCHANGED <<rec, log, ckpt, env, ctl, spent, execs, orphaned>>

(* The head of the loop: cancellation, pending settlement, done, maxSteps. *)
Loop(p) ==
  /\ At(p, "loop")
  /\ LET r == run[p]
         cont == r.body.cont IN
     Set(p, CASE Stop(p) -> CancelledNow(p, "cancelled")
              [] ~Stop(p) /\ cont.type = "settle_tools" ->
                   [r EXCEPT !.pc = "settle", !.pending = cont.pending, !.resume = TRUE]
              [] ~Stop(p) /\ cont.type = "done" ->
                   Finish(r, "completed", "completed", r.gen, TRUE)
              [] ~Stop(p) /\ cont.type = "provider_turn" /\ cont.step >= MaxSteps ->
                   Finish(r, "failed", "error", r.gen, TRUE)
              [] OTHER -> [r EXCEPT !.pc = "drain"])
  /\ UNCHANGED <<rec, log, ckpt, env, ctl, spent, execs, orphaned>>

(* engine.runTurn: it may throw, it may be cut short by the abort signal,  *)
(* or it returns text and tool calls.                                      *)
Turn(p) ==
  /\ At(p, "turn")
  /\ \/ Set(p, Finish(run[p], "failed", "error", run[p].gen, TRUE))
     \/ /\ run[p].aborted
        /\ Set(p, CancelledNow(p, "cancelled"))
     \/ /\ ~run[p].aborted
        /\ \E calls \in Turns :
             Set(p, [run[p] EXCEPT !.pc = "turnAppend", !.turn = calls])
  /\ UNCHANGED <<rec, log, ckpt, env, ctl, spent, execs, orphaned>>

(* checkBudgets, after the turn's usage has been added.                    *)
TokensExhausted(steps) == MaxTokens > 0 /\ steps >= MaxTokens

(* The assistant turn is committed to the log; then the budgets, then the  *)
(* end of the job or the recording of its tool calls.                      *)
TurnAppend(p) ==
  /\ At(p, "turnAppend")
  /\ LET r == run[p]
         step == r.body.cont.step
         after == [r EXCEPT !.body.steps = @ + 1, !.session = Append(@, Len(log) + 1)]
         exhausted == [after EXCEPT !.pc = "budget"]
         next == IF r.turn = << >>
                 THEN Finish([after EXCEPT !.body.cont = Done],
                             "completed", "completed", r.gen, TRUE)
                 ELSE [after EXCEPT !.pc = "reqAppend"]
     IN \/ /\ TokensExhausted(after.body.steps) \/ DurationBudget
           /\ AppendOwn(p, <<EvTurn(step)>>, exhausted, Thrown(r))
        \/ /\ ~TokensExhausted(after.body.steps)
           /\ AppendOwn(p, <<EvTurn(step)>>, next, Thrown(r))
  /\ UNCHANGED orphaned

(* finalizeBudgetExhausted: like a cancellation, on a record read anew.    *)
BudgetExhausted(p) ==
  /\ At(p, "budget")
  /\ Set(p, CancelledNow(p, "budget_exhausted"))
  /\ UNCHANGED <<rec, log, ckpt, env, ctl, spent, execs, orphaned>>

(* Every tool call is recorded durably before any side effect begins.      *)
RequestAppend(p) ==
  /\ At(p, "reqAppend")
  /\ LET r == run[p]
         step == r.body.cont.step
         keys == [i \in DOMAIN r.turn |-> <<step, r.turn[i]>>]
         calls == [k \in Key |-> IF \E i \in DOMAIN keys : keys[i] = k
                     THEN Recorded(Len(log) + (CHOOSE i \in DOMAIN keys : keys[i] = k))
                     ELSE r.body.calls[k]]
     IN AppendOwn(p, [i \in DOMAIN keys |-> EvKey("tool_request", keys[i])],
          Commit([r EXCEPT !.body.calls = calls, !.body.cont = SettleTools(step, keys),
                           !.pending = keys, !.resume = FALSE], "settle"),
          Thrown(r))
  /\ UNCHANGED orphaned

(* One pending key is settled: drop it from the plan and commit.           *)
Settled(p, body) ==
  LET rest == Tail(run[p].pending) IN
  Commit([run[p] EXCEPT !.pending = rest,
            !.body = [body EXCEPT !.cont = SettleTools(body.cont.step, rest)]],
         "settle")

Requested(key) ==
  \E s \in DOMAIN log : log[s] = EvKey("tool_request", key)

(* Mutant: a call recorded by an earlier run is simply run again.          *)
SettleHeadRerun(p) ==
  LET key == Head(run[p].pending) IN
  IF Stop(p) THEN [run[p] EXCEPT !.pc = "loop"]
  ELSE IF run[p].body.calls[key].status = "completed" THEN Settled(p, run[p].body)
  ELSE [run[p] EXCEPT !.pc = "exec"]

(* settleTools: one round of its while loop, up to its next await.         *)
SettleHead(p) ==
  LET r == run[p]
      key == Head(r.pending)
      body == r.body
      state == body.calls[key].status
  IN CASE Stop(p) -> [r EXCEPT !.pc = "loop"]
       [] ~Stop(p) /\ state = "completed" -> Settled(p, body)
       [] ~Stop(p) /\ state # "completed" /\ r.resume /\ ~Requested(key) -> Thrown(r)
       [] ~Stop(p) /\ r.resume /\ Requested(key) /\ state = "recorded"
            /\ key[2] \in Allowed \ Idempotent ->
            IF OnUncertainToolCall = "fail_job"
            THEN [Finish(r, "failed", "error", r.gen, TRUE) EXCEPT !.finTo = "loop"]
            ELSE [r EXCEPT !.pc = "uncAppend"]
       [] OTHER -> [r EXCEPT !.pc = IF key[2] \in Allowed THEN "exec" ELSE "respAppend"]

Settle(p) ==
  /\ At(p, "settle")
  /\ Set(p, IF run[p].pending # << >> THEN SettleHead(p)
            ELSE Commit([run[p] EXCEPT !.body.cont = ProviderTurn(@.step + 1)], "loop"))
  /\ UNCHANGED <<rec, log, ckpt, env, ctl, spent, execs, orphaned>>

(* tool.execute: the side effect.  A tool error is an ordinary result.     *)
Execute(p) ==
  /\ At(p, "exec")
  /\ execs' = [execs EXCEPT ![Head(run[p].pending)] = @ + 1]
  /\ Goto(p, "respAppend")
  /\ UNCHANGED <<rec, log, ckpt, env, ctl, spent, orphaned>>

(* Mutant: the result is looked for one event too late.                    *)
ResponseAppendOffByOne(p) ==
  /\ At(p, "respAppend")
  /\ LET r == run[p]
         key == Head(r.pending)
         settled == [r.body EXCEPT !.calls[key].status = "completed",
                                   !.calls[key].resultSeq = Len(log) + 2] IN
     AppendOwn(p, <<EvKey("tool_response", key)>>,
       [Settled(p, settled) EXCEPT !.session = Append(@, Len(log) + 1)], Thrown(r))
  /\ UNCHANGED orphaned

ResponseAppend(p) ==
  /\ At(p, "respAppend")
  /\ LET r == run[p]
         key == Head(r.pending)
         settled == [r.body EXCEPT !.calls[key].status = "completed",
                                   !.calls[key].resultSeq = Len(log) + 1] IN
     AppendOwn(p, <<EvKey("tool_response", key)>>,
       [Settled(p, settled) EXCEPT !.session = Append(@, Len(log) + 1)], Thrown(r))
  /\ UNCHANGED orphaned

UncertainAppend(p) ==
  /\ At(p, "uncAppend")
  /\ LET r == run[p]
         key == Head(r.pending)
         settled == [r.body EXCEPT !.calls[key].status = "uncertain"] IN
     AppendOwn(p, <<EvKey("tool_response", key)>>,
       [Settled(p, settled) EXCEPT !.session = Append(@, Len(log) + 1)], Thrown(r))
  /\ UNCHANGED orphaned

-----------------------------------------------------------------------------
(* Terminal transitions and the finally block.                             *)

(* The terminal event is appended WITHOUT an expected attempt.             *)
FinishAppend(p) ==
  /\ At(p, "finAppend")
  /\ AppendEvents(<<Ev(run[p].event)>>)
  /\ LET r == IF run[p].final = "completed"
              THEN [run[p] EXCEPT !.body.cont = Done] ELSE run[p] IN
     Set(p, IF r.withDraft THEN Commit(r, "finUpdate") ELSE [r EXCEPT !.pc = "finUpdate"])
  /\ UNCHANGED <<rec, ckpt, env, ctl, spent, execs, orphaned>>

FinishUpdate(p) ==
  /\ At(p, "finUpdate")
  /\ \/ /\ UpdateJobRecord(run[p].view, WithStatusNoLease(run[p].final))
        /\ Goto(p, "dispose")
     \/ /\ Fenced(run[p].view)
        /\ Set(p, IF run[p].final = "completed" THEN Thrown(run[p])
                  ELSE [run[p] EXCEPT !.pc = "dispose"])
        /\ UNCHANGED rec
  /\ UNCHANGED <<log, ckpt, env, ctl, spent, execs, orphaned>>

(* disposeEnvironment; the fail_job branch of settleTools then returns to  *)
(* the loop, everything else to the finally block.                         *)
Dispose(p) ==
  /\ At(p, "dispose")
  /\ env' = (env /\ ~run[p].ws)
  /\ Set(p, IF run[p].gen = 0 THEN IdleRun
            ELSE [run[p] EXCEPT !.pc = run[p].finTo, !.final = "none", !.finTo = "release"])
  /\ UNCHANGED <<rec, log, ckpt, ctl, spent, execs, orphaned>>

Release(p) ==
  /\ At(p, "release")
  /\ ReleaseLease(run[p].gen)
  /\ Set(p, IdleRun)
  /\ UNCHANGED <<log, ckpt, env, ctl, spent, execs, orphaned>>

-----------------------------------------------------------------------------
(* Control-plane calls, in any process.                                    *)

CtlPc == {"idle", "cancelUpdate", "cancelAppend", "cancelFinal", "suspRead",
          "suspCapture", "suspEnv", "suspAppend", "suspPark", "inputAppend"}
IdleCtl == [pc |-> "idle", att |-> 0]

CtlAt(p, pc) == ctl[p].pc = pc
CtlGoto(p, pc) == ctl' = [ctl EXCEPT ![p].pc = pc]
CtlEnd(p) == ctl' = [ctl EXCEPT ![p] = IdleCtl]

(* A control call reads the record and remembers its attempt; it returns   *)
(* (submitInput throws) when the job is terminal.                          *)
CtlBegin(p, what, bound, pc) ==
  /\ CtlAt(p, "idle")
  /\ spent[what] < bound
  /\ rec.status \notin Terminal
  /\ ctl' = [ctl EXCEPT ![p] = [pc |-> pc, att |-> rec.attempt]]
  /\ Spend(what)
  /\ UNCHANGED <<rec, log, ckpt, env, run, execs, orphaned>>

CancelJob(p) == CtlBegin(p, "cancel", MaxCancels, "cancelUpdate")
SubmitInput(p) == CtlBegin(p, "input", MaxInputs, "inputAppend")

(* run.controller.abort() on this process's own active run, if any.        *)
AbortLocal(p) == run' = [run EXCEPT ![p].aborted = @ \/ run[p].active]

(* cancelJob: the durable request, the local abort, and the finalization   *)
(* at once when nobody is executing.                                       *)
CancelUpdate(p) ==
  /\ CtlAt(p, "cancelUpdate")
  /\ \/ /\ UpdateJobRecord(ctl[p].att, WithCancel)
        /\ AbortLocal(p)
        /\ IF rec.status \in {"queued", "suspended"}
           THEN CtlGoto(p, "cancelAppend") ELSE CtlEnd(p)
     \/ /\ Fenced(ctl[p].att)
        /\ CtlEnd(p)
        /\ UNCHANGED <<rec, run>>
  /\ UNCHANGED <<log, ckpt, env, spent, execs, orphaned>>

CancelAppend(p) ==
  /\ CtlAt(p, "cancelAppend")
  /\ AppendEvents(<<Ev("cancelled")>>)
  /\ CtlGoto(p, "cancelFinal")
  /\ UNCHANGED <<rec, ckpt, env, run, spent, execs, orphaned>>

CancelFinal(p) ==
  /\ CtlAt(p, "cancelFinal")
  /\ CtlEnd(p)
  /\ \/ UpdateJobRecord(ctl[p].att, WithStatusNoLease("cancelled"))
     \/ Fenced(ctl[p].att) /\ UNCHANGED rec
  /\ UNCHANGED <<log, ckpt, env, run, spent, execs, orphaned>>

(* Mutant: a worker lost inside a commit boundary is not a candidate.      *)
CandidateNarrow ==
  /\ rec.status \in {"leased", "preparing", "running", "resuming"}
  /\ ~rec.lease.live

(* JobReconciler.reconcile: the scan of findRecoveryCandidates (an active  *)
(* status and no live lease), then suspendJob on the candidate.            *)
Candidate ==
  /\ rec.status \in {"leased", "preparing", "running", "checkpointing", "resuming"}
  /\ ~rec.lease.live

Reconcile(p) == Candidate /\ CtlBegin(p, "suspend", MaxSuspends, "suspRead")

(* suspendJob reads the record again: only a terminal job is left alone.   *)
SuspendRead(p) ==
  /\ CtlAt(p, "suspRead")
  /\ ctl' = [ctl EXCEPT ![p] = IF rec.status \in Terminal THEN IdleCtl
                               ELSE [pc |-> "suspCapture", att |-> rec.attempt]]
  /\ UNCHANGED <<rec, log, ckpt, env, run, spent, execs, orphaned>>

(* controller.suspend: reattach the environment, capture a snapshot (its   *)
(* reference stored before parking) or warn that none was captured.        *)
SuspendCapture(p) ==
  /\ CtlAt(p, "suspCapture")
  /\ env' = TRUE
  /\ \/ /\ UpdateJobRecord(ctl[p].att, WithSnapshot)
        /\ CtlGoto(p, "suspEnv")
        /\ UNCHANGED log
     \/ /\ AppendFenced(ctl[p].att, <<Ev("warning")>>)
        /\ CtlGoto(p, "suspEnv")
        /\ UNCHANGED rec
     \/ /\ Fenced(ctl[p].att)
        /\ CtlEnd(p)
        /\ UNCHANGED <<rec, log>>
  /\ UNCHANGED <<ckpt, run, spent, execs, orphaned>>

(* environment.suspend.  It is refused with CAPABILITY_UNSUPPORTED by an   *)
(* environment without native suspend, or fails at the provider.           *)
SuspendEnvironment(p) ==
  /\ CtlAt(p, "suspEnv")
  /\ \/ CtlGoto(p, "suspAppend") /\ UNCHANGED spent
     \/ CtlEnd(p) /\ EnvironmentFails
  /\ UNCHANGED <<rec, log, ckpt, env, run, execs, orphaned>>

SuspendAppend(p) ==
  /\ CtlAt(p, "suspAppend")
  /\ \/ /\ AppendFenced(ctl[p].att, <<Ev("warning")>>)
        /\ CtlGoto(p, "suspPark")
     \/ /\ Fenced(ctl[p].att)
        /\ CtlEnd(p)
        /\ UNCHANGED log
  /\ UNCHANGED <<rec, ckpt, env, run, spent, execs, orphaned>>

(* Park the job, drop whatever lease there is, abort the local run.  The   *)
(* generation is not bumped.                                               *)
SuspendPark(p) ==
  /\ CtlAt(p, "suspPark")
  /\ CtlEnd(p)
  /\ \/ /\ UpdateJobRecord(ctl[p].att, WithStatusNoLease("suspended"))
        /\ AbortLocal(p)
     \/ /\ Fenced(ctl[p].att)
        /\ UNCHANGED <<rec, run>>
  /\ UNCHANGED <<log, ckpt, env, spent, execs, orphaned>>

(* submitInput: an unfenced append.                                        *)
InputAppend(p) ==
  /\ CtlAt(p, "inputAppend")
  /\ AppendEvents(<<Ev("user")>>)
  /\ CtlEnd(p)
  /\ UNCHANGED <<rec, ckpt, env, run, spent, execs, orphaned>>

-----------------------------------------------------------------------------
(* The world: a process dies (its calls vanish), a lease runs out.         *)

Crash(p) ==
  /\ spent["crash"] < MaxCrashes
  /\ run[p].pc # "idle" \/ ctl[p].pc # "idle"
  /\ run' = [run EXCEPT ![p] = IdleRun]
  /\ ctl' = [ctl EXCEPT ![p] = IdleCtl]
  /\ Spend("crash")
  /\ UNCHANGED <<rec, log, ckpt, env, execs, orphaned>>

HeldByLiveRun == \E p \in Procs : run[p].gen = rec.lease.token

Expire ==
  /\ HeartbeatLoss \/ ~HeldByLiveRun
  /\ LeaseExpires
  /\ UNCHANGED <<log, ckpt, env, run, ctl, spent, execs, orphaned>>

-----------------------------------------------------------------------------
(* createJob has written the record and its "queued" event.                *)
Init ==
  /\ rec = [status |-> "queued", attempt |-> 0, lease |-> NoLease,
            cancelRequested |-> FALSE, latestSnapshot |-> FALSE]
  /\ log = <<Ev("queued")>>
  /\ ckpt = [attempt |-> 0, lastEventSeq |-> 0, body |-> NewBody]
  /\ env = FALSE
  /\ run = [p \in Procs |-> IdleRun]
  /\ ctl = [p \in Procs |-> IdleCtl]
  /\ spent = [what \in {"crash", "cancel", "suspend", "input", "env"} |-> 0]
  /\ execs = [k \in Key |-> 0]
  /\ orphaned = {}

(* The awaits of a run after its entry point.                              *)
RunStep(p) ==
  \/ RecoverRead(p) \/ AcquireRead(p) \/ Acquire(p) \/ Start(p)
  \/ CreateEnvironment(p) \/ Started(p) \/ Drain(p) \/ SetRunning(p)
  \/ Resuming(p) \/ Recover(p) \/ Resumed(p) \/ ParkRelease(p) \/ ParkUpdate(p)
  \/ CheckpointStatus(p) \/ CheckpointAppend(p) \/ CheckpointSave(p)
  \/ CheckpointResume(p) \/ Loop(p) \/ Turn(p) \/ TurnAppend(p)
  \/ BudgetExhausted(p) \/ RequestAppend(p) \/ Settle(p) \/ Execute(p)
  \/ ResponseAppend(p) \/ UncertainAppend(p) \/ FinishAppend(p)
  \/ FinishUpdate(p) \/ Dispose(p) \/ Release(p)

CtlStep(p) ==
  \/ CancelUpdate(p) \/ CancelAppend(p) \/ CancelFinal(p) \/ SuspendRead(p)
  \/ SuspendCapture(p) \/ SuspendEnvironment(p) \/ SuspendAppend(p) \/ SuspendPark(p) \/ InputAppend(p)

CtlCall(p) == CancelJob(p) \/ Reconcile(p) \/ SubmitInput(p)

Next ==
  \/ \E p \in Procs : RunJob(p) \/ ResumeJob(p) \/ RunStep(p) \/ CtlCall(p)
                      \/ CtlStep(p) \/ Crash(p)
  \/ Expire

Spec == Init /\ [][Next]_vars

(* Awaits complete (store transactions, engine turns and tools return),    *)
(* leases of the dead run out, and some process keeps calling resumeJob    *)
(* on a job that is not finished (a supervisor's retry loop).              *)
FairSpec ==
  /\ Spec
  /\ \A p \in Procs : WF_vars(RunStep(p)) /\ WF_vars(CtlStep(p))
  /\ WF_vars(Expire)
  /\ \A p \in Procs : WF_vars(RunJob(p)) /\ WF_vars(ResumeJob(p))

-----------------------------------------------------------------------------
(* Type correctness of the durable rows and of both kinds of call.         *)
TypeOK ==
  /\ StoreTypeOK
  /\ env \in BOOLEAN
  /\ \A p \in Procs :
       /\ run[p].pc \in RunPc
       /\ run[p].gen \in Generation /\ run[p].view \in Generation
       /\ run[p].body \in RunBody
       /\ run[p].lastSeq \in Seqs /\ run[p].seen \in Seqs
       /\ run[p].applied \subseteq Seqs /\ run[p].session \in Seq(Seqs)
       /\ run[p].final \in {"none"} \cup Terminal
       /\ ctl[p] \in [pc : CtlPc, att : Generation]
  /\ execs \in [Key -> Nat]
  /\ orphaned \subseteq Seqs

(* A call of a non-idempotent tool is never run twice, however many        *)
(* workers crash, lose their lease and go on as zombies, or resume the     *)
(* job: settleTools runs it only from the run that recorded it, and a      *)
(* later run marks it uncertain instead (phase1a.md section 6).            *)
NonIdempotentAtMostOnce ==
  \A k \in Key : k[2] \notin Idempotent => execs[k] <= 1

(* "Record every tool call durably BEFORE any side effect begins": a call  *)
(* that ran is in the idempotency table of the stored checkpoint, so no    *)
(* recovery can be ignorant of it (runner.ts loop, commitBoundary).        *)
RecordedBeforeEffect ==
  \A k \in Key : execs[k] > 0 => ckpt.body.calls[k].status # "none"

(* The stored checkpoint always passes validateCheckpoint: no crash        *)
(* between the two writes of a commit boundary, and no zombie, leaves a    *)
(* continuation that recovery must refuse.                                 *)
StoredCheckpointValidates == HasCheckpoint => ValidCheckpoint

(* Recovery always has what it needs: the stored checkpoint validates, and *)
(* it knows every call that ran (commitBoundary, settleTools).             *)
CheckpointIsEnough ==
  /\ StoredCheckpointValidates
  /\ RecordedBeforeEffect

(* No admitted input enters the same session twice, on a fresh start or    *)
(* after a recovery (projection plus drainAdmittedInput).                  *)
NoInputTwice ==
  \A p \in Procs : \A i, j \in DOMAIN run[p].session :
    run[p].session[i] = run[p].session[j] => i = j

(* Two calls never execute under the same generation, although a control   *)
(* call, a zombie and a recovery may all act at once (acquireLease).       *)
OneRunPerGeneration ==
  \A p, q \in Procs : p # q /\ run[p].gen > 0 => run[p].gen # run[q].gen

(* Committed progress only grows: the usage counter and the watermark of   *)
(* the stored checkpoint never go back, and a committed tool result is     *)
(* never withdrawn.                                                        *)
CommittedForward ==
  /\ ckpt'.lastEventSeq >= ckpt.lastEventSeq
  /\ ckpt'.body.steps >= ckpt.body.steps
  /\ \A k \in Key : ckpt.body.calls[k].status \in {"completed", "uncertain"} =>
       ckpt'.body.calls[k] = ckpt.body.calls[k]

CommittedProgressKept == [][CommittedForward]_vars

(* Input, parking and refusing environments, at any await of a run, cost   *)
(* nothing of what recovery promises: effects once, a checkpoint that is   *)
(* enough, inputs once, progress kept (submitInput, suspendJob, recover).  *)
ControlSafe ==
  /\ [](NonIdempotentAtMostOnce /\ CheckpointIsEnough /\ NoInputTwice)
  /\ CommittedProgressKept

(* The runner implements the ownership contract: a generation is granted   *)
(* only when no lease is live, and every checkpoint written comes from the *)
(* newest generation and moves the watermark strictly forwards.            *)
Owner == INSTANCE Ownership WITH
           generation <- rec.attempt,
           holder <- IF rec.lease.live THEN rec.lease.token ELSE 0,
           committed <- [by |-> ckpt.attempt, upto |-> ckpt.lastEventSeq]

ImplementsOwnership == Owner!OwnershipSpec

(* "Resolves when the job reaches a terminal state" (contracts.ts runJob): *)
(* every runJob/resumeJob call returns to its caller ...                   *)
EveryCallReturns == \A p \in Procs : []<>At(p, "idle")

(* ... and a job whose workers crash, or that is cancelled at any moment,  *)
(* ends in a terminal status that nobody leaves any more.                  *)
JobSettles == <>[](rec.status \in Terminal)

-----------------------------------------------------------------------------
(* Statements of the repository's documents that the code does not keep;   *)
(* each one is refuted by a run of its own.                                *)

(* A step of a run that has lost its generation.                           *)
StaleStep(p) ==
  /\ run[p].gen > 0 /\ run[p].gen < rec.attempt
  /\ run'[p].pc # run[p].pc

(* phase1a.md: "every mutation carries the attempt number; a stale writer  *)
(* fails with LeaseFencedError": a run that has lost its generation does   *)
(* not change the job record (finalizeCancelled).                          *)
StaleRunWritesNothing == [][\A p \in Procs : StaleStep(p) => rec' = rec]_vars

(* contracts.ts RecoveryContext: orphaned remnants are "never replayed":   *)
(* no session is rebuilt from an event that a recovery declared orphaned.  *)
OrphansNeverReplayed ==
  \A p \in Procs : \A i \in DOMAIN run[p].session :
    run[p].session[i] \notin orphaned

(* contracts.ts UncertainToolCallPolicy: "Fail the job (terminal `failed`) *)
(* for operator reconciliation": a terminal status is never left.          *)
TerminalIsFinal == [][rec.status \in Terminal => rec'.status = rec.status]_vars
=============================================================================
