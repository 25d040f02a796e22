---------------------------- MODULE RunnerProofs -----------------------------
(***************************************************************************)
(* The runner implements the ownership contract, for every number of       *)
(* processes, calls and steps, and whatever crashes, expiries and control  *)
(* calls come in between.                                                  *)
(*                                                                         *)
(* Almost every step is "quiet": it keeps the generation and the           *)
(* checkpoint of the store, only patches the record or appends to the log, *)
(* and leaves one run call in a state that is right by itself (LocalOk).   *)
(* Three steps are not.  Acquire takes the next generation,                *)
(* CheckpointAppend fixes the watermark of the checkpoint to come, and     *)
(* CheckpointSave writes it.  The invariant is what makes these three a    *)
(* grant and an advance of Ownership: a call never holds a generation      *)
(* beyond the record's, no two calls hold the same one, and a call about   *)
(* to save carries a watermark inside the log that lies beyond the stored  *)
(* one when nobody has fenced it.                                          *)
(*                                                                         *)
(* The session is left out of that invariant.  It comes with one of its    *)
(* own (SessionsFit): what a session holds was put in log order by         *)
(* Ascending, so its type and that no seq is in it twice follow from a     *)
(* few facts about ranks in sets of seqs.  The two together give the type  *)
(* of everything the runner and the fleet keep.                            *)
(***************************************************************************)
EXTENDS Fleet, FiniteSetTheorems, TLAPS

(* Where a commit boundary returns to (commitBoundary's three callers).    *)
CommitTarget == {"loop", "settle", "finUpdate"}

(* The awaits of a commit boundary.                                        *)
CommitPc == {"ckStatus", "ckAppend", "ckSave", "ckResume"}

(* The run records, but for the session.                                   *)
RunCallOf(Sessions) ==
  [pc : RunPc, mode : {"run", "resume"}, gen : Generation, active : BOOLEAN,
   aborted : BOOLEAN, ws : BOOLEAN, drafted : BOOLEAN, body : RunBody,
   lastSeq : Seqs, session : Sessions, applied : SUBSET Seqs, seen : Seqs,
   turn : Turns \cup {<< >>}, pending : Seq(Key), resume : BOOLEAN,
   commitTo : CommitTarget, final : {"none"} \cup Terminal, event : EventType,
   view : Generation, withDraft : BOOLEAN, finTo : {"release", "loop"},
   snapshot : BOOLEAN, threw : BOOLEAN]

(* A run record has the right fields, whatever its session is.             *)
Typed(r) == r \in RunCallOf({r.session})

(* The call is inside settleTools, or in a commit boundary that returns to *)
(* it: the list it settles is the plan of its continuation.                *)
Settling(r) ==
  \/ r.pc \in {"settle", "exec", "respAppend", "uncAppend"}
  \/ r.pc \in CommitPc /\ r.commitTo = "settle"

(* The call is between the loop's budget check and the end of its provider *)
(* turn.                                                                   *)
InTurn(r) == r.pc \in {"drain", "turn", "turnAppend", "reqAppend"}

(* The call has decided in which terminal status it ends.                  *)
Finishing(r) ==
  \/ r.pc \in {"finAppend", "finUpdate"}
  \/ r.pc \in CommitPc /\ r.commitTo = "finUpdate"

(* A plan to settle tools belongs to a step of the policy's budget.        *)
BodyFits(b) == b.cont.type = "settle_tools" => b.cont.step < MaxSteps

(* What the place of a call says about the rest of it: a turn is taken     *)
(* from a provider_turn continuation, settleTools works on the pending     *)
(* list of its continuation, a terminal transition knows its status.       *)
Shape(r) ==
  /\ BodyFits(r.body)
  /\ InTurn(r) => /\ r.body.cont.type = "provider_turn"
                  /\ r.body.cont.step < MaxSteps
  /\ Settling(r) => /\ r.body.cont.type = "settle_tools"
                    /\ r.body.cont.pending = r.pending
  /\ r.pc \in {"exec", "respAppend", "uncAppend"} => r.pending # << >>
  /\ Finishing(r) => r.final \in Terminal

(* The only places of a call without a generation: before acquireLease,    *)
(* and the cancellation at entry, which has no lease and no draft.         *)
Unowned(r) ==
  \/ r.pc \in {"idle", "recRead", "acqRead", "acqLease"}
  \/ /\ r.pc \in {"finAppend", "finUpdate", "dispose"}
     /\ ~r.withDraft /\ r.final = "cancelled"

(* What is true of one run call by itself, whatever the store holds.       *)
LocalOk(r) == Typed(r) /\ Shape(r) /\ (r.gen = 0 => Unowned(r))

(* A process without a call, or whose call threw, is in order.             *)
LEMMA IdleOk == LocalOk(IdleRun) /\ LocalOk(Rejected)
<1>1. ProviderTurn(0) \in Continuation
  BY RunnerAssumption DEF ProviderTurn, Continuation
<1>2. NotCalled \in CallState
  BY RunnerAssumption DEF NotCalled, CallState
<1>3. NewBody \in RunBody /\ BodyFits(NewBody)
  BY <1>1, <1>2 DEF NewBody, RunBody, BodyFits, NoCalls, ProviderTurn
<1>4. Typed(IdleRun)
  BY <1>3, RunnerAssumption DEF Typed, RunCallOf, IdleRun, RunPc, Generation, Seqs, CommitTarget, EventType
<1>5. Typed(Rejected)
  BY <1>4 DEF Typed, RunCallOf, Rejected
<1>6. Shape(IdleRun) /\ Unowned(IdleRun)
  BY <1>3 DEF Shape, IdleRun, InTurn, Settling, Finishing, CommitPc, Unowned
<1>7. Shape(Rejected) /\ Unowned(Rejected)
  BY <1>3 DEF Shape, Rejected, IdleRun, InTurn, Settling, Finishing, CommitPc, Unowned
<1> QED
  BY <1>4, <1>5, <1>6, <1>7 DEF LocalOk

(* Moving only the program counter of an owned call keeps its type and     *)
(* generation; what remains to be seen is the shape.                       *)
LEMMA PcKeeps ==
  ASSUME NEW r, LocalOk(r), r.gen # 0, NEW pc \in RunPc
  PROVE  LET s == [r EXCEPT !.pc = pc] IN
         /\ s.gen = r.gen /\ s.pc = pc
         /\ Shape(s) => LocalOk(s)
  BY DEF LocalOk, Typed, RunCallOf

(* A record that only moved its pc to a place with no shape of its own.    *)
PlainPc == RunPc \ ({"settle", "exec", "respAppend", "uncAppend", "drain", "turn",
                     "turnAppend", "reqAppend", "finAppend", "finUpdate"} \cup CommitPc)

(* At a place that says nothing about the plan, an unchanged body is       *)
(* enough.                                                                 *)
LEMMA PlainKeeps ==
  ASSUME NEW r, LocalOk(r), NEW s, Typed(s), s.body = r.body, s.pc \in PlainPc,
         s.gen = 0 => Unowned(s)
  PROVE  LocalOk(s)
  BY DEF LocalOk, Shape, PlainPc, InTurn, Settling, Finishing, CommitPc

(* Any of failJob, completeJob, finalizeCancelled and                      *)
(* finalizeBudgetExhausted starts in order; without a lease only the       *)
(* cancellation at entry may.                                              *)
LEMMA FinishKeeps ==
  ASSUME NEW r, Typed(r), BodyFits(r.body), NEW final \in Terminal, NEW event \in EventType,
         NEW view \in Generation, NEW withDraft \in BOOLEAN,
         r.gen = 0 => ~withDraft /\ final = "cancelled"
  PROVE  LET s == Finish(r, final, event, view, withDraft) IN
         LocalOk(s) /\ s.gen = r.gen /\ s.pc = "finAppend"
<1> DEFINE s == Finish(r, final, event, view, withDraft)
<1>1. Typed(s)
  BY DEF Typed, RunCallOf, Finish, RunPc
<1>2. /\ s.pc = "finAppend" /\ s.gen = r.gen /\ s.body = r.body
      /\ s.withDraft = withDraft /\ s.final = final
  BY DEF Typed, RunCallOf, Finish
<1>3. Shape(s)
  BY <1>2 DEF Shape, InTurn, Settling, Finishing, CommitPc
<1>4. s.gen = 0 => Unowned(s)
  BY <1>2 DEF Unowned
<1> QED
  BY <1>1, <1>2, <1>3, <1>4 DEF LocalOk

(* The catch block of runJob and resumeJob starts in order.                *)
LEMMA ThrownKeeps ==
  ASSUME NEW r, LocalOk(r), r.gen # 0
  PROVE  LocalOk(Thrown(r)) /\ Thrown(r).gen = r.gen /\ Thrown(r).pc = "finAppend"
<1>1. r.gen \in Generation /\ r.drafted \in BOOLEAN
  BY DEF LocalOk, Typed, RunCallOf
<1>2. Typed(r) /\ BodyFits(r.body)
  BY DEF LocalOk, Shape
<1>3. "failed" \in Terminal /\ "error" \in EventType
  BY DEF Terminal, EventType
<1> QED
  BY <1>1, <1>2, <1>3, FinishKeeps DEF Thrown

(* commitBoundary starts in order when the plan it will return to is       *)
(* there.                                                                  *)
LEMMA CommitKeeps ==
  ASSUME NEW r, Typed(r), BodyFits(r.body), r.gen # 0, NEW to \in CommitTarget,
         to = "settle" => r.body.cont.type = "settle_tools" /\ r.body.cont.pending = r.pending,
         to = "finUpdate" => r.final \in Terminal
  PROVE  LocalOk(Commit(r, to)) /\ Commit(r, to).gen = r.gen /\ Commit(r, to).pc = "ckStatus"
<1> DEFINE s == Commit(r, to)
<1>1. Typed(s)
  BY DEF Typed, RunCallOf, Commit, RunPc
<1>2. /\ s.pc = "ckStatus" /\ s.gen = r.gen /\ s.body = r.body
      /\ s.pending = r.pending /\ s.commitTo = to /\ s.final = r.final
  BY DEF Typed, RunCallOf, Commit
<1>3. Shape(s)
  BY <1>2 DEF Shape, InTurn, Settling, Finishing, CommitPc
<1> QED
  BY <1>1, <1>2, <1>3 DEF LocalOk

-----------------------------------------------------------------------------
(* What the proofs need of the three rows: JobStore's own invariants, and  *)
(* a stored plan within the step budget.                                   *)
StoreOk ==
  StoreTypeOK /\ LeaseIsCurrent /\ CheckpointBehindLog /\ BodyFits(ckpt.body)

(* Every call is right by itself.                                          *)
RunsOk == \A p \in Procs : LocalOk(run[p])

(* A state that a quiet step may leave the call of p in: right by itself,  *)
(* of its own generation or of none, and not about to save.                *)
Good(p, s) == LocalOk(s) /\ s.gen \in {0, run[p].gen} /\ s.pc # "ckSave"

(* A record write that grants nothing: the generation stays, the lease     *)
(* stays, is dropped or has run out.                                       *)
QuietRec ==
  /\ rec' \in JobRecord
  /\ rec'.attempt = rec.attempt
  /\ \/ rec'.lease = rec.lease
     \/ rec'.lease = NoLease
     \/ rec'.lease = [rec.lease EXCEPT !.live = FALSE]

(* The log stays or grows at its end.                                      *)
QuietLog == log' = log \/ \E events \in Seq(RunEvent) : AppendEvents(events)

(* A quiet step of the three rows.                                         *)
Quiet == QuietRec /\ QuietLog /\ ckpt' = ckpt

(* A quiet step in which one call moves on.                                *)
QuietMove(p) == Quiet /\ \E s : Good(p, s) /\ Set(p, s)

(* Every patch the runner passes to updateJobRecord, releaseLease, and the *)
(* expiry of a lease are quiet.                                            *)
LEMMA PatchQuiet ==
  ASSUME StoreOk
  PROVE  /\ rec' = rec => QuietRec
         /\ \A s \in JobStatus : rec' = WithStatus(s) => QuietRec
         /\ \A s \in JobStatus : rec' = WithStatusNoLease(s) => QuietRec
         /\ rec' = WithCancel => QuietRec
         /\ rec' = WithSnapshot => QuietRec
         /\ \A token : ReleaseLease(token) => QuietRec
         /\ LeaseExpires => QuietRec
<1>1. rec \in JobRecord /\ rec.lease \in [token : Generation, live : BOOLEAN]
  BY DEF StoreOk, StoreTypeOK, JobRecord
<1>2. NoLease \in [token : Generation, live : BOOLEAN]
  BY RunnerAssumption DEF NoLease, Generation
<1>3. [rec.lease EXCEPT !.live = FALSE] \in [token : Generation, live : BOOLEAN]
  BY <1>1
<1>4. rec' = rec => QuietRec
  BY <1>1 DEF QuietRec
<1>5. \A s \in JobStatus : rec' = WithStatus(s) => QuietRec
  BY <1>1 DEF QuietRec, WithStatus, JobRecord
<1>6. \A s \in JobStatus : rec' = WithStatusNoLease(s) => QuietRec
  BY <1>1, <1>2 DEF QuietRec, WithStatusNoLease, JobRecord
<1>7. (rec' = WithCancel => QuietRec) /\ (rec' = WithSnapshot => QuietRec)
  BY <1>1 DEF QuietRec, WithCancel, WithSnapshot, JobRecord
<1>8. \A token : ReleaseLease(token) => QuietRec
  BY <1>1, <1>2 DEF QuietRec, ReleaseLease, JobRecord
<1>9. LeaseExpires => QuietRec
  BY <1>1, <1>3 DEF QuietRec, LeaseExpires, JobRecord
<1> QED
  BY <1>4, <1>5, <1>6, <1>7, <1>8, <1>9

(* A fenced status write is quiet whether it succeeds or throws.           *)
LEMMA WriteStatusQuiet ==
  ASSUME StoreOk, NEW p \in Procs, NEW status \in JobStatus, NEW next, NEW thrown,
         WriteStatus(p, status, next, thrown), Good(p, next), Good(p, thrown)
  PROVE  QuietMove(p)
<1>1. QuietRec
  BY PatchQuiet DEF WriteStatus, UpdateJobRecord
<1> QED
  BY <1>1 DEF QuietMove, Quiet, QuietLog, WriteStatus

(* A fenced append is quiet whether it succeeds or throws.                 *)
LEMMA AppendOwnQuiet ==
  ASSUME StoreOk, NEW p \in Procs, NEW events \in Seq(RunEvent), NEW next, NEW thrown,
         AppendOwn(p, events, next, thrown), Good(p, thrown),
         Len(log) + Len(events) <= MaxEvents => Good(p, next)
  PROVE  QuietMove(p)
<1>1. QuietRec
  BY PatchQuiet DEF AppendOwn
<1>2. QuietLog
  BY DEF QuietLog, AppendOwn, AppendFenced
<1> QED
  BY <1>1, <1>2 DEF QuietMove, Quiet, AppendOwn, AppendFenced, AppendEvents

(* A step that moves only its call is quiet.                               *)
LEMMA OnlyRunQuiet ==
  ASSUME StoreOk, NEW p \in Procs, NEW s, UNCHANGED <<rec, log, ckpt>>, Set(p, s), Good(p, s)
  PROVE  QuietMove(p)
  BY PatchQuiet DEF QuietMove, Quiet, QuietLog

(* The event constructors build events.                                    *)
LEMMA EventsTyped ==
  /\ \A type \in EventType : Ev(type) \in RunEvent
  /\ \A type \in EventType, key \in Key : EvKey(type, key) \in RunEvent
  /\ \A step \in 0..MaxSteps : EvTurn(step) \in RunEvent
  BY RunnerAssumption DEF Ev, EvKey, EvTurn, RunEvent, EventType, Key

-----------------------------------------------------------------------------
(* runJob and resumeJob start a call without a generation.                 *)
LEMMA RunJobQuiet ==
  ASSUME StoreOk, RunsOk, NEW p \in Procs, RunJob(p) \/ ResumeJob(p)
  PROVE  QuietMove(p)
<1>1. rec.attempt \in Generation
  BY DEF StoreOk, StoreTypeOK, JobRecord
<1>2. IdleRun.gen = 0
  BY DEF IdleRun
<1>3. Good(p, CancelledAtEntry)
  <2>1. /\ LocalOk(CancelledAtEntry) /\ CancelledAtEntry.gen = IdleRun.gen
        /\ CancelledAtEntry.pc = "finAppend"
    <3>1. "cancelled" \in Terminal /\ "cancelled" \in EventType /\ FALSE \in BOOLEAN
      BY DEF Terminal, EventType
    <3>2. Typed(IdleRun) /\ BodyFits(IdleRun.body)
      BY IdleOk DEF LocalOk, Shape
    <3> QED
      BY <3>1, <3>2, <1>1, FinishKeeps DEF CancelledAtEntry
  <2> QED
    BY <1>2, <2>1 DEF Good
<1>4. \A r : LocalOk(r) /\ r.gen = 0 =>
        /\ Good(p, [r EXCEPT !.pc = "acqRead"])
        /\ Good(p, [r EXCEPT !.pc = "recRead", !.mode = "resume"])
  <2> SUFFICES ASSUME NEW r, LocalOk(r), r.gen = 0
               PROVE  /\ Good(p, [r EXCEPT !.pc = "acqRead"])
                      /\ Good(p, [r EXCEPT !.pc = "recRead", !.mode = "resume"])
    OBVIOUS
  <2>1. Good(p, [r EXCEPT !.pc = "acqRead"])
    BY DEF Good, LocalOk, Typed, RunCallOf, RunPc, Shape, InTurn, Settling, Finishing, CommitPc, Unowned
  <2>2. Good(p, [r EXCEPT !.pc = "recRead", !.mode = "resume"])
    <3> DEFINE s == [r EXCEPT !.pc = "recRead", !.mode = "resume"]
    <3>1. Typed(s)
      BY DEF LocalOk, Typed, RunCallOf, RunPc
    <3>2. s.pc = "recRead" /\ s.gen = 0 /\ s.body = r.body
      BY DEF LocalOk, Typed, RunCallOf
    <3> QED
      BY <3>1, <3>2, PlainKeeps DEF Good, PlainPc, RunPc, CommitPc, Unowned
  <2> QED
    BY <2>1, <2>2
<1>5. /\ Good(p, [IdleRun EXCEPT !.pc = "acqRead"])
      /\ Good(p, [IdleRun EXCEPT !.pc = "recRead", !.mode = "resume"])
  BY <1>2, <1>4, IdleOk
<1> QED
  BY <1>3, <1>4, <1>5, OnlyRunQuiet DEF RunJob, ResumeJob

(* A call may always end, returning or throwing.                           *)
LEMMA RejectedGood ==
  ASSUME NEW p \in Procs
  PROVE Good(p, Rejected) /\ Good(p, IdleRun)
  BY IdleOk DEF Good, Rejected, IdleRun

(* The two reads before acquireLease are quiet.                            *)
LEMMA EntryQuiet ==
  ASSUME StoreOk, RunsOk, NEW p \in Procs, RecoverRead(p) \/ AcquireRead(p)
  PROVE  QuietMove(p)
<1>1. Good(p, Rejected)
  BY RejectedGood
<1>2. LocalOk(run[p])
  BY DEF RunsOk
<1>3. CASE RecoverRead(p)
  <2>1. rec.latestSnapshot \in BOOLEAN
    BY DEF StoreOk, StoreTypeOK, JobRecord
  <2> DEFINE snap == rec.latestSnapshot
             s == [run[p] EXCEPT !.pc = "acqRead", !.snapshot = snap]
  <2> HIDE DEF snap
  <2>a. snap \in BOOLEAN
    BY <2>1 DEF snap
  <2>b. s.body = run[p].body /\ s.gen = run[p].gen /\ s.pc = "acqRead"
    BY <1>2 DEF LocalOk, Typed, RunCallOf
  <2>c. Typed(s)
    BY <1>2, <2>a DEF LocalOk, Typed, RunCallOf, RunPc
  <2> HIDE DEF s
  <2>d. Good(p, s)
    BY <1>2, <2>b, <2>c DEF Good, LocalOk, Shape, InTurn, Settling, Finishing, CommitPc, Unowned
  <2>2. Good(p, [run[p] EXCEPT !.pc = "acqRead", !.snapshot = rec.latestSnapshot])
    BY <2>d DEF s, snap
  <2> QED
    BY <1>1, <1>3, <2>2, OnlyRunQuiet DEF RecoverRead
<1>4. CASE AcquireRead(p)
  <2>2. Good(p, [run[p] EXCEPT !.pc = "acqLease"])
    BY <1>2 DEF Good, LocalOk, Typed, RunCallOf, RunPc, Shape, InTurn, Settling, Finishing, CommitPc, Unowned
  <2> QED
    BY <1>1, <1>4, <2>2, OnlyRunQuiet DEF AcquireRead, Goto
<1> QED
  BY <1>3, <1>4

(* An owned call may move to any place that says nothing about the plan.   *)
LEMMA PlainGood ==
  ASSUME NEW p \in Procs, LocalOk(run[p]), run[p].gen # 0, NEW pc \in PlainPc
  PROVE  Good(p, [run[p] EXCEPT !.pc = pc])
<1>1. [run[p] EXCEPT !.pc = pc].body = run[p].body
  BY DEF LocalOk, Typed, RunCallOf
<1>2. Shape([run[p] EXCEPT !.pc = pc])
  BY <1>1, PcKeeps DEF PlainPc, Shape, InTurn, Settling, Finishing, CommitPc, LocalOk
<1> QED
  BY <1>2, PcKeeps DEF Good, PlainPc, CommitPc

(* An owned call may always throw into its catch block.                    *)
LEMMA ThrownGood ==
  ASSUME NEW p \in Procs, LocalOk(run[p]), run[p].gen # 0
  PROVE  Good(p, Thrown(run[p]))
  BY ThrownKeeps DEF Good

(* After acquireLease, and outside the terminal transition, a call has a   *)
(* generation.                                                             *)
LEMMA Owned ==
  ASSUME RunsOk, NEW p \in Procs,
         run[p].pc \notin {"idle", "recRead", "acqRead", "acqLease", "finAppend", "finUpdate", "dispose"}
  PROVE  LocalOk(run[p]) /\ run[p].gen # 0
  BY DEF RunsOk, LocalOk, Unowned

(* The status writes at the beginning of runJob and of a recovery are      *)
(* quiet.                                                                  *)
LEMMA StartQuiet ==
  ASSUME StoreOk, RunsOk, NEW p \in Procs, Start(p) \/ Resuming(p)
  PROVE  QuietMove(p)
<1>1. LocalOk(run[p]) /\ run[p].gen # 0
  BY Owned DEF Start, Resuming, At
<1>2. /\ Good(p, [run[p] EXCEPT !.pc = "createEnv"])
      /\ Good(p, [run[p] EXCEPT !.pc = "recover"])
      /\ Good(p, [run[p] EXCEPT !.pc = "parkRelease"])
      /\ Good(p, Thrown(run[p]))
  BY <1>1, PlainGood, ThrownGood DEF PlainPc, RunPc, CommitPc
<1> QED
  BY <1>2, WriteStatusQuiet DEF Start, Resuming, JobStatus

(* The same as PlainGood for any new record with the same body and         *)
(* generation.                                                             *)
LEMMA PlainMoveGood ==
  ASSUME NEW p \in Procs, LocalOk(run[p]), run[p].gen # 0, NEW s, Typed(s),
         s.body = run[p].body, s.gen = run[p].gen, s.pc \in PlainPc
  PROVE  Good(p, s)
  BY PlainKeeps DEF Good, PlainPc, CommitPc

(* Creating the environment and the session is quiet, also when it is      *)
(* refused.                                                                *)
LEMMA CreateEnvironmentQuiet ==
  ASSUME StoreOk, RunsOk, NEW p \in Procs, CreateEnvironment(p)
  PROVE  QuietMove(p)
<1>1. LocalOk(run[p]) /\ run[p].gen # 0
  BY Owned DEF CreateEnvironment, At
<1> DEFINE s == [run[p] EXCEPT !.pc = "started", !.ws = TRUE]
<1>2. Typed(s) /\ s.body = run[p].body /\ s.gen = run[p].gen /\ s.pc = "started"
  BY <1>1 DEF LocalOk, Typed, RunCallOf, RunPc
<1>3. Good(p, s) /\ Good(p, Thrown(run[p]))
  BY <1>1, <1>2, PlainMoveGood, ThrownGood DEF PlainPc, RunPc, CommitPc
<1> QED
  BY <1>3, OnlyRunQuiet DEF CreateEnvironment

(* The types of the rows, as the provers want them.                        *)
LEMMA StoreTypes ==
  ASSUME StoreOk
  PROVE  /\ rec.attempt \in Generation /\ rec.attempt \in Nat
         /\ rec \in JobRecord
         /\ log \in Seq(RunEvent) /\ Len(log) \in Nat /\ Len(log) \in Seqs
         /\ ckpt \in Checkpoint /\ ckpt.body \in RunBody
         /\ ckpt.lastEventSeq \in Seqs /\ ckpt.attempt \in Generation
  BY RunnerAssumption
  DEF StoreOk, StoreTypeOK, JobRecord, Generation, Checkpoint, Seqs

(* A single event that fits in the log has a seq.                          *)
LEMMA SingleEvent ==
  ASSUME StoreOk, NEW e \in RunEvent
  PROVE  /\ <<e>> \in Seq(RunEvent)
         /\ Len(<<e>>) = 1
         /\ Len(log) + Len(<<e>>) <= MaxEvents => Len(log) + 1 \in Seqs /\ Len(log) + 1 \in 1..MaxEvents
  BY StoreTypes, RunnerAssumption DEF Seqs

(* The draft of newDraft is a body.                                        *)
LEMMA NewBodyOk == NewBody \in RunBody /\ BodyFits(NewBody)
<1>1. IdleRun.body = NewBody
  BY DEF IdleRun
<1> QED
  BY <1>1, IdleOk DEF LocalOk, Typed, RunCallOf, Shape

(* The "started" event and the fresh draft are quiet.                      *)
LEMMA StartedQuiet ==
  ASSUME StoreOk, RunsOk, NEW p \in Procs, Started(p)
  PROVE  QuietMove(p)
<1>1. LocalOk(run[p]) /\ run[p].gen # 0
  BY Owned DEF Started, At
<1> DEFINE d == run[p].mode = "run"
           n == Len(log) + 1
           s == [run[p] EXCEPT !.pc = "drain0", !.body = NewBody, !.lastSeq = n,
                               !.session = << >>, !.applied = {}, !.drafted = d]
<1>2. Ev("started") \in RunEvent
  BY EventsTyped DEF EventType
<1>3. ASSUME Len(log) + 1 \in Seqs PROVE Good(p, s)
  <2>0. d \in BOOLEAN /\ n \in Seqs
    BY <1>3
  <2> HIDE DEF d, n
  <2>1. Typed(s)
    BY <1>1, <2>0, NewBodyOk DEF LocalOk, Typed, RunCallOf, RunPc
  <2>2. s.body = NewBody /\ s.gen = run[p].gen /\ s.pc = "drain0"
    BY <1>1 DEF LocalOk, Typed, RunCallOf
  <2>3. LocalOk(s)
    BY <1>1, <2>1, <2>2, NewBodyOk DEF LocalOk, Shape, InTurn, Settling, Finishing, CommitPc
  <2> QED
    BY <2>2, <2>3 DEF Good
<1> HIDE DEF s
<1>4. AppendOwn(p, <<Ev("started")>>, s, Thrown(run[p]))
  BY DEF Started, s
<1> QED
  BY <1>1, <1>2, <1>3, <1>4, ThrownGood, SingleEvent, AppendOwnQuiet

(* Seqs of admitted input are seqs.                                        *)
LEMMA UserSeqsTyped == \A n \in Seqs : UserSeqs(n) \subseteq Seqs
  BY RunnerAssumption DEF UserSeqs, Seqs

(* drainAdmittedInput is quiet.                                            *)
LEMMA DrainQuiet ==
  ASSUME StoreOk, RunsOk, NEW p \in Procs, Drain(p)
  PROVE  QuietMove(p)
<1>1. LocalOk(run[p]) /\ run[p].gen # 0
  BY Owned DEF Drain
<1> DEFINE fresh == UserSeqs(Len(log)) \ run[p].applied
           pc == IF run[p].pc = "drain0" THEN "runFresh" ELSE "turn"
           app == run[p].applied \cup fresh
           ses == run[p].session \o Ascending(fresh)
           s == [run[p] EXCEPT !.pc = pc, !.applied = app, !.session = ses]
<1>2. fresh \subseteq Seqs
  BY StoreTypes, UserSeqsTyped
<1>a. pc \in RunPc
  BY DEF RunPc
<1>b. run[p].applied \subseteq Seqs
  BY <1>1 DEF LocalOk, Typed, RunCallOf
<1>c. app \in SUBSET Seqs
  BY <1>2, <1>b
<1> HIDE DEF fresh, pc, app, ses
<1>3. Typed(s)
  BY <1>1, <1>a, <1>c DEF LocalOk, Typed, RunCallOf
<1>4. s.body = run[p].body /\ s.gen = run[p].gen /\ s.pc = pc
  BY <1>1 DEF LocalOk, Typed, RunCallOf
<1>5. LocalOk(s)
  BY <1>1, <1>3, <1>4 DEF pc, Drain, LocalOk, Shape, InTurn, Settling, Finishing, CommitPc
<1>6. Good(p, s)
  BY <1>4, <1>5 DEF Good, pc
<1>7. Set(p, s)
  BY DEF Drain, pc, app, ses, fresh
<1> HIDE DEF s
<1> QED
  BY <1>6, <1>7, OnlyRunQuiet DEF Drain

(* An owned call may enter a commit boundary whose target is prepared.     *)
LEMMA CommitGood ==
  ASSUME NEW p \in Procs, NEW r, Typed(r), BodyFits(r.body), r.gen = run[p].gen, r.gen # 0,
         NEW to \in CommitTarget,
         to = "settle" => r.body.cont.type = "settle_tools" /\ r.body.cont.pending = r.pending,
         to = "finUpdate" => r.final \in Terminal
  PROVE  Good(p, Commit(r, to))
  BY CommitKeeps DEF Good

(* The "running" status write is quiet.                                    *)
LEMMA SetRunningQuiet ==
  ASSUME StoreOk, RunsOk, NEW p \in Procs, SetRunning(p)
  PROVE  QuietMove(p)
<1>1. LocalOk(run[p]) /\ run[p].gen # 0
  BY Owned DEF SetRunning, At
<1>2. "loop" \in CommitTarget /\ "loop" \in PlainPc /\ "running" \in JobStatus
  BY DEF CommitTarget, PlainPc, RunPc, CommitPc, JobStatus
<1>3. /\ Good(p, Commit(run[p], "loop"))
      /\ Good(p, [run[p] EXCEPT !.pc = "loop"])
      /\ Good(p, Thrown(run[p]))
  BY <1>1, <1>2, CommitGood, PlainGood, ThrownGood DEF LocalOk, Shape
<1> QED
  BY <1>2, <1>3, WriteStatusQuiet DEF SetRunning

(* Loading and validating the checkpoint is quiet: the stored plan fits    *)
(* because StoreOk says so.                                                *)
LEMMA RecoverQuiet ==
  ASSUME StoreOk, RunsOk, NEW p \in Procs, Recover(p)
  PROVE  QuietMove(p)
<1>1. LocalOk(run[p]) /\ run[p].gen # 0
  BY Owned DEF Recover, At
<1> DEFINE s == [run[p] EXCEPT !.pc = "resumed", !.ws = TRUE, !.body = ckpt.body,
                                 !.lastSeq = ckpt.lastEventSeq, !.seen = Len(log)]
           t == [run[p] EXCEPT !.pc = "started", !.ws = TRUE, !.active = TRUE]
           u == [run[p] EXCEPT !.pc = "parkRelease"]
<1>2. Good(p, s)
  <2>1. Typed(s)
    BY <1>1, StoreTypes DEF LocalOk, Typed, RunCallOf, RunPc
  <2>2. s.body = ckpt.body /\ s.gen = run[p].gen /\ s.pc = "resumed"
    BY <1>1 DEF LocalOk, Typed, RunCallOf
  <2>3. LocalOk(s)
    BY <1>1, <2>1, <2>2 DEF StoreOk, LocalOk, Shape, InTurn, Settling, Finishing, CommitPc
  <2> QED
    BY <2>2, <2>3 DEF Good
<1>3. Good(p, t)
  <2>1. Typed(t) /\ t.body = run[p].body /\ t.gen = run[p].gen /\ t.pc = "started"
    BY <1>1 DEF LocalOk, Typed, RunCallOf, RunPc
  <2> QED
    BY <1>1, <2>1, PlainMoveGood DEF PlainPc, RunPc, CommitPc
<1>4. Good(p, u)
  BY <1>1, PlainGood DEF PlainPc, RunPc, CommitPc
<1> HIDE DEF s, t, u
<1>5. Set(p, s) \/ Set(p, t) \/ Set(p, u)
  BY DEF Recover, Goto, s, t, u
<1>6. QuietLog
  <2>1. <<Ev("warning")>> \in Seq(RunEvent)
    BY EventsTyped, SingleEvent DEF EventType
  <2> QED
    BY <2>1 DEF Recover, QuietLog
<1> QED
  BY <1>2, <1>3, <1>4, <1>5, <1>6, PatchQuiet DEF QuietMove, Quiet, Recover

(* The "resumed" event and the projection of the history are quiet.        *)
LEMMA ResumedQuiet ==
  ASSUME StoreOk, RunsOk, NEW p \in Procs, Resumed(p)
  PROVE  QuietMove(p)
<1>1. LocalOk(run[p]) /\ run[p].gen # 0
  BY Owned DEF Resumed, At
<1> DEFINE wm == run[p].lastSeq
           events == IF (wm + 1) .. run[p].seen = {} THEN <<Ev("resumed")>>
                     ELSE <<Ev("resumed"), Ev("warning")>>
           s == [run[p] EXCEPT !.pc = "runResumed", !.active = TRUE,
                         !.session = ProjectHistory(wm), !.applied = UserSeqs(wm)]
           u == [run[p] EXCEPT !.pc = "parkRelease"]
<1>2. events \in Seq(RunEvent)
  BY EventsTyped DEF EventType
<1>3. Good(p, s)
  <2>1. wm \in Seqs
    BY <1>1 DEF LocalOk, Typed, RunCallOf
  <2>2. UserSeqs(wm) \subseteq Seqs
    BY <2>1, UserSeqsTyped
  <2>3. Typed(s) /\ s.body = run[p].body /\ s.gen = run[p].gen /\ s.pc = "runResumed"
    BY <1>1, <2>2 DEF LocalOk, Typed, RunCallOf, RunPc
  <2> QED
    BY <1>1, <2>3, PlainMoveGood DEF PlainPc, RunPc, CommitPc
<1>4. Good(p, u)
  BY <1>1, PlainGood DEF PlainPc, RunPc, CommitPc
<1>5. AppendOwn(p, events, s, u)
  BY DEF Resumed
<1> HIDE DEF s, u, events
<1> QED
  BY <1>2, <1>3, <1>4, <1>5, AppendOwnQuiet

(* A failed recovery parks the job quietly.                                *)
LEMMA ParkQuiet ==
  ASSUME StoreOk, RunsOk, NEW p \in Procs, ParkRelease(p) \/ ParkUpdate(p)
  PROVE  QuietMove(p)
<1>1. LocalOk(run[p]) /\ run[p].gen # 0
  BY Owned DEF ParkRelease, ParkUpdate, At
<1>2. Good(p, [run[p] EXCEPT !.pc = "parkUpdate"])
  BY <1>1, PlainGood DEF PlainPc, RunPc, CommitPc
<1>3. CASE ParkRelease(p)
  BY <1>2, <1>3, PatchQuiet DEF ParkRelease, QuietMove, Quiet, QuietLog, Goto
<1>4. CASE ParkUpdate(p)
  BY <1>4, RejectedGood, WriteStatusQuiet DEF ParkUpdate, JobStatus
<1> QED
  BY <1>3, <1>4

(* An error inside a commit boundary throws to the right catch block:      *)
(* finUpdate's own for a terminal transition, the run's otherwise.         *)
LEMMA CommitThrownGood ==
  ASSUME NEW p \in Procs, LocalOk(run[p]), run[p].gen # 0
  PROVE  Good(p, CommitThrown(p))
<1> DEFINE s == [run[p] EXCEPT !.pc = "finUpdate"]
<1>1. /\ Typed(s) /\ s.body = run[p].body /\ s.gen = run[p].gen /\ s.pc = "finUpdate"
      /\ s.final = run[p].final
  BY DEF LocalOk, Typed, RunCallOf, RunPc
<1>2. run[p].final \in {"failed", "cancelled"} => Shape(s)
  BY <1>1 DEF LocalOk, Shape, InTurn, Settling, Finishing, CommitPc, Terminal
<1>3. run[p].final \in {"failed", "cancelled"} => Good(p, s)
  BY <1>1, <1>2 DEF Good, LocalOk
<1> HIDE DEF s
<1> QED
  BY <1>3, ThrownGood DEF CommitThrown, s

(* The four steps of a commit boundary other than the save.                *)
LEMMA CommitPcOk ==
  ASSUME NEW r, LocalOk(r), r.gen # 0, r.pc \in CommitPc, NEW pc \in RunPc,
         pc \in CommitPc \cup {r.commitTo}
  PROVE  LocalOk([r EXCEPT !.pc = pc]) /\ [r EXCEPT !.pc = pc].gen = r.gen
<1> DEFINE s == [r EXCEPT !.pc = pc]
<1>1. Typed(s) /\ s.pc = pc /\ s.gen = r.gen /\ s.body = r.body /\ s.pending = r.pending
      /\ s.commitTo = r.commitTo /\ s.final = r.final
  BY DEF LocalOk, Typed, RunCallOf
<1>2. r.commitTo \in CommitTarget
  BY DEF LocalOk, Typed, RunCallOf
<1>3. Shape(s)
  BY <1>1, <1>2 DEF LocalOk, Shape, InTurn, Settling, Finishing, CommitPc, CommitTarget
<1> QED
  BY <1>1, <1>3 DEF LocalOk

(* The two status writes around a checkpoint are quiet.                    *)
LEMMA CheckpointStatusQuiet ==
  ASSUME StoreOk, RunsOk, NEW p \in Procs, CheckpointStatus(p) \/ CheckpointResume(p)
  PROVE  QuietMove(p)
<1>1. LocalOk(run[p]) /\ run[p].gen # 0
  BY Owned DEF CheckpointStatus, CheckpointResume, At
<1>2. CASE CheckpointStatus(p)
  <2>1. "ckAppend" \in RunPc /\ "ckAppend" \in CommitPc /\ run[p].pc \in CommitPc
    BY <1>2 DEF RunPc, CommitPc, CheckpointStatus, At
  <2>2. LocalOk([run[p] EXCEPT !.pc = "ckAppend"]) /\ [run[p] EXCEPT !.pc = "ckAppend"].gen = run[p].gen
    BY <1>1, <2>1, CommitPcOk
  <2>3. Good(p, [run[p] EXCEPT !.pc = "ckAppend"])
    BY <1>1, <2>1, <2>2, PcKeeps DEF Good
  <2> QED
    BY <1>1, <1>2, <2>3, CommitThrownGood, WriteStatusQuiet DEF CheckpointStatus, JobStatus
<1>3. CASE CheckpointResume(p)
  <2>0. run[p].commitTo \in CommitTarget
    BY <1>1 DEF LocalOk, Typed, RunCallOf
  <2>1. run[p].commitTo \in RunPc /\ run[p].pc \in CommitPc /\ run[p].commitTo # "ckSave"
    BY <1>3, <2>0 DEF RunPc, CommitPc, CheckpointResume, At, CommitTarget
  <2>2. /\ LocalOk([run[p] EXCEPT !.pc = run[p].commitTo])
        /\ [run[p] EXCEPT !.pc = run[p].commitTo].gen = run[p].gen
    BY <1>1, <2>1, CommitPcOk
  <2>3. Good(p, [run[p] EXCEPT !.pc = run[p].commitTo])
    BY <1>1, <2>1, <2>2, PcKeeps DEF Good
  <2> QED
    BY <1>1, <1>3, <2>3, ThrownGood, WriteStatusQuiet DEF CheckpointResume, JobStatus
<1> QED
  BY <1>2, <1>3

(* An owned call may start any terminal transition.                        *)
LEMMA FinishGood ==
  ASSUME NEW p \in Procs, LocalOk(run[p]), run[p].gen # 0, NEW final \in Terminal,
         NEW event \in EventType, NEW view \in Generation, NEW withDraft \in BOOLEAN
  PROVE  Good(p, Finish(run[p], final, event, view, withDraft))
  BY FinishKeeps DEF Good, LocalOk, Shape

(* The terminal transitions that the loop starts.                          *)
LEMMA FinishesGood ==
  ASSUME StoreOk, NEW p \in Procs, LocalOk(run[p]), run[p].gen # 0
  PROVE  /\ Good(p, CancelledNow(p, "cancelled"))
         /\ Good(p, CancelledNow(p, "budget_exhausted"))
         /\ Good(p, Finish(run[p], "completed", "completed", run[p].gen, TRUE))
         /\ Good(p, Finish(run[p], "failed", "error", run[p].gen, TRUE))
<1>1. /\ {"completed", "failed", "cancelled"} \subseteq Terminal
      /\ {"completed", "error", "cancelled", "budget_exhausted"} \subseteq EventType
      /\ TRUE \in BOOLEAN
  BY DEF Terminal, EventType
<1>2. run[p].gen \in Generation
  BY DEF LocalOk, Typed, RunCallOf
<1> QED
  BY <1>1, <1>2, FinishGood, StoreTypes DEF CancelledNow

(* The outcomes of one pass over the loop's head.                          *)
LEMMA LoopCases ==
  ASSUME NEW p \in Procs, Loop(p)
  PROVE  \/ Set(p, CancelledNow(p, "cancelled"))
         \/ /\ ~Stop(p) /\ run[p].body.cont.type = "settle_tools"
            /\ Set(p, [run[p] EXCEPT !.pc = "settle", !.pending = run[p].body.cont.pending,
                                     !.resume = TRUE])
         \/ Set(p, Finish(run[p], "completed", "completed", run[p].gen, TRUE))
         \/ Set(p, Finish(run[p], "failed", "error", run[p].gen, TRUE))
         \/ /\ ~Stop(p) /\ run[p].body.cont.type \notin {"settle_tools", "done"}
            /\ ~(run[p].body.cont.type = "provider_turn" /\ run[p].body.cont.step >= MaxSteps)
            /\ Set(p, [run[p] EXCEPT !.pc = "drain"])
  BY Zenon DEF Loop

(* The parts of a body, as the provers want them.                          *)
LEMMA BodyParts ==
  ASSUME NEW b \in RunBody
  PROVE  /\ b.cont \in Continuation /\ b.calls \in [Key -> CallState] /\ b.steps \in Nat
         /\ b.cont.type \in {"provider_turn", "settle_tools", "done"}
         /\ b.cont.step \in 0..MaxSteps /\ b.cont.pending \in Seq(Key)
  BY DEF RunBody, Continuation

(* The head of the loop is quiet.                                          *)
LEMMA LoopQuiet ==
  ASSUME StoreOk, RunsOk, NEW p \in Procs, Loop(p)
  PROVE  QuietMove(p)
<1>1. LocalOk(run[p]) /\ run[p].gen # 0
  BY Owned DEF Loop, At
<1>2. run[p].body \in RunBody
  BY <1>1 DEF LocalOk, Typed, RunCallOf
<1> DEFINE s == [run[p] EXCEPT !.pc = "settle", !.pending = run[p].body.cont.pending,
                               !.resume = TRUE]
           t == [run[p] EXCEPT !.pc = "drain"]
<1>3. ASSUME run[p].body.cont.type = "settle_tools" PROVE Good(p, s)
  <2>0. run[p].body.cont.pending \in Seq(Key)
    BY <1>2, BodyParts
  <2>1. Typed(s)
    BY <1>1, <2>0 DEF LocalOk, Typed, RunCallOf, RunPc
  <2>2. /\ s.body = run[p].body /\ s.gen = run[p].gen /\ s.pc = "settle"
        /\ s.pending = run[p].body.cont.pending
    BY <1>1 DEF LocalOk, Typed, RunCallOf
  <2>3. LocalOk(s)
    BY <1>1, <1>3, <2>1, <2>2 DEF LocalOk, Shape, InTurn, Settling, Finishing, CommitPc
  <2> QED
    BY <2>2, <2>3 DEF Good
<1>4. ASSUME run[p].body.cont.type \notin {"settle_tools", "done"},
             ~(run[p].body.cont.type = "provider_turn" /\ run[p].body.cont.step >= MaxSteps)
      PROVE  Good(p, t)
  <2>1. Typed(t) /\ t.body = run[p].body /\ t.gen = run[p].gen /\ t.pc = "drain"
    BY <1>1 DEF LocalOk, Typed, RunCallOf, RunPc
  <2>2. run[p].body.cont.type = "provider_turn" /\ run[p].body.cont.step < MaxSteps
    BY <1>2, <1>4, BodyParts, RunnerAssumption
  <2>3. LocalOk(t)
    BY <1>1, <2>1, <2>2 DEF LocalOk, Shape, InTurn, Settling, Finishing, CommitPc
  <2> QED
    BY <2>1, <2>3 DEF Good
<1> HIDE DEF s, t
<1>5. \E x : Set(p, x) /\ Good(p, x)
  <2>1. \/ Set(p, CancelledNow(p, "cancelled"))
        \/ run[p].body.cont.type = "settle_tools" /\ Set(p, s)
        \/ Set(p, Finish(run[p], "completed", "completed", run[p].gen, TRUE))
        \/ Set(p, Finish(run[p], "failed", "error", run[p].gen, TRUE))
        \/ /\ run[p].body.cont.type \notin {"settle_tools", "done"}
           /\ ~(run[p].body.cont.type = "provider_turn" /\ run[p].body.cont.step >= MaxSteps)
           /\ Set(p, t)
    BY LoopCases DEF s, t
  <2> QED
    BY <1>1, <1>3, <1>4, <2>1, FinishesGood
<1> QED
  BY <1>5, OnlyRunQuiet DEF Loop

(* The provider turn, and running out of budget, are quiet.                *)
LEMMA TurnQuiet ==
  ASSUME StoreOk, RunsOk, NEW p \in Procs, Turn(p) \/ BudgetExhausted(p)
  PROVE  QuietMove(p)
<1>1. LocalOk(run[p]) /\ run[p].gen # 0
  BY Owned DEF Turn, BudgetExhausted, At
<1>2. ASSUME NEW calls \in Turns, At(p, "turn")
      PROVE  Good(p, [run[p] EXCEPT !.pc = "turnAppend", !.turn = calls])
  <2> DEFINE s == [run[p] EXCEPT !.pc = "turnAppend", !.turn = calls]
  <2>a. Typed(s)
    BY <1>1 DEF LocalOk, Typed, RunCallOf, RunPc
  <2>b. s.body = run[p].body /\ s.gen = run[p].gen /\ s.pc = "turnAppend"
    BY <1>1 DEF LocalOk, Typed, RunCallOf
  <2>1. Typed(s) /\ s.body = run[p].body /\ s.gen = run[p].gen /\ s.pc = "turnAppend"
    BY <2>a, <2>b
  <2>2. LocalOk(s)
    BY <1>1, <1>2, <2>1 DEF At, LocalOk, Shape, InTurn, Settling, Finishing, CommitPc
  <2> QED
    BY <2>1, <2>2 DEF Good
<1> QED
  BY <1>1, <1>2, FinishesGood, OnlyRunQuiet DEF Turn, BudgetExhausted

(* Running a tool touches no row of the store.                             *)
LEMMA ExecuteQuiet ==
  ASSUME StoreOk, RunsOk, NEW p \in Procs, Execute(p)
  PROVE  QuietMove(p)
<1>1. LocalOk(run[p]) /\ run[p].gen # 0
  BY Owned DEF Execute, At
<1> DEFINE s == [run[p] EXCEPT !.pc = "respAppend"]
<1>2. /\ Typed(s) /\ s.body = run[p].body /\ s.gen = run[p].gen
      /\ s.pc = "respAppend" /\ s.pending = run[p].pending
  BY <1>1 DEF LocalOk, Typed, RunCallOf, RunPc
<1>3. LocalOk(s)
  BY <1>1, <1>2 DEF Execute, At, LocalOk, Shape, InTurn, Settling, Finishing, CommitPc
<1>4. Good(p, s)
  BY <1>2, <1>3 DEF Good
<1> QED
  BY <1>4, OnlyRunQuiet DEF Execute, Goto

(* Disposing the environment and releasing the lease are quiet.            *)
LEMMA DisposeQuiet ==
  ASSUME StoreOk, RunsOk, NEW p \in Procs, Dispose(p) \/ Release(p)
  PROVE  QuietMove(p)
<1>1. LocalOk(run[p])
  BY DEF RunsOk
<1>2. CASE Dispose(p)
  <2> DEFINE s == [run[p] EXCEPT !.pc = run[p].finTo, !.final = "none", !.finTo = "release"]
  <2>1. run[p].finTo \in {"release", "loop"}
    BY <1>1 DEF LocalOk, Typed, RunCallOf
  <2>a. Typed(s)
    <3> DEFINE pc == run[p].finTo
    <3>1. pc \in RunPc
      BY <2>1 DEF RunPc
    <3> HIDE DEF pc
    <3>2. Typed([run[p] EXCEPT !.pc = pc, !.final = "none", !.finTo = "release"])
      BY <1>1, <3>1 DEF LocalOk, Typed, RunCallOf
    <3> QED
      BY <3>2 DEF pc
  <2>b. s.body = run[p].body /\ s.gen = run[p].gen /\ s.pc = run[p].finTo
    BY <1>1 DEF LocalOk, Typed, RunCallOf
  <2>2. Typed(s) /\ s.body = run[p].body /\ s.gen = run[p].gen /\ s.pc = run[p].finTo
    BY <2>a, <2>b
  <2>3. run[p].finTo \in PlainPc
    BY <2>1 DEF PlainPc, RunPc, CommitPc
  <2>4. run[p].gen # 0 => Good(p, s)
    BY <1>1, <2>2, <2>3, PlainMoveGood
  <2>5. Set(p, IdleRun) \/ (run[p].gen # 0 /\ Set(p, s))
    BY <1>2 DEF Dispose
  <2> HIDE DEF s
  <2> QED
    BY <1>2, <2>4, <2>5, RejectedGood, OnlyRunQuiet DEF Dispose
<1>3. CASE Release(p)
  BY <1>3, PatchQuiet, RejectedGood DEF Release, QuietMove, Quiet, QuietLog
<1> QED
  BY <1>2, <1>3

(* Replacing the continuation of a body.                                   *)
LEMMA WithCont ==
  ASSUME NEW b \in RunBody, NEW c \in Continuation
  PROVE  /\ [b EXCEPT !.cont = c] \in RunBody
         /\ [b EXCEPT !.cont = c].cont = c
         /\ [b EXCEPT !.cont = c].calls = b.calls
         /\ [b EXCEPT !.cont = c].steps = b.steps
  BY DEF RunBody

(* The continuation of a completed job.                                    *)
LEMMA DoneOk == Done \in Continuation /\ Done.type = "done"
  BY RunnerAssumption DEF Done, Continuation

(* Replacing the body of a call.                                           *)
LEMMA WithBody ==
  ASSUME NEW r, Typed(r), NEW b \in RunBody
  PROVE  /\ Typed([r EXCEPT !.body = b])
         /\ [r EXCEPT !.body = b].body = b
         /\ [r EXCEPT !.body = b].gen = r.gen
         /\ [r EXCEPT !.body = b].pc = r.pc
         /\ [r EXCEPT !.body = b].pending = r.pending
         /\ [r EXCEPT !.body = b].final = r.final
         /\ [r EXCEPT !.body = b].withDraft = r.withDraft
         /\ [r EXCEPT !.body = b].session = r.session
  BY DEF Typed, RunCallOf

(* Replacing the session of a call.                                        *)
LEMMA WithSession ==
  ASSUME NEW r, Typed(r), NEW ses
  PROVE  /\ Typed([r EXCEPT !.session = ses])
         /\ [r EXCEPT !.session = ses].body = r.body
         /\ [r EXCEPT !.session = ses].gen = r.gen
         /\ [r EXCEPT !.session = ses].pc = r.pc
         /\ [r EXCEPT !.session = ses].pending = r.pending
         /\ [r EXCEPT !.session = ses].commitTo = r.commitTo
         /\ [r EXCEPT !.session = ses].final = r.final
         /\ [r EXCEPT !.session = ses].withDraft = r.withDraft
  BY DEF Typed, RunCallOf

(* The assistant message and the decision after it are quiet.              *)
LEMMA TurnAppendQuiet ==
  ASSUME StoreOk, RunsOk, NEW p \in Procs, TurnAppend(p)
  PROVE  QuietMove(p)
<1>1. LocalOk(run[p]) /\ run[p].gen # 0
  BY Owned DEF TurnAppend, At
<1> DEFINE r == run[p]
           step == r.body.cont.step
           bod == [r.body EXCEPT !.steps = @ + 1]
           ses == Append(r.session, Len(log) + 1)
           after == [r EXCEPT !.body = bod, !.session = ses]
           exhausted == [after EXCEPT !.pc = "budget"]
           fin == [after EXCEPT !.body.cont = Done]
           stop == Finish(fin, "completed", "completed", r.gen, TRUE)
           req == [after EXCEPT !.pc = "reqAppend"]
<1>2. /\ r.body \in RunBody /\ BodyFits(r.body) /\ r.pc = "turnAppend"
      /\ r.body.cont.type = "provider_turn" /\ step < MaxSteps /\ step \in 0..MaxSteps
      /\ r.gen \in Generation
  <2>1. r.body \in RunBody /\ r.gen \in Generation
    BY <1>1 DEF LocalOk, Typed, RunCallOf
  <2>2. r.pc = "turnAppend"
    BY DEF TurnAppend, At
  <2>3. BodyFits(r.body) /\ r.body.cont.type = "provider_turn" /\ step < MaxSteps
    BY <1>1, <2>2 DEF LocalOk, Shape, InTurn
  <2> QED
    BY <2>1, <2>2, <2>3, BodyParts
<1>3. bod \in RunBody /\ bod.cont = r.body.cont
  BY <1>2 DEF RunBody
<1>4. Typed(after) /\ after.body = bod /\ after.gen = r.gen /\ after.pc = "turnAppend"
  <2> HIDE DEF bod, ses
  <2> QED
    BY <1>1, <1>2, <1>3 DEF LocalOk, Typed, RunCallOf
<1> HIDE DEF after
<1>5. LocalOk(after)
  BY <1>1, <1>2, <1>3, <1>4 DEF LocalOk, Shape, BodyFits, InTurn, Settling, Finishing, CommitPc
<1>6. Good(p, exhausted)
  <2>1. exhausted.body = after.body /\ exhausted.gen = r.gen /\ exhausted.pc = "budget" /\ Typed(exhausted)
    BY <1>4 DEF Typed, RunCallOf, RunPc
  <2> QED
    BY <1>1, <1>5, <2>1, PlainKeeps DEF Good, PlainPc, RunPc, CommitPc
<1>7. Good(p, stop)
  <2>0. after.body \in RunBody
    BY <1>3, <1>4
  <2> DEFINE end == [after.body EXCEPT !.cont = Done]
  <2>a. end \in RunBody /\ end.cont = Done
    BY <2>0, DoneOk, WithCont
  <2>b. fin = [after EXCEPT !.body = end]
    OBVIOUS
  <2> HIDE DEF end, fin
  <2>1. Typed(fin) /\ fin.body.cont = Done /\ fin.gen = r.gen
    BY <1>4, <2>a, <2>b, WithBody
  <2>2. BodyFits(fin.body)
    BY <2>1, DoneOk DEF BodyFits
  <2>3. "completed" \in Terminal /\ "completed" \in EventType /\ TRUE \in BOOLEAN
    BY DEF Terminal, EventType
  <2> QED
    BY <1>1, <1>2, <2>1, <2>2, <2>3, FinishKeeps DEF Good
<1>8. Good(p, req)
  <2>1. req.body = after.body /\ req.gen = r.gen /\ req.pc = "reqAppend" /\ Typed(req)
    BY <1>4 DEF Typed, RunCallOf, RunPc
  <2>2. Shape(req)
    BY <2>1, <1>2, <1>3, <1>4 DEF Shape, BodyFits, InTurn, Settling, Finishing, CommitPc
  <2> QED
    BY <1>1, <2>1, <2>2 DEF Good, LocalOk
<1>9. EvTurn(step) \in RunEvent
  BY <1>2, EventsTyped
<1> HIDE DEF exhausted, stop, req
<1>10. \/ AppendOwn(p, <<EvTurn(step)>>, exhausted, Thrown(r))
       \/ AppendOwn(p, <<EvTurn(step)>>, IF r.turn = << >> THEN stop ELSE req, Thrown(r))
  BY DEF TurnAppend, exhausted, stop, req, after
<1>11. Good(p, IF r.turn = << >> THEN stop ELSE req) /\ Good(p, Thrown(r))
  BY <1>1, <1>7, <1>8, ThrownGood
<1>12. <<EvTurn(step)>> \in Seq(RunEvent)
  BY <1>9
<1> QED
  BY <1>6, <1>10, <1>11, <1>12, AppendOwnQuiet

(* The keys a turn's calls are recorded under, their request events, and   *)
(* the table after they are recorded.                                      *)
TurnKeys(step, turn) == [i \in DOMAIN turn |-> <<step, turn[i]>>]

(* The tool_request events of a turn.                                      *)
TurnEvents(keys) == [i \in DOMAIN keys |-> EvKey("tool_request", keys[i])]

(* The idempotency table after a turn's requests are appended at n.        *)
TurnCalls(calls, keys, n) ==
  [k \in Key |-> IF \E i \in DOMAIN keys : keys[i] = k
     THEN Recorded(n + (CHOOSE i \in DOMAIN keys : keys[i] = k))
     ELSE calls[k]]

(* A turn's calls become keys and request events, one for each.            *)
LEMMA TurnTyped ==
  ASSUME NEW step \in 0..MaxSteps, step < MaxSteps, NEW turn \in Turns \cup {<< >>}
  PROVE  /\ TurnKeys(step, turn) \in Seq(Key)
         /\ Len(TurnKeys(step, turn)) = Len(turn)
         /\ TurnEvents(TurnKeys(step, turn)) \in Seq(RunEvent)
         /\ Len(TurnEvents(TurnKeys(step, turn))) = Len(turn)
<1>1. turn \in Seq(Calls)
  <2>1. Turns \subseteq Seq(Calls) /\ << >> \in Seq(Calls)
    BY RunnerAssumption
  <2> QED
    BY <2>1
<1>2. step \in 0 .. MaxSteps - 1
  BY RunnerAssumption
<1>3. DOMAIN turn = 1..Len(turn) /\ Len(turn) \in Nat
  BY <1>1
<1>4. \A i \in 1..Len(turn) : <<step, turn[i]>> \in Key
  BY <1>1, <1>2 DEF Key
<1> DEFINE keys == TurnKeys(step, turn)
<1>5. keys \in Seq(Key) /\ Len(keys) = Len(turn) /\ DOMAIN keys = 1..Len(turn)
  <2>1. keys = [i \in 1..Len(turn) |-> <<step, turn[i]>>]
    BY <1>3 DEF TurnKeys
  <2> QED
    BY <1>3, <1>4, <2>1
<1> HIDE DEF keys
<1>6. \A i \in 1..Len(turn) : EvKey("tool_request", keys[i]) \in RunEvent
  <2>1. "tool_request" \in EventType
    BY DEF EventType
  <2> QED
    BY <1>5, <2>1, EventsTyped
<1>7. TurnEvents(keys) \in Seq(RunEvent) /\ Len(TurnEvents(keys)) = Len(turn)
  <2>1. TurnEvents(keys) = [i \in 1..Len(turn) |-> EvKey("tool_request", keys[i])]
    BY <1>5 DEF TurnEvents
  <2> QED
    BY <1>3, <1>6, <2>1
<1> QED
  BY <1>5, <1>7 DEF keys

(* Recording a turn that fits in the log keeps the table's type.           *)
LEMMA TurnCallsTyped ==
  ASSUME NEW calls \in [Key -> CallState], NEW keys \in Seq(Key), NEW n \in Nat,
         n + Len(keys) <= MaxEvents
  PROVE  TurnCalls(calls, keys, n) \in [Key -> CallState]
<1> SUFFICES ASSUME NEW k \in Key, \E i \in DOMAIN keys : keys[i] = k
             PROVE  Recorded(n + (CHOOSE i \in DOMAIN keys : keys[i] = k)) \in CallState
  BY DEF TurnCalls
<1> DEFINE j == CHOOSE i \in DOMAIN keys : keys[i] = k
<1>1. j \in DOMAIN keys
  OBVIOUS
<1> HIDE DEF j
<1>2. n + j \in 0..MaxEvents
  BY <1>1, RunnerAssumption
<1>3. NotCalled \in CallState
  BY RunnerAssumption DEF NotCalled, CallState
<1>4. Recorded(n + j) \in CallState
  BY <1>2, <1>3 DEF Recorded, CallState
<1> QED
  BY <1>4 DEF j

(* The continuation recorded with a turn's requests.                       *)
LEMMA SettleToolsOk ==
  ASSUME NEW n \in 0..MaxSteps, NEW keys \in Seq(Key)
  PROVE  /\ SettleTools(n, keys) \in Continuation
         /\ SettleTools(n, keys).type = "settle_tools"
         /\ SettleTools(n, keys).step = n
         /\ SettleTools(n, keys).pending = keys
  BY DEF SettleTools, Continuation

(* Recording a turn's tool calls is quiet.                                 *)
LEMMA RequestAppendQuiet ==
  ASSUME StoreOk, RunsOk, NEW p \in Procs, RequestAppend(p)
  PROVE  QuietMove(p)
<1>1. LocalOk(run[p]) /\ run[p].gen # 0
  BY Owned DEF RequestAppend, At
<1> DEFINE r == run[p]
           step == r.body.cont.step
           keys == TurnKeys(step, r.turn)
           events == TurnEvents(keys)
           calls == TurnCalls(r.body.calls, keys, Len(log))
           plan == SettleTools(step, keys)
           t == [r EXCEPT !.body.calls = calls, !.body.cont = plan,
                          !.pending = keys, !.resume = FALSE]
<1>2. r.body \in RunBody /\ r.turn \in Turns \cup {<< >>}
  BY <1>1 DEF LocalOk, Typed, RunCallOf
<1>3. step \in 0..MaxSteps /\ step < MaxSteps /\ r.body.calls \in [Key -> CallState]
  <2>1. r.pc = "reqAppend"
    BY DEF RequestAppend, At
  <2>2. step < MaxSteps
    BY <1>1, <2>1 DEF LocalOk, Shape, InTurn
  <2> QED
    BY <1>2, <2>2, BodyParts
<1>4. /\ keys \in Seq(Key) /\ events \in Seq(RunEvent)
      /\ Len(events) = Len(keys)
  BY <1>2, <1>3, TurnTyped
<1>5. plan \in Continuation /\ plan.type = "settle_tools" /\ plan.pending = keys /\ plan.step = step
  BY <1>3, <1>4, SettleToolsOk
<1>6. AppendOwn(p, events, Commit(t, "settle"), Thrown(r))
  BY DEF RequestAppend, TurnKeys, TurnEvents, TurnCalls
<1> HIDE DEF keys, events, calls, plan
<1>7. ASSUME Len(log) + Len(events) <= MaxEvents PROVE Good(p, Commit(t, "settle"))
  <2>1. calls \in [Key -> CallState]
    BY <1>3, <1>4, <1>7, TurnCallsTyped, StoreTypes DEF calls
  <2> DEFINE b == [r.body EXCEPT !.calls = calls, !.cont = plan]
  <2>2. b \in RunBody /\ b.cont = plan
    BY <1>2, <1>5, <2>1 DEF RunBody
  <2>3. t = [r EXCEPT !.body = b, !.pending = keys, !.resume = FALSE]
    BY <1>1, <1>2 DEF LocalOk, Typed, RunCallOf, RunBody
  <2> HIDE DEF b, t
  <2>4. Typed(t) /\ t.body = b /\ t.gen = r.gen /\ t.pending = keys
    BY <1>1, <1>4, <2>2, <2>3 DEF LocalOk, Typed, RunCallOf
  <2>5. BodyFits(t.body)
    BY <1>3, <1>5, <2>2, <2>4 DEF BodyFits
  <2>6. "settle" \in CommitTarget
    BY DEF CommitTarget
  <2> QED
    BY <1>1, <1>5, <2>2, <2>4, <2>5, <2>6, CommitGood
<1> HIDE DEF t
<1> QED
  BY <1>1, <1>4, <1>6, <1>7, ThrownGood, AppendOwnQuiet

-----------------------------------------------------------------------------
(* Head and tail of a pending list.                                        *)
LEMMA PendingParts ==
  ASSUME NEW pending \in Seq(Key), pending # << >>
  PROVE  Head(pending) \in Key /\ Tail(pending) \in Seq(Key)
  OBVIOUS

(* Striking the settled call off the plan leads into a commit boundary     *)
(* that returns to settleTools.                                            *)
LEMMA SettledGood ==
  ASSUME NEW p \in Procs, LocalOk(run[p]), run[p].gen # 0, run[p].pending # << >>,
         NEW b \in RunBody, b.cont.step < MaxSteps
  PROVE  /\ Good(p, Settled(p, b))
         /\ Typed(Settled(p, b)) /\ Settled(p, b).pc = "ckStatus"
<1> DEFINE r == run[p]
           rest == Tail(r.pending)
           c == [b EXCEPT !.cont = SettleTools(b.cont.step, rest)]
           t == [r EXCEPT !.pending = rest, !.body = c]
<1>1. rest \in Seq(Key)
  <2>1. r.pending \in Seq(Key)
    BY DEF LocalOk, Typed, RunCallOf
  <2> QED
    BY <2>1, PendingParts
<1>2. b.cont.step \in 0..MaxSteps
  BY BodyParts
<1> HIDE DEF rest
<1>3. /\ c \in RunBody /\ c.cont.type = "settle_tools" /\ c.cont.pending = rest
      /\ c.cont.step = b.cont.step
  BY <1>1, <1>2, SettleToolsOk, WithCont
<1> HIDE DEF c
<1>4. Typed(t) /\ t.body = c /\ t.gen = r.gen /\ t.pending = rest
  BY <1>1, <1>3 DEF LocalOk, Typed, RunCallOf
<1>5. BodyFits(t.body)
  BY <1>3, <1>4 DEF BodyFits
<1>6. "settle" \in CommitTarget
  BY DEF CommitTarget
<1>7. Settled(p, b) = Commit(t, "settle")
  BY DEF Settled, c, rest
<1> HIDE DEF t
<1> QED
  BY <1>3, <1>4, <1>5, <1>6, <1>7, CommitGood, CommitKeeps DEF LocalOk

(* What settleTools may do with the head of its list.                      *)
LEMMA SettleHeadCases ==
  ASSUME NEW p \in Procs
  PROVE  LET r == run[p]
             key == Head(r.pending) IN
         \/ SettleHead(p) = [r EXCEPT !.pc = "loop"]
         \/ SettleHead(p) = Settled(p, r.body)
         \/ SettleHead(p) = Thrown(r)
         \/ SettleHead(p) = [Finish(r, "failed", "error", r.gen, TRUE) EXCEPT !.finTo = "loop"]
         \/ SettleHead(p) = [r EXCEPT !.pc = "uncAppend"]
         \/ SettleHead(p) = [r EXCEPT !.pc = IF key[2] \in Allowed THEN "exec" ELSE "respAppend"]
  BY Zenon DEF SettleHead

(* Looking at the head of the pending list is quiet.                       *)
LEMMA SettleQuiet ==
  ASSUME StoreOk, RunsOk, NEW p \in Procs, Settle(p)
  PROVE  QuietMove(p)
<1>1. LocalOk(run[p]) /\ run[p].gen # 0
  BY Owned DEF Settle, At
<1> DEFINE r == run[p]
<1>2. r.body \in RunBody /\ BodyFits(r.body) /\ Typed(r) /\ r.gen \in Generation
  BY <1>1 DEF LocalOk, Typed, RunCallOf, Shape
<1>3. /\ r.body.cont.type = "settle_tools" /\ r.body.cont.pending = r.pending
      /\ r.body.cont.step < MaxSteps /\ r.body.cont.step \in 0..MaxSteps
  <2>1. Settling(r)
    BY DEF Settle, At, Settling
  <2> QED
    BY <1>1, <1>2, <2>1, BodyParts DEF LocalOk, Shape, BodyFits
<1>4. ASSUME r.pending # << >> PROVE Good(p, SettleHead(p))
  <2>1. /\ Good(p, [r EXCEPT !.pc = "loop"]) /\ Good(p, Settled(p, r.body))
        /\ Good(p, Thrown(r))
    BY <1>1, <1>2, <1>3, <1>4, PlainGood, SettledGood, ThrownGood
    DEF PlainPc, RunPc, CommitPc
  <2>2. Good(p, [Finish(r, "failed", "error", r.gen, TRUE) EXCEPT !.finTo = "loop"])
    <3> DEFINE f == Finish(r, "failed", "error", r.gen, TRUE)
               s == [f EXCEPT !.finTo = "loop"]
    <3>1. LocalOk(f) /\ f.gen = r.gen /\ f.pc = "finAppend"
      <4>1. "failed" \in Terminal /\ "error" \in EventType /\ TRUE \in BOOLEAN
        BY DEF Terminal, EventType
      <4> QED
        BY <1>1, <1>2, <4>1, FinishKeeps
    <3> HIDE DEF f
    <3>2. /\ Typed(s) /\ s.body = f.body /\ s.gen = f.gen /\ s.pc = f.pc
          /\ s.final = f.final
      BY <3>1 DEF LocalOk, Typed, RunCallOf
    <3> HIDE DEF s
    <3>4. LocalOk(s)
      BY <1>1, <3>1, <3>2 DEF LocalOk, Shape, InTurn, Settling, Finishing, CommitPc
    <3>5. Good(p, s)
      BY <3>1, <3>2, <3>4 DEF Good
    <3> QED
      BY <3>5 DEF s, f
  <2>3. ASSUME NEW pc \in {"exec", "respAppend", "uncAppend"}
        PROVE  Good(p, [r EXCEPT !.pc = pc])
    <3> DEFINE s == [r EXCEPT !.pc = pc]
    <3>1. Typed(s) /\ s.body = r.body /\ s.gen = r.gen /\ s.pc = pc /\ s.pending = r.pending
      BY <1>2, <2>3 DEF Typed, RunCallOf, RunPc
    <3>2. Shape(s)
      BY <1>2, <1>3, <1>4, <3>1 DEF Shape, BodyFits, InTurn, Settling, Finishing, CommitPc
    <3> QED
      BY <1>1, <3>1, <3>2 DEF Good, LocalOk
  <2> QED
    BY <2>1, <2>2, <2>3, SettleHeadCases
<1> DEFINE next == ProviderTurn(r.body.cont.step + 1)
           t == [r EXCEPT !.body.cont = ProviderTurn(@.step + 1)]
<1>5. Good(p, Commit(t, "loop"))
  <2> DEFINE n == r.body.cont.step
  <2>b. n \in 0..MaxSteps /\ n < MaxSteps /\ MaxSteps \in Nat
    BY <1>3, RunnerAssumption
  <2> HIDE DEF n
  <2>c. n + 1 \in 0..MaxSteps
    BY <2>b
  <2>0. r.body.cont.step + 1 \in 0..MaxSteps
    BY <2>c DEF n
  <2>1. next \in Continuation /\ next.type = "provider_turn"
    BY <2>0 DEF ProviderTurn, Continuation
  <2>2. t = [r EXCEPT !.body = [r.body EXCEPT !.cont = next]]
    OBVIOUS
  <2> HIDE DEF t, next
  <2> DEFINE b == [r.body EXCEPT !.cont = next]
  <2>a. b \in RunBody /\ b.cont = next
    BY <1>2, <2>1, WithCont
  <2>d. t = [r EXCEPT !.body = b]
    BY <2>2
  <2> HIDE DEF b
  <2>e. Typed([r EXCEPT !.body = b]) /\ [r EXCEPT !.body = b].body = b /\ [r EXCEPT !.body = b].gen = r.gen
    BY <1>2, <2>a, WithBody
  <2>3. Typed(t) /\ t.body.cont = next /\ t.gen = r.gen
    BY <2>a, <2>d, <2>e
  <2>4. BodyFits(t.body) /\ "loop" \in CommitTarget
    BY <2>1, <2>3 DEF BodyFits, CommitTarget
  <2> QED
    BY <1>1, <2>3, <2>4, CommitGood
<1>6. \/ r.pending # << >> /\ Set(p, SettleHead(p))
      \/ Set(p, Commit(t, "loop"))
  BY DEF Settle
<1> HIDE DEF t
<1> QED
  BY <1>4, <1>5, <1>6, OnlyRunQuiet DEF Settle

(* Changing one entry of the idempotency table.                            *)
LEMMA MarkedBody ==
  ASSUME NEW b \in RunBody, NEW key \in Key, NEW cs \in CallState
  PROVE  /\ [b EXCEPT !.calls[key] = cs] \in RunBody
         /\ [b EXCEPT !.calls[key] = cs].cont = b.cont
         /\ [b EXCEPT !.calls[key] = cs].steps = b.steps
         /\ [b EXCEPT !.calls[key] = cs].calls = [b.calls EXCEPT ![key] = cs]
  BY DEF RunBody

(* Appending a tool's response, certain or not, is quiet.                  *)
LEMMA ResponseQuiet ==
  ASSUME StoreOk, RunsOk, NEW p \in Procs, ResponseAppend(p) \/ UncertainAppend(p)
  PROVE  QuietMove(p)
<1>1. LocalOk(run[p]) /\ run[p].gen # 0
  BY Owned DEF ResponseAppend, UncertainAppend, At
<1> DEFINE r == run[p]
           key == Head(r.pending)
           ses(s) == Append(s.session, Len(log) + 1)
           events == <<EvKey("tool_response", key)>>
<1>2. r.body \in RunBody /\ BodyFits(r.body) /\ Typed(r) /\ r.pending \in Seq(Key)
  BY <1>1 DEF LocalOk, Typed, RunCallOf, Shape
<1>3. r.body.cont.step < MaxSteps /\ r.pending # << >>
  <2>1. r.pc \in {"respAppend", "uncAppend"}
    BY DEF ResponseAppend, UncertainAppend, At
  <2>2. Settling(r)
    BY <2>1 DEF Settling
  <2> QED
    BY <1>1, <1>2, <2>1, <2>2 DEF LocalOk, Shape, BodyFits
<1>4. key \in Key
  BY <1>2, <1>3, PendingParts
<1>5. r.body.calls[key] \in CallState
  BY <1>2, <1>4, BodyParts
<1>6. events \in Seq(RunEvent) /\ Len(events) = 1
  <2>1. "tool_response" \in EventType
    BY DEF EventType
  <2> QED
    BY <1>4, <2>1, EventsTyped
<1>7. ASSUME NEW cs \in CallState
      PROVE  LET t == Settled(p, [r.body EXCEPT !.calls[key] = cs]) IN
             Good(p, [t EXCEPT !.session = ses(t)])
  <2> DEFINE b == [r.body EXCEPT !.calls[key] = cs]
             t == Settled(p, b)
             s == [t EXCEPT !.session = ses(t)]
  <2>1. b \in RunBody /\ b.cont.step < MaxSteps
    BY <1>2, <1>3, <1>4, MarkedBody
  <2> HIDE DEF b
  <2>2. Good(p, t) /\ Typed(t) /\ t.pc = "ckStatus"
    BY <1>1, <1>3, <2>1, SettledGood
  <2> HIDE DEF t
  <2>3. /\ Typed(s) /\ s.body = t.body /\ s.gen = t.gen /\ s.pc = t.pc
        /\ s.pending = t.pending /\ s.commitTo = t.commitTo /\ s.final = t.final
    BY <2>2, WithSession
  <2>4. LocalOk(s)
    BY <1>1, <2>2, <2>3 DEF Good, LocalOk, Shape, InTurn, Settling, Finishing, Unowned, CommitPc
  <2>5. Good(p, s)
    BY <2>2, <2>3, <2>4 DEF Good
  <2> QED
    BY <2>5 DEF t, b
<1>8. CASE ResponseAppend(p)
  <2> DEFINE cs == [r.body.calls[key] EXCEPT !.status = "completed", !.resultSeq = Len(log) + 1]
             t == Settled(p, [r.body EXCEPT !.calls[key] = cs])
             s == [t EXCEPT !.session = ses(t)]
  <2>1. Len(log) + Len(events) <= MaxEvents => cs \in CallState
    <3>1. Len(log) + Len(events) <= MaxEvents => Len(log) + 1 \in 0..MaxEvents
      BY <1>6, StoreTypes, RunnerAssumption
    <3> QED
      BY <1>5, <3>1 DEF CallState
  <2>2. [r.body EXCEPT !.calls[key].status = "completed",
                       !.calls[key].resultSeq = Len(log) + 1]
         = [r.body EXCEPT !.calls[key] = cs]
    BY <1>2, <1>4, <1>5 DEF RunBody, CallState
  <2>3. AppendOwn(p, events, s, Thrown(r))
    BY <1>8, <2>2 DEF ResponseAppend
  <2>4. Len(log) + Len(events) <= MaxEvents => Good(p, s)
    BY <1>7, <2>1
  <2> HIDE DEF s, events
  <2> QED
    BY <1>1, <1>6, <2>3, <2>4, ThrownGood, AppendOwnQuiet
<1>9. CASE UncertainAppend(p)
  <2> DEFINE cs == [r.body.calls[key] EXCEPT !.status = "uncertain"]
             t == Settled(p, [r.body EXCEPT !.calls[key] = cs])
             s == [t EXCEPT !.session = ses(t)]
  <2>1. cs \in CallState
    BY <1>5 DEF CallState
  <2>2. [r.body EXCEPT !.calls[key].status = "uncertain"] = [r.body EXCEPT !.calls[key] = cs]
    BY <1>2, <1>4, <1>5 DEF RunBody, CallState
  <2>3. AppendOwn(p, events, s, Thrown(r))
    BY <1>9, <2>2 DEF UncertainAppend
  <2>4. Good(p, s)
    BY <1>7, <2>1
  <2> HIDE DEF s, events
  <2> QED
    BY <1>1, <1>6, <2>3, <2>4, ThrownGood, AppendOwnQuiet
<1> QED
  BY <1>8, <1>9

(* The terminal event, appended without a fence, is quiet.                 *)
LEMMA FinishAppendQuiet ==
  ASSUME StoreOk, RunsOk, NEW p \in Procs, FinishAppend(p)
  PROVE  QuietMove(p)
<1> DEFINE r == run[p]
           d == [r EXCEPT !.body.cont = Done]
           e == [r.body EXCEPT !.cont = Done]
<1>1. LocalOk(r) /\ Typed(r) /\ BodyFits(r.body) /\ r.pc = "finAppend"
  BY DEF FinishAppend, At, RunsOk, LocalOk, Shape
<1>2. r.body \in RunBody /\ r.event \in EventType
  BY <1>1 DEF Typed, RunCallOf
<1>3. r.final \in Terminal
  BY <1>1 DEF LocalOk, Shape, Finishing
<1>4. e \in RunBody /\ e.cont = Done
  BY <1>2, DoneOk, WithCont
<1>5. d = [r EXCEPT !.body = e]
  OBVIOUS
<1> HIDE DEF d, e
<1>6. /\ Typed(d) /\ d.body = e /\ d.gen = r.gen /\ d.final = r.final
      /\ d.withDraft = r.withDraft /\ BodyFits(d.body)
  BY <1>1, <1>4, <1>5, WithBody, DoneOk DEF BodyFits
<1>7. ASSUME NEW t, Typed(t), BodyFits(t.body), t.gen = r.gen, t.final = r.final,
             t.withDraft = r.withDraft, NEW s,
             s = IF t.withDraft THEN Commit(t, "finUpdate") ELSE [t EXCEPT !.pc = "finUpdate"]
      PROVE  Good(p, s)
  <2>1. CASE t.withDraft
    <3>1. t.gen # 0
      BY <1>1, <1>7, <2>1 DEF LocalOk, Unowned
    <3>2. "finUpdate" \in CommitTarget /\ "finUpdate" # "settle"
      BY DEF CommitTarget
    <3> QED
      BY <1>3, <1>7, <2>1, <3>1, <3>2, CommitGood
  <2>2. CASE ~t.withDraft
    <3>1. s = [t EXCEPT !.pc = "finUpdate"]
      BY <1>7, <2>2
    <3>2. /\ Typed(s) /\ s.body = t.body /\ s.gen = t.gen /\ s.pc = "finUpdate"
          /\ s.final = t.final /\ s.withDraft = t.withDraft
      BY <1>7, <3>1 DEF Typed, RunCallOf, RunPc
    <3>3. Shape(s)
      BY <1>3, <1>7, <3>2 DEF Shape, InTurn, Settling, Finishing, CommitPc
    <3>4. s.gen = 0 => Unowned(s)
      BY <1>1, <1>7, <3>2 DEF LocalOk, Unowned
    <3> QED
      BY <1>7, <3>2, <3>3, <3>4 DEF Good, LocalOk
  <2>3. t.withDraft \in BOOLEAN
    BY <1>7 DEF Typed, RunCallOf
  <2> QED
    BY <2>1, <2>2, <2>3
<1>8. \E s : Set(p, s) /\ Good(p, s)
  <2> DEFINE t == IF r.final = "completed" THEN d ELSE r
             s == IF t.withDraft THEN Commit(t, "finUpdate") ELSE [t EXCEPT !.pc = "finUpdate"]
  <2>1. Set(p, s)
    BY DEF FinishAppend, d
  <2>2. /\ Typed(t) /\ BodyFits(t.body) /\ t.gen = r.gen /\ t.final = r.final
        /\ t.withDraft = r.withDraft
    BY <1>1, <1>6
  <2> HIDE DEF t
  <2>3. Good(p, s)
    BY <1>7, <2>2
  <2> QED
    BY <2>1, <2>3
<1>9. <<Ev(r.event)>> \in Seq(RunEvent)
  BY <1>2, EventsTyped
<1>10. QuietLog
  BY <1>9 DEF FinishAppend, QuietLog
<1> QED
  BY <1>8, <1>10, PatchQuiet DEF QuietMove, Quiet, FinishAppend

(* The terminal status write is quiet, also when it is fenced.             *)
LEMMA FinishUpdateQuiet ==
  ASSUME StoreOk, RunsOk, NEW p \in Procs, FinishUpdate(p)
  PROVE  QuietMove(p)
<1> DEFINE r == run[p]
           s == [r EXCEPT !.pc = "dispose"]
<1>1. LocalOk(r) /\ r.pc = "finUpdate"
  BY DEF FinishUpdate, At, RunsOk
<1>2. r.final \in Terminal
  BY <1>1 DEF LocalOk, Shape, Finishing
<1>3. Good(p, s)
  <2>1. /\ Typed(s) /\ s.body = r.body /\ s.gen = r.gen /\ s.pc = "dispose"
        /\ s.final = r.final /\ s.withDraft = r.withDraft
    BY <1>1 DEF LocalOk, Typed, RunCallOf, RunPc
  <2>2. s.gen = 0 => Unowned(s)
    BY <1>1, <2>1 DEF LocalOk, Unowned
  <2>3. s.pc \in PlainPc
    BY <2>1 DEF PlainPc, RunPc, CommitPc
  <2> QED
    BY <1>1, <2>1, <2>2, <2>3, PlainKeeps DEF Good
<1>4. r.final = "completed" => Good(p, Thrown(r))
  <2>1. r.final = "completed" => r.gen # 0
    BY <1>1 DEF LocalOk, Unowned
  <2> QED
    BY <1>1, <2>1, ThrownGood
<1>5. QuietRec
  <2>1. r.final \in JobStatus
    BY <1>2 DEF Terminal, JobStatus
  <2> QED
    BY <2>1, PatchQuiet DEF FinishUpdate, UpdateJobRecord
<1>6. Set(p, s) \/ (r.final = "completed" /\ Set(p, Thrown(r)))
  BY DEF FinishUpdate, Goto
<1> HIDE DEF s
<1> QED
  BY <1>3, <1>4, <1>5, <1>6 DEF QuietMove, Quiet, QuietLog, FinishUpdate

-----------------------------------------------------------------------------
(* Control calls never touch another run than the local one, and of that   *)
(* only its abort signal.                                                  *)
LEMMA AbortKeeps ==
  ASSUME NEW r, LocalOk(r)
  PROVE  LET s == [r EXCEPT !.aborted = @ \/ r.active] IN
         /\ LocalOk(s) /\ s.gen = r.gen /\ s.pc = r.pc /\ s.lastSeq = r.lastSeq
<1> DEFINE a == r.aborted \/ r.active
           s == [r EXCEPT !.aborted = a]
<1>1. a \in BOOLEAN
  BY DEF LocalOk, Typed, RunCallOf
<1> HIDE DEF a
<1>2. /\ Typed(s) /\ s.gen = r.gen /\ s.pc = r.pc /\ s.lastSeq = r.lastSeq
      /\ s.body = r.body /\ s.pending = r.pending /\ s.commitTo = r.commitTo
      /\ s.final = r.final /\ s.withDraft = r.withDraft
  BY <1>1 DEF LocalOk, Typed, RunCallOf
<1>3. LocalOk(s)
  BY <1>2 DEF LocalOk, Shape, InTurn, Settling, Finishing, CommitPc, Unowned
<1> QED
  BY <1>2, <1>3 DEF a

(* A control call moves no run but may abort the one of its process, and a *)
(* crash takes the call away.                                              *)
ControlMove(p) ==
  /\ Quiet
  /\ \/ run' = run
     \/ AbortLocal(p)
     \/ run' = [run EXCEPT ![p] = IdleRun]

(* Every step of cancelJob, suspendJob and submitInput, and a crash, is    *)
(* such a move: none of them grants a generation or writes a checkpoint.   *)
LEMMA ControlQuiet ==
  ASSUME StoreOk, NEW p \in Procs, CtlCall(p) \/ CtlStep(p) \/ Crash(p)
  PROVE  ControlMove(p)
<1>0. /\ "cancelled" \in JobStatus /\ "suspended" \in JobStatus
      /\ <<Ev("cancelled")>> \in Seq(RunEvent)
      /\ <<Ev("warning")>> \in Seq(RunEvent)
      /\ <<Ev("user")>> \in Seq(RunEvent)
  BY EventsTyped DEF EventType, JobStatus
<1>1. CASE CtlCall(p)
  BY <1>1, PatchQuiet
  DEF CtlCall, CancelJob, Reconcile, SubmitInput, CtlBegin, ControlMove, Quiet, QuietLog
<1>2. CASE CancelUpdate(p)
  BY <1>2, PatchQuiet DEF CancelUpdate, UpdateJobRecord, ControlMove, Quiet, QuietLog
<1>3. CASE CancelAppend(p) \/ InputAppend(p)
  BY <1>0, <1>3, PatchQuiet DEF CancelAppend, InputAppend, ControlMove, Quiet, QuietLog
<1>4. CASE CancelFinal(p)
  BY <1>0, <1>4, PatchQuiet DEF CancelFinal, UpdateJobRecord, ControlMove, Quiet, QuietLog
<1>5. CASE SuspendRead(p) \/ SuspendEnvironment(p)
  BY <1>5, PatchQuiet DEF SuspendRead, SuspendEnvironment, ControlMove, Quiet, QuietLog
<1>6. CASE SuspendCapture(p)
  BY <1>0, <1>6, PatchQuiet
  DEF SuspendCapture, UpdateJobRecord, AppendFenced, ControlMove, Quiet, QuietLog
<1>7. CASE SuspendAppend(p)
  BY <1>0, <1>7, PatchQuiet DEF SuspendAppend, AppendFenced, ControlMove, Quiet, QuietLog
<1>8. CASE SuspendPark(p)
  BY <1>0, <1>8, PatchQuiet DEF SuspendPark, UpdateJobRecord, ControlMove, Quiet, QuietLog
<1>9. CASE Crash(p)
  BY <1>9, PatchQuiet DEF Crash, ControlMove, Quiet, QuietLog
<1> QED
  BY <1>1, <1>2, <1>3, <1>4, <1>5, <1>6, <1>7, <1>8, <1>9 DEF CtlStep

-----------------------------------------------------------------------------
(* A call about to save carries a watermark inside the log, and beyond the *)
(* stored one unless it is fenced (commitBoundary appends before it        *)
(* saves).                                                                 *)
SaveReady(r) ==
  r.pc = "ckSave" =>
    /\ r.lastSeq <= Len(log)
    /\ r.gen = rec.attempt => r.lastSeq > ckpt.lastEventSeq

(* What is true of a call in the store it works on.                        *)
CallOk(r) == LocalOk(r) /\ r.gen <= rec.attempt /\ SaveReady(r)

(* The inductive invariant.                                                *)
RunnerInv ==
  /\ StoreOk
  /\ run = [p \in Procs |-> run[p]]
  /\ \A p \in Procs : CallOk(run[p])
  /\ OneRunPerGeneration

(* The generation and the watermark of a call are numbers.                 *)
LEMMA RunTypes ==
  ASSUME NEW r, LocalOk(r)
  PROVE  r.gen \in Generation /\ r.gen \in Nat /\ r.lastSeq \in Seqs /\ r.lastSeq \in Nat
  BY RunnerAssumption DEF LocalOk, Typed, RunCallOf, Generation, Seqs

(* A job that createJob has just written satisfies the invariant.          *)
LEMMA InitInv == Init => RunnerInv
<1> SUFFICES ASSUME Init PROVE RunnerInv
  OBVIOUS
<1>1. rec \in JobRecord /\ rec.attempt = 0 /\ LeaseIsCurrent
  BY RunnerAssumption DEF Init, JobRecord, JobStatus, Generation, NoLease, LeaseIsCurrent
<1>2. log \in Seq(RunEvent) /\ Len(log) = 1
  <2>1. Ev("queued") \in RunEvent
    BY EventsTyped DEF EventType
  <2> QED
    BY <2>1 DEF Init
<1>3. ckpt \in Checkpoint /\ ckpt.attempt = 0 /\ ckpt.lastEventSeq = 0 /\ BodyFits(ckpt.body)
  BY NewBodyOk, RunnerAssumption DEF Init, Checkpoint, Generation, Seqs
<1>4. StoreOk
  BY <1>1, <1>2, <1>3, RunnerAssumption DEF StoreOk, StoreTypeOK, CheckpointBehindLog
<1>5. \A p \in Procs : run[p] = IdleRun
  BY DEF Init
<1>6. IdleRun.gen = 0 /\ IdleRun.pc = "idle"
  BY DEF IdleRun
<1>7. \A p \in Procs : CallOk(run[p])
  BY <1>1, <1>5, <1>6, IdleOk DEF CallOk, SaveReady
<1>8. OneRunPerGeneration
  BY <1>5, <1>6 DEF OneRunPerGeneration
<1> QED
  BY <1>4, <1>5, <1>7, <1>8 DEF RunnerInv, Init

(* A step of the ownership contract, or none.                              *)
OwnerStep == [Owner!OwnershipNext]_(Owner!ownershipVars)

(* A quiet step keeps the store's invariants and is a stutter or the loss  *)
(* of a lease to the ownership contract.                                   *)
LEMMA QuietStore ==
  ASSUME StoreOk, Quiet
  PROVE  /\ StoreOk' /\ OwnerStep
         /\ rec'.attempt = rec.attempt /\ ckpt' = ckpt /\ Len(log') >= Len(log)
<1>1. rec' \in JobRecord /\ rec'.attempt = rec.attempt
  BY DEF Quiet, QuietRec
<1>2. log' \in Seq(RunEvent) /\ Len(log') <= MaxEvents /\ Len(log') >= Len(log)
  <2>1. CASE log' = log
    BY <2>1, StoreTypes DEF StoreOk, StoreTypeOK
  <2>2. ASSUME NEW events \in Seq(RunEvent), AppendEvents(events)
        PROVE  log' \in Seq(RunEvent) /\ Len(log') <= MaxEvents /\ Len(log') >= Len(log)
    BY <2>2, StoreTypes DEF AppendEvents
  <2> QED
    BY <2>1, <2>2 DEF Quiet, QuietLog
<1>3. StoreTypeOK'
  BY <1>1, <1>2, StoreTypes DEF StoreTypeOK, Quiet, Checkpoint
<1>4. rec.lease \in [token : Generation, live : BOOLEAN]
  BY StoreTypes DEF JobRecord
<1>5. LeaseIsCurrent'
  BY <1>1, <1>4, StoreTypes DEF StoreOk, LeaseIsCurrent, Quiet, QuietRec, NoLease
<1>6. CheckpointBehindLog'
  <2>1. ckpt.lastEventSeq \in Nat /\ Len(log) \in Nat /\ Len(log') \in Nat
    BY <1>2, StoreTypes, RunnerAssumption DEF Seqs
  <2> QED
    BY <1>1, <1>2, <2>1 DEF StoreOk, CheckpointBehindLog, Quiet
<1>7. OwnerStep
  <2>1. CASE rec'.lease = rec.lease
    BY <1>1, <2>1 DEF OwnerStep, Owner!ownershipVars, Quiet
  <2>2. CASE rec'.lease.live = FALSE
    <3>1. CASE rec.lease.live
      <4>1. rec.lease.token # 0
        BY <1>4, <3>1, RunnerAssumption DEF StoreOk, LeaseIsCurrent, Generation
      <4> QED
        BY <1>1, <2>2, <3>1, <4>1 DEF OwnerStep, Owner!OwnershipNext, Owner!Vacate, Quiet
    <3>2. CASE ~rec.lease.live
      BY <1>1, <2>2, <3>2 DEF OwnerStep, Owner!ownershipVars, Quiet
    <3> QED
      BY <3>1, <3>2
  <2>3. rec'.lease = rec.lease \/ rec'.lease.live = FALSE
    BY <1>4 DEF Quiet, QuietRec, NoLease
  <2> QED
    BY <2>1, <2>2, <2>3
<1> QED
  BY <1>1, <1>2, <1>3, <1>5, <1>6, <1>7 DEF StoreOk, Quiet

(* Another call keeps what it has when the store moves forwards.           *)
LEMMA OthersKeep ==
  ASSUME StoreOk, NEW r, CallOk(r), rec'.attempt = rec.attempt, ckpt' = ckpt,
         Len(log') >= Len(log), StoreOk'
  PROVE  CallOk(r)'
<1>1. Len(log) \in Nat /\ Len(log') \in Nat /\ r.lastSeq \in Nat
  BY StoreTypes, RunTypes DEF CallOk, StoreOk, StoreTypeOK
<1> QED
  BY <1>1 DEF CallOk, SaveReady

(* Moving one call moves no other.                                         *)
LEMMA MoveRun ==
  ASSUME RunnerInv, NEW p \in Procs, NEW s, Set(p, s)
  PROVE  /\ run' = [q \in Procs |-> run'[q]]
         /\ run'[p] = s
         /\ \A q \in Procs : q # p => run'[q] = run[q]
<1>1. run = [q \in Procs |-> run[q]]
  BY DEF RunnerInv
<1>2. run' = [run EXCEPT ![p] = s]
  BY DEF Set
<1>3. DOMAIN run = Procs
  BY <1>1
<1>4. run' = [q \in Procs |-> IF q = p THEN s ELSE run[q]]
  BY <1>2, <1>3
<1> QED
  BY <1>4

(* A call that takes no new generation cannot collide with another.        *)
LEMMA GenerationsStay ==
  ASSUME RunnerInv, NEW p \in Procs, run'[p].gen \in {0, run[p].gen},
         \A q \in Procs : q # p => run'[q] = run[q]
  PROVE  OneRunPerGeneration'
<1> SUFFICES ASSUME NEW a \in Procs, NEW b \in Procs, a # b, run'[a].gen > 0
             PROVE  run'[a].gen # run'[b].gen
  BY DEF OneRunPerGeneration
<1>1. \A q \in Procs : run'[q].gen \in {0, run[q].gen}
  OBVIOUS
<1>2. \A q \in Procs : run[q].gen \in Nat
  BY RunTypes DEF RunnerInv, CallOk
<1>3. run[a].gen > 0 /\ run'[a].gen = run[a].gen
  BY <1>1, <1>2
<1>4. run[a].gen # run[b].gen
  BY <1>3 DEF RunnerInv, OneRunPerGeneration
<1> QED
  BY <1>1, <1>3, <1>4

(* A move whose new call is fine keeps the invariant.                      *)
LEMMA MoveKeeps ==
  ASSUME RunnerInv, NEW p \in Procs, NEW s, Set(p, s), Quiet, CallOk(s)',
         s.gen \in {0, run[p].gen}
  PROVE  RunnerInv' /\ OwnerStep
<1>0. StoreOk
  BY DEF RunnerInv
<1>1. /\ StoreOk' /\ OwnerStep
      /\ rec'.attempt = rec.attempt /\ ckpt' = ckpt /\ Len(log') >= Len(log)
  BY <1>0, QuietStore
<1>2. /\ run' = [q \in Procs |-> run'[q]]
      /\ run'[p] = s
      /\ \A q \in Procs : q # p => run'[q] = run[q]
  BY MoveRun
<1>3. ASSUME NEW q \in Procs PROVE CallOk(run[q])'
  <2>1. CASE q = p
    BY <1>2, <2>1 DEF CallOk, SaveReady
  <2>2. CASE q # p
    <3>1. CallOk(run[q])
      BY DEF RunnerInv
    <3>2. run'[q] = run[q]
      BY <1>2, <2>2
    <3> DEFINE r == run[q]
    <3>3. ASSUME NEW x, x = run[q] PROVE CallOk(x)'
      BY <1>0, <1>1, <3>1, <3>3, OthersKeep
    <3> QED
      BY <3>2, <3>3 DEF CallOk, SaveReady
  <2> QED
    BY <2>1, <2>2
<1>4. OneRunPerGeneration'
  BY <1>2, GenerationsStay
<1> QED
  BY <1>1, <1>2, <1>3, <1>4 DEF RunnerInv

(* A quiet move keeps the invariant.                                       *)
LEMMA QuietKeeps ==
  ASSUME RunnerInv, NEW p \in Procs, QuietMove(p)
  PROVE  RunnerInv' /\ OwnerStep
<1>1. PICK s : Good(p, s) /\ Set(p, s)
  BY DEF QuietMove
<1>2. Quiet /\ rec'.attempt = rec.attempt
  BY DEF QuietMove, Quiet, QuietRec
<1>3. s.gen <= rec.attempt
  <2>1. run[p].gen <= rec.attempt /\ rec.attempt \in Nat
    BY StoreTypes DEF RunnerInv, CallOk
  <2> QED
    BY <1>1, <2>1 DEF Good
<1>4. CallOk(s)'
  BY <1>1, <1>2, <1>3 DEF Good, CallOk, SaveReady
<1> QED
  BY <1>1, <1>2, <1>4, MoveKeeps DEF Good

(* A control call or a crash keeps the invariant.                          *)
LEMMA ControlKeeps ==
  ASSUME RunnerInv, NEW p \in Procs, ControlMove(p)
  PROVE  RunnerInv' /\ OwnerStep
<1>0. CallOk(run[p]) /\ LocalOk(run[p]) /\ StoreOk /\ StoreOk' /\ OwnerStep
  BY QuietStore DEF RunnerInv, CallOk, ControlMove
<1>1. CASE run' = [run EXCEPT ![p] = IdleRun]
  BY <1>1, RejectedGood, QuietKeeps DEF QuietMove, Set, ControlMove
<1>2. CASE AbortLocal(p)
  <2> DEFINE s == [run[p] EXCEPT !.aborted = @ \/ run[p].active]
  <2>1. LocalOk(s) /\ s.gen = run[p].gen /\ s.pc = run[p].pc /\ s.lastSeq = run[p].lastSeq
    BY <1>0, AbortKeeps
  <2>2. Set(p, s)
    BY <1>2 DEF AbortLocal, Set
  <2>3. PICK x : x = s
    OBVIOUS
  <2> HIDE DEF s
  <2>4. CallOk(x)
    BY <1>0, <2>1, <2>3 DEF CallOk, SaveReady
  <2>5. CallOk(x)'
    BY <1>0, <2>4, QuietStore, OthersKeep DEF ControlMove
  <2> QED
    BY <2>1, <2>2, <2>3, <2>5, MoveKeeps DEF ControlMove
<1>3. CASE run' = run
  <2>1. Set(p, run[p])
    BY <1>3 DEF RunnerInv, Set
  <2>2. ASSUME NEW r, r = run[p] PROVE CallOk(r)'
    BY <1>0, <2>2, QuietStore, OthersKeep DEF ControlMove
  <2> QED
    BY <1>0, <2>1, <2>2, MoveKeeps DEF ControlMove
<1> QED
  BY <1>1, <1>2, <1>3 DEF ControlMove

(* A quiet step that moves no call keeps the invariant.                    *)
LEMMA StutterKeeps ==
  ASSUME RunnerInv, Quiet, run' = run
  PROVE  RunnerInv' /\ OwnerStep
<1>1. StoreOk /\ StoreOk' /\ OwnerStep
  BY QuietStore DEF RunnerInv
<1>2. ASSUME NEW q \in Procs PROVE CallOk(run[q])'
  <2>1. ASSUME NEW x, x = run[q] PROVE CallOk(x)'
    <3>1. CallOk(x)
      BY <2>1 DEF RunnerInv
    <3> QED
      BY <1>1, <3>1, QuietStore, OthersKeep
  <2> QED
    BY <2>1 DEF CallOk, SaveReady
<1>3. OneRunPerGeneration'
  BY DEF RunnerInv, OneRunPerGeneration
<1> QED
  BY <1>1, <1>2, <1>3 DEF RunnerInv

(* The expiry of a lease keeps the invariant.                              *)
LEMMA ExpireKeeps ==
  ASSUME RunnerInv, Expire
  PROVE  RunnerInv' /\ OwnerStep
<1>1. Quiet
  BY PatchQuiet DEF RunnerInv, Expire, Quiet, QuietLog
<1> QED
  BY <1>1, StutterKeeps DEF Expire

(* The checkpoint event sets the watermark to the end of the log, hence    *)
(* beyond every stored one while its call is not fenced (commitBoundary).  *)
LEMMA CheckpointAppendKeeps ==
  ASSUME RunnerInv, NEW p \in Procs, CheckpointAppend(p)
  PROVE  RunnerInv' /\ OwnerStep
<1>0. StoreOk /\ RunsOk
  BY DEF RunnerInv, RunsOk, CallOk
<1>1. LocalOk(run[p]) /\ run[p].gen # 0
  BY <1>0, Owned DEF CheckpointAppend, At
<1> DEFINE n == Len(log) + 1
           s == [run[p] EXCEPT !.pc = "ckSave", !.lastSeq = n]
<1>2. Ev("checkpoint") \in RunEvent
  BY EventsTyped DEF EventType
<1>3. <<Ev("checkpoint")>> \in Seq(RunEvent) /\ Len(<<Ev("checkpoint")>>) = 1
  BY <1>2
<1>4. CASE AppendFenced(run[p].gen, <<Ev("checkpoint")>>) /\ Set(p, s)
  <2>1. Quiet
    BY <1>0, <1>3, <1>4, PatchQuiet DEF CheckpointAppend, AppendOwn, AppendFenced, Quiet, QuietLog
  <2>2. n \in Seqs /\ Len(log') = n /\ n \in Nat
    <3>1. n \in Seqs
      BY <1>0, <1>2, <1>4, SingleEvent DEF AppendFenced, AppendEvents
    <3>2. Len(log') = n
      BY <1>0, <1>3, <1>4, StoreTypes DEF AppendFenced, AppendEvents
    <3> QED
      BY <1>0, <3>1, <3>2, StoreTypes
  <2>3. n > ckpt.lastEventSeq
    <3>1. ckpt.lastEventSeq \in Nat /\ Len(log) \in Nat
      BY <1>0, StoreTypes, RunnerAssumption DEF Seqs
    <3> QED
      BY <1>0, <3>1 DEF StoreOk, CheckpointBehindLog
  <2> HIDE DEF n
  <2>a. Typed(s)
    <3>1. n \in Seqs /\ "ckSave" \in RunPc
      BY <2>2 DEF RunPc
    <3> QED
      BY <1>1, <3>1 DEF LocalOk, Typed, RunCallOf
  <2>b. /\ s.gen = run[p].gen /\ s.pc = "ckSave" /\ s.lastSeq = n
        /\ s.body = run[p].body /\ s.pending = run[p].pending
        /\ s.commitTo = run[p].commitTo /\ s.final = run[p].final
    BY <1>1 DEF LocalOk, Typed, RunCallOf
  <2>4. /\ Typed(s) /\ s.gen = run[p].gen /\ s.pc = "ckSave" /\ s.lastSeq = n
        /\ s.body = run[p].body /\ s.pending = run[p].pending
        /\ s.commitTo = run[p].commitTo /\ s.final = run[p].final
    BY <2>a, <2>b
  <2> HIDE DEF s
  <2>5. LocalOk(s)
    BY <1>1, <2>4
    DEF CheckpointAppend, At, LocalOk, Shape, InTurn, Settling, Finishing, CommitPc
  <2>6. PICK x : x = s
    OBVIOUS
  <2>7. CallOk(x)'
    <3>1. run[p].gen <= rec.attempt /\ rec'.attempt = rec.attempt /\ ckpt' = ckpt
      BY <2>1 DEF RunnerInv, CallOk, Quiet, QuietRec
    <3> QED
      BY <2>2, <2>3, <2>4, <2>5, <2>6, <3>1 DEF CallOk, SaveReady
  <2> QED
    BY <1>4, <2>1, <2>4, <2>6, <2>7, MoveKeeps
<1>5. CASE log' = log /\ Set(p, CommitThrown(p))
  <2>1. QuietMove(p)
    BY <1>0, <1>1, <1>5, CommitThrownGood, PatchQuiet
    DEF CheckpointAppend, AppendOwn, QuietMove, Quiet, QuietLog
  <2> QED
    BY <2>1, QuietKeeps
<1> QED
  BY <1>4, <1>5 DEF CheckpointAppend, AppendOwn

(* A save that is not fenced advances the watermark under the newest       *)
(* generation, which is an advance of the ownership contract               *)
(* (saveCheckpoint).                                                       *)
LEMMA CheckpointSaveKeeps ==
  ASSUME RunnerInv, NEW p \in Procs, CheckpointSave(p)
  PROVE  RunnerInv' /\ OwnerStep
<1>0. StoreOk /\ RunsOk
  BY DEF RunnerInv, RunsOk, CallOk
<1> DEFINE r == run[p]
           to == IF r.final = "none" THEN "ckResume" ELSE r.commitTo
           s == [r EXCEPT !.pc = to]
           cp == [attempt |-> r.gen, lastEventSeq |-> r.lastSeq, body |-> r.body]
<1>1. LocalOk(r) /\ r.gen # 0 /\ r.pc = "ckSave" /\ CallOk(r)
  BY <1>0, Owned DEF CheckpointSave, At, RunnerInv
<1>2. UNCHANGED <<rec, log>>
  BY DEF CheckpointSave
<1>3. CASE SaveCheckpoint(cp) /\ Set(p, s)
  <2>1. /\ r.gen \in Generation /\ r.lastSeq \in Seqs /\ r.body \in RunBody
        /\ r.commitTo \in CommitTarget /\ r.gen \in Nat /\ r.gen > 0
    <3>1. r.gen \in Nat
      BY <1>1, RunTypes
    <3> QED
      BY <1>1, <3>1 DEF LocalOk, Typed, RunCallOf
  <2>2. ckpt' = cp /\ r.gen = rec.attempt /\ r.lastSeq <= Len(log)
    BY <1>3 DEF SaveCheckpoint, Fenced
  <2>3. r.lastSeq > ckpt.lastEventSeq
    BY <1>1, <2>2 DEF CallOk, SaveReady
  <2>4. StoreOk'
    <3>1. cp \in Checkpoint /\ cp.attempt = r.gen /\ cp.lastEventSeq = r.lastSeq /\ cp.body = r.body
      BY <2>1 DEF Checkpoint
    <3> HIDE DEF cp
    <3>2. StoreTypeOK' /\ LeaseIsCurrent'
      BY <1>0, <1>2, <2>2, <3>1 DEF StoreOk, StoreTypeOK, JobRecord, LeaseIsCurrent, Checkpoint
    <3>3. CheckpointBehindLog'
      BY <1>2, <2>1, <2>2, <3>1 DEF CheckpointBehindLog
    <3>4. BodyFits(ckpt.body)'
      BY <1>1, <2>2, <3>1 DEF LocalOk, Shape, BodyFits
    <3> QED
      BY <3>2, <3>3, <3>4 DEF StoreOk
  <2>5. OwnerStep
    <3>1. rec' = rec /\ rec.attempt > 0
      BY <1>2, <2>1, <2>2
    <3> QED
      BY <2>2, <2>3, <3>1 DEF OwnerStep, Owner!OwnershipNext, Owner!Advance
  <2>6. to \in RunPc /\ to \in CommitPc \cup {r.commitTo} /\ r.pc \in CommitPc /\ to # "ckSave"
    BY <1>1, <2>1 DEF RunPc, CommitPc, CommitTarget
  <2> HIDE DEF to
  <2>7. LocalOk(s) /\ s.gen = r.gen /\ s.pc = to
    BY <1>1, <2>6, CommitPcOk, PcKeeps
  <2> HIDE DEF s, cp
  <2>8. /\ run' = [q \in Procs |-> run'[q]]
        /\ run'[p] = s
        /\ \A q \in Procs : q # p => run'[q] = run[q]
    BY <1>3, MoveRun
  <2>9. ASSUME NEW q \in Procs PROVE CallOk(run[q])'
    <3>1. CASE q = p
      <4>1. s.gen <= rec'.attempt
        BY <1>1, <1>2, <2>7 DEF CallOk
      <4> QED
        BY <2>6, <2>7, <2>8, <3>1, <4>1 DEF CallOk, SaveReady
    <3>2. CASE q # p
      <4>1. CallOk(run[q]) /\ run'[q] = run[q]
        BY <2>8, <3>2 DEF RunnerInv
      <4>2. run[q].gen # rec.attempt
        BY <2>1, <2>2, <3>2 DEF RunnerInv, OneRunPerGeneration
      <4> QED
        BY <1>2, <4>1, <4>2 DEF CallOk, SaveReady
    <3> QED
      BY <3>1, <3>2
  <2>10. OneRunPerGeneration'
    BY <2>7, <2>8, GenerationsStay
  <2> QED
    BY <2>4, <2>5, <2>8, <2>9, <2>10 DEF RunnerInv
<1>4. CASE ckpt' = ckpt /\ Set(p, CommitThrown(p))
  <2>1. QuietMove(p)
    BY <1>0, <1>1, <1>2, <1>4, CommitThrownGood, PatchQuiet DEF QuietMove, Quiet, QuietLog
  <2> QED
    BY <2>1, QuietKeeps
<1> QED
  BY <1>3, <1>4 DEF CheckpointSave, Goto

(* acquireLease gives its call a generation no other call has, which is a  *)
(* grant of the ownership contract; a call waiting to save is fenced by    *)
(* it.                                                                     *)
LEMMA AcquireKeeps ==
  ASSUME RunnerInv, NEW p \in Procs, Acquire(p)
  PROVE  RunnerInv' /\ OwnerStep
<1>0. StoreOk /\ LocalOk(run[p])
  BY DEF RunnerInv, CallOk
<1> DEFINE r == run[p]
           g == rec.attempt + 1
           act == r.mode = "run"
           pc == IF r.mode = "run" THEN "start" ELSE "resuming"
           s == [r EXCEPT !.gen = g, !.active = act, !.pc = pc]
<1>1. UNCHANGED <<log, ckpt>>
  BY DEF Acquire
<1>2. CASE rec' = rec /\ Set(p, Rejected)
  <2>1. QuietMove(p)
    BY <1>0, <1>1, <1>2, RejectedGood, PatchQuiet DEF QuietMove, Quiet, QuietLog
  <2> QED
    BY <2>1, QuietKeeps
<1>3. CASE AcquireLease /\ Set(p, s)
  <2>0. rec.attempt \in Nat /\ g \in Nat /\ g > 0 /\ g \in Generation
    BY <1>0, <1>3, StoreTypes, RunnerAssumption DEF AcquireLease, Generation
  <2>1. /\ rec' \in JobRecord /\ rec'.attempt = g
        /\ rec'.lease = [token |-> g, live |-> TRUE] /\ ~rec.lease.live
    <3>1. rec' = [rec EXCEPT !.attempt = g, !.lease = [token |-> g, live |-> TRUE]] /\ ~rec.lease.live
      BY <1>3 DEF AcquireLease, LeaseHeld
    <3>2. rec \in JobRecord /\ [token |-> g, live |-> TRUE] \in [token : Generation, live : BOOLEAN]
      BY <1>0, <2>0, StoreTypes
    <3> HIDE DEF g
    <3> QED
      BY <2>0, <3>1, <3>2 DEF JobRecord
  <2>2. StoreOk'
    <3>1. StoreTypeOK'
      BY <1>0, <1>1, <2>1 DEF StoreOk, StoreTypeOK, Checkpoint
    <3>2. LeaseIsCurrent'
      BY <2>0, <2>1 DEF LeaseIsCurrent
    <3>3. CheckpointBehindLog'
      <4>1. ckpt.attempt \in Nat
        BY <1>0, StoreTypes, RunnerAssumption DEF Generation
      <4> QED
        BY <1>0, <1>1, <2>0, <2>1, <4>1 DEF StoreOk, CheckpointBehindLog
    <3>4. BodyFits(ckpt.body)'
      BY <1>0, <1>1 DEF StoreOk, BodyFits
    <3> QED
      BY <3>1, <3>2, <3>3, <3>4 DEF StoreOk
  <2>3. OwnerStep
    BY <1>1, <2>0, <2>1 DEF OwnerStep, Owner!OwnershipNext, Owner!Grant
  <2>4. LocalOk(s) /\ s.gen = g /\ s.pc # "ckSave"
    <3>1. act \in BOOLEAN /\ pc \in PlainPc /\ pc \in RunPc
      BY DEF PlainPc, RunPc, CommitPc
    <3> HIDE DEF act, pc, g
    <3>2. Typed(s) /\ s.gen = g /\ s.pc = pc /\ s.body = r.body
      BY <1>0, <2>0, <3>1 DEF LocalOk, Typed, RunCallOf
    <3>3. pc # "ckSave"
      BY DEF pc
    <3>4. g # 0
      BY <2>0
    <3> HIDE DEF s
    <3> QED
      BY <1>0, <3>1, <3>2, <3>3, <3>4, PlainKeeps
  <2> HIDE DEF s
  <2>5. /\ run' = [q \in Procs |-> run'[q]]
        /\ run'[p] = s
        /\ \A q \in Procs : q # p => run'[q] = run[q]
    BY <1>3, MoveRun
  <2>6. \A q \in Procs : run[q].gen \in Nat /\ run[q].gen <= rec.attempt
    BY RunTypes DEF RunnerInv, CallOk
  <2>7. ASSUME NEW q \in Procs PROVE CallOk(run[q])'
    <3>1. CASE q = p
      BY <2>0, <2>1, <2>4, <2>5, <3>1 DEF CallOk, SaveReady
    <3>2. CASE q # p
      <4>1. CallOk(run[q]) /\ run'[q] = run[q]
        BY <2>5, <3>2 DEF RunnerInv
      <4>2. run[q].gen # rec'.attempt /\ run[q].gen <= rec'.attempt
        BY <2>0, <2>1, <2>6
      <4> QED
        BY <1>1, <4>1, <4>2 DEF CallOk, SaveReady
    <3> QED
      BY <3>1, <3>2
  <2>8. OneRunPerGeneration'
    <3> SUFFICES ASSUME NEW a \in Procs, NEW b \in Procs, a # b, run'[a].gen > 0
                 PROVE  run'[a].gen # run'[b].gen
      BY DEF OneRunPerGeneration
    <3>1. \A q \in Procs : q # p => run'[q].gen <= rec.attempt /\ run'[q].gen = run[q].gen
      BY <2>5, <2>6
    <3>2. run'[p].gen > rec.attempt
      BY <2>0, <2>4, <2>5
    <3>3. CASE a = p
      BY <2>0, <2>6, <3>1, <3>2, <3>3
    <3>4. CASE b = p
      BY <2>0, <2>6, <3>1, <3>2, <3>4
    <3>5. CASE a # p /\ b # p
      BY <2>5, <3>5 DEF RunnerInv, OneRunPerGeneration
    <3> QED
      BY <3>3, <3>4, <3>5
  <2> QED
    BY <2>2, <2>3, <2>5, <2>7, <2>8 DEF RunnerInv
<1> QED
  BY <1>2, <1>3 DEF Acquire

(* Every step of the runner keeps the invariant and is a step of the       *)
(* ownership contract.                                                     *)
LEMMA NextKeeps ==
  ASSUME RunnerInv, [Next]_vars
  PROVE  RunnerInv' /\ OwnerStep
<1>0. StoreOk /\ RunsOk
  BY DEF RunnerInv, RunsOk, CallOk
<1>1. CASE UNCHANGED vars
  <2>1. Quiet /\ run' = run
    BY <1>0, <1>1, PatchQuiet DEF vars, Quiet, QuietLog
  <2> QED
    BY <2>1, StutterKeeps
<1>2. CASE Expire
  BY <1>2, ExpireKeeps
<1>3. ASSUME NEW p \in Procs, RunJob(p) \/ ResumeJob(p) PROVE RunnerInv' /\ OwnerStep
  BY <1>0, <1>3, RunJobQuiet, QuietKeeps
<1>4. ASSUME NEW p \in Procs, CtlCall(p) \/ CtlStep(p) \/ Crash(p)
      PROVE  RunnerInv' /\ OwnerStep
  BY <1>0, <1>4, ControlQuiet, ControlKeeps
<1>5. ASSUME NEW p \in Procs, RunStep(p) PROVE RunnerInv' /\ OwnerStep
  <2>1. CASE Acquire(p)
    BY <2>1, AcquireKeeps
  <2>2. CASE CheckpointAppend(p)
    BY <2>2, CheckpointAppendKeeps
  <2>3. CASE CheckpointSave(p)
    BY <2>3, CheckpointSaveKeeps
  <2>4. CASE RecoverRead(p) \/ AcquireRead(p) \/ Start(p) \/ Resuming(p)
    BY <1>0, <2>4, EntryQuiet, StartQuiet, QuietKeeps
  <2>5. CASE CreateEnvironment(p) \/ Started(p) \/ Drain(p) \/ SetRunning(p)
    BY <1>0, <2>5, CreateEnvironmentQuiet, StartedQuiet, DrainQuiet, SetRunningQuiet, QuietKeeps
  <2>6. CASE Recover(p) \/ Resumed(p) \/ ParkRelease(p) \/ ParkUpdate(p)
    BY <1>0, <2>6, RecoverQuiet, ResumedQuiet, ParkQuiet, QuietKeeps
  <2>7. CASE CheckpointStatus(p) \/ CheckpointResume(p) \/ Loop(p)
    BY <1>0, <2>7, CheckpointStatusQuiet, LoopQuiet, QuietKeeps
  <2>8. CASE Turn(p) \/ TurnAppend(p) \/ BudgetExhausted(p) \/ RequestAppend(p)
    BY <1>0, <2>8, TurnQuiet, TurnAppendQuiet, RequestAppendQuiet, QuietKeeps
  <2>9. CASE Settle(p) \/ Execute(p) \/ ResponseAppend(p) \/ UncertainAppend(p)
    BY <1>0, <2>9, SettleQuiet, ExecuteQuiet, ResponseQuiet, QuietKeeps
  <2>10. CASE FinishAppend(p) \/ FinishUpdate(p) \/ Dispose(p) \/ Release(p)
    BY <1>0, <2>10, FinishAppendQuiet, FinishUpdateQuiet, DisposeQuiet, QuietKeeps
  <2> QED
    BY <1>5, <2>1, <2>2, <2>3, <2>4, <2>5, <2>6, <2>7, <2>8, <2>9, <2>10 DEF RunStep
<1> QED
  BY <1>1, <1>2, <1>3, <1>4, <1>5 DEF Next

(* The invariant holds in every reachable state: rows, calls and           *)
(* generations fit together whatever interleaves (runner.ts, actor.ts).    *)
THEOREM RunnerInvariant == Spec => []RunnerInv
<1>1. Init => RunnerInv
  BY InitInv
<1>2. RunnerInv /\ [Next]_vars => RunnerInv'
  BY NextKeeps
<1> QED
  BY <1>1, <1>2, PTL DEF Spec

(* The runner implements the ownership contract: a generation is granted   *)
(* only when no lease is live, and every checkpoint written comes from the *)
(* newest generation and moves the watermark forwards (acquireLease,       *)
(* commitBoundary), for any number of processes.                           *)
THEOREM RunnerOwnership == Spec => ImplementsOwnership
<1>1. Init => Owner!OwnershipInit
  BY DEF Init, Owner!OwnershipInit, NoLease
<1>2. RunnerInv /\ [Next]_vars => [Owner!OwnershipNext]_(Owner!ownershipVars)
  BY NextKeeps DEF OwnerStep
<1> QED
  BY <1>1, <1>2, RunnerInvariant, PTL DEF Spec, ImplementsOwnership, Owner!OwnershipSpec

(* Two calls never execute under the same generation, although zombies,    *)
(* recoveries and control calls act at once (acquireLease).                *)
THEOREM OneRunEach == Spec => []OneRunPerGeneration
<1>1. RunnerInv => OneRunPerGeneration
  BY DEF RunnerInv
<1> QED
  BY <1>1, RunnerInvariant, PTL

-----------------------------------------------------------------------------
(***************************************************************************)
(* The sessions.                                                           *)
(*                                                                         *)
(* A session is a list of seqs of the log.  It grows by the event just     *)
(* appended, by the inputs that are not marked as applied, and is rebuilt  *)
(* from a prefix of the log; the last two come from sets put in log order. *)
(* That no seq is in it twice is inductive together with: every input in   *)
(* it is marked, and a rebuild has a watermark inside the log.             *)
(***************************************************************************)
(* The log keeps its entries.                                              *)
LogGrows == Len(log') >= Len(log) /\ \A i \in 1..Len(log) : log'[i] = log[i]

(* A quiet step keeps the log's entries.                                   *)
LEMMA QuietLogGrows ==
  ASSUME StoreOk, QuietLog
  PROVE  LogGrows
<1>1. CASE log' = log
  BY <1>1, StoreTypes DEF LogGrows
<1>2. ASSUME NEW events \in Seq(RunEvent), AppendEvents(events) PROVE LogGrows
  BY <1>2, StoreTypes DEF LogGrows, AppendEvents
<1> QED
  BY <1>1, <1>2 DEF QuietLog

(* Sets of seqs are finite, and so is what lies below an element.          *)
LEMMA SeqsFinite ==
  ASSUME NEW n \in Nat, NEW S \in SUBSET (1..n)
  PROVE  /\ IsFiniteSet(S) /\ Cardinality(S) \in Nat
         /\ \A s \in S : /\ IsFiniteSet({t \in S : t <= s})
                         /\ Cardinality({t \in S : t <= s}) \in 1..Cardinality(S)
<1>1. IsFiniteSet(1..n)
  BY FS_Interval
<1>2. IsFiniteSet(S) /\ Cardinality(S) \in Nat
  BY <1>1, FS_Subset, FS_CardinalityType
<1>3. ASSUME NEW s \in S
      PROVE  /\ IsFiniteSet({t \in S : t <= s})
             /\ Cardinality({t \in S : t <= s}) \in 1..Cardinality(S)
  <2> DEFINE D == {t \in S : t <= s}
  <2>1. D \in SUBSET S /\ s \in D
    OBVIOUS
  <2> HIDE DEF D
  <2>2. IsFiniteSet(D) /\ Cardinality(D) <= Cardinality(S)
    BY <1>2, <2>1, FS_Subset
  <2>3. Cardinality(D) \in Nat
    BY <2>2, FS_CardinalityType
  <2>4. Cardinality(D) # 0
    BY <2>1, <2>2, FS_EmptySet
  <2>5. Cardinality(D) \in 1..Cardinality(S)
    BY <1>2, <2>2, <2>3, <2>4
  <2> QED
    BY <2>2, <2>5 DEF D
<1> QED
  BY <1>2, <1>3

(* The number of elements up to one tells the elements apart.              *)
LEMMA RanksRise ==
  ASSUME NEW n \in Nat, NEW S \in SUBSET (1..n), NEW a \in S, NEW b \in S, a < b
  PROVE  Cardinality({t \in S : t <= a}) < Cardinality({t \in S : t <= b})
<1> DEFINE A == {t \in S : t <= a}
           B == {t \in S : t <= b}
<1>0. a \in 1..n /\ b \in 1..n /\ \A t \in S : t \in 1..n
  OBVIOUS
<1>a. \A t \in S : t <= a => t <= b
  BY <1>0
<1>b. b <= b /\ ~(b <= a)
  BY <1>0
<1>1. A \in SUBSET B /\ b \in B /\ b \notin A
  BY <1>a, <1>b
<1>2. IsFiniteSet(B)
  BY SeqsFinite
<1> HIDE DEF A, B
<1>3. A # B /\ Cardinality(A) <= Cardinality(B) /\ Cardinality(A) # Cardinality(B)
  BY <1>1, <1>2, FS_Subset
<1>4. Cardinality(A) \in Nat /\ Cardinality(B) \in Nat
  BY <1>1, <1>2, FS_Subset, FS_CardinalityType
<1>5. Cardinality(A) < Cardinality(B)
  BY <1>3, <1>4
<1> QED
  BY <1>5 DEF A, B

(* Every number up to the size is the rank of an element.                  *)
LEMMA RankTaken ==
  ASSUME NEW n \in Nat, NEW S \in SUBSET (1..n), NEW i \in 1..Cardinality(S)
  PROVE  \E s \in S : Cardinality({t \in S : t <= s}) = i
<1> DEFINE k == Cardinality(S)
           rank == [s \in S |-> Cardinality({t \in S : t <= s})]
<1>1. IsFiniteSet(S) /\ k \in Nat
  BY SeqsFinite
<1>2. rank \in [S -> 1..k]
  BY SeqsFinite
<1>3. \A a, b \in S : a # b => rank[a] # rank[b]
  <2> SUFFICES ASSUME NEW a \in S, NEW b \in S, a # b PROVE rank[a] # rank[b]
    OBVIOUS
  <2>1. rank[a] \in 1..k /\ rank[b] \in 1..k /\ a \in 1..n /\ b \in 1..n
    BY <1>2
  <2>2. a < b \/ b < a
    BY <2>1
  <2>3. a < b => rank[a] < rank[b]
    BY RanksRise
  <2>4. b < a => rank[b] < rank[a]
    BY RanksRise
  <2> HIDE DEF rank, k
  <2> QED
    BY <1>1, <2>1, <2>2, <2>3, <2>4
<1>4. IsFiniteSet(1..k) /\ Cardinality(1..k) = k
  <2> HIDE DEF k
  <2> QED
    BY <1>1, FS_Interval
<1>5. rank \in Surjection(S, 1..k)
  <2>1. rank \in Injection(S, 1..k)
    BY <1>2, <1>3 DEF Injection, IsInjective
  <2> HIDE DEF rank
  <2> QED
    BY <1>1, <1>4, <2>1, FS_Injection DEF k
<1>6. PICK s \in S : rank[s] = i
  BY <1>5 DEF Surjection
<1> QED
  BY <1>6

(* Sets of seqs are put in log order: each element once, smaller first.    *)
LEMMA AscendingSorts ==
  ASSUME NEW n \in Nat, NEW S \in SUBSET (1..n)
  PROVE  /\ Cardinality(S) \in Nat
         /\ Ascending(S) \in Seq(S) /\ Len(Ascending(S)) = Cardinality(S)
         /\ \A i, j \in DOMAIN Ascending(S) : i < j => Ascending(S)[i] < Ascending(S)[j]
         /\ \A s \in S : \E i \in DOMAIN Ascending(S) : Ascending(S)[i] = s
<1> DEFINE k == Cardinality(S)
           rank(s) == Cardinality({t \in S : t <= s})
           asc == Ascending(S)
<1>1. k \in Nat
  BY SeqsFinite
<1>2. ASSUME NEW i \in 1..k PROVE asc[i] \in S /\ rank(asc[i]) = i
  <2>1. \E s \in S : rank(s) = i
    BY RankTaken
  <2>2. asc[i] = CHOOSE s \in S : rank(s) = i
    BY DEF Ascending
  <2> HIDE DEF asc, rank, k
  <2> QED
    BY <2>1, <2>2
<1>3. asc \in [1..k -> S]
  BY <1>2 DEF Ascending
<1>4. asc \in Seq(S) /\ Len(asc) = k /\ DOMAIN asc = 1..k
  <2> HIDE DEF asc, k
  <2> QED
    BY <1>1, <1>3
<1>5. ASSUME NEW a \in S, NEW b \in S, a < b PROVE rank(a) < rank(b)
  BY <1>5, RanksRise
<1>6. \A s \in S : rank(s) \in 1..k
  BY SeqsFinite
<1>7. ASSUME NEW i \in 1..k, NEW j \in 1..k, i < j PROVE asc[i] < asc[j]
  <2>1. asc[i] \in 1..n /\ asc[j] \in 1..n
    BY <1>2
  <2>2. asc[i] # asc[j]
    <3>1. rank(asc[i]) = i /\ rank(asc[j]) = j
      BY <1>2
    <3> HIDE DEF rank, asc, k
    <3>2. i # j
      BY <1>1, <1>7
    <3> QED
      BY <3>1, <3>2
  <2>3. ~(asc[j] < asc[i])
    <3> SUFFICES ASSUME asc[j] < asc[i] PROVE FALSE
      OBVIOUS
    <3>1. rank(asc[j]) < rank(asc[i])
      BY <1>2, <1>5
    <3>2. rank(asc[i]) = i /\ rank(asc[j]) = j
      BY <1>2
    <3> HIDE DEF rank, asc, k
    <3> QED
      BY <1>1, <1>7, <3>1, <3>2
  <2> HIDE DEF asc
  <2> QED
    BY <2>1, <2>2, <2>3
<1>8. ASSUME NEW s \in S PROVE \E i \in 1..k : asc[i] = s
  <2> DEFINE i == rank(s)
  <2>1. i \in 1..k
    BY <1>6
  <2>2. asc[i] \in S /\ rank(asc[i]) = rank(s)
    BY <1>2, <2>1
  <2>3. asc[i] \in 1..n /\ s \in 1..n
    BY <2>2
  <2>4. ~(asc[i] < s) /\ ~(s < asc[i])
    <3>1. asc[i] < s => rank(asc[i]) < rank(s)
      BY <1>5, <2>2
    <3>2. s < asc[i] => rank(s) < rank(asc[i])
      BY <1>5, <2>2
    <3>3. rank(s) \in Nat
      BY <1>1, <1>6
    <3> HIDE DEF rank, asc
    <3> QED
      BY <2>2, <3>1, <3>2, <3>3
  <2>5. asc[i] = s
    <3> HIDE DEF i, asc
    <3> QED
      BY <2>3, <2>4
  <2> QED
    BY <2>1, <2>5
<1> QED
  BY <1>1, <1>4, <1>7, <1>8

(* The session a call holds, against a log: its elements are seqs of it,   *)
(* each once, and what came from submitInput is marked as applied.         *)
Once(session, applied, l) ==
  /\ session \in Seq(1..Len(l))
  /\ \A i, j \in DOMAIN session : session[i] = session[j] => i = j
  /\ \A i \in DOMAIN session : l[session[i]].type = "user" => session[i] \in applied

(* The session of a call is right, and a recovery about to rebuild it has  *)
(* a watermark inside the log.                                             *)
SessionFits(r, l) ==
  /\ Once(r.session, r.applied, l)
  /\ r.pc = "resumed" => r.lastSeq <= Len(l)

(* Every call's session is right.                                         *)
SessionsFit == \A p \in Procs : SessionFits(run[p], log)

(* An empty session is right.                                              *)
LEMMA EmptyOnce ==
  ASSUME StoreOk, NEW l \in Seq(RunEvent)
  PROVE  Once(<< >>, {}, l)
  BY DEF Once

(* A session stays right while the log grows.                              *)
LEMMA OnceStays ==
  ASSUME StoreOk, StoreOk', LogGrows, NEW ses, NEW app, Once(ses, app, log)
  PROVE  Once(ses, app, log')
<1>1. Len(log) \in Nat /\ Len(log') \in Nat /\ Len(log') >= Len(log)
  BY StoreTypes DEF LogGrows, StoreOk, StoreTypeOK
<1>2. ses \in Seq(1..Len(log)) /\ ses \in Seq(1..Len(log'))
  BY <1>1 DEF Once
<1>3. \A i \in DOMAIN ses : ses[i] \in 1..Len(log)
  BY <1>2
<1> QED
  BY <1>2, <1>3 DEF Once, LogGrows

(* The next event, when it is not an input, may be added.                  *)
LEMMA OnceAppended ==
  ASSUME StoreOk, StoreOk', NEW e \in RunEvent, log' = Append(log, e), e.type # "user",
         NEW ses, NEW app, Once(ses, app, log)
  PROVE  Once(Append(ses, Len(log) + 1), app, log')
<1> DEFINE n == Len(log) + 1
           s == Append(ses, n)
<1>1. log \in Seq(RunEvent) /\ Len(log) \in Nat /\ Len(log') = n /\ log'[n] = e
      /\ \A i \in 1..Len(log) : log'[i] = log[i]
  BY StoreTypes
<1>2. ses \in Seq(1..Len(log)) /\ Len(ses) \in Nat /\ DOMAIN ses = 1..Len(ses)
      /\ \A i \in 1..Len(ses) : ses[i] \in 1..Len(log)
  BY DEF Once
<1>3. ses \in Seq(1..n) /\ n \in 1..n
  BY <1>1, <1>2
<1>4. s \in Seq(1..n) /\ DOMAIN s = 1..(Len(ses) + 1) /\ s[Len(ses) + 1] = n
      /\ \A i \in 1..Len(ses) : s[i] = ses[i]
  <2> HIDE DEF n
  <2> QED
    BY <1>2, <1>3
<1>5. \A i, j \in 1..Len(ses) : ses[i] = ses[j] => i = j
  BY <1>2 DEF Once
<1>6. \A i \in 1..Len(ses) : log[ses[i]].type = "user" => ses[i] \in app
  BY <1>2 DEF Once
<1> HIDE DEF s
<1>7. \A i \in 1..Len(ses) : s[i] \in 1..Len(log) /\ s[i] # n
  BY <1>1, <1>2, <1>4
<1>8. \A i \in DOMAIN s : i \in 1..Len(ses) \/ i = Len(ses) + 1
  BY <1>2, <1>4
<1>9. \A i, j \in DOMAIN s : s[i] = s[j] => i = j
  BY <1>4, <1>5, <1>7, <1>8
<1>10. \A i \in DOMAIN s : log'[s[i]].type = "user" => s[i] \in app
  BY <1>1, <1>4, <1>6, <1>7, <1>8
<1> QED
  BY <1>1, <1>4, <1>9, <1>10 DEF Once, s

(* A function on the first k numbers is a sequence.                        *)
LEMMA IsASeq ==
  ASSUME NEW T, NEW k \in Nat, NEW f \in [1..k -> T]
  PROVE  f \in Seq(T)
  OBVIOUS

(* Sets of seqs of the log come out as sequences that have each once.      *)
LEMMA AscendingOnce ==
  ASSUME NEW n \in Nat, NEW S \in SUBSET (1..n)
  PROVE  LET asc == Ascending(S) IN
         /\ asc \in Seq(1..n) /\ Len(asc) \in Nat /\ DOMAIN asc = 1..Len(asc)
         /\ \A i \in 1..Len(asc) : asc[i] \in S /\ asc[i] \in 1..n
         /\ \A i, j \in 1..Len(asc) : asc[i] = asc[j] => i = j
<1> DEFINE asc == Ascending(S)
<1>1. asc \in Seq(S) /\ \A i, j \in DOMAIN asc : i < j => asc[i] < asc[j]
  BY AscendingSorts
<1> HIDE DEF asc
<1>a. asc \in Seq(S)
  BY <1>1
<1>2. Len(asc) \in Nat /\ DOMAIN asc = 1..Len(asc) /\ \A i \in 1..Len(asc) : asc[i] \in S
  BY <1>a
<1>3. \A i \in 1..Len(asc) : asc[i] \in 1..n
  BY <1>2
<1>4. asc \in [1..Len(asc) -> 1..n]
  <2>1. asc = [i \in 1..Len(asc) |-> asc[i]]
    BY <1>a
  <2> QED
    BY <1>3, <2>1
<1>5. asc \in Seq(1..n)
  <2>1. PICK k \in Nat : k = Len(asc)
    BY <1>2
  <2>2. asc \in [1..k -> 1..n]
    BY <1>4, <2>1
  <2>3. ASSUME NEW T, asc \in [1..k -> T] PROVE asc \in Seq(T)
    BY <2>3, IsASeq
  <2> QED
    BY <2>2, <2>3
<1>6. \A i, j \in 1..Len(asc) : asc[i] = asc[j] => i = j
  <2> SUFFICES ASSUME NEW i \in 1..Len(asc), NEW j \in 1..Len(asc), i # j PROVE asc[i] # asc[j]
    OBVIOUS
  <2>1. i < j \/ j < i
    BY <1>2
  <2>2. asc[i] \in 1..n /\ asc[j] \in 1..n
    BY <1>3
  <2>3. i < j => asc[i] < asc[j]
    BY <1>1, <1>2
  <2>4. j < i => asc[j] < asc[i]
    BY <1>1, <1>2
  <2> QED
    BY <2>1, <2>2, <2>3, <2>4
<1>7. asc = Ascending(S)
  BY DEF asc
<1> QED
  BY <1>2, <1>3, <1>5, <1>6, <1>7

(* drainAdmittedInput adds the inputs that are not there.                  *)
LEMMA OnceDrained ==
  ASSUME StoreOk, NEW ses, NEW app, Once(ses, app, log)
  PROVE  LET fresh == UserSeqs(Len(log)) \ app IN
         Once(ses \o Ascending(fresh), app \cup fresh, log)
<1> DEFINE fresh == UserSeqs(Len(log)) \ app
           asc == Ascending(fresh)
           s == ses \o asc
           n == Len(log)
<1>1. n \in Nat /\ fresh \in SUBSET (1..n) /\ \A x \in fresh : log[x].type = "user" /\ x \notin app
  BY StoreTypes DEF UserSeqs
<1>2. ses \in Seq(1..n) /\ Len(ses) \in Nat /\ DOMAIN ses = 1..Len(ses)
      /\ \A i \in 1..Len(ses) : ses[i] \in 1..n
  BY DEF Once
<1>3. /\ asc \in Seq(1..n) /\ Len(asc) \in Nat /\ DOMAIN asc = 1..Len(asc)
      /\ \A i \in 1..Len(asc) : asc[i] \in fresh /\ asc[i] \in 1..n
      /\ \A i, j \in 1..Len(asc) : asc[i] = asc[j] => i = j
  <2> HIDE DEF n, fresh
  <2> QED
    BY <1>1, AscendingOnce
<1> HIDE DEF fresh, n, asc
<1>4. /\ s \in Seq(1..n) /\ DOMAIN s = 1..(Len(ses) + Len(asc))
      /\ \A i \in 1..Len(ses) : s[i] = ses[i]
      /\ \A i \in (Len(ses) + 1)..(Len(ses) + Len(asc)) : s[i] = asc[i - Len(ses)]
  BY <1>2, <1>3
<1>5. \A i \in DOMAIN s : \/ i \in 1..Len(ses) /\ s[i] = ses[i]
                          \/ /\ i \notin 1..Len(ses) /\ i - Len(ses) \in 1..Len(asc)
                             /\ s[i] = asc[i - Len(ses)]
  BY <1>2, <1>3, <1>4
<1>6. \A i, j \in 1..Len(ses) : ses[i] = ses[j] => i = j
  BY <1>2 DEF Once
<1>7. \A i \in 1..Len(ses) : log[ses[i]].type = "user" => ses[i] \in app
  BY <1>2 DEF Once
<1>8. ASSUME NEW i \in DOMAIN s, NEW j \in DOMAIN s, s[i] = s[j] PROVE i = j
  <2>0. i \in Nat /\ j \in Nat
    BY <1>2, <1>3, <1>4
  <2>1. CASE i \in 1..Len(ses) /\ j \in 1..Len(ses)
    BY <1>4, <1>6, <1>8, <2>1
  <2>2. CASE i \notin 1..Len(ses) /\ j \notin 1..Len(ses)
    <3>1. i - Len(ses) \in 1..Len(asc) /\ j - Len(ses) \in 1..Len(asc)
          /\ asc[i - Len(ses)] = asc[j - Len(ses)]
      BY <1>5, <1>8, <2>2
    <3>2. i - Len(ses) = j - Len(ses)
      BY <1>3, <3>1
    <3> QED
      BY <1>2, <2>0, <3>2
  <2>3. ASSUME NEW a \in 1..Len(ses), NEW b \in DOMAIN s, b \notin 1..Len(ses), s[a] = s[b] PROVE FALSE
    <3>1. b - Len(ses) \in 1..Len(asc) /\ s[b] = asc[b - Len(ses)]
      BY <1>5, <2>3
    <3>2. s[b] \in fresh
      BY <1>3, <3>1
    <3>3. s[a] = ses[a]
      BY <1>4
    <3> HIDE DEF s
    <3> QED
      BY <1>1, <1>7, <2>3, <3>2, <3>3
  <2> QED
    BY <1>8, <2>1, <2>2, <2>3
<1>9. ASSUME NEW i \in DOMAIN s, log[s[i]].type = "user" PROVE s[i] \in app \cup fresh
  <2>1. CASE i \in 1..Len(ses)
    BY <1>4, <1>7, <1>9, <2>1
  <2>2. CASE i \notin 1..Len(ses)
    BY <1>3, <1>5, <2>2
  <2> QED
    BY <2>1, <2>2
<1> HIDE DEF s
<1>10. Once(s, app \cup fresh, log)
  BY <1>4, <1>8, <1>9 DEF Once, n
<1> QED
  BY <1>10 DEF s, asc, fresh

(* The projection of a prefix of the log has each event once, and its      *)
(* inputs are the ones that resumeJob marks.                               *)
LEMMA OnceProjected ==
  ASSUME StoreOk, NEW w \in Nat, w <= Len(log)
  PROVE  Once(ProjectHistory(w), UserSeqs(w), log)
<1> DEFINE n == Len(log)
           S == {s \in 1..w : log[s].type \in {"user", "assistant", "tool_response"}}
           asc == Ascending(S)
<1>1. n \in Nat /\ S \in SUBSET (1..n)
  BY StoreTypes
<1>2. /\ asc \in Seq(1..n) /\ Len(asc) \in Nat /\ DOMAIN asc = 1..Len(asc)
      /\ \A i \in 1..Len(asc) : asc[i] \in S
      /\ \A i, j \in 1..Len(asc) : asc[i] = asc[j] => i = j
  <2> HIDE DEF n, S
  <2> QED
    BY <1>1, AscendingOnce
<1>3. \A s \in S : log[s].type = "user" => s \in UserSeqs(w)
  BY DEF UserSeqs
<1> HIDE DEF S, asc, n
<1>4. Once(asc, UserSeqs(w), log)
  BY <1>2, <1>3 DEF Once, n
<1> QED
  BY <1>4 DEF asc, S, ProjectHistory

(* A run that keeps its session, or one that has none; neither is about to *)
(* rebuild it.                                                             *)
Kept(r, s) == s.session = r.session /\ s.applied = r.applied /\ s.pc # "resumed"
Blanked(s) == s.session = << >> /\ s.applied = {} /\ s.pc # "resumed"
Steady(p) == \E s : Set(p, s) /\ (Kept(run[p], s) \/ Blanked(s))

(* A step that sets such a run is steady ...                               *)
LEMMA SteadyBy ==
  ASSUME NEW p \in Procs, NEW s, Set(p, s), Kept(run[p], s) \/ Blanked(s)
  PROVE  Steady(p)
  BY DEF Steady

(* ... and so is a status write whose two outcomes are such runs.          *)
LEMMA SteadyWrite ==
  ASSUME NEW p \in Procs, NEW status, NEW s, NEW t, WriteStatus(p, status, s, t),
         Kept(run[p], s) \/ Blanked(s), Kept(run[p], t) \/ Blanked(t)
  PROVE  Steady(p)
  BY DEF Steady, WriteStatus

(* What is left of a call's fields when others are set.                    *)
Whole(r) == {"pc", "session", "applied"} \subseteq DOMAIN r

(* Every run has these fields.                                             *)
LEMMA WholeRun ==
  ASSUME NEW p \in Procs, RunsOk
  PROVE  Whole(run[p])
  BY DEF RunsOk, LocalOk, Typed, RunCallOf, Whole

(* Moving on keeps the session.                                            *)
LEMMA PcKept ==
  ASSUME NEW r, Whole(r), NEW x, x # "resumed"
  PROVE  Kept(r, [r EXCEPT !.pc = x])
  BY DEF Whole, Kept

(* Ending keeps it.                                                        *)
LEMMA FinishKept ==
  ASSUME NEW r, Whole(r), NEW final, NEW event, NEW view, NEW withDraft
  PROVE  LET s == Finish(r, final, event, view, withDraft) IN Kept(r, s) /\ Whole(s)
  BY DEF Whole, Kept, Finish

(* Throwing keeps it.                                                      *)
LEMMA ThrownKept ==
  ASSUME NEW r, Whole(r)
  PROVE  Kept(r, Thrown(r))
<1> DEFINE g == r.gen
           d == r.drafted
<1>1. Thrown(r) = Finish(r, "failed", "error", g, d)
  BY DEF Thrown
<1> HIDE DEF g, d
<1> QED
  BY <1>1, FinishKept

(* Entering a commit boundary keeps it.                                    *)
LEMMA CommitKept ==
  ASSUME NEW r, NEW s, Whole(s), s.session = r.session, s.applied = r.applied, NEW to
  PROVE  Kept(r, Commit(s, to)) /\ Whole(Commit(s, to))
  BY DEF Whole, Kept, Commit

(* Throwing inside a commit boundary keeps it.                             *)
LEMMA CommitThrownKept ==
  ASSUME NEW p \in Procs, RunsOk PROVE Kept(run[p], CommitThrown(p))
  BY WholeRun, PcKept, ThrownKept DEF CommitThrown

(* A new body keeps it.                                                    *)
LEMMA BodyKept ==
  ASSUME NEW r, Whole(r), NEW b
  PROVE  LET s == [r EXCEPT !.body = b] IN
         Whole(s) /\ s.session = r.session /\ s.applied = r.applied
  BY DEF Whole

(* Settling a call keeps it.                                               *)
LEMMA SettledKept ==
  ASSUME NEW p \in Procs, Whole(run[p]), NEW b
  PROVE  Kept(run[p], Settled(p, b)) /\ Whole(Settled(p, b))
<1> DEFINE rest == Tail(run[p].pending)
           c == [b EXCEPT !.cont = SettleTools(b.cont.step, rest)]
           s == [run[p] EXCEPT !.pending = rest, !.body = c]
<1>1. Settled(p, b) = Commit(s, "settle")
  BY DEF Settled
<1> HIDE DEF rest, c
<1>2. Whole(s) /\ s.session = run[p].session /\ s.applied = run[p].applied
  BY DEF Whole
<1> HIDE DEF s
<1> QED
  BY <1>1, <1>2, CommitKept

(* No call, a rejected one and one that starts have no session.            *)
LEMMA IdleBlanked ==
  /\ Blanked(IdleRun) /\ Blanked(Rejected) /\ Blanked(CancelledAtEntry)
  /\ Blanked([IdleRun EXCEPT !.pc = "acqRead"])
  /\ Blanked([IdleRun EXCEPT !.pc = "recRead", !.mode = "resume"])
<1>1. Whole(IdleRun) /\ IdleRun.session = << >> /\ IdleRun.applied = {} /\ IdleRun.pc = "idle"
  BY DEF Whole, IdleRun
<1> HIDE DEF IdleRun
<1>2. Kept(IdleRun, CancelledAtEntry)
  BY <1>1, FinishKept DEF CancelledAtEntry
<1>3. Blanked(CancelledAtEntry)
  BY <1>1, <1>2 DEF Kept, Blanked
<1>4. Blanked(Rejected)
  BY <1>1 DEF Rejected, Blanked, Whole
<1> QED
  BY <1>1, <1>3, <1>4 DEF Blanked, Whole

(* Entry, controller.proceed and acquireLease are steady.                  *)
LEMMA EntrySteady ==
  ASSUME RunsOk, NEW p \in Procs,
         \/ RunJob(p) \/ ResumeJob(p) \/ RecoverRead(p) \/ AcquireRead(p) \/ Acquire(p)
  PROVE  Steady(p)
<1>1. Whole(run[p])
  BY WholeRun
<1>4. CASE RunJob(p)
  <2>1. \/ Set(p, CancelledAtEntry) \/ Set(p, [IdleRun EXCEPT !.pc = "acqRead"])
    BY <1>4, Zenon DEF RunJob
  <2> QED
    BY <2>1, IdleBlanked, SteadyBy
<1>5. CASE ResumeJob(p)
  <2>1. \/ Set(p, CancelledAtEntry)
        \/ Set(p, [IdleRun EXCEPT !.pc = "recRead", !.mode = "resume"])
    BY <1>5, Zenon DEF ResumeJob
  <2> QED
    BY <2>1, IdleBlanked, SteadyBy
<1>6. CASE RecoverRead(p)
  <2> DEFINE x == rec.latestSnapshot
             s == [run[p] EXCEPT !.pc = "acqRead", !.snapshot = x]
  <2>1. Set(p, Rejected) \/ Set(p, s)
    BY <1>6, Zenon DEF RecoverRead
  <2> HIDE DEF x
  <2>2. Kept(run[p], s)
    BY <1>1 DEF Whole, Kept
  <2> HIDE DEF s
  <2> QED
    BY <2>1, <2>2, IdleBlanked, SteadyBy
<1>7. CASE AcquireRead(p)
  <2> DEFINE s == [run[p] EXCEPT !.pc = "acqLease"]
  <2>1. Set(p, Rejected) \/ Set(p, s)
    BY <1>7, Zenon DEF AcquireRead, Goto
  <2>2. Kept(run[p], s)
    BY <1>1, PcKept
  <2> HIDE DEF s
  <2> QED
    BY <2>1, <2>2, IdleBlanked, SteadyBy
<1>8. CASE Acquire(p)
  <2> DEFINE a == run[p].mode = "run"
             x == IF run[p].mode = "run" THEN "start" ELSE "resuming"
             g == rec.attempt + 1
             s == [run[p] EXCEPT !.gen = g, !.active = a, !.pc = x]
  <2>1. Set(p, Rejected) \/ Set(p, s)
    BY <1>8 DEF Acquire
  <2>2. x # "resumed"
    OBVIOUS
  <2> HIDE DEF a, x, g
  <2>3. Kept(run[p], s)
    BY <1>1, <2>2 DEF Whole, Kept
  <2> HIDE DEF s
  <2> QED
    BY <2>1, <2>3, IdleBlanked, SteadyBy
<1> QED
  BY <1>4, <1>5, <1>6, <1>7, <1>8

(* The status writes, the environment and the commit boundary are steady.  *)
LEMMA StatusSteady ==
  ASSUME RunsOk, NEW p \in Procs,
         \/ Start(p) \/ CreateEnvironment(p) \/ SetRunning(p) \/ Resuming(p) \/ ParkRelease(p)
         \/ ParkUpdate(p) \/ CheckpointStatus(p) \/ CheckpointSave(p) \/ CheckpointResume(p)
         \/ FinishUpdate(p)
  PROVE  Steady(p)
<1>1. Whole(run[p]) /\ Kept(run[p], Thrown(run[p])) /\ Kept(run[p], CommitThrown(p))
  BY WholeRun, ThrownKept, CommitThrownKept
<1>2. run[p].commitTo # "resumed"
  BY DEF RunsOk, LocalOk, Typed, RunCallOf, CommitTarget
<1>3. \A x : x # "resumed" => Kept(run[p], [run[p] EXCEPT !.pc = x])
  BY <1>1, PcKept
<1>4. CASE Start(p)
  BY <1>1, <1>3, <1>4, SteadyWrite DEF Start
<1>5. CASE CreateEnvironment(p)
  <2> DEFINE s == [run[p] EXCEPT !.pc = "started", !.ws = TRUE]
  <2>1. Kept(run[p], s)
    BY <1>1 DEF Whole, Kept
  <2>2. Set(p, s) \/ Set(p, Thrown(run[p]))
    BY <1>5 DEF CreateEnvironment
  <2> HIDE DEF s
  <2> QED
    BY <1>1, <2>1, <2>2, SteadyBy
<1>6. CASE SetRunning(p)
  <2>1. Kept(run[p], Commit(run[p], "loop"))
    BY <1>1, CommitKept
  <2>2. \/ WriteStatus(p, "running", Commit(run[p], "loop"), Thrown(run[p]))
        \/ WriteStatus(p, "running", [run[p] EXCEPT !.pc = "loop"], Thrown(run[p]))
    BY <1>6 DEF SetRunning
  <2>3. Kept(run[p], [run[p] EXCEPT !.pc = "loop"])
    BY <1>3
  <2> QED
    BY <1>1, <2>1, <2>2, <2>3, SteadyWrite
<1>7. CASE Resuming(p)
  BY <1>1, <1>3, <1>7, SteadyWrite DEF Resuming
<1>8. CASE ParkRelease(p)
  <2>1. Set(p, [run[p] EXCEPT !.pc = "parkUpdate"])
    BY <1>8 DEF ParkRelease, Goto
  <2>2. Kept(run[p], [run[p] EXCEPT !.pc = "parkUpdate"])
    BY <1>3
  <2> QED
    BY <2>1, <2>2, SteadyBy
<1>9. CASE ParkUpdate(p)
  BY <1>9, IdleBlanked, SteadyWrite DEF ParkUpdate
<1>10. CASE CheckpointStatus(p)
  BY <1>1, <1>3, <1>10, SteadyWrite DEF CheckpointStatus
<1>11. CASE CheckpointSave(p)
  <2> DEFINE x == IF run[p].final = "none" THEN "ckResume" ELSE run[p].commitTo
  <2>1. Set(p, CommitThrown(p)) \/ Set(p, [run[p] EXCEPT !.pc = x])
    BY <1>11 DEF CheckpointSave, Goto
  <2>2. x # "resumed"
    BY <1>2
  <2> HIDE DEF x
  <2>3. Kept(run[p], [run[p] EXCEPT !.pc = x])
    BY <1>3, <2>2
  <2> QED
    BY <1>1, <2>1, <2>3, SteadyBy
<1>12. CASE CheckpointResume(p)
  <2> DEFINE x == run[p].commitTo
  <2>1. WriteStatus(p, "running", [run[p] EXCEPT !.pc = x], Thrown(run[p]))
    BY <1>12 DEF CheckpointResume
  <2>2. Kept(run[p], [run[p] EXCEPT !.pc = x])
    BY <1>2, <1>3
  <2> HIDE DEF x
  <2> QED
    BY <1>1, <2>1, <2>2, SteadyWrite
<1>13. CASE FinishUpdate(p)
  <2> DEFINE s == [run[p] EXCEPT !.pc = "dispose"]
  <2>1. Set(p, s) \/ Set(p, Thrown(run[p]))
    BY <1>13 DEF FinishUpdate, Goto
  <2>2. Kept(run[p], s)
    BY <1>3
  <2> HIDE DEF s
  <2> QED
    BY <1>1, <2>1, <2>2, SteadyBy
<1> QED
  BY <1>4, <1>5, <1>6, <1>7, <1>8, <1>9, <1>10, <1>11, <1>12, <1>13

(* The loop, the turn, settleTools and the terminal transitions are steady *)
(* as long as they add nothing to the session.                             *)
LEMMA WorkSteady ==
  ASSUME RunsOk, NEW p \in Procs,
         \/ Loop(p) \/ Turn(p) \/ BudgetExhausted(p) \/ Settle(p) \/ Execute(p)
         \/ FinishAppend(p) \/ Dispose(p) \/ Release(p)
  PROVE  Steady(p)
<1>1. Whole(run[p]) /\ Kept(run[p], Thrown(run[p]))
  BY WholeRun, ThrownKept
<1>2. run[p].finTo # "resumed"
  BY DEF RunsOk, LocalOk, Typed, RunCallOf
<1>3. \A x : x # "resumed" => Kept(run[p], [run[p] EXCEPT !.pc = x])
  BY <1>1, PcKept
<1>4. ASSUME NEW final, NEW event, NEW view, NEW withDraft,
             Set(p, Finish(run[p], final, event, view, withDraft))
      PROVE  Steady(p)
  <2>1. Kept(run[p], Finish(run[p], final, event, view, withDraft))
    BY <1>1, FinishKept
  <2> QED
    BY <1>4, <2>1, SteadyBy
<1>5. ASSUME NEW x, x # "resumed", Set(p, [run[p] EXCEPT !.pc = x]) PROVE Steady(p)
  <2>1. Kept(run[p], [run[p] EXCEPT !.pc = x])
    BY <1>3, <1>5
  <2> QED
    BY <1>5, <2>1, SteadyBy
<1>6. ASSUME NEW event, Set(p, CancelledNow(p, event)) PROVE Steady(p)
  <2> DEFINE g == rec.attempt
  <2>1. Set(p, Finish(run[p], "cancelled", event, g, TRUE))
    BY <1>6 DEF CancelledNow
  <2> HIDE DEF g
  <2> QED
    BY <1>4, <2>1
<1>7. CASE Loop(p)
  <2> DEFINE pen == run[p].body.cont.pending
             g == run[p].gen
             s == [run[p] EXCEPT !.pc = "settle", !.pending = pen, !.resume = TRUE]
  <2>1. \/ Set(p, s) \/ Set(p, [run[p] EXCEPT !.pc = "drain"])
        \/ Set(p, Finish(run[p], "completed", "completed", g, TRUE))
        \/ Set(p, Finish(run[p], "failed", "error", g, TRUE))
        \/ Set(p, CancelledNow(p, "cancelled"))
    BY <1>7, LoopCases
  <2> HIDE DEF pen, g
  <2>2. Kept(run[p], s)
    BY <1>1 DEF Whole, Kept
  <2>3. CASE Set(p, s)
    <3> HIDE DEF s
    <3> QED
      BY <2>2, <2>3, SteadyBy
  <2>4. CASE Set(p, [run[p] EXCEPT !.pc = "drain"])
    BY <1>5, <2>4
  <2> HIDE DEF s
  <2> QED
    BY <1>4, <1>6, <2>1, <2>3, <2>4
<1>8. CASE Turn(p)
  <2>1. ASSUME NEW calls \in Turns,
               Set(p, [run[p] EXCEPT !.pc = "turnAppend", !.turn = calls])
        PROVE  Steady(p)
    <3> DEFINE s == [run[p] EXCEPT !.pc = "turnAppend", !.turn = calls]
    <3>1. Kept(run[p], s)
      BY <1>1 DEF Whole, Kept
    <3>2. Set(p, s)
      BY <2>1
    <3> HIDE DEF s
    <3> QED
      BY <3>1, <3>2, SteadyBy
  <2> DEFINE g == run[p].gen
  <2>2. \/ Set(p, Finish(run[p], "failed", "error", g, TRUE))
        \/ Set(p, CancelledNow(p, "cancelled"))
        \/ \E calls \in Turns : Set(p, [run[p] EXCEPT !.pc = "turnAppend", !.turn = calls])
    BY <1>8, Zenon DEF Turn
  <2> HIDE DEF g
  <2> QED
    BY <1>4, <1>6, <2>1, <2>2
<1>9. CASE BudgetExhausted(p)
  <2>1. Set(p, CancelledNow(p, "budget_exhausted"))
    BY <1>9 DEF BudgetExhausted
  <2> QED
    BY <1>6, <2>1
<1>10. CASE Execute(p)
  <2>1. Set(p, [run[p] EXCEPT !.pc = "respAppend"])
    BY <1>10 DEF Execute, Goto
  <2> QED
    BY <1>5, <2>1
<1>11. CASE Release(p)
  <2>1. Set(p, IdleRun)
    BY <1>11 DEF Release
  <2> QED
    BY <2>1, IdleBlanked, SteadyBy
<1>12. CASE Settle(p)
  <2>1. CASE run[p].pending # << >>
    <3>1. Set(p, SettleHead(p))
      BY <1>12, <2>1 DEF Settle
    <3> DEFINE g == run[p].gen
               f == Finish(run[p], "failed", "error", g, TRUE)
               b == run[p].body
               x == IF Head(run[p].pending)[2] \in Allowed THEN "exec" ELSE "respAppend"
    <3>2. x # "resumed"
      OBVIOUS
    <3>3. \/ SettleHead(p) = [run[p] EXCEPT !.pc = "loop"]
          \/ SettleHead(p) = Settled(p, b)
          \/ SettleHead(p) = Thrown(run[p])
          \/ SettleHead(p) = [f EXCEPT !.finTo = "loop"]
          \/ SettleHead(p) = [run[p] EXCEPT !.pc = "uncAppend"]
          \/ SettleHead(p) = [run[p] EXCEPT !.pc = x]
      BY SettleHeadCases
    <3> HIDE DEF g, x, b
    <3>4. Whole(f) /\ Kept(run[p], f)
      BY <1>1, FinishKept
    <3> HIDE DEF f
    <3>5. Kept(run[p], [f EXCEPT !.finTo = "loop"])
      BY <3>4 DEF Whole, Kept
    <3>6. Kept(run[p], Settled(p, b))
      BY <1>1, SettledKept
    <3>7. /\ Kept(run[p], [run[p] EXCEPT !.pc = "loop"])
          /\ Kept(run[p], [run[p] EXCEPT !.pc = "uncAppend"])
          /\ Kept(run[p], [run[p] EXCEPT !.pc = x])
      BY <1>3, <3>2
    <3>8. Kept(run[p], SettleHead(p))
      <4> DEFINE h == SettleHead(p)
                 u == Settled(p, b)
                 v == Thrown(run[p])
      <4>1. Kept(run[p], v)
        BY <1>1
      <4> HIDE DEF h, u, v
      <4> QED
        BY <3>3, <3>5, <3>6, <3>7, <4>1 DEF h, u, v
    <3> QED
      BY <3>1, <3>8, SteadyBy
  <2>2. CASE run[p].pending = << >>
    <3> DEFINE b == [run[p].body EXCEPT !.cont = ProviderTurn(@.step + 1)]
               m == [run[p] EXCEPT !.body = b]
    <3>1. Set(p, Commit(m, "loop"))
      BY <1>12, <2>2 DEF Settle
    <3> HIDE DEF b
    <3>2. Whole(m) /\ m.session = run[p].session /\ m.applied = run[p].applied
      BY <1>1, BodyKept
    <3> HIDE DEF m
    <3>3. Kept(run[p], Commit(m, "loop"))
      BY <3>2, CommitKept
    <3> QED
      BY <3>1, <3>3, SteadyBy
  <2> QED
    BY <2>1, <2>2
<1>13. CASE FinishAppend(p)
  <2> DEFINE c == [run[p].body EXCEPT !.cont = Done]
             m == [run[p] EXCEPT !.body = c]
             r == IF run[p].final = "completed" THEN m ELSE run[p]
  <2>1. r = IF run[p].final = "completed" THEN [run[p] EXCEPT !.body.cont = Done] ELSE run[p]
    OBVIOUS
  <2>2. Set(p, IF r.withDraft THEN Commit(r, "finUpdate") ELSE [r EXCEPT !.pc = "finUpdate"])
    BY <1>13, <2>1 DEF FinishAppend
  <2> HIDE DEF c
  <2>3. Whole(r) /\ r.session = run[p].session /\ r.applied = run[p].applied
    BY <1>1, BodyKept
  <2> HIDE DEF r
  <2>4. Kept(run[p], Commit(r, "finUpdate"))
    BY <2>3, CommitKept
  <2>5. Kept(run[p], [r EXCEPT !.pc = "finUpdate"])
    BY <2>3, PcKept DEF Kept
  <2> QED
    BY <2>2, <2>4, <2>5, SteadyBy
<1>14. CASE Dispose(p)
  <2> DEFINE t == run[p].finTo
             s == [run[p] EXCEPT !.pc = t, !.final = "none", !.finTo = "release"]
  <2>1. Set(p, IdleRun) \/ Set(p, s)
    BY <1>14 DEF Dispose
  <2>2. t # "resumed"
    BY <1>2
  <2> HIDE DEF t
  <2>3. Kept(run[p], s)
    BY <1>1, <2>2 DEF Whole, Kept
  <2> HIDE DEF s
  <2> QED
    BY <2>1, <2>3, IdleBlanked, SteadyBy
<1> QED
  BY <1>7, <1>8, <1>9, <1>10, <1>11, <1>12, <1>13, <1>14

(* The call of p moves to a state whose session is right in the next log.  *)
Fitted(p) == \E s : Set(p, s) /\ SessionFits(s, log')

(* A steady step leaves a session that is right.                           *)
LEMMA SteadyFits ==
  ASSUME StoreOk, StoreOk', LogGrows, NEW p \in Procs, SessionFits(run[p], log), Steady(p)
  PROVE  Fitted(p)
<1>1. PICK s : Set(p, s) /\ (Kept(run[p], s) \/ Blanked(s))
  BY DEF Steady
<1>2. Once(run[p].session, run[p].applied, log')
  BY OnceStays DEF SessionFits
<1>3. Once(<< >>, {}, log')
  BY EmptyOnce DEF StoreOk, StoreTypeOK
<1>4. SessionFits(s, log')
  BY <1>1, <1>2, <1>3 DEF SessionFits, Kept, Blanked
<1> QED
  BY <1>1, <1>4 DEF Fitted

(* An append whose two outcomes keep the session is steady.                *)
LEMMA SteadyAppend ==
  ASSUME NEW p \in Procs, NEW events, NEW s, NEW t, AppendOwn(p, events, s, t),
         Kept(run[p], s) \/ Blanked(s), Kept(run[p], t) \/ Blanked(t)
  PROVE  Steady(p)
  BY DEF Steady, AppendOwn

(* The "started" event, the checkpoint event and the tool requests do not  *)
(* enter a session.                                                        *)
LEMMA AppendSteady ==
  ASSUME RunsOk, NEW p \in Procs, Started(p) \/ CheckpointAppend(p) \/ RequestAppend(p)
  PROVE  Steady(p)
<1>1. Whole(run[p]) /\ Kept(run[p], Thrown(run[p])) /\ Kept(run[p], CommitThrown(p))
  BY WholeRun, ThrownKept, CommitThrownKept
<1>2. CASE Started(p)
  <2> DEFINE d == run[p].mode = "run"
             n == Len(log) + 1
             s == [run[p] EXCEPT !.pc = "drain0", !.body = NewBody, !.lastSeq = n,
                                 !.session = << >>, !.applied = {}, !.drafted = d]
  <2>1. AppendOwn(p, <<Ev("started")>>, s, Thrown(run[p]))
    BY <1>2 DEF Started
  <2> HIDE DEF d, n
  <2>2. Blanked(s)
    BY <1>1 DEF Whole, Blanked
  <2> HIDE DEF s
  <2> QED
    BY <1>1, <2>1, <2>2, SteadyAppend
<1>3. CASE CheckpointAppend(p)
  <2> DEFINE n == Len(log) + 1
             s == [run[p] EXCEPT !.pc = "ckSave", !.lastSeq = n]
  <2>1. AppendOwn(p, <<Ev("checkpoint")>>, s, CommitThrown(p))
    BY <1>3 DEF CheckpointAppend
  <2> HIDE DEF n
  <2>2. Kept(run[p], s)
    BY <1>1 DEF Whole, Kept
  <2> HIDE DEF s
  <2> QED
    BY <1>1, <2>1, <2>2, SteadyAppend
<1>4. CASE RequestAppend(p)
  <2> DEFINE r == run[p]
             step == r.body.cont.step
             keys == TurnKeys(step, r.turn)
             events == TurnEvents(keys)
             calls == TurnCalls(r.body.calls, keys, Len(log))
             plan == SettleTools(step, keys)
             t == [r EXCEPT !.body.calls = calls, !.body.cont = plan,
                            !.pending = keys, !.resume = FALSE]
  <2>1. AppendOwn(p, events, Commit(t, "settle"), Thrown(r))
    BY <1>4 DEF RequestAppend, TurnKeys, TurnEvents, TurnCalls
  <2> HIDE DEF keys, events, calls, plan
  <2>2. Whole(t) /\ t.session = run[p].session /\ t.applied = run[p].applied
    BY <1>1 DEF Whole
  <2> HIDE DEF t
  <2>3. Kept(run[p], Commit(t, "settle"))
    BY <2>2, CommitKept
  <2> QED
    BY <1>1, <2>1, <2>3, SteadyAppend
<1> QED
  BY <1>2, <1>3, <1>4

(* The next event of the log goes to the end of the session.               *)
Longer(r, s) ==
  /\ s.session = Append(r.session, Len(log) + 1)
  /\ s.applied = r.applied /\ s.pc # "resumed"

(* Such an append leaves a session that is right.                          *)
LEMMA LongerFits ==
  ASSUME StoreOk, StoreOk', LogGrows, NEW p \in Procs, SessionFits(run[p], log),
         NEW e \in RunEvent, e.type # "user", NEW s, NEW t,
         AppendOwn(p, <<e>>, s, t), Longer(run[p], s), Kept(run[p], t)
  PROVE  Fitted(p)
<1>1. CASE Set(p, t)
  <2>1. Steady(p)
    BY <1>1, SteadyBy
  <2> QED
    BY <2>1, SteadyFits
<1>2. CASE AppendFenced(run[p].gen, <<e>>) /\ Set(p, s)
  <2>1. log' = Append(log, e)
    BY <1>2, StoreTypes DEF AppendFenced, AppendEvents
  <2>2. Once(Append(run[p].session, Len(log) + 1), run[p].applied, log')
    BY <2>1, OnceAppended DEF SessionFits
  <2>3. SessionFits(s, log')
    BY <2>2 DEF Longer, SessionFits
  <2> QED
    BY <1>2, <2>3 DEF Fitted
<1> QED
  BY <1>1, <1>2 DEF AppendOwn

(* The assistant message enters the session once.                          *)
LEMMA TurnAppendFits ==
  ASSUME StoreOk, StoreOk', RunsOk, LogGrows, NEW p \in Procs, SessionFits(run[p], log),
         TurnAppend(p)
  PROVE  Fitted(p)
<1> DEFINE r == run[p]
           step == r.body.cont.step
           n == Len(log) + 1
           g == r.gen
           bod == [r.body EXCEPT !.steps = @ + 1]
           ses == Append(r.session, n)
           after == [r EXCEPT !.body = bod, !.session = ses]
           exhausted == [after EXCEPT !.pc = "budget"]
           fin == [after EXCEPT !.body.cont = Done]
           stop == Finish(fin, "completed", "completed", g, TRUE)
           req == [after EXCEPT !.pc = "reqAppend"]
           e == EvTurn(step)
<1>1. \/ AppendOwn(p, <<e>>, exhausted, Thrown(r))
      \/ AppendOwn(p, <<e>>, IF r.turn = << >> THEN stop ELSE req, Thrown(r))
  BY DEF TurnAppend
<1>2. e \in RunEvent /\ e.type # "user"
  <2>1. r.body \in RunBody /\ r.pc = "turnAppend"
    BY DEF RunsOk, LocalOk, Typed, RunCallOf, TurnAppend, At
  <2>2. step \in 0..MaxSteps
    BY <2>1, BodyParts
  <2>3. e \in RunEvent
    BY <2>2, EventsTyped
  <2> QED
    BY <2>3 DEF EvTurn
<1>3. Whole(r) /\ Kept(r, Thrown(r))
  BY WholeRun, ThrownKept
<1>4. ses = Append(r.session, Len(log) + 1)
  OBVIOUS
<1> HIDE DEF e, n, g, bod, ses
<1>5. Whole(after) /\ after.session = ses /\ after.applied = r.applied
  BY <1>3 DEF Whole
<1>6. Longer(r, exhausted) /\ Longer(r, req)
  <2> HIDE DEF after
  <2>1. /\ exhausted.session = after.session /\ exhausted.applied = after.applied
        /\ exhausted.pc = "budget"
        /\ req.session = after.session /\ req.applied = after.applied /\ req.pc = "reqAppend"
    BY <1>5 DEF Whole
  <2> QED
    BY <1>4, <1>5, <2>1 DEF Longer
<1>7. Longer(r, stop)
  <2> DEFINE c == [after.body EXCEPT !.cont = Done]
  <2>1. fin = [after EXCEPT !.body = c]
    OBVIOUS
  <2> HIDE DEF c, after
  <2>2. Whole(fin) /\ fin.session = after.session /\ fin.applied = after.applied
    BY <1>5, <2>1, BodyKept
  <2> HIDE DEF fin
  <2>3. Kept(fin, stop)
    BY <2>2, FinishKept
  <2> QED
    BY <1>4, <1>5, <2>2, <2>3 DEF Longer, Kept
<1> HIDE DEF exhausted, stop, req
<1>8. Longer(r, IF r.turn = << >> THEN stop ELSE req)
  BY <1>6, <1>7
<1> QED
  BY <1>1, <1>2, <1>3, <1>6, <1>8, LongerFits

(* So does a tool response.                                                *)
LEMMA ResponseFits ==
  ASSUME StoreOk, StoreOk', RunsOk, LogGrows, NEW p \in Procs, SessionFits(run[p], log),
         ResponseAppend(p) \/ UncertainAppend(p)
  PROVE  Fitted(p)
<1> DEFINE r == run[p]
           key == Head(r.pending)
           e == EvKey("tool_response", key)
           ses(s) == Append(s.session, Len(log) + 1)
           b == [r.body EXCEPT !.calls[key].status = "completed",
                               !.calls[key].resultSeq = Len(log) + 1]
           c == [r.body EXCEPT !.calls[key].status = "uncertain"]
<1>1. \/ AppendOwn(p, <<e>>, [Settled(p, b) EXCEPT !.session = ses(Settled(p, b))], Thrown(r))
      \/ AppendOwn(p, <<e>>, [Settled(p, c) EXCEPT !.session = ses(Settled(p, c))], Thrown(r))
  BY DEF ResponseAppend, UncertainAppend
<1>2. e \in RunEvent /\ e.type # "user"
  <2>1. LocalOk(r) /\ r.pc \in {"respAppend", "uncAppend"}
    BY DEF RunsOk, ResponseAppend, UncertainAppend, At
  <2>2. r.pending \in Seq(Key) /\ r.pending # << >>
    BY <2>1 DEF LocalOk, Typed, RunCallOf, Shape
  <2>3. key \in Key
    BY <2>2, PendingParts
  <2>4. e \in RunEvent
    BY <2>3, EventsTyped DEF EventType
  <2> QED
    BY <2>4 DEF EvKey
<1>3. Whole(r) /\ Kept(r, Thrown(r))
  BY WholeRun, ThrownKept
<1> HIDE DEF e, b, c
<1>4. ASSUME NEW x PROVE Longer(r, [Settled(p, x) EXCEPT !.session = ses(Settled(p, x))])
  <2> DEFINE t == Settled(p, x)
  <2>1. Kept(r, t) /\ Whole(t)
    BY <1>3, SettledKept
  <2> HIDE DEF t
  <2> DEFINE l == Append(t.session, Len(log) + 1)
             s == [t EXCEPT !.session = l]
  <2>2. l = Append(r.session, Len(log) + 1)
    BY <2>1 DEF Kept
  <2> HIDE DEF l
  <2>3. s.session = l /\ s.applied = t.applied /\ s.pc = t.pc
    BY <2>1 DEF Whole
  <2>4. Longer(r, s)
    BY <2>1, <2>2, <2>3 DEF Longer, Kept
  <2> QED
    BY <2>4 DEF t, l
<1>5. /\ Longer(r, [Settled(p, b) EXCEPT !.session = ses(Settled(p, b))])
      /\ Longer(r, [Settled(p, c) EXCEPT !.session = ses(Settled(p, c))])
  BY <1>4
<1> QED
  BY <1>1, <1>2, <1>3, <1>5, LongerFits

(* drainAdmittedInput adds what has not been applied, and marks it.        *)
LEMMA DrainFits ==
  ASSUME StoreOk, StoreOk', RunsOk, LogGrows, NEW p \in Procs, SessionFits(run[p], log), Drain(p)
  PROVE  Fitted(p)
<1> DEFINE fresh == UserSeqs(Len(log)) \ run[p].applied
           pc == IF run[p].pc = "drain0" THEN "runFresh" ELSE "turn"
           app == run[p].applied \cup fresh
           ses == run[p].session \o Ascending(fresh)
           s == [run[p] EXCEPT !.pc = pc, !.applied = app, !.session = ses]
<1>1. Set(p, s)
  BY DEF Drain
<1>2. Once(ses, app, log)
  BY OnceDrained DEF SessionFits
<1>3. pc # "resumed" /\ Whole(run[p])
  BY WholeRun
<1> HIDE DEF app, ses, pc
<1>4. s.session = ses /\ s.applied = app /\ s.pc = pc
  BY <1>3 DEF Whole
<1> HIDE DEF s
<1>5. Once(ses, app, log')
  BY <1>2, OnceStays
<1>6. SessionFits(s, log')
  BY <1>3, <1>4, <1>5 DEF SessionFits
<1> QED
  BY <1>1, <1>6 DEF Fitted

(* recover takes a watermark inside the log from the checkpoint.           *)
LEMMA RecoverFits ==
  ASSUME StoreOk, StoreOk', RunsOk, LogGrows, NEW p \in Procs, SessionFits(run[p], log), Recover(p)
  PROVE  Fitted(p)
<1> DEFINE wm == ckpt.lastEventSeq
           b == ckpt.body
           n == Len(log)
           s == [run[p] EXCEPT !.pc = "resumed", !.ws = TRUE, !.body = b,
                               !.lastSeq = wm, !.seen = n]
           t == [run[p] EXCEPT !.pc = "started", !.ws = TRUE, !.active = TRUE]
           u == [run[p] EXCEPT !.pc = "parkRelease"]
<1>1. Set(p, s) \/ Set(p, t) \/ Set(p, u)
  BY DEF Recover, Goto
<1>2. Whole(run[p]) /\ "lastSeq" \in DOMAIN run[p]
  BY WholeRun DEF RunsOk, LocalOk, Typed, RunCallOf
<1>3. wm <= Len(log')
  <2>1. wm \in Nat /\ Len(log) \in Nat /\ Len(log') \in Nat
    BY StoreTypes, RunnerAssumption DEF Seqs, StoreOk, StoreTypeOK
  <2> QED
    BY <2>1 DEF StoreOk, CheckpointBehindLog, LogGrows
<1>4. Once(run[p].session, run[p].applied, log')
  BY OnceStays DEF SessionFits
<1> HIDE DEF wm, b, n
<1>5. s.session = run[p].session /\ s.applied = run[p].applied /\ s.lastSeq = wm
  BY <1>2 DEF Whole
<1>6. Kept(run[p], t) /\ Kept(run[p], u)
  BY <1>2 DEF Whole, Kept
<1> HIDE DEF s, t, u
<1>7. SessionFits(s, log')
  BY <1>3, <1>4, <1>5 DEF SessionFits
<1>8. CASE Set(p, t) \/ Set(p, u)
  <2>1. Steady(p)
    BY <1>6, <1>8, SteadyBy
  <2> QED
    BY <2>1, SteadyFits
<1> QED
  BY <1>1, <1>7, <1>8 DEF Fitted

(* resumeJob projects the log up to that watermark, and marks its inputs.  *)
LEMMA ResumedFits ==
  ASSUME StoreOk, StoreOk', RunsOk, LogGrows, NEW p \in Procs, SessionFits(run[p], log), Resumed(p)
  PROVE  Fitted(p)
<1> DEFINE wm == run[p].lastSeq
           ses == ProjectHistory(wm)
           app == UserSeqs(wm)
           events == IF (wm + 1) .. run[p].seen = {} THEN <<Ev("resumed")>>
                     ELSE <<Ev("resumed"), Ev("warning")>>
           s == [run[p] EXCEPT !.pc = "runResumed", !.active = TRUE,
                               !.session = ses, !.applied = app]
           u == [run[p] EXCEPT !.pc = "parkRelease"]
<1>1. AppendOwn(p, events, s, u)
  BY DEF Resumed
<1>2. Whole(run[p])
  BY WholeRun
<1>3. wm \in Nat /\ wm <= Len(log)
  BY RunTypes DEF RunsOk, SessionFits, Resumed, At
<1>4. Once(ses, app, log)
  BY <1>3, OnceProjected
<1>5. Once(ses, app, log')
  BY <1>4, OnceStays
<1> HIDE DEF events, ses, app
<1>6. s.session = ses /\ s.applied = app /\ s.pc = "runResumed"
  BY <1>2 DEF Whole
<1>7. Kept(run[p], u)
  BY <1>2 DEF Whole, Kept
<1> HIDE DEF s, u
<1>8. SessionFits(s, log')
  BY <1>5, <1>6 DEF SessionFits
<1>9. CASE Set(p, u)
  <2>1. Steady(p)
    BY <1>7, <1>9, SteadyBy
  <2> QED
    BY <2>1, SteadyFits
<1> QED
  BY <1>1, <1>8, <1>9 DEF Fitted, AppendOwn

(* Every step of a call leaves a session that is right.                    *)
LEMMA RunStepFits ==
  ASSUME StoreOk, StoreOk', RunsOk, LogGrows, NEW p \in Procs, SessionFits(run[p], log),
         RunJob(p) \/ ResumeJob(p) \/ RunStep(p)
  PROVE  Fitted(p)
<1>1. CASE TurnAppend(p)
  BY <1>1, TurnAppendFits
<1>2. CASE ResponseAppend(p) \/ UncertainAppend(p)
  BY <1>2, ResponseFits
<1>3. CASE Drain(p)
  BY <1>3, DrainFits
<1>4. CASE Recover(p)
  BY <1>4, RecoverFits
<1>5. CASE Resumed(p)
  BY <1>5, ResumedFits
<1>6. CASE Started(p) \/ CheckpointAppend(p) \/ RequestAppend(p)
  BY <1>6, AppendSteady, SteadyFits
<1>7. CASE RunJob(p) \/ ResumeJob(p) \/ RecoverRead(p) \/ AcquireRead(p) \/ Acquire(p)
  BY <1>7, EntrySteady, SteadyFits
<1>8. CASE \/ Start(p) \/ CreateEnvironment(p) \/ SetRunning(p) \/ Resuming(p) \/ ParkRelease(p)
           \/ ParkUpdate(p) \/ CheckpointStatus(p) \/ CheckpointSave(p) \/ CheckpointResume(p)
           \/ FinishUpdate(p)
  BY <1>8, StatusSteady, SteadyFits
<1>9. CASE \/ Loop(p) \/ Turn(p) \/ BudgetExhausted(p) \/ Settle(p) \/ Execute(p)
           \/ FinishAppend(p) \/ Dispose(p) \/ Release(p)
  BY <1>9, WorkSteady, SteadyFits
<1> QED
  BY <1>1, <1>2, <1>3, <1>4, <1>5, <1>6, <1>7, <1>8, <1>9, Zenon DEF RunStep

(* No step changes or drops an event of the log.                           *)
LEMMA LogOnlyGrows ==
  ASSUME RunnerInv, [Next]_vars
  PROVE  LogGrows
<1>0. StoreOk /\ RunsOk
  BY DEF RunnerInv, RunsOk, CallOk
<1>1. CASE log' = log
  BY <1>0, <1>1, QuietLogGrows DEF QuietLog
<1>2. CASE UNCHANGED vars
  BY <1>1, <1>2 DEF vars
<1>3. CASE Expire
  BY <1>1, <1>3 DEF Expire
<1>4. ASSUME NEW p \in Procs, QuietMove(p) PROVE LogGrows
  BY <1>0, <1>4, QuietLogGrows DEF QuietMove, Quiet
<1>5. ASSUME NEW p \in Procs, CtlCall(p) \/ CtlStep(p) \/ Crash(p) PROVE LogGrows
  BY <1>0, <1>5, ControlQuiet, QuietLogGrows DEF ControlMove, Quiet
<1>6. ASSUME NEW p \in Procs, RunJob(p) \/ ResumeJob(p) \/ RunStep(p) PROVE LogGrows
  <2>1. CASE Acquire(p) \/ CheckpointSave(p)
    BY <1>1, <2>1 DEF Acquire, CheckpointSave
  <2>2. CASE CheckpointAppend(p)
    <3>1. QuietLog
      BY <1>0, <2>2, EventsTyped, SingleEvent
      DEF CheckpointAppend, AppendOwn, AppendFenced, QuietLog, EventType
    <3> QED
      BY <1>0, <3>1, QuietLogGrows
  <2>3. CASE RunJob(p) \/ ResumeJob(p)
    BY <1>0, <1>4, <2>3, RunJobQuiet
  <2>4. CASE RecoverRead(p) \/ AcquireRead(p) \/ Start(p) \/ Resuming(p)
    BY <1>0, <1>4, <2>4, EntryQuiet, StartQuiet
  <2>5. CASE CreateEnvironment(p) \/ Started(p) \/ Drain(p) \/ SetRunning(p)
    BY <1>0, <1>4, <2>5, CreateEnvironmentQuiet, StartedQuiet, DrainQuiet, SetRunningQuiet
  <2>6. CASE Recover(p) \/ Resumed(p) \/ ParkRelease(p) \/ ParkUpdate(p)
    BY <1>0, <1>4, <2>6, RecoverQuiet, ResumedQuiet, ParkQuiet
  <2>7. CASE CheckpointStatus(p) \/ CheckpointResume(p) \/ Loop(p)
    BY <1>0, <1>4, <2>7, CheckpointStatusQuiet, LoopQuiet
  <2>8. CASE Turn(p) \/ TurnAppend(p) \/ BudgetExhausted(p) \/ RequestAppend(p)
    BY <1>0, <1>4, <2>8, TurnQuiet, TurnAppendQuiet, RequestAppendQuiet
  <2>9. CASE Settle(p) \/ Execute(p) \/ ResponseAppend(p) \/ UncertainAppend(p)
    BY <1>0, <1>4, <2>9, SettleQuiet, ExecuteQuiet, ResponseQuiet
  <2>10. CASE FinishAppend(p) \/ FinishUpdate(p) \/ Dispose(p) \/ Release(p)
    BY <1>0, <1>4, <2>10, FinishAppendQuiet, FinishUpdateQuiet, DisposeQuiet
  <2> QED
    BY <1>6, <2>1, <2>2, <2>3, <2>4, <2>5, <2>6, <2>7, <2>8, <2>9, <2>10 DEF RunStep
<1> QED
  BY <1>2, <1>3, <1>5, <1>6 DEF Next

(* Every step keeps all sessions right.                                    *)
LEMMA SessionsStay ==
  ASSUME RunnerInv, SessionsFit, [Next]_vars
  PROVE  SessionsFit'
<1>0. /\ StoreOk /\ StoreOk' /\ RunsOk /\ LogGrows
      /\ \A q \in Procs : SessionFits(run[q], log)
  BY NextKeeps, LogOnlyGrows DEF RunnerInv, RunsOk, CallOk, SessionsFit
<1>1. ASSUME NEW q \in Procs PROVE SessionFits(run[q], log')
  <2>1. run[q].pc = "resumed" => run[q].lastSeq \in Nat
    BY <1>0, RunTypes DEF RunsOk
  <2>2. Len(log) \in Nat /\ Len(log') \in Nat
    BY <1>0, StoreTypes DEF StoreOk, StoreTypeOK
  <2>3. Once(run[q].session, run[q].applied, log')
    BY <1>0, OnceStays DEF SessionFits
  <2> QED
    BY <1>0, <2>1, <2>2, <2>3 DEF SessionFits, LogGrows
<1>2. CASE run' = run
  BY <1>1, <1>2 DEF SessionsFit
<1>3. ASSUME NEW p \in Procs, Fitted(p) PROVE SessionsFit'
  <2>1. PICK s : Set(p, s) /\ SessionFits(s, log')
    BY <1>3 DEF Fitted
  <2>2. run'[p] = s /\ \A q \in Procs : q # p => run'[q] = run[q]
    BY <2>1, MoveRun
  <2> QED
    BY <1>1, <2>1, <2>2 DEF SessionsFit
<1>4. CASE UNCHANGED vars
  BY <1>2, <1>4 DEF vars
<1>5. CASE Expire
  BY <1>2, <1>5 DEF Expire
<1>6. ASSUME NEW p \in Procs, RunJob(p) \/ ResumeJob(p) \/ RunStep(p) PROVE SessionsFit'
  BY <1>0, <1>3, <1>6, RunStepFits
<1>7. ASSUME NEW p \in Procs, CtlCall(p) \/ CtlStep(p) \/ Crash(p) PROVE SessionsFit'
  <2>1. ControlMove(p)
    BY <1>0, <1>7, ControlQuiet
  <2>2. CASE AbortLocal(p)
    <3> DEFINE a == run[p].aborted \/ run[p].active
               s == [run[p] EXCEPT !.aborted = a]
    <3>1. Set(p, s)
      BY <2>2 DEF AbortLocal, Set
    <3>2. Whole(run[p]) /\ "lastSeq" \in DOMAIN run[p]
      BY <1>0, WholeRun DEF RunsOk, LocalOk, Typed, RunCallOf
    <3> HIDE DEF a
    <3>3. /\ s.session = run[p].session /\ s.applied = run[p].applied
          /\ s.pc = run[p].pc /\ s.lastSeq = run[p].lastSeq
      BY <3>2 DEF Whole
    <3> HIDE DEF s
    <3>4. SessionFits(s, log')
      BY <1>1, <3>3 DEF SessionFits
    <3>5. Fitted(p)
      BY <3>1, <3>4 DEF Fitted
    <3> QED
      BY <1>3, <3>5
  <2>3. CASE run' = [run EXCEPT ![p] = IdleRun]
    <3>1. Steady(p)
      BY <2>3, IdleBlanked, SteadyBy DEF Set
    <3>2. Fitted(p)
      BY <1>0, <3>1, SteadyFits
    <3> QED
      BY <1>3, <3>2
  <2> QED
    BY <1>2, <2>1, <2>2, <2>3 DEF ControlMove
<1> QED
  BY <1>4, <1>5, <1>6, <1>7 DEF Next

(* A new job has no session.                                               *)
LEMMA InitSessions == Init => SessionsFit
<1> SUFFICES ASSUME Init PROVE SessionsFit
  OBVIOUS
<1>1. StoreOk
  BY InitInv DEF RunnerInv
<1>2. Once(<< >>, {}, log)
  BY <1>1, EmptyOnce DEF StoreOk, StoreTypeOK
<1> QED
  BY <1>2, IdleBlanked DEF Init, Blanked, SessionsFit, SessionFits

(* No admitted input enters the same session twice, on a fresh start or    *)
(* after a recovery: what drainAdmittedInput adds is what the session has  *)
(* not, since every input in it is marked as applied (projection,          *)
(* submitInput, resumeJob), for any number of processes and inputs.        *)
THEOREM InputsOnce == Spec => []NoInputTwice
<1>1. Init => SessionsFit
  BY InitSessions
<1>2. RunnerInv /\ SessionsFit /\ [Next]_vars => SessionsFit'
  BY SessionsStay
<1>3. SessionsFit => NoInputTwice
  BY DEF SessionsFit, SessionFits, Once, NoInputTwice
<1> QED
  BY <1>1, <1>2, <1>3, RunnerInvariant, PTL DEF Spec

-----------------------------------------------------------------------------
(* Type correctness, sessions included.                                    *)

(* The control calls.                                                      *)
CtlCalls == [Procs -> [pc : CtlPc, att : Generation]]

(* Control calls keep their type.                                          *)
LEMMA CtlTyped ==
  ASSUME RunnerInv, ctl \in CtlCalls, [Next]_vars
  PROVE  ctl' \in CtlCalls
<1>0. rec.attempt \in Generation /\ 0 \in Generation
  BY StoreTypes, RunnerAssumption DEF RunnerInv, Generation
<1>1. \A p \in Procs, pc \in CtlPc : CtlGoto(p, pc) => ctl' \in CtlCalls
  BY DEF CtlGoto, CtlCalls
<1>2. \A p \in Procs : CtlEnd(p) => ctl' \in CtlCalls
  BY <1>0 DEF CtlEnd, CtlCalls, IdleCtl, CtlPc
<1>3. ASSUME NEW p \in Procs, CtlCall(p) PROVE ctl' \in CtlCalls
  <2>1. ASSUME NEW pc \in CtlPc, ctl' = [ctl EXCEPT ![p] = [pc |-> pc, att |-> rec.attempt]]
        PROVE  ctl' \in CtlCalls
    BY <1>0, <2>1 DEF CtlCalls
  <2>2. "cancelUpdate" \in CtlPc /\ "suspRead" \in CtlPc /\ "inputAppend" \in CtlPc
    BY DEF CtlPc
  <2> QED
    BY <1>3, <2>1, <2>2 DEF CtlCall, CancelJob, Reconcile, SubmitInput, CtlBegin
<1>4. ASSUME NEW p \in Procs, CtlStep(p) PROVE ctl' \in CtlCalls
  <2>1. \A pc \in {"cancelAppend", "cancelFinal", "suspEnv", "suspAppend", "suspPark"} : pc \in CtlPc
    BY DEF CtlPc
  <2>2. CASE CancelUpdate(p) \/ CancelAppend(p) \/ CancelFinal(p) \/ InputAppend(p)
    BY <1>1, <1>2, <2>1, <2>2 DEF CancelUpdate, CancelAppend, CancelFinal, InputAppend
  <2>3. CASE SuspendRead(p)
    BY <1>0, <2>3 DEF SuspendRead, CtlCalls, CtlPc, IdleCtl
  <2>4. CASE SuspendCapture(p) \/ SuspendEnvironment(p) \/ SuspendAppend(p) \/ SuspendPark(p)
    BY <1>1, <1>2, <2>1, <2>4 DEF SuspendCapture, SuspendEnvironment, SuspendAppend, SuspendPark
  <2> QED
    BY <1>4, <2>2, <2>3, <2>4 DEF CtlStep
<1>5. ASSUME NEW p \in Procs, Crash(p) PROVE ctl' \in CtlCalls
  BY <1>2, <1>5 DEF Crash, CtlEnd
<1>6. ASSUME NEW p \in Procs, RunJob(p) \/ ResumeJob(p) \/ RunStep(p) PROVE ctl' = ctl
  <2>1. CASE RunJob(p) \/ ResumeJob(p) \/ RecoverRead(p) \/ AcquireRead(p) \/ Acquire(p) \/ Start(p)
             \/ CreateEnvironment(p) \/ Started(p) \/ Drain(p) \/ SetRunning(p) \/ Resuming(p)
             \/ Recover(p) \/ Resumed(p)
    BY <2>1 DEF RunJob, ResumeJob, RecoverRead, AcquireRead, Acquire, Start, CreateEnvironment,
       Started, Drain, SetRunning, Resuming, Recover, Resumed, WriteStatus, AppendOwn
  <2>2. CASE ParkRelease(p) \/ ParkUpdate(p) \/ CheckpointStatus(p) \/ CheckpointAppend(p)
             \/ CheckpointSave(p) \/ CheckpointResume(p) \/ Loop(p) \/ Turn(p) \/ TurnAppend(p)
             \/ BudgetExhausted(p)
    BY <2>2 DEF ParkRelease, ParkUpdate, CheckpointStatus, CheckpointAppend, CheckpointSave,
       CheckpointResume, Loop, Turn, TurnAppend, BudgetExhausted, WriteStatus, AppendOwn
  <2>3. CASE RequestAppend(p) \/ Settle(p) \/ Execute(p) \/ ResponseAppend(p) \/ UncertainAppend(p)
             \/ FinishAppend(p) \/ FinishUpdate(p) \/ Dispose(p) \/ Release(p)
    BY <2>3 DEF RequestAppend, Settle, Execute, ResponseAppend, UncertainAppend,
       FinishAppend, FinishUpdate, Dispose, Release, AppendOwn
  <2> QED
    BY <1>6, <2>1, <2>2, <2>3 DEF RunStep
<1> QED
  BY <1>3, <1>4, <1>5, <1>6 DEF Next, vars, Expire

(* The workspace, the control calls and the two observers.                 *)
SidesTyped ==
  /\ env \in BOOLEAN
  /\ ctl \in CtlCalls
  /\ execs \in [Key -> Nat]
  /\ orphaned \in SUBSET Seqs

(* The tool that is run belongs to a key.                                  *)
LEMMA HeadIsKey ==
  ASSUME RunnerInv, NEW p \in Procs, Execute(p)
  PROVE  Head(run[p].pending) \in Key
<1>1. LocalOk(run[p]) /\ run[p].pc = "exec"
  BY DEF RunnerInv, CallOk, Execute, At
<1>2. run[p].pending \in Seq(Key) /\ run[p].pending # << >>
  BY <1>1 DEF LocalOk, Typed, RunCallOf, Shape
<1> QED
  BY <1>2, PendingParts

(* The steps of a call keep the types of the rest.                         *)
LEMMA SidesInRun ==
  ASSUME RunnerInv, SidesTyped, NEW p \in Procs, RunJob(p) \/ ResumeJob(p) \/ RunStep(p)
  PROVE  env' \in BOOLEAN /\ execs' \in [Key -> Nat] /\ orphaned' \in SUBSET Seqs
<1>1. CASE RunJob(p) \/ ResumeJob(p) \/ RecoverRead(p) \/ AcquireRead(p) \/ Acquire(p) \/ Start(p)
           \/ CreateEnvironment(p) \/ Started(p) \/ Drain(p) \/ SetRunning(p) \/ Resuming(p)
           \/ Recover(p)
  BY <1>1 DEF SidesTyped, RunJob, ResumeJob, RecoverRead, AcquireRead, Acquire, Start,
     CreateEnvironment, Started, Drain, SetRunning, Resuming, Recover, WriteStatus, AppendOwn
<1>2. CASE Resumed(p)
  <2> DEFINE orphans == (run[p].lastSeq + 1) .. run[p].seen
  <2>1. run[p].lastSeq \in Seqs /\ run[p].seen \in Seqs
    BY DEF RunnerInv, CallOk, LocalOk, Typed, RunCallOf
  <2>2. orphans \in SUBSET Seqs
    BY <2>1, RunnerAssumption DEF Seqs
  <2>3. \/ orphaned' = orphaned
        \/ orphaned' = orphaned \cup {s \in orphans : log[s].type \in {"assistant", "tool_response"}}
    BY <1>2, Zenon DEF Resumed
  <2>4. env' = env /\ execs' = execs
    BY <1>2 DEF Resumed, AppendOwn
  <2> HIDE DEF orphans
  <2> QED
    BY <2>2, <2>3, <2>4 DEF SidesTyped
<1>3. CASE ParkRelease(p) \/ ParkUpdate(p) \/ CheckpointStatus(p) \/ CheckpointAppend(p)
           \/ CheckpointSave(p) \/ CheckpointResume(p) \/ Loop(p) \/ Turn(p) \/ TurnAppend(p)
           \/ BudgetExhausted(p)
  BY <1>3 DEF SidesTyped, ParkRelease, ParkUpdate, CheckpointStatus, CheckpointAppend,
     CheckpointSave, CheckpointResume, Loop, Turn, TurnAppend, BudgetExhausted, WriteStatus,
     AppendOwn
<1>4. CASE Execute(p)
  <2> DEFINE k == Head(run[p].pending)
  <2>1. k \in Key
    BY <1>4, HeadIsKey
  <2>2. execs' = [execs EXCEPT ![k] = @ + 1] /\ env' = env /\ orphaned' = orphaned
    BY <1>4 DEF Execute
  <2> HIDE DEF k
  <2> QED
    BY <2>1, <2>2 DEF SidesTyped
<1>5. CASE RequestAppend(p) \/ Settle(p) \/ ResponseAppend(p) \/ UncertainAppend(p)
           \/ FinishAppend(p) \/ FinishUpdate(p) \/ Dispose(p) \/ Release(p)
  BY <1>5 DEF SidesTyped, RequestAppend, Settle, ResponseAppend, UncertainAppend,
     FinishAppend, FinishUpdate, Dispose, Release, AppendOwn
<1> QED
  BY <1>1, <1>2, <1>3, <1>4, <1>5 DEF RunStep

(* Every step of the runner keeps them.                                    *)
LEMMA SidesNext ==
  ASSUME RunnerInv, SidesTyped, [Next]_vars
  PROVE  SidesTyped'
<1>1. ctl' \in CtlCalls
  BY CtlTyped DEF SidesTyped
<1>2. CASE UNCHANGED vars \/ Expire
  BY <1>2 DEF vars, Expire, SidesTyped
<1>3. ASSUME NEW p \in Procs, RunJob(p) \/ ResumeJob(p) \/ RunStep(p) PROVE SidesTyped'
  BY <1>1, <1>3, SidesInRun DEF SidesTyped
<1>4. ASSUME NEW p \in Procs, CtlCall(p) \/ CtlStep(p) \/ Crash(p) PROVE SidesTyped'
  <2>1. env' \in BOOLEAN /\ execs' = execs /\ orphaned' = orphaned
    BY <1>4 DEF SidesTyped, CtlCall, CancelJob, Reconcile, SubmitInput, CtlBegin, CtlStep,
       CancelUpdate, CancelAppend, CancelFinal, SuspendRead, SuspendCapture, SuspendEnvironment,
       SuspendAppend, SuspendPark, InputAppend, Crash
  <2> QED
    BY <1>1, <2>1 DEF SidesTyped
<1> QED
  BY <1>2, <1>3, <1>4 DEF Next

(* Right rows, right calls and right sessions are well typed.              *)
LEMMA AllTyped ==
  ASSUME RunnerInv, SessionsFit, SidesTyped
  PROVE  TypeOK
<1>1. StoreTypeOK
  BY DEF RunnerInv, StoreOk
<1>2. ASSUME NEW p \in Procs
      PROVE  /\ run[p].pc \in RunPc
             /\ run[p].gen \in Generation /\ run[p].view \in Generation
             /\ run[p].body \in RunBody
             /\ run[p].lastSeq \in Seqs /\ run[p].seen \in Seqs
             /\ run[p].applied \subseteq Seqs
             /\ run[p].final \in {"none"} \cup Terminal
  BY DEF RunnerInv, CallOk, LocalOk, Typed, RunCallOf
<1>3. ASSUME NEW p \in Procs PROVE run[p].session \in Seq(Seqs)
  <2>1. run[p].session \in Seq(1..Len(log))
    BY DEF SessionsFit, SessionFits, Once
  <2>2. Len(log) \in Nat /\ Len(log) <= MaxEvents
    BY StoreTypes DEF RunnerInv, StoreOk, StoreTypeOK
  <2>3. \A n \in 1..Len(log) : n \in Seqs
    BY <2>2, RunnerAssumption DEF Seqs
  <2> QED
    BY <2>1, <2>3
<1>4. \A p \in Procs : ctl[p] \in [pc : CtlPc, att : Generation]
  BY DEF SidesTyped, CtlCalls
<1> QED
  BY <1>1, <1>2, <1>3, <1>4 DEF TypeOK, SidesTyped

(* A new job has the rest well typed.                                      *)
LEMMA InitSides == Init => SidesTyped
<1> SUFFICES ASSUME Init PROVE SidesTyped
  OBVIOUS
<1>1. IdleCtl \in [pc : CtlPc, att : Generation]
  BY RunnerAssumption DEF IdleCtl, CtlPc, Generation
<1>2. ctl \in CtlCalls
  BY <1>1 DEF Init, CtlCalls
<1>3. env \in BOOLEAN /\ execs \in [Key -> Nat] /\ orphaned \in SUBSET Seqs
  BY DEF Init
<1> QED
  BY <1>2, <1>3 DEF SidesTyped

(* Rows, run calls, sessions and control calls keep their types, for any   *)
(* number of processes and any interleaving (runner.ts, actor.ts).         *)
THEOREM RunnerTyped == Spec => []TypeOK
<1>1. RunnerInv /\ SessionsFit /\ SidesTyped /\ [Next]_vars => SessionsFit' /\ SidesTyped'
  BY SessionsStay, SidesNext
<1>2. RunnerInv /\ SessionsFit /\ SidesTyped => TypeOK
  BY AllTyped
<1> QED
  BY <1>1, <1>2, InitSessions, InitSides, RunnerInvariant, PTL DEF Spec

-----------------------------------------------------------------------------
(***************************************************************************)
(* The fleet: worker hosts over the dispatcher.                            *)
(*                                                                         *)
(* Towards the runner's rows a host does only what the runner does, so the *)
(* runner's invariant and the refinement carry over.  What the deployment  *)
(* adds is the claim, and a host that ends compares its token.             *)
(***************************************************************************)
(* A step of the fleet that moves no call of the runner and only patches   *)
(* the record keeps the invariant.                                         *)
LEMMA PatchKeeps ==
  ASSUME RunnerInv, UNCHANGED <<log, ckpt, run>>,
         rec' = rec \/ LeaseExpires \/ rec' = WithStatusNoLease("queued")
  PROVE  RunnerInv' /\ OwnerStep
<1>1. "queued" \in JobStatus  BY DEF JobStatus
<1>2. Quiet  BY <1>1, PatchQuiet DEF RunnerInv, Quiet, QuietLog
<1> QED  BY <1>2, StutterKeeps

(* runOnce calls runJob, or is told that there is nothing to run.          *)
LEMMA RunClaimedKeeps ==
  ASSUME RunnerInv, NEW p \in Procs, RunClaimed(p)
  PROVE  RunnerInv' /\ OwnerStep
<1>1. CASE RunJob(p) \/ ResumeJob(p)
  <2>1. [Next]_vars  BY <1>1 DEF Next
  <2> QED  BY <2>1, NextKeeps
<1>2. CASE /\ \E s \in {IdleRun, Rejected} : Set(p, s)
           /\ UNCHANGED <<rec, log, ckpt>>
  <2>1. Quiet  BY <1>2, PatchQuiet DEF RunnerInv, Quiet, QuietLog
  <2>2. QuietMove(p)  BY <1>2, <2>1, RejectedGood DEF QuietMove
  <2> QED  BY <2>2, QuietKeeps
<1> QED  BY <1>1, <1>2 DEF RunClaimed

(* Every step of the fleet keeps the runner's invariant and is a step of   *)
(* the ownership contract.                                                 *)
LEMMA FleetKeeps ==
  ASSUME RunnerInv, [FleetNext]_fleetVars
  PROVE  RunnerInv' /\ OwnerStep
<1>1. CASE [Next]_vars  BY <1>1, NextKeeps
<1>2. CASE UNCHANGED fleetVars  BY <1>1, <1>2 DEF fleetVars
<1>3. ASSUME NEW p \in Procs, HostStep(p) PROVE RunnerInv' /\ OwnerStep
  <2>1. CASE RunClaimed(p)  BY <2>1, RunClaimedKeeps
  <2>2. CASE UNCHANGED vars  BY <1>1, <2>2
  <2> QED
    BY <1>3, <2>1, <2>2 DEF HostStep, Claim, Acknowledge, HeartbeatFails, RunOver
<1>4. ASSUME NEW p \in Procs, FleetCrash(p) PROVE RunnerInv' /\ OwnerStep
  <2>1. CASE Crash(p)  BY <1>1, <2>1 DEF Next
  <2>2. CASE UNCHANGED <<rec, log, ckpt, run>>  BY <2>2, PatchKeeps
  <2> QED  BY <1>4, <2>1, <2>2 DEF FleetCrash
<1>5. ASSUME NEW p \in Procs, RunStep(p) \/ CtlCall(p) \/ CtlStep(p) PROVE RunnerInv' /\ OwnerStep
  BY <1>1, <1>5 DEF Next
<1>6. CASE Enqueue \/ ExecutionExpires
  BY <1>6, PatchKeeps DEF Enqueue, Requeue, ExecutionExpires
<1>7. CASE ClaimExpires  BY <1>1, <1>7 DEF ClaimExpires
<1> QED  BY <1>2, <1>3, <1>4, <1>5, <1>6, <1>7 DEF FleetNext

(* The runOnce call of a host.                                             *)
HostRow == [pc : HostPc, token : 0..MaxClaims, heartbeating : BOOLEAN, fenced : BOOLEAN]
HostsTyped ==
  /\ claim \in [token : 0..MaxClaims, live : BOOLEAN]
  /\ claims \in 0..MaxClaims
  /\ host \in [Procs -> HostRow]

(* A host that is not working.                                             *)
LEMMA IdleHostRow == IdleHost \in HostRow /\ NoClaim \in [token : 0..MaxClaims, live : BOOLEAN]
  BY FleetBound DEF IdleHost, HostRow, HostPc, NoClaim

(* Hosts keep their types.                                                 *)
LEMMA HostsKept ==
  ASSUME HostsTyped, [FleetNext]_fleetVars
  PROVE  HostsTyped'
<1>0. NoClaim \in [token : 0..MaxClaims, live : BOOLEAN]
  BY IdleHostRow
<1>1. CASE UNCHANGED <<claim, claims, host>>
  BY <1>1 DEF HostsTyped
<1>2. ASSUME NEW p \in Procs, Claim(p) PROVE claims + 1 \in 0..MaxClaims
  BY <1>2, FleetBound DEF HostsTyped, Claim
<1>3. ASSUME NEW p \in Procs, HostStep(p) \/ FleetCrash(p) PROVE HostsTyped'
  <2>1. claims' \in 0..MaxClaims /\ claim' \in [token : 0..MaxClaims, live : BOOLEAN]
    <3>1. CASE Claim(p)
      BY <1>2, <3>1 DEF Claim
    <3>2. CASE Acknowledge(p) \/ RunClaimed(p) \/ HeartbeatFails(p) \/ FleetCrash(p)
      BY <3>2 DEF HostsTyped, Acknowledge, RunClaimed, HeartbeatFails, FleetCrash
    <3>3. CASE RunOver(p)
      BY <1>0, <3>3 DEF HostsTyped, RunOver
    <3> QED
      BY <1>3, <3>1, <3>2, <3>3 DEF HostStep
  <2>2. \E h \in HostRow : HostSet(p, h)
    <3>1. host[p] \in HostRow /\ IdleHost \in HostRow
      BY IdleHostRow DEF HostsTyped
    <3>2. CASE Claim(p)
      <4> DEFINE s == [IdleHost EXCEPT !.pc = "ack", !.token = claims + 1]
      <4>1. s \in HostRow  BY <1>2, <3>1, <3>2 DEF HostRow, HostPc
      <4>2. HostSet(p, s)  BY <3>2 DEF Claim
      <4> HIDE DEF s
      <4> QED  BY <4>1, <4>2
    <3>3. CASE Acknowledge(p)
      <4> DEFINE s == [host[p] EXCEPT !.pc = "run", !.heartbeating = TRUE]
      <4>1. s \in HostRow  BY <3>1 DEF HostRow, HostPc
      <4>2. HostSet(p, s)  BY <3>3 DEF Acknowledge
      <4> HIDE DEF s
      <4> QED  BY <4>1, <4>2
    <3>4. CASE RunClaimed(p)
      <4> DEFINE s == [host[p] EXCEPT !.pc = "wait"]
      <4>1. s \in HostRow  BY <3>1 DEF HostRow, HostPc
      <4>2. HostSet(p, s)  BY <3>4 DEF RunClaimed
      <4> HIDE DEF s
      <4> QED  BY <4>1, <4>2
    <3>5. CASE HeartbeatFails(p)
      <4> DEFINE s == [host[p] EXCEPT !.heartbeating = FALSE, !.fenced = TRUE]
      <4>1. s \in HostRow  BY <3>1 DEF HostRow, HostPc
      <4>2. HostSet(p, s)  BY <3>5 DEF HeartbeatFails
      <4> HIDE DEF s
      <4> QED  BY <4>1, <4>2
    <3>6. CASE RunOver(p)
      <4> DEFINE s == [IdleHost EXCEPT !.pc = "dead"]
      <4>1. s \in HostRow  BY <3>1 DEF HostRow, HostPc
      <4>2. HostSet(p, s) \/ HostSet(p, IdleHost)  BY <3>6 DEF RunOver
      <4> HIDE DEF s
      <4> QED  BY <3>1, <4>1, <4>2
    <3>7. CASE FleetCrash(p)  BY <3>1, <3>7 DEF FleetCrash
    <3> QED
      BY <1>3, <3>2, <3>3, <3>4, <3>5, <3>6, <3>7 DEF HostStep
  <2> QED
    BY <2>1, <2>2 DEF HostsTyped, HostSet
<1>4. CASE Enqueue \/ ClaimExpires
  BY <1>0, <1>4 DEF HostsTyped, Enqueue, ClaimExpires
<1> QED
  BY <1>1, <1>3, <1>4 DEF FleetNext, fleetVars, fleetOnly, ExecutionExpires

(* A host that goes idle while the claim is another's leaves it.           *)
LEMMA ClaimsOfOthersStand ==
  ASSUME HostsTyped, [FleetNext]_fleetVars, NEW p \in Procs,
         HostAt(p, "wait"), host'[p].pc = "idle", claim.token # host[p].token
  PROVE  claim' = claim
<1>1. CASE UNCHANGED host  BY <1>1 DEF HostAt
<1>2. ASSUME NEW q \in Procs, Claim(q) PROVE claim' = claim
  <2>1. q # p  BY <1>2 DEF Claim, HostAt
  <2>2. host'[p] = host[p]  BY <1>2, <2>1 DEF Claim, HostSet, HostsTyped
  <2> QED  BY <2>2 DEF HostAt
<1>3. ASSUME NEW q \in Procs, RunOver(q) PROVE claim' = claim
  <2>1. CASE q = p  BY <1>3, <2>1 DEF RunOver
  <2>2. CASE q # p
    <3>1. host'[p] = host[p]  BY <1>3, <2>2 DEF RunOver, HostSet, HostsTyped
    <3> QED  BY <3>1 DEF HostAt
  <2> QED  BY <2>1, <2>2
<1>4. ASSUME NEW q \in Procs, HostStep(q) \/ FleetCrash(q) PROVE claim' = claim
  <2>1. CASE Acknowledge(q) \/ RunClaimed(q) \/ HeartbeatFails(q) \/ FleetCrash(q)
    BY <2>1 DEF Acknowledge, RunClaimed, HeartbeatFails, FleetCrash
  <2> QED  BY <1>2, <1>3, <1>4, <2>1 DEF HostStep
<1>5. CASE Enqueue \/ ExecutionExpires \/ ClaimExpires
  BY <1>1, <1>5 DEF Enqueue, ExecutionExpires, ClaimExpires, fleetOnly
<1>6. CASE UNCHANGED fleetOnly \/ UNCHANGED fleetVars  BY <1>6 DEF fleetOnly, fleetVars
<1> QED  BY <1>4, <1>5, <1>6 DEF FleetNext

(* In every deployment, however claims and leases expire apart from each   *)
(* other, a generation has one run, a host that ends late takes no other   *)
(* host's assignment away, and the job is owned as the contract says       *)
(* (acquireLease, worker host, dispatcher.release).                        *)
THEOREM FleetAssigns == FleetSpec => AssignedToOne
<1>1. FleetInit => RunnerInv /\ HostsTyped /\ Owner!OwnershipInit
  <2>1. FleetInit => HostsTyped  BY IdleHostRow, FleetBound DEF FleetInit, HostsTyped
  <2>2. Init => Owner!OwnershipInit  BY DEF Init, Owner!OwnershipInit, NoLease
  <2> QED  BY <2>1, <2>2, InitInv DEF FleetInit
<1>2. RunnerInv /\ HostsTyped /\ [FleetNext]_fleetVars => RunnerInv' /\ HostsTyped'
  BY FleetKeeps, HostsKept
<1>3. FleetSpec => [](RunnerInv /\ HostsTyped)
  BY <1>1, <1>2, PTL DEF FleetSpec
<1>4. RunnerInv => OneRunPerGeneration
  BY DEF RunnerInv
<1>5. RunnerInv /\ [FleetNext]_fleetVars => [Owner!OwnershipNext]_(Owner!ownershipVars)
  BY FleetKeeps DEF OwnerStep
<1>6. HostsTyped /\ [FleetNext]_fleetVars =>
        [\A p \in Procs :
           HostAt(p, "wait") /\ host'[p].pc = "idle" /\ claim.token # host[p].token
             => claim' = claim]_fleetVars
  BY ClaimsOfOthersStand
<1>7. FleetSpec => []OneRunPerGeneration
  BY <1>3, <1>4, PTL
<1>8. FleetSpec => OthersClaimKept
  BY <1>3, <1>6, PTL DEF FleetSpec, OthersClaimKept
<1>9. FleetSpec => ImplementsOwnership
  BY <1>1, <1>3, <1>5, PTL DEF FleetSpec, ImplementsOwnership, Owner!OwnershipSpec
<1> QED
  BY <1>7, <1>8, <1>9 DEF AssignedToOne

(* What a step of the fleet is to the runner: a step of its own, a write   *)
(* of the record alone, or a runJob that has nothing to run.               *)
LEMMA FleetMoves ==
  ASSUME [FleetNext]_fleetVars
  PROVE  \/ [Next]_vars
         \/ UNCHANGED <<log, env, run, ctl, execs, orphaned>>
         \/ \E p \in Procs : /\ Set(p, IdleRun) \/ Set(p, Rejected)
                            /\ UNCHANGED <<log, env, ctl, execs, orphaned>>
<1>1. ASSUME NEW p \in Procs, HostStep(p)
      PROVE  \/ [Next]_vars
             \/ \E q \in Procs : /\ Set(q, IdleRun) \/ Set(q, Rejected)
                                /\ UNCHANGED <<log, env, ctl, execs, orphaned>>
  <2>1. CASE RunClaimed(p)
    <3>1. CASE RunJob(p) \/ ResumeJob(p)
      BY <3>1 DEF Next
    <3>2. CASE /\ Set(p, IF rec.status \in Terminal THEN IdleRun ELSE Rejected)
               /\ UNCHANGED <<rec, log, ckpt, env, ctl, spent, execs, orphaned>>
      BY <3>2
    <3> QED
      BY <2>1, <3>1, <3>2 DEF RunClaimed
  <2>2. CASE UNCHANGED vars
    BY <2>2
  <2> QED
    BY <1>1, <2>1, <2>2 DEF HostStep, Claim, Acknowledge, HeartbeatFails, RunOver
<1>2. ASSUME NEW p \in Procs, FleetCrash(p)
      PROVE  [Next]_vars \/ UNCHANGED <<log, env, run, ctl, execs, orphaned>>
  BY <1>2 DEF FleetCrash, Next
<1>3. ASSUME NEW p \in Procs, RunStep(p) \/ CtlCall(p) \/ CtlStep(p) PROVE [Next]_vars
  BY <1>3 DEF Next
<1>4. CASE Enqueue \/ ExecutionExpires
  BY <1>4 DEF Enqueue, ExecutionExpires
<1>5. CASE ClaimExpires \/ UNCHANGED fleetVars
  BY <1>5 DEF ClaimExpires, fleetVars
<1> QED
  BY <1>1, <1>2, <1>3, <1>4, <1>5 DEF FleetNext

(* Sessions stay right in the fleet, and everything well typed.            *)
LEMMA FleetTypesKept ==
  ASSUME RunnerInv, RunnerInv', SessionsFit, SidesTyped, [FleetNext]_fleetVars
  PROVE  SessionsFit' /\ SidesTyped'
<1>1. CASE [Next]_vars
  BY <1>1, SessionsStay, SidesNext
<1>2. CASE UNCHANGED <<log, env, run, ctl, execs, orphaned>>
  BY <1>2 DEF SessionsFit, SidesTyped
<1>3. ASSUME NEW p \in Procs, NEW s, Set(p, s), s \in {IdleRun, Rejected},
             UNCHANGED <<log, env, ctl, execs, orphaned>>
      PROVE  SessionsFit' /\ SidesTyped'
  <2>1. StoreOk
    BY DEF RunnerInv
  <2>2. SessionFits(s, log)
    <3>1. Once(<< >>, {}, log)
      BY <2>1, EmptyOnce DEF StoreOk, StoreTypeOK
    <3>2. Blanked(s)
      BY <1>3, IdleBlanked
    <3> QED
      BY <3>1, <3>2 DEF SessionFits, Blanked
  <2>3. run'[p] = s /\ \A q \in Procs : q # p => run'[q] = run[q]
    BY <1>3, MoveRun
  <2>4. \A q \in Procs : SessionFits(run'[q], log)
    BY <2>2, <2>3 DEF SessionsFit
  <2> QED
    BY <1>3, <2>4 DEF SessionsFit, SidesTyped
<1> QED
  BY <1>1, <1>2, <1>3, FleetMoves

(* In every deployment rows, calls, sessions, claims and hosts keep their  *)
(* types, and no input enters a session twice (runner.ts, worker host,     *)
(* dispatcher).                                                            *)
THEOREM FleetTyped == FleetSpec => [](FleetTypeOK /\ NoInputTwice)
<1>1. FleetInit => RunnerInv /\ HostsTyped /\ SessionsFit /\ SidesTyped
  <2>1. FleetInit => HostsTyped
    BY IdleHostRow, FleetBound DEF FleetInit, HostsTyped
  <2> QED
    BY <2>1, InitInv, InitSessions, InitSides DEF FleetInit
<1>2. RunnerInv /\ HostsTyped /\ SessionsFit /\ SidesTyped /\ [FleetNext]_fleetVars
        => RunnerInv' /\ HostsTyped' /\ SessionsFit' /\ SidesTyped'
  <2> SUFFICES ASSUME RunnerInv, HostsTyped, SessionsFit, SidesTyped, [FleetNext]_fleetVars
               PROVE  RunnerInv' /\ HostsTyped' /\ SessionsFit' /\ SidesTyped'
    OBVIOUS
  <2>1. RunnerInv' /\ HostsTyped'
    BY FleetKeeps, HostsKept
  <2> QED
    BY <2>1, FleetTypesKept
<1>3. RunnerInv /\ HostsTyped /\ SessionsFit /\ SidesTyped => FleetTypeOK /\ NoInputTwice
  BY AllTyped DEF HostsTyped, HostRow, FleetTypeOK, SessionsFit, SessionFits, Once, NoInputTwice
<1> QED
  BY <1>1, <1>2, <1>3, PTL DEF FleetSpec
=============================================================================
