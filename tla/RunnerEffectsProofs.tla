--------------------------- MODULE RunnerEffectsProofs ---------------------------
(***************************************************************************)
(* Effects happen once, and the stored checkpoint is always enough to go   *)
(* on from, for every number of processes, calls and steps.                *)
(*                                                                         *)
(* A call of a tool that is not idempotent may be run only by a run call   *)
(* that has the right to it: it recorded the call itself in this           *)
(* settleTools (not by resuming a stored plan), has not run it yet, and    *)
(* was not fenced before its recording was saved.  The invariant says that *)
(* at most one run call has that right and that nobody with it finds the   *)
(* tool already run.  Recording gives the right to calls nobody knows; a   *)
(* save hands it on; acquireLease takes it from every call that has not    *)
(* saved, and a recovery resumes a plan without getting it.                *)
(*                                                                         *)
(* Three more facts carry this.  The body of the newest generation's call  *)
(* grows from the stored one, so that a save loses no entry of the         *)
(* idempotency table.  The plan of a call that settles is known to the     *)
(* stored checkpoint.  And a run call that starts from scratch finds no    *)
(* checkpoint: it was called on the queued job, and while the job is       *)
(* queued, or a runJob call still waits for its lease, nobody has worked   *)
(* on it.                                                                  *)
(*                                                                         *)
(* The last fact needs that at most one process calls runJob on the queued *)
(* job (OneStarter).  With two, the second may read "queued", wait until   *)
(* the lease of the first has run out, and start from scratch although a   *)
(* checkpoint exists; TLC shows a tool run twice.  The dispatcher assigns  *)
(* a queued job to one worker, but runJob by itself does not look at the   *)
(* status again after acquireLease.                                        *)
(***************************************************************************)
EXTENDS RunnerProofs

(* At most one process calls runJob while the job is queued.               *)
OneStarter == \A p, q \in Starters : p = q

-----------------------------------------------------------------------------
(* A body by itself.                                                       *)

(* The idempotency table has an entry for the call.                        *)
Known(b, k) == b.calls[k].status # "none"

(* A body by itself: its table knows no call of a later step, and the      *)
(* pending list of a plan names recorded calls, each once.                 *)
PlanOk(b) ==
  /\ b.cont.type = "provider_turn" =>
       \A k \in Key : Known(b, k) => k[1] < b.cont.step
  /\ b.cont.type = "settle_tools" =>
       /\ \A k \in Key : Known(b, k) => k[1] <= b.cont.step
       /\ \A i \in DOMAIN b.cont.pending : b.calls[b.cont.pending[i]].status = "recorded"
       /\ \A i, j \in DOMAIN b.cont.pending : b.cont.pending[i] = b.cont.pending[j] => i = j

(* Nothing that b knows is lost in c: entries stay, settled entries stay   *)
(* as they are, the usage counter does not go back.                        *)
Grows(b, c) ==
  /\ \A k \in Key : Known(b, k) => Known(c, k)
  /\ \A k \in Key : b.calls[k].status \in {"completed", "uncertain"} => c.calls[k] = b.calls[k]
  /\ c.steps >= b.steps

(* The body's seqs lie in the log up to n, and the ones of completed calls *)
(* are tool responses there (validateCheckpoint).                          *)
InLog(b, n) ==
  \A k \in Key :
    /\ b.calls[k].recordedAt <= n
    /\ b.calls[k].status = "completed" =>
         b.calls[k].resultSeq \in 1..n /\ log[b.calls[k].resultSeq].type = "tool_response"

-----------------------------------------------------------------------------
(* A call by itself.                                                       *)

(* The places where a run call works on a draft.                           *)
LoadedPc == {"drain0", "runFresh", "resumed", "runResumed", "loop", "drain", "turn",
             "turnAppend", "budget", "reqAppend", "settle", "exec", "respAppend",
             "uncAppend"} \cup CommitPc

(* The places of a terminal transition outside its commit boundary.        *)
Ending == {"finAppend", "finUpdate", "dispose"}

(* The call has a draft that it may still save.                            *)
Loaded(r) == r.pc \in LoadedPc \/ (r.pc \in Ending /\ r.withDraft)

(* What the place of a call says about its work: a resumed plan only runs  *)
(* idempotent tools, an uncertain mark is only made by a resumed plan,     *)
(* fail_job returns to the loop only from a failing transition with a      *)
(* draft, and a draft exists only where the code has one.                  *)
WorkOk(r) ==
  /\ PlanOk(r.body)
  /\ r.pc = "exec" /\ r.resume => Head(r.pending)[2] \in Idempotent
  /\ r.pc = "uncAppend" => r.resume
  /\ r.finTo = "loop" => r.pc \in Ending \cup CommitPc /\ r.withDraft /\ r.final = "failed"
  /\ r.drafted => Loaded(r) \/ r.pc = "release"
  /\ r.pc = "ckResume" => r.final = "none"
  /\ r.final # "none" => r.pc \in Ending \cup CommitPc
  /\ r.pc \in CommitPc /\ r.final # "none" => r.withDraft /\ r.commitTo = "finUpdate"
  /\ r.pc = "recRead" => r.mode = "resume"
  /\ r.pc = "resumed" => ~r.drafted

(* Where the plan is the stored one.                                       *)
PlanStored(r) ==
  \/ r.pc \in {"resumed", "runResumed", "loop", "settle", "exec", "respAppend",
               "uncAppend", "ckResume"}
  \/ r.finTo = "loop"
  \/ Settling(r) /\ r.resume

(* A call that settles a stored plan settles calls that the stored         *)
(* checkpoint knows.                                                       *)
PlanKnown(r) ==
  PlanStored(r) /\ r.body.cont.type = "settle_tools" =>
    \A i \in DOMAIN r.body.cont.pending : Known(ckpt.body, r.body.cont.pending[i])

(* The call may still run k as the one that recorded it.                   *)
Right(r, k) ==
  /\ Settling(r) /\ ~r.resume
  /\ \E i \in DOMAIN r.pending : r.pending[i] = k /\ (r.pc = "respAppend" => i > 1)

(* The save that recorded the plan of this settleTools is behind the call. *)
Saved(r) == r.pc \in {"ckResume", "settle", "exec", "respAppend"}

(* The right to run k counts while the call is not fenced, and for ever    *)
(* once the recording is saved: a zombie still runs its tool.              *)
Live(r, k) == Right(r, k) /\ (r.gen = rec.attempt \/ Saved(r))

(* Calls of tools that are not idempotent.                                 *)
NeedsRight == {k \in Key : k[2] \notin Idempotent}

(* What is true of one call's work in the store it works on.               *)
CallWorks(r) ==
  /\ WorkOk(r)
  /\ InLog(r.body, Len(log))
  /\ r.pc = "ckSave" => InLog(r.body, r.lastSeq)
  /\ r.gen = rec.attempt /\ Loaded(r) => Grows(ckpt.body, r.body)
  /\ r.gen = rec.attempt /\ r.pc \in {"start", "createEnv", "started"} => ckpt.attempt = 0
  /\ PlanKnown(r)

(* What is true of the stored checkpoint.                                  *)
StoredOk ==
  /\ ckpt.attempt = 0 => ckpt.body = NewBody
  /\ PlanOk(ckpt.body)
  /\ InLog(ckpt.body, ckpt.lastEventSeq)

(* A tool that ran is known to the stored checkpoint; a tool that is not   *)
(* idempotent ran at most once, and never when somebody has the right to   *)
(* run it, which at most one call has.                                     *)
EffectsOk ==
  /\ execs \in [Key -> Nat]
  /\ \A k \in Key : execs[k] > 0 => Known(ckpt.body, k)
  /\ \A k \in NeedsRight : execs[k] <= 1
  /\ \A k \in NeedsRight, p \in Procs : Live(run[p], k) => execs[k] = 0
  /\ \A k \in NeedsRight, p, q \in Procs : Live(run[p], k) /\ Live(run[q], k) => p = q

-----------------------------------------------------------------------------
(* Before the first checkpoint.                                            *)

(* runJob was called on the queued job and has no lease yet.               *)
Waiting(r) == r.pc \in {"acqRead", "acqLease"} /\ r.mode = "run"

(* A suspendJob call is in progress.                                       *)
Suspending(c) == c.pc \in {"suspRead", "suspCapture", "suspEnv", "suspAppend", "suspPark"}

(* A call that has done nothing to the job: idle, on its way out, ending   *)
(* it before it began, or about to start it for the first time.            *)
Unstarted(p, r) ==
  \/ r.pc \in {"idle", "release"}
  \/ /\ r.pc \in Ending /\ ~r.withDraft /\ ~r.drafted
     /\ r.final = "cancelled" \/ (p \in Starters /\ r.final = "failed")
  \/ p \in Starters /\ (Waiting(r) \/ r.pc = "start")

(* The job may still be started from scratch.                              *)
Fresh == rec.status = "queued" \/ \E p \in Procs : Waiting(run[p])

(* Nobody has worked on the job.                                           *)
Untouched ==
  /\ ckpt.attempt = 0
  /\ rec.status \in {"queued", "cancelled"}
  /\ \A p \in Procs : Unstarted(p, run[p]) /\ ~Suspending(ctl[p])

(* A job that may still be started from scratch is untouched, and only a   *)
(* starter waits to do so.                                                 *)
FreshOk ==
  /\ ctl \in CtlCalls
  /\ \A p \in Procs : Waiting(run[p]) => p \in Starters
  /\ Fresh => Untouched

(* Everything but what is true before the first start.                     *)
WorkInv ==
  /\ RunnerInv
  /\ StoredOk
  /\ \A p \in Procs : CallWorks(run[p])
  /\ EffectsOk

(* The inductive invariant.                                                *)
EffectsInv == WorkInv /\ FreshOk

-----------------------------------------------------------------------------
(* What a step of a call may do to it, when it starts nothing new.         *)

(* The places before the draft, from scratch.                              *)
Starting == {"start", "createEnv", "started"}

(* s carries on with the work of r: same generation, same table, a draft   *)
(* only if there was one, a stored plan only if it was the stored plan,    *)
(* and no right, no saved recording and no wait that r did not have.       *)
Continues(r, s) ==
  /\ s.gen = r.gen
  /\ WorkOk(s) /\ s.pc # "ckSave"
  /\ s.body.calls = r.body.calls
  /\ Loaded(s) => Loaded(r) /\ s.body.steps >= r.body.steps
  /\ s.pc \in Starting => r.pc \in Starting
  /\ PlanStored(s) /\ s.body.cont.type = "settle_tools" =>
       PlanStored(r) /\ s.body.cont = r.body.cont
  /\ \A k : Right(s, k) => Right(r, k)
  /\ Saved(s) /\ ~s.resume => Saved(r)
  /\ Waiting(s) => Waiting(r)

(* s has no generation and no work.                                        *)
Blank(s) ==
  /\ s.gen = 0 /\ WorkOk(s) /\ s.body = NewBody
  /\ ~Loaded(s) /\ s.pc \notin Starting /\ ~Settling(s) /\ ~PlanStored(s)

(* What most steps leave alone.                                            *)
Same(r, s) ==
  /\ s.gen = r.gen /\ s.mode = r.mode /\ s.drafted = r.drafted
  /\ s.body = r.body /\ s.pending = r.pending /\ s.resume = r.resume
  /\ s.finTo = r.finTo

(* All that the invariants read is the same.                               *)
Twin(r, s) ==
  /\ Same(r, s) /\ s.pc = r.pc /\ s.commitTo = r.commitTo /\ s.lastSeq = r.lastSeq
  /\ s.final = r.final /\ s.withDraft = r.withDraft

(* Moving the program counter leaves the rest alone.                       *)
LEMMA PcSame ==
  ASSUME NEW r, LocalOk(r), NEW pc
  PROVE  LET s == [r EXCEPT !.pc = pc] IN
         /\ Same(r, s) /\ s.pc = pc /\ s.commitTo = r.commitTo
         /\ s.final = r.final /\ s.withDraft = r.withDraft
  BY DEF LocalOk, Typed, RunCallOf, Same

(* Starting a terminal transition leaves the work alone.                   *)
LEMMA FinishSame ==
  ASSUME NEW r, LocalOk(r), NEW final, NEW event, NEW view, NEW withDraft
  PROVE  LET s == Finish(r, final, event, view, withDraft) IN
         /\ Same(r, s) /\ s.pc = "finAppend" /\ s.commitTo = r.commitTo
         /\ s.final = final /\ s.withDraft = withDraft
  BY DEF LocalOk, Typed, RunCallOf, Same, Finish

(* Entering a commit boundary leaves the work alone.                       *)
LEMMA CommitSame ==
  ASSUME NEW r, Typed(r), NEW to
  PROVE  LET s == Commit(r, to) IN
         /\ Same(r, s) /\ s.pc = "ckStatus" /\ s.commitTo = to
         /\ s.final = r.final /\ s.withDraft = r.withDraft
  BY DEF Typed, RunCallOf, Same, Commit

(* The types of a call's fields, as the provers want them.                 *)
LEMMA Fields ==
  ASSUME NEW r, LocalOk(r)
  PROVE  /\ r.drafted \in BOOLEAN /\ r.withDraft \in BOOLEAN /\ r.resume \in BOOLEAN
         /\ r.finTo \in {"release", "loop"} /\ r.final \in {"none"} \cup Terminal
         /\ r.body \in RunBody /\ r.pending \in Seq(Key) /\ r.body.steps \in Nat
         /\ r.gen \in Nat /\ r.pc \in RunPc /\ r.mode \in {"run", "resume"}
         /\ r.commitTo \in CommitTarget /\ r.turn \in Turns \cup {<< >>}
<1>1. /\ r.drafted \in BOOLEAN /\ r.withDraft \in BOOLEAN /\ r.resume \in BOOLEAN
      /\ r.finTo \in {"release", "loop"} /\ r.final \in {"none"} \cup Terminal
      /\ r.body \in RunBody /\ r.pending \in Seq(Key)
      /\ r.pc \in RunPc /\ r.mode \in {"run", "resume"}
      /\ r.commitTo \in CommitTarget /\ r.turn \in Turns \cup {<< >>}
  BY DEF LocalOk, Typed, RunCallOf
<1> QED
  BY <1>1, BodyParts, RunTypes

(* The end of a call: Thrown, CancelledNow, a completed or failed job.     *)
LEMMA EndContinues ==
  ASSUME NEW r, LocalOk(r), WorkOk(r), NEW s, Same(r, s), s.pc = "finAppend",
         s.withDraft \in BOOLEAN, r.finTo = "release",
         s.withDraft => Loaded(r), r.drafted => s.withDraft
  PROVE  Continues(r, s)
<1>1. r.body.steps \in Nat
  BY Fields
<1>2. WorkOk(s)
  BY DEF Same, WorkOk, Loaded, Ending, CommitPc
<1>3. ~PlanStored(s) /\ ~Settling(s) /\ ~Saved(s)
  BY DEF Same, PlanStored, Settling, CommitPc, Saved
<1>4. Loaded(s) => s.withDraft
  BY DEF Loaded, LoadedPc, Ending, CommitPc
<1> QED
  BY <1>1, <1>2, <1>3, <1>4 DEF Same, Continues, Starting, Right, Waiting

(* A call that throws into its catch block carries on: it keeps its draft  *)
(* only where runJob's catch block sees one.                               *)
LEMMA ThrownContinues ==
  ASSUME NEW r, LocalOk(r), WorkOk(r), r.finTo = "release", r.pc # "release"
  PROVE  Continues(r, Thrown(r))
<1> DEFINE s == Thrown(r)
<1>1. Same(r, s) /\ s.pc = "finAppend" /\ s.withDraft = r.drafted
  BY FinishSame DEF Thrown
<1> HIDE DEF s
<1>2. r.drafted \in BOOLEAN /\ (r.drafted => Loaded(r))
  BY Fields DEF WorkOk
<1>3. s.withDraft \in BOOLEAN /\ (s.withDraft => Loaded(r)) /\ (r.drafted => s.withDraft)
  BY <1>1, <1>2
<1>4. Continues(r, s)
  BY <1>1, <1>3, EndContinues
<1> QED
  BY <1>4 DEF s

(* Outside a terminal transition nothing returns to the loop.              *)
LEMMA FinToRelease ==
  ASSUME NEW r, LocalOk(r), WorkOk(r), r.pc \notin Ending \cup CommitPc
  PROVE  r.finTo = "release"
  BY Fields DEF WorkOk

(* A change of pc alone, between two places that hold the same work.       *)
LEMMA PcContinues ==
  ASSUME NEW r, LocalOk(r), WorkOk(r), NEW s, Same(r, s), s.withDraft = r.withDraft,
         s.final = r.final, s.pc \notin {"exec", "uncAppend", "ckResume", "ckSave", "recRead", "resumed"},
         r.final # "none" => s.pc \in Ending \cup CommitPc,
         r.final # "none" /\ s.pc \in CommitPc => s.withDraft /\ s.commitTo = "finUpdate",
         Loaded(s) => Loaded(r), s.pc \in Starting => r.pc \in Starting,
         PlanStored(s) => PlanStored(r) \/ r.body.cont.type # "settle_tools",
         r.finTo = "loop" => s.pc \in Ending \cup CommitPc,
         r.drafted => Loaded(s) \/ s.pc = "release",
         \A k : Right(s, k) => Right(r, k),
         Saved(s) => Saved(r) \/ r.resume, Waiting(s) => Waiting(r)
  PROVE  Continues(r, s)
<1>1. r.body.steps \in Nat
  BY Fields
<1>2. WorkOk(s)
  BY DEF Same, WorkOk
<1> QED
  BY <1>1, <1>2 DEF Same, Continues

(* The draft of newDraft knows no call.                                    *)
LEMMA EmptyBody == PlanOk(NewBody) /\ \A k \in Key : NewBody.calls[k] = NotCalled
  BY DEF NewBody, NoCalls, PlanOk, ProviderTurn, Known, NotCalled

(* A process without a call has no work.                                   *)
LEMMA IdleBlank == Blank(IdleRun) /\ Blank(Rejected) /\ ~Waiting(IdleRun) /\ ~Waiting(Rejected)
<1>1. PlanOk(NewBody)
  BY EmptyBody
<1>2. \A s : /\ s.gen = 0 /\ s.body = NewBody /\ s.pc = "idle" /\ s.finTo = "release"
              /\ s.drafted = FALSE /\ s.final = "none" => Blank(s)
  BY <1>1 DEF Blank, WorkOk, Loaded, LoadedPc, Ending, CommitPc, Starting, Settling, PlanStored
<1>3. /\ IdleRun.gen = 0 /\ IdleRun.body = NewBody /\ IdleRun.pc = "idle"
      /\ IdleRun.finTo = "release" /\ IdleRun.drafted = FALSE /\ IdleRun.final = "none"
  BY DEF IdleRun
<1>4. /\ Rejected.gen = 0 /\ Rejected.body = NewBody /\ Rejected.pc = "idle"
      /\ Rejected.finTo = "release" /\ Rejected.drafted = FALSE /\ Rejected.final = "none"
  BY DEF Rejected, IdleRun
<1> QED
  BY <1>2, <1>3, <1>4 DEF Waiting

-----------------------------------------------------------------------------
(* The store moves forwards, and what is true of a body stays true.        *)

(* What lies in the log stays there.                                       *)
LEMMA InLogStays ==
  ASSUME StoreOk, LogGrows, NEW b \in RunBody, NEW n \in Nat, n <= Len(log), InLog(b, n),
         NEW m \in Nat, n <= m
  PROVE  InLog(b, m)'
<1> SUFFICES ASSUME NEW k \in Key
             PROVE  /\ b.calls[k].recordedAt <= m
                    /\ b.calls[k].status = "completed" =>
                         /\ b.calls[k].resultSeq \in 1..m
                         /\ log'[b.calls[k].resultSeq].type = "tool_response"
  BY DEF InLog
<1>1. b.calls[k] \in CallState
  BY BodyParts
<1>2. b.calls[k].recordedAt \in Nat /\ b.calls[k].resultSeq \in Nat
  BY <1>1, RunnerAssumption DEF CallState
<1>3. Len(log) \in Nat
  BY StoreTypes
<1>4. /\ b.calls[k].recordedAt <= n
      /\ b.calls[k].status = "completed" =>
           b.calls[k].resultSeq \in 1..n /\ log[b.calls[k].resultSeq].type = "tool_response"
  BY DEF InLog
<1> QED
  BY <1>2, <1>3, <1>4 DEF LogGrows

(* Growing is transitive.                                                  *)
LEMMA GrowsTrans ==
  ASSUME NEW a \in RunBody, NEW b \in RunBody, NEW c \in RunBody, Grows(a, b), Grows(b, c)
  PROVE  Grows(a, c)
<1>1. a.steps \in Nat /\ b.steps \in Nat /\ c.steps \in Nat
  BY BodyParts
<1> QED
  BY <1>1 DEF Grows, Known

(* Growing is reflexive.                                                   *)
LEMMA GrowsRefl == \A b \in RunBody : Grows(b, b)
<1>1. \A b \in RunBody : b.steps \in Nat
  BY BodyParts
<1> QED
  BY <1>1 DEF Grows

(* The stored checkpoint stays right while it is not replaced.             *)
LEMMA StoredStays ==
  ASSUME StoreOk, StoredOk, LogGrows, ckpt' = ckpt
  PROVE  StoredOk'
<1>1. PICK b : b = ckpt.body
  OBVIOUS
<1>2. PICK n : n = ckpt.lastEventSeq
  OBVIOUS
<1>3. b \in RunBody /\ n \in Nat /\ n <= Len(log)
  BY <1>1, <1>2, StoreTypes, RunnerAssumption DEF Seqs, StoreOk, CheckpointBehindLog
<1>4. InLog(b, n)
  BY <1>1, <1>2 DEF StoredOk
<1>5. InLog(b, n)'
  BY <1>3, <1>4, InLogStays
<1>6. InLog(ckpt.body, ckpt.lastEventSeq)'
  BY <1>1, <1>2, <1>5 DEF InLog
<1> QED
  BY <1>6 DEF StoredOk, PlanOk, Known

(* A call that does not move, while generation and checkpoint stand still. *)
LEMMA StillWorks ==
  ASSUME StoreOk, NEW r, CallOk(r), CallWorks(r), LogGrows, ckpt' = ckpt,
         rec'.attempt = rec.attempt, Len(log') \in Nat
  PROVE  CallWorks(r)'
<1>1. r.body \in RunBody /\ r.lastSeq \in Nat /\ Len(log) \in Nat
  BY Fields, RunTypes, StoreTypes DEF CallOk
<1>2. InLog(r.body, Len(log))'
  <2>1. PICK m \in Nat : m = Len(log')
    OBVIOUS
  <2>2. PICK b \in RunBody : b = r.body
    BY <1>1
  <2>3. InLog(b, m)'
    BY <1>1, <2>1, <2>2, InLogStays DEF CallWorks, LogGrows
  <2> QED
    BY <2>1, <2>2, <2>3 DEF InLog
<1>3. r.pc = "ckSave" => InLog(r.body, r.lastSeq)'
  <2>1. r.pc = "ckSave" => r.lastSeq <= Len(log) /\ InLog(r.body, r.lastSeq)
    BY DEF CallOk, SaveReady, CallWorks
  <2> QED
    BY <1>1, <2>1, InLogStays
<1> QED
  BY <1>2, <1>3 DEF CallWorks, PlanKnown, Grows, Known

(* A call that carries on is still right in a store that grew.             *)
LEMMA ContinuesWorks ==
  ASSUME StoreOk, NEW r, CallOk(r), CallWorks(r), NEW s, LocalOk(s), Continues(r, s),
         LogGrows, ckpt' = ckpt, rec'.attempt = rec.attempt, Len(log') \in Nat
  PROVE  CallWorks(s)'
<1>1. r.body \in RunBody /\ s.body \in RunBody /\ ckpt.body \in RunBody
  BY Fields, StoreTypes DEF CallOk
<1>2. CallWorks(r)'
  BY StillWorks
<1>3. s.body.calls = r.body.calls /\ s.gen = r.gen
  BY DEF Continues
<1>4. InLog(s.body, Len(log))'
  BY <1>2, <1>3 DEF CallWorks, InLog
<1>5. s.gen = rec.attempt /\ Loaded(s) => Grows(ckpt.body, s.body)
  <2>1. Loaded(s) => Grows(r.body, s.body)
    BY <1>3 DEF Continues, Grows, Known
  <2>2. s.gen = rec.attempt /\ Loaded(s) => Grows(ckpt.body, r.body)
    BY DEF CallWorks, Continues
  <2> QED
    BY <1>1, <2>1, <2>2, GrowsTrans
<1>6. PlanKnown(s)
  BY DEF Continues, CallWorks, PlanKnown
<1>7. s.gen = rec.attempt /\ s.pc \in {"start", "createEnv", "started"} => ckpt.attempt = 0
  BY DEF Continues, Starting, CallWorks
<1> QED
  BY <1>4, <1>5, <1>6, <1>7 DEF Continues, CallWorks, PlanKnown, Grows, Known

(* Two calls that agree on all that is read are both right.                *)
LEMMA TwinWorks ==
  ASSUME NEW r, NEW s, Twin(r, s), CallWorks(r)'
  PROVE  CallWorks(s)' /\ (\A k : Right(s, k) => Right(r, k)) /\ (Saved(s) => Saved(r))
<1>1. WorkOk(r) /\ WorkOk(s)
  BY DEF CallWorks, WorkOk, Twin, Same, Loaded
<1>2. CallWorks(s)'
  BY <1>1 DEF CallWorks, Twin, Same, Loaded, PlanKnown, PlanStored, Settling
<1>3. (\A k : Right(s, k) => Right(r, k)) /\ (Saved(s) => Saved(r))
  BY DEF Twin, Same, Right, Settling, Saved
<1> QED
  BY <1>2, <1>3

(* A call without work is right.                                           *)
LEMMA BlankWorks ==
  ASSUME NEW s, LocalOk(s), Blank(s), Len(log') \in Nat
  PROVE  CallWorks(s)'
<1>1. s.pc # "ckSave" /\ ~Loaded(s) /\ s.pc \notin Starting /\ ~PlanStored(s) /\ WorkOk(s)
  BY DEF Blank, Loaded, LoadedPc, CommitPc
<1>2. InLog(s.body, Len(log))'
  BY EmptyBody DEF Blank, InLog, NotCalled
<1> QED
  BY <1>1, <1>2 DEF CallWorks, PlanKnown, Starting

(* Effects stay once when no tool is run, the checkpoint forgets nothing   *)
(* and no right appears.                                                   *)
LEMMA EffectsStay ==
  ASSUME EffectsOk, execs' = execs,
         \A k \in Key : Known(ckpt.body, k) => Known(ckpt'.body, k),
         \A q \in Procs, k \in NeedsRight : Live(run[q], k)' => Live(run[q], k)
  PROVE  EffectsOk'
<1>1. (execs \in [Key -> Nat])' /\ (\A k \in NeedsRight : execs[k] <= 1)'
  BY DEF EffectsOk
<1>2. (\A k \in Key : execs[k] > 0 => Known(ckpt.body, k))'
  BY DEF EffectsOk, Known
<1>3. (\A k \in NeedsRight, p \in Procs : Live(run[p], k) => execs[k] = 0)'
  BY DEF EffectsOk
<1>4. (\A k \in NeedsRight, p, q \in Procs : Live(run[p], k) /\ Live(run[q], k) => p = q)'
  BY DEF EffectsOk
<1> QED
  BY <1>1, <1>2, <1>3, <1>4 DEF EffectsOk

(* One call moves to s, the store only grows.                              *)
LEMMA MoveWorks ==
  ASSUME WorkInv, RunnerInv', NEW p \in Procs, NEW s, Set(p, s), Quiet, CallWorks(s)'
  PROVE  /\ StoredOk'
         /\ \A q \in Procs : CallWorks(run[q])'
<1>1. StoreOk /\ RunnerInv
  BY DEF WorkInv, RunnerInv
<1>2. LogGrows /\ ckpt' = ckpt /\ rec'.attempt = rec.attempt /\ Len(log') \in Nat
  <2>1. Len(log') \in Nat
    BY DEF RunnerInv, StoreOk, StoreTypeOK
  <2> QED
    BY <1>1, <2>1, QuietLogGrows DEF Quiet, QuietRec
<1>3. StoredOk'
  BY <1>1, <1>2, StoredStays DEF WorkInv
<1>4. run'[p] = s /\ \A q \in Procs : q # p => run'[q] = run[q]
  BY <1>1, MoveRun
<1>5. ASSUME NEW q \in Procs PROVE CallWorks(run[q])'
  <2>1. CASE q = p
    BY <1>4, <2>1 DEF CallWorks, PlanKnown
  <2>2. CASE q # p
    <3>1. PICK x : x = run[q]
      OBVIOUS
    <3>2. CallOk(x) /\ CallWorks(x)
      BY <3>1 DEF WorkInv, RunnerInv
    <3>3. CallWorks(x)'
      BY <1>1, <1>2, <3>2, StillWorks
    <3>4. x = run'[q]
      BY <1>4, <2>2, <3>1
    <3> QED
      BY <3>3, <3>4 DEF CallWorks, PlanKnown
  <2> QED
    BY <2>1, <2>2
<1> QED
  BY <1>3, <1>5

(* No right appears when the call that moves gains none.                   *)
LEMMA OnlyMoverLive ==
  ASSUME WorkInv, NEW p \in Procs, NEW s, Set(p, s), rec'.attempt = rec.attempt,
         \A k \in NeedsRight : Live(s, k)' => Live(run[p], k)
  PROVE  \A q \in Procs, k \in NeedsRight : Live(run[q], k)' => Live(run[q], k)
<1>1. run'[p] = s /\ \A q \in Procs : q # p => run'[q] = run[q]
  BY MoveRun DEF WorkInv
<1> SUFFICES ASSUME NEW q \in Procs, NEW k \in NeedsRight, Live(run[q], k)'
             PROVE  Live(run[q], k)
  OBVIOUS
<1>2. CASE q = p
  BY <1>1, <1>2 DEF Live, Right
<1>3. CASE q # p
  BY <1>1, <1>3 DEF Live, Right
<1> QED
  BY <1>2, <1>3

(* A quiet step that runs no tool and whose call carries on, is a twin or  *)
(* has no work; it begins to wait only as a starter of the queued job.     *)
Carries(p) ==
  /\ Quiet /\ execs' = execs
  /\ \E s : /\ Set(p, s)
            /\ \/ Continues(run[p], s) \/ Twin(run[p], s)
               \/ Blank(s) /\ (Waiting(s) => p \in Starters /\ rec.status = "queued")

(* Only a call of runJob on the queued job begins to wait for its lease.   *)
WaitsStay ==
  \A q \in Procs : Waiting(run[q])' => \/ Waiting(run[q])
                                       \/ q \in Starters /\ rec.status = "queued"

(* No other call begins to wait when one moves.                            *)
LEMMA OnlyMoverWaits ==
  ASSUME RunnerInv, NEW p \in Procs, NEW s, Set(p, s),
         Waiting(s) => Waiting(run[p]) \/ (p \in Starters /\ rec.status = "queued")
  PROVE  WaitsStay
<1>1. run'[p] = s /\ \A q \in Procs : q # p => run'[q] = run[q]
  BY MoveRun
<1> QED
  BY <1>1 DEF WaitsStay, Waiting

(* Such a step keeps the invariant.                                        *)
LEMMA CarriesKeeps ==
  ASSUME WorkInv, RunnerInv', NEW p \in Procs, Carries(p)
  PROVE  WorkInv' /\ WaitsStay
<1>0. PICK s : /\ Set(p, s)
               /\ \/ Continues(run[p], s) \/ Twin(run[p], s)
                  \/ Blank(s) /\ (Waiting(s) => p \in Starters /\ rec.status = "queued")
  BY DEF Carries
<1>1. Set(p, s) /\ (Continues(run[p], s) \/ Blank(s) \/ Twin(run[p], s))
  BY <1>0
<1>a. WaitsStay
  <2>1. Waiting(s) => Waiting(run[p]) \/ (p \in Starters /\ rec.status = "queued")
    BY <1>0 DEF Continues, Twin, Same, Waiting
  <2> QED
    BY <1>0, <2>1, OnlyMoverWaits DEF WorkInv
<1>2. Quiet /\ execs' = execs /\ ckpt' = ckpt /\ rec'.attempt = rec.attempt
  BY DEF Carries, Quiet, QuietRec
<1>3. /\ StoreOk /\ CallOk(run[p]) /\ CallWorks(run[p]) /\ LogGrows
      /\ Len(log') \in Nat
  <2>1. Len(log') \in Nat
    BY DEF RunnerInv, StoreOk, StoreTypeOK
  <2> QED
    BY <1>2, <2>1, QuietLogGrows DEF WorkInv, RunnerInv, Quiet
<1>4. LocalOk(s)
  <2>1. run'[p] = s
    BY <1>1, MoveRun DEF WorkInv
  <2>2. LocalOk(run'[p])
    BY DEF RunnerInv, CallOk
  <2> QED
    BY <2>1, <2>2
<1>5. CallWorks(s)'
  <2>1. PICK r : r = run[p]
    OBVIOUS
  <2>2. CallWorks(r)'
    BY <1>2, <1>3, <2>1, StillWorks
  <2> QED
    BY <1>1, <1>2, <1>3, <1>4, <2>1, <2>2, ContinuesWorks, BlankWorks, TwinWorks
<1>6. ASSUME NEW k \in NeedsRight, Live(s, k)' PROVE Live(run[p], k)
  <2>1. Right(s, k) /\ (s.gen = rec.attempt \/ Saved(s)) /\ Settling(s) /\ ~s.resume
    BY <1>2, <1>6 DEF Live, Right
  <2>2. ~Blank(s)
    BY <2>1 DEF Blank
  <2>3. Continues(run[p], s) => Live(run[p], k)
    BY <2>1 DEF Continues, Live
  <2>4. Twin(run[p], s) => Live(run[p], k)
    BY <2>1 DEF Twin, Same, Live, Right, Settling, Saved
  <2> QED
    BY <1>1, <2>2, <2>3, <2>4
<1>7. StoredOk' /\ \A q \in Procs : CallWorks(run[q])'
  BY <1>1, <1>2, <1>5, MoveWorks
<1>8. EffectsOk'
  <2>1. \A q \in Procs, k \in NeedsRight : Live(run[q], k)' => Live(run[q], k)
    BY <1>1, <1>2, <1>6, OnlyMoverLive
  <2> QED
    BY <1>2, <2>1, EffectsStay DEF WorkInv
<1> QED
  BY <1>7, <1>8, <1>a DEF WorkInv

-----------------------------------------------------------------------------
(* Every step that starts nothing new carries the work on.                 *)

(* A quiet move of RunnerProofs that carries on.                           *)
LEMMA CarryOn ==
  ASSUME NEW p \in Procs, QuietMove(p), execs' = execs, NEW s, Set(p, s),
         Continues(run[p], s) \/ (Blank(s) /\ ~Waiting(s)) \/ Twin(run[p], s)
  PROVE  Carries(p)
  BY DEF Carries, QuietMove

(* Every call's work is right by itself.                                   *)
WorksOk == \A p \in Procs : WorkOk(run[p])

(* The entry points leave a call without work.                             *)
LEMMA BlankAt ==
  ASSUME NEW s, s.gen = 0, s.body = NewBody, s.finTo = "release", s.drafted = FALSE,
         \/ s.pc \in {"acqRead", "acqLease"} /\ s.final = "none"
         \/ s.pc = "recRead" /\ s.mode = "resume" /\ s.final = "none"
         \/ s.pc = "finAppend" /\ s.withDraft = FALSE
  PROVE  Blank(s)
  BY EmptyBody
  DEF Blank, WorkOk, Loaded, LoadedPc, Ending, CommitPc, Starting, Settling, PlanStored

(* runJob and resumeJob start without work.                                *)
LEMMA EntryCarries ==
  ASSUME StoreOk, RunsOk, NEW p \in Procs, RunJob(p) \/ ResumeJob(p)
  PROVE  Carries(p)
<1>1. QuietMove(p) /\ execs' = execs
  BY RunJobQuiet DEF RunJob, ResumeJob
<1>2. /\ IdleRun.gen = 0 /\ IdleRun.body = NewBody /\ IdleRun.finTo = "release"
      /\ IdleRun.drafted = FALSE /\ IdleRun.final = "none"
  BY DEF IdleRun
<1>3. Blank(CancelledAtEntry) /\ ~Waiting(CancelledAtEntry)
  <2> DEFINE s == CancelledAtEntry
  <2>1. Same(IdleRun, s) /\ s.pc = "finAppend" /\ s.withDraft = FALSE
    <3>1. ASSUME NEW r, LocalOk(r), NEW view
          PROVE  LET t == Finish(r, "cancelled", "cancelled", view, FALSE) IN
                 Same(r, t) /\ t.pc = "finAppend" /\ t.withDraft = FALSE
      BY <3>1 DEF Finish, Same, LocalOk, Typed, RunCallOf
    <3> QED
      BY <3>1, IdleOk DEF CancelledAtEntry
  <2> HIDE DEF s
  <2>2. Blank(s) /\ ~Waiting(s)
    BY <1>2, <2>1, BlankAt DEF Same, Waiting
  <2> QED
    BY <2>2 DEF s
<1>4. Blank([IdleRun EXCEPT !.pc = "acqRead"])
  <2> DEFINE s == [IdleRun EXCEPT !.pc = "acqRead"]
  <2>1. Same(IdleRun, s) /\ s.pc = "acqRead" /\ s.final = IdleRun.final
    BY IdleOk, PcSame
  <2> HIDE DEF s
  <2>2. Blank(s)
    BY <1>2, <2>1, BlankAt DEF Same
  <2> QED
    BY <2>2 DEF s
<1>5. LET s == [IdleRun EXCEPT !.pc = "recRead", !.mode = "resume"] IN Blank(s) /\ ~Waiting(s)
  <2> DEFINE s == [IdleRun EXCEPT !.pc = "recRead", !.mode = "resume"]
  <2>1. /\ s.gen = 0 /\ s.body = NewBody /\ s.finTo = "release" /\ s.drafted = FALSE
        /\ s.final = "none" /\ s.pc = "recRead" /\ s.mode = "resume"
    <3>1. ASSUME NEW r, LocalOk(r)
          PROVE  LET t == [r EXCEPT !.pc = "recRead", !.mode = "resume"] IN
                 /\ t.gen = r.gen /\ t.body = r.body /\ t.finTo = r.finTo
                 /\ t.drafted = r.drafted /\ t.final = r.final
                 /\ t.pc = "recRead" /\ t.mode = "resume"
      BY <3>1 DEF LocalOk, Typed, RunCallOf
    <3> QED
      BY <1>2, <3>1, IdleOk
  <2> HIDE DEF s
  <2>2. Blank(s) /\ ~Waiting(s)
    BY <2>1, BlankAt DEF Waiting
  <2> QED
    BY <2>2 DEF s
<1>6. CASE Set(p, [IdleRun EXCEPT !.pc = "acqRead"]) /\ RunJob(p)
  BY <1>1, <1>4, <1>6 DEF Carries, QuietMove, RunJob
<1>7. CASE Set(p, CancelledAtEntry)
  BY <1>1, <1>3, <1>7, CarryOn
<1>8. CASE Set(p, [IdleRun EXCEPT !.pc = "recRead", !.mode = "resume"])
  BY <1>1, <1>5, <1>8, CarryOn
<1> QED
  BY <1>6, <1>7, <1>8 DEF RunJob, ResumeJob

(* A move of a call that has no work loaded.                               *)
BarePc == {"idle", "recRead", "acqRead", "acqLease", "start", "createEnv", "started",
           "resuming", "recover", "parkRelease", "parkUpdate"}

(* A move between places without a draft carries on.                       *)
LEMMA BareContinues ==
  ASSUME NEW r, LocalOk(r), WorkOk(r), r.pc \in BarePc \cup {"resumed"}, NEW s, Same(r, s),
         s.final = r.final, s.withDraft = r.withDraft, s.pc \in BarePc \ {"recRead"},
         s.pc \in Starting => r.pc \in Starting,
         s.pc \in {"acqRead", "acqLease"} => r.pc \in {"recRead", "acqRead"}
  PROVE  Continues(r, s)
<1>0. Waiting(s) => Waiting(r)
  BY DEF Waiting, WorkOk, Same
<1>1. r.finTo = "release"
  BY FinToRelease DEF BarePc, Ending, CommitPc
<1>2. ~r.drafted /\ r.final = "none"
  BY Fields DEF WorkOk, Loaded, LoadedPc, Ending, CommitPc, BarePc
<1>3. ~Loaded(s) /\ ~PlanStored(s) /\ ~Settling(s) /\ ~Saved(s)
  BY <1>1 DEF Same, Loaded, LoadedPc, Ending, CommitPc, BarePc, PlanStored, Settling, Saved
<1>4. s.pc \notin {"exec", "uncAppend", "ckResume", "ckSave", "recRead", "resumed"}
  BY DEF BarePc
<1>5. \A k : ~Right(s, k)
  BY <1>3 DEF Right
<1> QED
  BY <1>0, <1>1, <1>2, <1>3, <1>4, <1>5, PcContinues

(* The reads before acquireLease carry on.                                 *)
LEMMA ReadsCarry ==
  ASSUME StoreOk, RunsOk, WorksOk, NEW p \in Procs, RecoverRead(p) \/ AcquireRead(p)
  PROVE  Carries(p)
<1>1. QuietMove(p) /\ execs' = execs /\ LocalOk(run[p]) /\ WorkOk(run[p])
  BY EntryQuiet DEF RecoverRead, AcquireRead, RunsOk, WorksOk
<1>2. Blank(Rejected) /\ ~Waiting(Rejected)
  BY IdleBlank
<1>3. CASE RecoverRead(p)
  <2> DEFINE s == [run[p] EXCEPT !.pc = "acqRead", !.snapshot = rec.latestSnapshot]
  <2>1. /\ Same(run[p], s) /\ s.pc = "acqRead" /\ s.final = run[p].final
        /\ s.withDraft = run[p].withDraft
    BY <1>1 DEF LocalOk, Typed, RunCallOf, Same
  <2>2. Set(p, Rejected) \/ Set(p, s)
    BY <1>3 DEF RecoverRead
  <2> HIDE DEF s
  <2>3. Continues(run[p], s)
    BY <1>1, <1>3, <2>1, BareContinues DEF RecoverRead, At, BarePc, Starting
  <2> QED
    BY <1>1, <1>2, <2>2, <2>3, CarryOn
<1>4. CASE AcquireRead(p)
  <2> DEFINE s == [run[p] EXCEPT !.pc = "acqLease"]
  <2>1. /\ Same(run[p], s) /\ s.pc = "acqLease" /\ s.final = run[p].final
        /\ s.withDraft = run[p].withDraft
    BY <1>1, PcSame
  <2>2. Set(p, Rejected) \/ Set(p, s)
    BY <1>4 DEF AcquireRead, Goto
  <2> HIDE DEF s
  <2>3. Continues(run[p], s)
    BY <1>1, <1>4, <2>1, BareContinues DEF AcquireRead, At, BarePc, Starting
  <2> QED
    BY <1>1, <1>2, <2>2, <2>3, CarryOn
<1> QED
  BY <1>3, <1>4

(* The same for a move of the program counter only.                        *)
LEMMA BareMove ==
  ASSUME NEW r, LocalOk(r), WorkOk(r), r.pc \in BarePc \cup {"resumed"},
         NEW pc \in BarePc \ {"recRead", "acqRead", "acqLease"}, pc \in Starting => r.pc \in Starting
  PROVE  Continues(r, [r EXCEPT !.pc = pc])
<1> DEFINE s == [r EXCEPT !.pc = pc]
<1>1. Same(r, s) /\ s.pc = pc /\ s.final = r.final /\ s.withDraft = r.withDraft
  BY PcSame
<1> HIDE DEF s
<1>2. Continues(r, s)
  BY <1>1, BareContinues
<1> QED
  BY <1>2 DEF s

(* Without a draft the catch block gets none.                              *)
LEMMA BareThrown ==
  ASSUME NEW r, LocalOk(r), WorkOk(r), r.pc \in BarePc
  PROVE  Continues(r, Thrown(r))
  BY FinToRelease, ThrownContinues DEF BarePc, Ending, CommitPc

(* The first status writes carry on.                                       *)
LEMMA StartCarries ==
  ASSUME StoreOk, RunsOk, WorksOk, NEW p \in Procs, Start(p) \/ Resuming(p)
  PROVE  Carries(p)
<1>1. /\ QuietMove(p) /\ execs' = execs /\ LocalOk(run[p]) /\ WorkOk(run[p])
      /\ run[p].pc \in BarePc
  BY StartQuiet DEF Start, Resuming, WriteStatus, RunsOk, WorksOk, At, BarePc
<1>2. CASE Start(p)
  <2>1. Continues(run[p], [run[p] EXCEPT !.pc = "createEnv"])
    BY <1>1, <1>2, BareMove DEF Start, At, BarePc, Starting
  <2> QED
    BY <1>1, <1>2, <2>1, BareThrown, CarryOn DEF Start, WriteStatus
<1>3. CASE Resuming(p)
  <2>1. /\ Continues(run[p], [run[p] EXCEPT !.pc = "recover"])
        /\ Continues(run[p], [run[p] EXCEPT !.pc = "parkRelease"])
    BY <1>1, <1>3, BareMove DEF Resuming, At, BarePc, Starting
  <2> QED
    BY <1>1, <1>3, <2>1, CarryOn DEF Resuming, WriteStatus
<1> QED
  BY <1>2, <1>3

(* Creating the environment carries on.                                    *)
LEMMA CreateCarries ==
  ASSUME StoreOk, RunsOk, WorksOk, NEW p \in Procs, CreateEnvironment(p)
  PROVE  Carries(p)
<1>1. /\ QuietMove(p) /\ execs' = execs /\ LocalOk(run[p]) /\ WorkOk(run[p])
      /\ run[p].pc = "createEnv"
  BY CreateEnvironmentQuiet DEF CreateEnvironment, RunsOk, WorksOk, At
<1> DEFINE s == [run[p] EXCEPT !.pc = "started", !.ws = TRUE]
<1>2. /\ Same(run[p], s) /\ s.pc = "started" /\ s.final = run[p].final
      /\ s.withDraft = run[p].withDraft
  BY <1>1 DEF LocalOk, Typed, RunCallOf, Same
<1>3. Set(p, s) \/ Set(p, Thrown(run[p]))
  BY DEF CreateEnvironment
<1> HIDE DEF s
<1>4. Continues(run[p], s) /\ Continues(run[p], Thrown(run[p]))
  BY <1>1, <1>2, BareContinues, BareThrown DEF BarePc, Starting
<1> QED
  BY <1>1, <1>3, <1>4, CarryOn

(* Parking after a failed recovery carries on.                             *)
LEMMA ParkCarries ==
  ASSUME StoreOk, RunsOk, WorksOk, NEW p \in Procs, ParkRelease(p) \/ ParkUpdate(p)
  PROVE  Carries(p)
<1>1. /\ QuietMove(p) /\ execs' = execs /\ LocalOk(run[p]) /\ WorkOk(run[p])
      /\ run[p].pc \in {"parkRelease", "parkUpdate"}
  BY ParkQuiet DEF ParkRelease, ParkUpdate, WriteStatus, RunsOk, WorksOk, At
<1>2. Continues(run[p], [run[p] EXCEPT !.pc = "parkUpdate"]) /\ Blank(Rejected) /\ ~Waiting(Rejected)
  BY <1>1, BareMove, IdleBlank DEF BarePc, Starting
<1>3. Set(p, [run[p] EXCEPT !.pc = "parkUpdate"]) \/ Set(p, Rejected)
  BY DEF ParkRelease, ParkUpdate, WriteStatus, Goto
<1> QED
  BY <1>1, <1>2, <1>3, CarryOn

(* A move between two places where the same work is loaded.                *)
WorkPc == {"drain0", "runFresh", "runResumed", "loop", "drain", "turn", "turnAppend",
           "budget", "reqAppend", "settle", "exec", "respAppend", "uncAppend"}

(* In the loop a call has a draft and is not ending.                       *)
LEMMA WorkPlain ==
  ASSUME NEW r, LocalOk(r), WorkOk(r), r.pc \in WorkPc
  PROVE  r.finTo = "release" /\ r.final = "none" /\ Loaded(r) /\ r.pc # "release"
<1>1. r.pc \notin Ending \cup CommitPc
  BY DEF WorkPc, Ending, CommitPc
<1> QED
  BY <1>1, FinToRelease DEF WorkOk, WorkPc, Loaded, LoadedPc

(* An error in the loop carries on.                                        *)
LEMMA WorkThrown ==
  ASSUME NEW r, LocalOk(r), WorkOk(r), r.pc \in WorkPc
  PROVE  Continues(r, Thrown(r))
  BY WorkPlain, ThrownContinues

(* Ending from the loop carries the draft on.                              *)
LEMMA WorkFinish ==
  ASSUME NEW r, LocalOk(r), WorkOk(r), r.pc \in WorkPc, NEW final, NEW event, NEW view
  PROVE  Continues(r, Finish(r, final, event, view, TRUE))
<1> DEFINE s == Finish(r, final, event, view, TRUE)
<1>1. Same(r, s) /\ s.pc = "finAppend" /\ s.withDraft = TRUE
  BY DEF Finish, Same, LocalOk, Typed, RunCallOf
<1> HIDE DEF s
<1>2. Continues(r, s)
  BY <1>1, WorkPlain, EndContinues
<1> QED
  BY <1>2 DEF s

(* Within a turn, where neither the plan is stored nor a call settled.     *)
TurnPc == {"drain0", "runFresh", "drain", "turn", "turnAppend", "budget", "reqAppend"}

(* A move into a turn, or into the commit that starts the loop, settles    *)
(* nothing and so carries on.                                              *)
LEMMA TurnContinues ==
  ASSUME NEW r, LocalOk(r), WorkOk(r), r.pc \in WorkPc, NEW s, Same(r, s),
         s.withDraft = r.withDraft, s.final = r.final,
         s.pc \in TurnPc \/ (s.pc = "ckStatus" /\ s.commitTo = "loop")
  PROVE  Continues(r, s)
<1>1. r.finTo = "release" /\ r.final = "none" /\ Loaded(r)
  BY WorkPlain
<1>2. ~PlanStored(s) /\ ~Settling(s) /\ ~Saved(s) /\ Loaded(s)
  BY <1>1 DEF Same, PlanStored, Settling, Saved, CommitPc, TurnPc, Loaded, LoadedPc
<1>3. /\ s.pc \notin {"exec", "uncAppend", "ckResume", "ckSave", "recRead", "resumed"}
      /\ s.pc \notin Starting
  BY DEF TurnPc, Starting
<1>4. \A k : ~Right(s, k)
  BY <1>2 DEF Right
<1> QED
  BY <1>1, <1>2, <1>3, <1>4, PcContinues DEF Waiting, TurnPc

(* A move to the head of the loop carries the stored plan on.              *)
LEMMA LoopContinues ==
  ASSUME NEW r, LocalOk(r), WorkOk(r), r.pc \in WorkPc, PlanStored(r), NEW s, Same(r, s),
         s.withDraft = r.withDraft, s.final = r.final, s.pc = "loop"
  PROVE  Continues(r, s)
<1>1. r.finTo = "release" /\ r.final = "none" /\ Loaded(r)
  BY WorkPlain
<1>2. ~Settling(s) /\ ~Saved(s) /\ Loaded(s)
  BY <1>1 DEF Same, Settling, Saved, CommitPc, Loaded, LoadedPc
<1>3. /\ s.pc \notin {"exec", "uncAppend", "ckResume", "ckSave", "recRead", "resumed"}
      /\ s.pc \notin Starting
  BY DEF Starting
<1>4. \A k : ~Right(s, k)
  BY <1>2 DEF Right
<1> QED
  BY <1>1, <1>2, <1>3, <1>4, PcContinues DEF Waiting

(* drainAdmittedInput carries on.                                          *)
LEMMA DrainCarries ==
  ASSUME StoreOk, RunsOk, WorksOk, NEW p \in Procs, Drain(p)
  PROVE  Carries(p)
<1>1. /\ QuietMove(p) /\ execs' = execs /\ LocalOk(run[p]) /\ WorkOk(run[p])
      /\ run[p].pc \in WorkPc
  BY DrainQuiet DEF Drain, RunsOk, WorksOk, WorkPc
<1> DEFINE fresh == UserSeqs(Len(log)) \ run[p].applied
           pc == IF run[p].pc = "drain0" THEN "runFresh" ELSE "turn"
           app == run[p].applied \cup fresh
           ses == run[p].session \o Ascending(fresh)
           s == [run[p] EXCEPT !.pc = pc, !.applied = app, !.session = ses]
<1>2. Set(p, s)
  BY DEF Drain
<1>3. pc \in TurnPc
  BY DEF TurnPc
<1> HIDE DEF fresh, pc, app, ses
<1>4. /\ Same(run[p], s) /\ s.pc = pc /\ s.final = run[p].final
      /\ s.withDraft = run[p].withDraft
  BY <1>1 DEF LocalOk, Typed, RunCallOf, Same
<1> HIDE DEF s
<1>5. Continues(run[p], s)
  BY <1>1, <1>3, <1>4, TurnContinues
<1> QED
  BY <1>1, <1>2, <1>5, CarryOn

(* The "running" write carries on.                                         *)
LEMMA SetRunningCarries ==
  ASSUME StoreOk, RunsOk, WorksOk, NEW p \in Procs, SetRunning(p)
  PROVE  Carries(p)
<1>1. /\ QuietMove(p) /\ execs' = execs /\ LocalOk(run[p]) /\ WorkOk(run[p])
      /\ run[p].pc \in WorkPc
  BY SetRunningQuiet DEF SetRunning, WriteStatus, RunsOk, WorksOk, At, WorkPc
<1>2. Continues(run[p], Thrown(run[p]))
  BY <1>1, WorkThrown
<1>3. Continues(run[p], Commit(run[p], "loop"))
  <2> DEFINE s == Commit(run[p], "loop")
  <2>1. /\ Same(run[p], s) /\ s.pc = "ckStatus" /\ s.commitTo = "loop"
        /\ s.final = run[p].final /\ s.withDraft = run[p].withDraft
    BY <1>1, CommitSame DEF LocalOk
  <2> HIDE DEF s
  <2>2. Continues(run[p], s)
    BY <1>1, <2>1, TurnContinues
  <2> QED
    BY <2>2 DEF s
<1>4. ASSUME run[p].pc = "runResumed" PROVE Continues(run[p], [run[p] EXCEPT !.pc = "loop"])
  <2> DEFINE s == [run[p] EXCEPT !.pc = "loop"]
  <2>1. /\ Same(run[p], s) /\ s.pc = "loop"
        /\ s.final = run[p].final /\ s.withDraft = run[p].withDraft
    BY <1>1, PcSame
  <2> HIDE DEF s
  <2>2. Continues(run[p], s)
    BY <1>1, <1>4, <2>1, LoopContinues DEF PlanStored
  <2> QED
    BY <2>2 DEF s
<1>5. \/ Set(p, Thrown(run[p])) \/ Set(p, Commit(run[p], "loop"))
      \/ run[p].pc = "runResumed" /\ Set(p, [run[p] EXCEPT !.pc = "loop"])
  BY DEF SetRunning, WriteStatus, At
<1> QED
  BY <1>1, <1>2, <1>3, <1>4, <1>5, CarryOn

(* The end of a recovery carries the stored plan on.                       *)
LEMMA ResumedCarries ==
  ASSUME StoreOk, RunsOk, WorksOk, NEW p \in Procs, Resumed(p)
  PROVE  Carries(p)
<1>1. /\ QuietMove(p) /\ execs' = execs /\ LocalOk(run[p]) /\ WorkOk(run[p])
      /\ run[p].pc = "resumed"
  BY ResumedQuiet DEF Resumed, AppendOwn, RunsOk, WorksOk, At
<1> DEFINE ses == ProjectHistory(run[p].lastSeq)
           app == UserSeqs(run[p].lastSeq)
           s == [run[p] EXCEPT !.pc = "runResumed", !.active = TRUE,
                               !.session = ses, !.applied = app]
           u == [run[p] EXCEPT !.pc = "parkRelease"]
<1>2. Set(p, s) \/ Set(p, u)
  BY DEF Resumed, AppendOwn
<1> HIDE DEF ses, app
<1>3. /\ Same(run[p], s) /\ s.pc = "runResumed" /\ s.final = run[p].final
      /\ s.withDraft = run[p].withDraft
  BY <1>1 DEF LocalOk, Typed, RunCallOf, Same
<1> HIDE DEF s
<1>4. run[p].finTo = "release" /\ run[p].final = "none" /\ Loaded(run[p]) /\ PlanStored(run[p])
  BY <1>1, FinToRelease DEF Ending, CommitPc, WorkOk, Loaded, LoadedPc, PlanStored
<1>5. Continues(run[p], s)
  <2>1. Loaded(s) /\ ~Settling(s) /\ ~Saved(s)
    BY <1>3 DEF Loaded, LoadedPc, Settling, Saved, CommitPc
  <2>2. \A k : ~Right(s, k)
    BY <2>1 DEF Right
  <2> QED
    BY <1>1, <1>3, <1>4, <2>1, <2>2, PcContinues DEF Starting, Waiting
<1>6. Continues(run[p], u)
  BY <1>1, BareMove DEF BarePc, Starting
<1> QED
  BY <1>1, <1>2, <1>5, <1>6, CarryOn

(* The head of the loop carries on: settling the plan found there is       *)
(* resuming it, and gives no right.                                        *)
LEMMA LoopCarries ==
  ASSUME StoreOk, RunsOk, WorksOk, NEW p \in Procs, Loop(p)
  PROVE  Carries(p)
<1>1. /\ QuietMove(p) /\ execs' = execs /\ LocalOk(run[p]) /\ WorkOk(run[p])
      /\ run[p].pc = "loop" /\ run[p].pc \in WorkPc
  BY LoopQuiet DEF Loop, RunsOk, WorksOk, At, WorkPc
<1>2. /\ Continues(run[p], CancelledNow(p, "cancelled"))
      /\ Continues(run[p], Finish(run[p], "completed", "completed", run[p].gen, TRUE))
      /\ Continues(run[p], Finish(run[p], "failed", "error", run[p].gen, TRUE))
  BY <1>1, WorkFinish DEF CancelledNow
<1>3. Continues(run[p], [run[p] EXCEPT !.pc = "drain"])
  <2> DEFINE s == [run[p] EXCEPT !.pc = "drain"]
  <2>1. /\ Same(run[p], s) /\ s.pc = "drain"
        /\ s.final = run[p].final /\ s.withDraft = run[p].withDraft
    BY <1>1, PcSame
  <2> HIDE DEF s
  <2>2. Continues(run[p], s)
    BY <1>1, <2>1, TurnContinues DEF TurnPc
  <2> QED
    BY <2>2 DEF s
<1>4. Continues(run[p], [run[p] EXCEPT !.pc = "settle", !.pending = run[p].body.cont.pending,
                                       !.resume = TRUE])
  <2> DEFINE pend == run[p].body.cont.pending
             s == [run[p] EXCEPT !.pc = "settle", !.pending = pend, !.resume = TRUE]
  <2>0. run[p].body.steps \in Nat
    BY <1>1, Fields
  <2> HIDE DEF pend
  <2>1. /\ s.pc = "settle" /\ s.resume = TRUE /\ s.gen = run[p].gen /\ s.body = run[p].body
        /\ s.final = run[p].final /\ s.withDraft = run[p].withDraft
        /\ s.drafted = run[p].drafted /\ s.finTo = run[p].finTo /\ s.mode = run[p].mode
    BY <1>1 DEF LocalOk, Typed, RunCallOf
  <2> HIDE DEF s
  <2>2. run[p].finTo = "release" /\ run[p].final = "none" /\ Loaded(run[p])
    BY <1>1, WorkPlain
  <2>3. WorkOk(s)
    BY <1>1, <2>1, <2>2 DEF WorkOk, Loaded, LoadedPc, CommitPc
  <2>4. PlanStored(run[p])
    BY <1>1 DEF PlanStored
  <2>5. \A k : ~Right(s, k)
    BY <2>1 DEF Right
  <2>6. Continues(run[p], s)
    BY <2>0, <2>1, <2>2, <2>3, <2>4, <2>5 DEF Continues, Starting, Waiting
  <2> QED
    BY <2>6 DEF s, pend
<1> QED
  BY <1>1, <1>2, <1>3, <1>4, LoopCases, CarryOn

(* The provider turn carries on.                                           *)
LEMMA TurnCarries ==
  ASSUME StoreOk, RunsOk, WorksOk, NEW p \in Procs, Turn(p) \/ BudgetExhausted(p)
  PROVE  Carries(p)
<1>1. /\ QuietMove(p) /\ execs' = execs /\ LocalOk(run[p]) /\ WorkOk(run[p])
      /\ run[p].pc \in WorkPc
  BY TurnQuiet DEF Turn, BudgetExhausted, RunsOk, WorksOk, At, WorkPc
<1>2. /\ Continues(run[p], CancelledNow(p, "cancelled"))
      /\ Continues(run[p], CancelledNow(p, "budget_exhausted"))
      /\ Continues(run[p], Finish(run[p], "failed", "error", run[p].gen, TRUE))
  BY <1>1, WorkFinish DEF CancelledNow
<1>3. ASSUME NEW calls PROVE Continues(run[p], [run[p] EXCEPT !.pc = "turnAppend", !.turn = calls])
  <2> DEFINE s == [run[p] EXCEPT !.pc = "turnAppend", !.turn = calls]
  <2>1. /\ Same(run[p], s) /\ s.pc = "turnAppend"
        /\ s.final = run[p].final /\ s.withDraft = run[p].withDraft
    BY <1>1 DEF LocalOk, Typed, RunCallOf, Same
  <2> HIDE DEF s
  <2>2. Continues(run[p], s)
    BY <1>1, <2>1, TurnContinues DEF TurnPc
  <2> QED
    BY <2>2 DEF s
<1> QED
  BY <1>1, <1>2, <1>3, CarryOn DEF Turn, BudgetExhausted

(* The assistant message carries on: the next turn settles nothing.        *)
LEMMA TurnAppendCarries ==
  ASSUME StoreOk, RunsOk, WorksOk, NEW p \in Procs, TurnAppend(p)
  PROVE  Carries(p)
<1>1. /\ QuietMove(p) /\ execs' = execs /\ LocalOk(run[p]) /\ WorkOk(run[p])
      /\ run[p].pc = "turnAppend" /\ run[p].pc \in WorkPc
  BY TurnAppendQuiet DEF TurnAppend, AppendOwn, RunsOk, WorksOk, At, WorkPc
<1> DEFINE r == run[p]
           bod == [r.body EXCEPT !.steps = @ + 1]
           ses == Append(r.session, Len(log) + 1)
           after == [r EXCEPT !.body = bod, !.session = ses]
           exhausted == [after EXCEPT !.pc = "budget"]
           fin == [after EXCEPT !.body.cont = Done]
           stop == Finish(fin, "completed", "completed", r.gen, TRUE)
           req == [after EXCEPT !.pc = "reqAppend"]
<1>2. r.finTo = "release" /\ r.final = "none" /\ Loaded(r)
  BY <1>1, WorkPlain
<1>3. r.body \in RunBody /\ r.body.steps \in Nat /\ Typed(r)
  BY <1>1, Fields DEF LocalOk
<1>4. /\ bod \in RunBody /\ bod.cont = r.body.cont /\ bod.calls = r.body.calls
      /\ bod.steps >= r.body.steps
  BY <1>3 DEF RunBody
<1>5. r.body.cont.type = "provider_turn" /\ PlanOk(r.body)
  BY <1>1 DEF LocalOk, Shape, InTurn, WorkOk
<1>6. PlanOk(bod)
  BY <1>4, <1>5 DEF PlanOk, Known
<1> HIDE DEF bod, ses
<1>7. /\ Typed(after) /\ after.body = bod /\ after.gen = r.gen /\ after.mode = r.mode
      /\ after.drafted = r.drafted /\ after.pending = r.pending /\ after.resume = r.resume
      /\ after.finTo = r.finTo /\ after.final = r.final /\ after.withDraft = r.withDraft
  BY <1>3, <1>4 DEF Typed, RunCallOf
<1> HIDE DEF after
<1>8. ASSUME NEW pc \in {"budget", "reqAppend"} PROVE Continues(r, [after EXCEPT !.pc = pc])
  <2> DEFINE s == [after EXCEPT !.pc = pc]
  <2>1. /\ s.pc = pc /\ s.body = bod /\ s.gen = r.gen /\ s.finTo = r.finTo
        /\ s.final = r.final /\ s.drafted = r.drafted
    BY <1>7 DEF Typed, RunCallOf
  <2> HIDE DEF s
  <2>2. ~PlanStored(s) /\ ~Settling(s) /\ ~Saved(s) /\ Loaded(s)
    BY <1>2, <2>1 DEF PlanStored, Settling, Saved, CommitPc, Loaded, LoadedPc
  <2>3. WorkOk(s)
    BY <1>2, <1>6, <2>1, <2>2 DEF WorkOk, Ending, CommitPc
  <2>4. Continues(r, s)
    BY <1>2, <1>4, <2>1, <2>2, <2>3 DEF Continues, Starting, Right, Waiting
  <2> QED
    BY <2>4 DEF s
<1>9. Continues(r, stop)
  <2> DEFINE end == [after.body EXCEPT !.cont = Done]
  <2>1. end \in RunBody /\ end.cont = Done /\ end.calls = bod.calls /\ end.steps = bod.steps
    BY <1>4, <1>7, DoneOk, WithCont
  <2>2. fin = [after EXCEPT !.body = end]
    OBVIOUS
  <2>3. PlanOk(end)
    BY <2>1, DoneOk DEF PlanOk
  <2> HIDE DEF end, fin
  <2>4. Typed(fin) /\ fin.body = end /\ fin.gen = r.gen /\ fin.finTo = r.finTo /\ fin.drafted = r.drafted
    BY <1>7, <2>1, <2>2 DEF Typed, RunCallOf
  <2>5. /\ stop.pc = "finAppend" /\ stop.body = end /\ stop.gen = r.gen
        /\ stop.finTo = r.finTo /\ stop.drafted = r.drafted /\ stop.withDraft = TRUE
    BY <2>4 DEF Finish, Typed, RunCallOf
  <2> HIDE DEF stop
  <2>6. ~PlanStored(stop) /\ ~Settling(stop) /\ ~Saved(stop) /\ Loaded(stop)
    BY <1>2, <2>5 DEF PlanStored, Settling, Saved, CommitPc, Loaded, Ending
  <2>7. WorkOk(stop)
    BY <1>2, <2>3, <2>5, <2>6 DEF WorkOk, Ending, CommitPc
  <2> QED
    BY <1>2, <1>4, <2>1, <2>5, <2>6, <2>7 DEF Continues, Starting, Right, Waiting
<1>10. Continues(r, Thrown(r))
  BY <1>1, WorkThrown
<1>11. Set(p, exhausted) \/ Set(p, stop) \/ Set(p, req) \/ Set(p, Thrown(r))
  BY DEF TurnAppend, AppendOwn, after, bod, ses
<1>12. Continues(r, exhausted) /\ Continues(r, req)
  BY <1>8
<1> HIDE DEF exhausted, stop, req
<1> QED
  BY <1>1, <1>9, <1>10, <1>11, <1>12, CarryOn

(* An error in a commit boundary carries on; rights end there.             *)
LEMMA CommitThrownContinues ==
  ASSUME NEW p \in Procs, LocalOk(run[p]), WorkOk(run[p]), run[p].pc \in CommitPc
  PROVE  Continues(run[p], CommitThrown(p))
<1> DEFINE r == run[p]
<1>1. CASE r.final \in {"failed", "cancelled"}
  <2> DEFINE s == [r EXCEPT !.pc = "finUpdate"]
  <2>1. Same(r, s) /\ s.pc = "finUpdate" /\ s.final = r.final /\ s.withDraft = r.withDraft
    BY PcSame
  <2>2. CommitThrown(p) = s
    BY <1>1 DEF CommitThrown
  <2> HIDE DEF s
  <2>3. r.withDraft /\ Loaded(r)
    BY <1>1 DEF WorkOk, Loaded, LoadedPc
  <2>4. Loaded(s) /\ ~Settling(s) /\ ~Saved(s) /\ s.pc \in Ending /\ s.pc \notin CommitPc
    BY <2>1, <2>3 DEF Loaded, Ending, Settling, Saved, CommitPc
  <2>5. PlanStored(s) => PlanStored(r)
    BY <2>1, <2>4 DEF PlanStored, Same
  <2>6. \A k : ~Right(s, k)
    BY <2>4 DEF Right
  <2>7. Continues(r, s)
    BY <2>1, <2>3, <2>4, <2>5, <2>6, PcContinues DEF Starting, Waiting
  <2> QED
    BY <2>2, <2>7
<1>2. CASE r.final \notin {"failed", "cancelled"}
  <2>1. r.finTo = "release" /\ r.pc # "release"
    BY <1>2, Fields DEF WorkOk, CommitPc
  <2> QED
    BY <1>2, <2>1, ThrownContinues DEF CommitThrown
<1> QED
  BY <1>1, <1>2

(* The write before the checkpoint event carries on.                       *)
LEMMA CheckpointStatusCarries ==
  ASSUME StoreOk, RunsOk, WorksOk, NEW p \in Procs, CheckpointStatus(p)
  PROVE  Carries(p)
<1>1. /\ QuietMove(p) /\ execs' = execs /\ LocalOk(run[p]) /\ WorkOk(run[p])
      /\ run[p].pc = "ckStatus" /\ run[p].pc \in CommitPc
  BY CheckpointStatusQuiet DEF CheckpointStatus, WriteStatus, RunsOk, WorksOk, At, CommitPc
<1> DEFINE r == run[p]
           s == [r EXCEPT !.pc = "ckAppend"]
<1>2. /\ Same(r, s) /\ s.pc = "ckAppend" /\ s.final = r.final /\ s.withDraft = r.withDraft
      /\ s.commitTo = r.commitTo
  BY <1>1, PcSame
<1>3. Set(p, s) \/ Set(p, CommitThrown(p))
  BY DEF CheckpointStatus, WriteStatus
<1> HIDE DEF s
<1>4. s.pc \in CommitPc /\ Loaded(s) /\ Loaded(r) /\ ~Saved(s)
  BY <1>1, <1>2 DEF CommitPc, Loaded, LoadedPc, Saved
<1>5. Settling(s) => Settling(r)
  BY <1>1, <1>2 DEF Settling, CommitPc
<1>6. PlanStored(s) => PlanStored(r)
  BY <1>2, <1>5 DEF PlanStored, Same
<1>7. \A k : Right(s, k) => Right(r, k)
  BY <1>1, <1>2, <1>5 DEF Right, Same
<1>8. r.final # "none" => r.withDraft /\ r.commitTo = "finUpdate"
  BY <1>1 DEF WorkOk
<1>9. Continues(r, s)
  BY <1>1, <1>2, <1>4, <1>6, <1>7, <1>8, PcContinues DEF Starting, Waiting
<1> QED
  BY <1>1, <1>3, <1>9, CommitThrownContinues, CarryOn

(* The write after the save returns to where the commit was called from;   *)
(* back in settleTools the right is a saved one.                           *)
LEMMA CheckpointResumeCarries ==
  ASSUME StoreOk, RunsOk, WorksOk, NEW p \in Procs, CheckpointResume(p)
  PROVE  Carries(p)
<1>1. /\ QuietMove(p) /\ execs' = execs /\ LocalOk(run[p]) /\ WorkOk(run[p])
      /\ run[p].pc = "ckResume" /\ run[p].pc \in CommitPc
  BY CheckpointStatusQuiet DEF CheckpointResume, WriteStatus, RunsOk, WorksOk, At, CommitPc
<1> DEFINE r == run[p]
           s == [r EXCEPT !.pc = r.commitTo]
<1>2. /\ Same(r, s) /\ s.pc = r.commitTo /\ s.final = r.final /\ s.withDraft = r.withDraft
      /\ s.commitTo = r.commitTo
  BY <1>1, PcSame
<1>3. Set(p, s) \/ Set(p, Thrown(r))
  BY DEF CheckpointResume, WriteStatus
<1> HIDE DEF s
<1>4. r.final = "none" /\ r.finTo = "release"
  BY <1>1, Fields DEF WorkOk
<1>5. r.commitTo \in {"loop", "settle"}
  <2>1. r.commitTo \in CommitTarget
    BY <1>1, Fields
  <2>2. r.commitTo # "finUpdate"
    BY <1>1, <1>4 DEF LocalOk, Shape, Finishing, Terminal
  <2> QED
    BY <2>1, <2>2 DEF CommitTarget
<1>6. Loaded(s) /\ Loaded(r) /\ PlanStored(r) /\ Saved(r)
  BY <1>1, <1>2, <1>5 DEF Loaded, LoadedPc, PlanStored, Saved
<1>7. Settling(s) => Settling(r)
  BY <1>1, <1>2, <1>5 DEF Settling, CommitPc
<1>8. \A k : Right(s, k) => Right(r, k)
  BY <1>1, <1>2, <1>7 DEF Right, Same
<1>9. Continues(r, s)
  BY <1>1, <1>2, <1>4, <1>5, <1>6, <1>8, PcContinues DEF Starting, Waiting
<1>10. Continues(r, Thrown(r))
  BY <1>1, <1>4, ThrownContinues
<1> QED
  BY <1>1, <1>3, <1>9, <1>10, CarryOn

(* What settleTools does with the head of its list, and why.               *)
LEMMA SettleHeadWhy ==
  ASSUME NEW p \in Procs
  PROVE  LET r == run[p]
             key == Head(r.pending)
             state == r.body.calls[key].status IN
         \/ SettleHead(p) = [r EXCEPT !.pc = "loop"]
         \/ state = "completed" /\ SettleHead(p) = Settled(p, r.body)
         \/ SettleHead(p) = Thrown(r)
         \/ SettleHead(p) = [Finish(r, "failed", "error", r.gen, TRUE) EXCEPT !.finTo = "loop"]
         \/ r.resume /\ SettleHead(p) = [r EXCEPT !.pc = "uncAppend"]
         \/ /\ r.resume /\ state = "recorded" /\ key[2] \in Allowed => key[2] \in Idempotent
            /\ SettleHead(p) = [r EXCEPT !.pc = IF key[2] \in Allowed THEN "exec" ELSE "respAppend"]
  BY Zenon DEF SettleHead

(* The head of a pending list is a recorded call.                          *)
LEMMA PendingRecorded ==
  ASSUME NEW r, LocalOk(r), WorkOk(r), Settling(r), r.pending # << >>
  PROVE  r.body.calls[Head(r.pending)].status = "recorded" /\ Head(r.pending) \in Key
<1>1. r.pending \in Seq(Key)
  BY Fields
<1>2. 1 \in DOMAIN r.pending /\ Head(r.pending) = r.pending[1] /\ Head(r.pending) \in Key
  BY <1>1
<1>3. r.body.cont.type = "settle_tools" /\ r.body.cont.pending = r.pending
  BY DEF LocalOk, Shape
<1> QED
  BY <1>2, <1>3 DEF WorkOk, PlanOk

(* Deciding on the head of the list carries on: the tool is run by the     *)
(* call that recorded it, or because it is idempotent.                     *)
LEMMA SettleCarries ==
  ASSUME StoreOk, RunsOk, WorksOk, NEW p \in Procs, Settle(p)
  PROVE  Carries(p)
<1>1. /\ QuietMove(p) /\ execs' = execs /\ LocalOk(run[p]) /\ WorkOk(run[p])
      /\ run[p].pc = "settle" /\ run[p].pc \in WorkPc
  BY SettleQuiet DEF Settle, RunsOk, WorksOk, At, WorkPc
<1> DEFINE r == run[p]
<1>2. r.finTo = "release" /\ r.final = "none" /\ Loaded(r)
  BY <1>1, WorkPlain
<1>3. Settling(r) /\ PlanStored(r) /\ Saved(r)
  BY <1>1 DEF Settling, PlanStored, Saved
<1>4. r.body \in RunBody /\ r.body.steps \in Nat /\ Typed(r) /\ r.resume \in BOOLEAN
  BY <1>1, Fields DEF LocalOk
<1>5. ASSUME NEW pc, pc \in {"respAppend"} \/ (pc = "exec" /\ (r.resume => Head(r.pending)[2] \in Idempotent))
                     \/ (pc = "uncAppend" /\ r.resume)
      PROVE  Continues(r, [r EXCEPT !.pc = pc])
  <2> DEFINE s == [r EXCEPT !.pc = pc]
  <2>1. Same(r, s) /\ s.pc = pc /\ s.final = r.final /\ s.withDraft = r.withDraft
    BY <1>1, PcSame
  <2> HIDE DEF s
  <2>2. Loaded(s) /\ Settling(s) /\ s.pc \notin Starting /\ s.pc # "ckSave" /\ ~Waiting(s)
    BY <1>5, <2>1 DEF Loaded, LoadedPc, Settling, Starting, Waiting
  <2>3. WorkOk(s)
    BY <1>1, <1>2, <1>5, <2>1, <2>2 DEF WorkOk, Same, CommitPc
  <2>4. \A k : Right(s, k) => Right(r, k)
    BY <1>1, <1>3, <2>1 DEF Right, Same
  <2>5. Continues(r, s)
    BY <1>2, <1>3, <1>4, <2>1, <2>2, <2>3, <2>4 DEF Continues, Same
  <2> QED
    BY <2>5 DEF s
<1>6. Continues(r, [r EXCEPT !.pc = "loop"])
  <2> DEFINE s == [r EXCEPT !.pc = "loop"]
  <2>1. Same(r, s) /\ s.pc = "loop" /\ s.final = r.final /\ s.withDraft = r.withDraft
    BY <1>1, PcSame
  <2> HIDE DEF s
  <2>2. Continues(r, s)
    BY <1>1, <1>3, <2>1, LoopContinues
  <2> QED
    BY <2>2 DEF s
<1>7. Continues(r, Thrown(r))
  BY <1>1, WorkThrown
<1>8. Continues(r, [Finish(r, "failed", "error", r.gen, TRUE) EXCEPT !.finTo = "loop"])
  <2> DEFINE f == Finish(r, "failed", "error", r.gen, TRUE)
             s == [f EXCEPT !.finTo = "loop"]
  <2>1. /\ s.pc = "finAppend" /\ s.withDraft = TRUE /\ s.final = "failed" /\ s.finTo = "loop"
        /\ s.gen = r.gen /\ s.body = r.body /\ s.drafted = r.drafted
    BY <1>4 DEF Finish, Typed, RunCallOf
  <2> HIDE DEF s
  <2>2. Loaded(s) /\ ~Settling(s) /\ ~Saved(s) /\ s.pc \in Ending /\ s.pc \notin CommitPc
    BY <2>1 DEF Loaded, Ending, Settling, Saved, CommitPc
  <2>3. WorkOk(s)
    BY <1>1, <2>1, <2>2 DEF WorkOk
  <2>4. Continues(r, s)
    BY <1>2, <1>3, <1>4, <2>1, <2>2, <2>3 DEF Continues, Starting, Right, Waiting
  <2> QED
    BY <2>4 DEF s, f
<1>9. ASSUME r.pending # << >> PROVE Continues(r, SettleHead(p))
  <2>1. r.body.calls[Head(r.pending)].status = "recorded"
    BY <1>1, <1>3, <1>9, PendingRecorded
  <2>2. ASSUME /\ r.resume /\ Head(r.pending)[2] \in Allowed => Head(r.pending)[2] \in Idempotent
               /\ SettleHead(p) = [r EXCEPT !.pc = IF Head(r.pending)[2] \in Allowed THEN "exec" ELSE "respAppend"]
        PROVE  Continues(r, SettleHead(p))
    <3>1. CASE Head(r.pending)[2] \in Allowed
      BY <1>5, <2>2, <3>1
    <3>2. CASE Head(r.pending)[2] \notin Allowed
      BY <1>5, <2>2, <3>2
    <3> QED
      BY <3>1, <3>2
  <2>3. ASSUME r.resume, SettleHead(p) = [r EXCEPT !.pc = "uncAppend"]
        PROVE  Continues(r, SettleHead(p))
    BY <1>5, <2>3
  <2> QED
    BY <1>6, <1>7, <1>8, <2>1, <2>2, <2>3, SettleHeadWhy
<1> DEFINE next == ProviderTurn(r.body.cont.step + 1)
           t == [r EXCEPT !.body.cont = ProviderTurn(@.step + 1)]
<1>10. Continues(r, Commit(t, "loop"))
  <2>0. r.body.cont.type = "settle_tools" /\ r.body.cont.step \in 0..MaxSteps /\ r.body.cont.step < MaxSteps
    BY <1>1, <1>3, <1>4, BodyParts DEF LocalOk, Shape, BodyFits
  <2>1. next.type = "provider_turn" /\ next.step = r.body.cont.step + 1
    BY DEF ProviderTurn
  <2>a. next \in Continuation
    <3> DEFINE n == r.body.cont.step
    <3>1. n \in 0..MaxSteps /\ n < MaxSteps /\ MaxSteps \in Nat
      BY <2>0, RunnerAssumption
    <3> HIDE DEF n
    <3>2. n + 1 \in 0..MaxSteps
      BY <3>1
    <3>3. r.body.cont.step + 1 \in 0..MaxSteps
      BY <3>2 DEF n
    <3> QED
      BY <3>3 DEF ProviderTurn, Continuation
  <2>2. t = [r EXCEPT !.body = [r.body EXCEPT !.cont = next]]
    OBVIOUS
  <2> HIDE DEF t, next
  <2> DEFINE b == [r.body EXCEPT !.cont = next]
  <2>3. b \in RunBody /\ b.cont = next /\ b.calls = r.body.calls /\ b.steps = r.body.steps
    BY <1>4, <2>a, WithCont
  <2>4. PlanOk(b)
    <3> SUFFICES ASSUME NEW k \in Key, Known(b, k) PROVE k[1] < next.step
      BY <2>1, <2>3 DEF PlanOk
    <3>1. k[1] <= r.body.cont.step
      BY <1>1, <2>0, <2>3 DEF WorkOk, PlanOk, Known
    <3>2. k[1] \in Int
      BY RunnerAssumption DEF Key
    <3> QED
      BY <2>0, <2>1, <3>1, <3>2, RunnerAssumption, SMTT(20)
  <2> HIDE DEF b
  <2>5. /\ Typed(t) /\ t.body = b /\ t.gen = r.gen /\ t.finTo = r.finTo /\ t.final = r.final
        /\ t.drafted = r.drafted
    BY <1>4, <2>2, <2>3 DEF Typed, RunCallOf, b
  <2> DEFINE s == Commit(t, "loop")
  <2>6. /\ s.pc = "ckStatus" /\ s.commitTo = "loop" /\ s.body = b /\ s.gen = r.gen
        /\ s.finTo = r.finTo /\ s.final = r.final /\ s.drafted = r.drafted
    BY <2>5, CommitSame DEF Same
  <2> HIDE DEF s
  <2>7. Loaded(s) /\ ~Settling(s) /\ ~Saved(s) /\ s.pc \in CommitPc
    BY <2>6 DEF Loaded, LoadedPc, Settling, Saved, CommitPc
  <2>8. WorkOk(s) /\ ~PlanStored(s)
    BY <1>2, <2>4, <2>6, <2>7 DEF WorkOk, PlanStored
  <2>9. Continues(r, s)
    BY <1>2, <1>4, <2>3, <2>6, <2>7, <2>8 DEF Continues, Starting, Right, Waiting
  <2> QED
    BY <2>9 DEF s
<1>11. \/ r.pending # << >> /\ Set(p, SettleHead(p))
       \/ Set(p, Commit(t, "loop"))
  BY DEF Settle
<1> HIDE DEF t
<1> QED
  BY <1>1, <1>9, <1>10, <1>11, CarryOn

(* The terminal event carries on, into the commit of the draft.            *)
LEMMA FinishAppendCarries ==
  ASSUME StoreOk, RunsOk, WorksOk, NEW p \in Procs, FinishAppend(p)
  PROVE  Carries(p)
<1>1. /\ QuietMove(p) /\ execs' = execs /\ LocalOk(run[p]) /\ WorkOk(run[p])
      /\ run[p].pc = "finAppend"
  BY FinishAppendQuiet DEF FinishAppend, RunsOk, WorksOk, At
<1> DEFINE r == run[p]
           d == [r EXCEPT !.body.cont = Done]
           e == [r.body EXCEPT !.cont = Done]
           t == IF r.final = "completed" THEN d ELSE r
           s == IF t.withDraft THEN Commit(t, "finUpdate") ELSE [t EXCEPT !.pc = "finUpdate"]
<1>2. Typed(r) /\ r.body \in RunBody /\ r.withDraft \in BOOLEAN /\ r.body.steps \in Nat
  BY <1>1, Fields DEF LocalOk
<1>3. e \in RunBody /\ e.cont = Done /\ e.calls = r.body.calls /\ e.steps = r.body.steps
  BY <1>2, DoneOk, WithCont
<1>4. PlanOk(e)
  BY <1>3, DoneOk DEF PlanOk
<1>5. d = [r EXCEPT !.body = e]
  OBVIOUS
<1> HIDE DEF d, e
<1>6. /\ Typed(d) /\ d.body = e /\ d.gen = r.gen /\ d.final = r.final /\ d.drafted = r.drafted
      /\ d.withDraft = r.withDraft /\ d.finTo = r.finTo
  BY <1>2, <1>3, <1>5 DEF Typed, RunCallOf
<1>7. /\ Typed(t) /\ t.gen = r.gen /\ t.final = r.final /\ t.drafted = r.drafted
      /\ t.withDraft = r.withDraft /\ t.finTo = r.finTo
      /\ t.body.calls = r.body.calls /\ t.body.steps = r.body.steps /\ PlanOk(t.body)
      /\ t.body.cont.type = "settle_tools" => t.body.cont = r.body.cont
  BY <1>1, <1>2, <1>3, <1>4, <1>6, DoneOk DEF WorkOk
<1>8. Set(p, s)
  BY DEF FinishAppend, d
<1> HIDE DEF t
<1>9. /\ s.gen = r.gen /\ s.final = r.final /\ s.drafted = r.drafted
      /\ s.withDraft = r.withDraft /\ s.finTo = r.finTo /\ s.body = t.body
      /\ \/ s.pc = "ckStatus" /\ s.commitTo = "finUpdate" /\ r.withDraft
         \/ s.pc = "finUpdate" /\ ~r.withDraft
  BY <1>2, <1>7 DEF Commit, Typed, RunCallOf
<1> HIDE DEF s
<1>10. ~Settling(s) /\ ~Saved(s) /\ s.pc \in Ending \cup CommitPc /\ s.pc \notin Starting \cup {"ckSave"}
  BY <1>9 DEF Settling, Saved, Ending, CommitPc, Starting
<1>11. (Loaded(s) <=> r.withDraft) /\ (Loaded(r) <=> r.withDraft)
  BY <1>1, <1>2, <1>9 DEF Loaded, LoadedPc, Ending, CommitPc
<1>12. WorkOk(s)
  BY <1>1, <1>7, <1>9, <1>10, <1>11 DEF WorkOk, Ending, CommitPc
<1>13. PlanStored(s) => PlanStored(r)
  BY <1>9, <1>10 DEF PlanStored
<1>14. Continues(r, s)
  BY <1>2, <1>7, <1>9, <1>10, <1>11, <1>12, <1>13 DEF Continues, Right, Waiting
<1> QED
  BY <1>1, <1>8, <1>14, CarryOn

(* The terminal status write carries on.                                   *)
LEMMA FinishUpdateCarries ==
  ASSUME StoreOk, RunsOk, WorksOk, NEW p \in Procs, FinishUpdate(p)
  PROVE  Carries(p)
<1>1. /\ QuietMove(p) /\ execs' = execs /\ LocalOk(run[p]) /\ WorkOk(run[p])
      /\ run[p].pc = "finUpdate"
  BY FinishUpdateQuiet DEF FinishUpdate, RunsOk, WorksOk, At
<1> DEFINE r == run[p]
           s == [r EXCEPT !.pc = "dispose"]
<1>2. Same(r, s) /\ s.pc = "dispose" /\ s.final = r.final /\ s.withDraft = r.withDraft
  BY <1>1, PcSame
<1>3. Set(p, s) \/ (r.final = "completed" /\ Set(p, Thrown(r)))
  BY DEF FinishUpdate, Goto
<1> HIDE DEF s
<1>4. Loaded(s) <=> Loaded(r)
  BY <1>1, <1>2 DEF Loaded, LoadedPc, Ending, CommitPc
<1>5. ~Settling(s) /\ ~Saved(s) /\ s.pc \in Ending /\ s.pc \notin Starting \cup CommitPc
  BY <1>2 DEF Settling, Saved, Ending, CommitPc, Starting
<1>6. PlanStored(s) => PlanStored(r)
  BY <1>2, <1>5 DEF PlanStored, Same
<1>7. r.drafted => Loaded(r)
  BY <1>1 DEF WorkOk
<1>8. Continues(r, s)
  BY <1>1, <1>2, <1>4, <1>5, <1>6, <1>7, PcContinues DEF Right, Waiting
<1>9. r.final = "completed" => Continues(r, Thrown(r))
  <2>1. r.final = "completed" => r.finTo = "release"
    BY <1>1, Fields DEF WorkOk
  <2> QED
    BY <1>1, <2>1, ThrownContinues
<1> QED
  BY <1>1, <1>3, <1>8, <1>9, CarryOn

(* The finally block carries on.                                           *)
LEMMA DisposeCarries ==
  ASSUME StoreOk, RunsOk, WorksOk, NEW p \in Procs, Dispose(p) \/ Release(p)
  PROVE  Carries(p)
<1>1. QuietMove(p) /\ execs' = execs /\ LocalOk(run[p]) /\ WorkOk(run[p])
  BY DisposeQuiet DEF Dispose, Release, RunsOk, WorksOk
<1>2. CASE Set(p, IdleRun)
  BY <1>1, <1>2, IdleBlank, CarryOn
<1>3. CASE Dispose(p) /\ ~Set(p, IdleRun)
  <2> DEFINE r == run[p]
             s == [r EXCEPT !.pc = r.finTo, !.final = "none", !.finTo = "release"]
  <2>1. r.pc = "dispose" /\ Set(p, s)
    BY <1>3 DEF Dispose, At
  <2>2. /\ s.pc = r.finTo /\ s.final = "none" /\ s.finTo = "release" /\ s.gen = r.gen
        /\ s.body = r.body /\ s.drafted = r.drafted /\ s.withDraft = r.withDraft
    BY <1>1 DEF LocalOk, Typed, RunCallOf
  <2> HIDE DEF s
  <2>3. r.finTo \in {"release", "loop"} /\ r.body.steps \in Nat
    BY <1>1, Fields
  <2>4. r.finTo = "loop" => Loaded(r) /\ PlanStored(r)
    BY <1>1, <2>1 DEF WorkOk, Loaded, Ending, PlanStored
  <2>5. /\ ~Settling(s) /\ ~Saved(s) /\ s.pc \notin Starting \cup CommitPc \cup Ending
        /\ (Loaded(s) <=> r.finTo = "loop") /\ (PlanStored(s) <=> r.finTo = "loop")
    BY <2>2, <2>3 DEF Settling, Saved, Starting, CommitPc, Ending, Loaded, LoadedPc, PlanStored
  <2>6. WorkOk(s)
    BY <1>1, <2>2, <2>3, <2>5 DEF WorkOk, CommitPc
  <2>7. Continues(r, s)
    BY <2>2, <2>3, <2>4, <2>5, <2>6 DEF Continues, CommitPc, Right, Waiting
  <2> QED
    BY <1>1, <2>1, <2>7, CarryOn
<1> QED
  BY <1>2, <1>3 DEF Release

(* Control calls and crashes carry on, at most aborting or ending the call *)
(* of their process.                                                       *)
LEMMA ControlCarries ==
  ASSUME RunnerInv, NEW p \in Procs, ControlMove(p), execs' = execs
  PROVE  Carries(p)
<1>1. Quiet /\ LocalOk(run[p])
  BY DEF ControlMove, RunnerInv, CallOk
<1>2. CASE run' = run
  <2>1. Set(p, run[p])
    BY <1>2 DEF RunnerInv, Set
  <2> QED
    BY <1>1, <2>1 DEF Carries, Twin, Same
<1>3. CASE AbortLocal(p)
  <2> DEFINE a == run[p].aborted \/ run[p].active
             s == [run[p] EXCEPT !.aborted = a]
  <2>1. Set(p, s)
    BY <1>3 DEF AbortLocal, Set
  <2> HIDE DEF a
  <2>2. Twin(run[p], s)
    BY <1>1 DEF LocalOk, Typed, RunCallOf, Twin, Same
  <2> QED
    BY <1>1, <2>1, <2>2 DEF Carries
<1>4. CASE run' = [run EXCEPT ![p] = IdleRun]
  BY <1>1, <1>4, IdleBlank DEF Carries, Set
<1> QED
  BY <1>2, <1>3, <1>4 DEF ControlMove

(* Control calls run no tool.                                              *)
LEMMA ControlEffects ==
  ASSUME NEW p \in Procs, CtlCall(p) \/ CtlStep(p) \/ Crash(p)
  PROVE  execs' = execs
  BY DEF CtlCall, CancelJob, Reconcile, SubmitInput, CtlBegin, CtlStep, CancelUpdate, CancelAppend,
         CancelFinal, SuspendRead, SuspendCapture, SuspendEnvironment, SuspendAppend, SuspendPark,
         InputAppend, Crash

-----------------------------------------------------------------------------
(* The steps that load, record, settle or commit work.                     *)

(* The parts of the invariant.                                             *)
LEMMA Parts ==
  ASSUME WorkInv
  PROVE  /\ RunnerInv /\ StoreOk /\ RunsOk /\ WorksOk /\ StoredOk /\ EffectsOk
         /\ \A p \in Procs : CallOk(run[p]) /\ CallWorks(run[p]) /\ LocalOk(run[p]) /\ WorkOk(run[p])
  BY DEF WorkInv, RunnerInv, RunsOk, WorksOk, CallOk, CallWorks

(* A quiet move whose new work is right, and that brings no new right.     *)
LEMMA NewWork ==
  ASSUME WorkInv, RunnerInv', NEW p \in Procs, NEW s, Set(p, s), Quiet, CallWorks(s)',
         execs' = execs, \A k \in NeedsRight : Live(s, k)' => Live(run[p], k), ~Waiting(s)
  PROVE  WorkInv' /\ WaitsStay
<1>1. ckpt' = ckpt /\ rec'.attempt = rec.attempt
  BY DEF Quiet, QuietRec
<1>2. StoredOk' /\ \A q \in Procs : CallWorks(run[q])'
  BY MoveWorks
<1>3. \A q \in Procs, k \in NeedsRight : Live(run[q], k)' => Live(run[q], k)
  BY <1>1, OnlyMoverLive
<1>4. EffectsOk'
  BY <1>1, <1>3, EffectsStay DEF WorkInv
<1>5. WaitsStay
  BY OnlyMoverWaits DEF WorkInv
<1> QED
  BY <1>2, <1>4, <1>5 DEF WorkInv

(* A quiet step keeps what the invariant speaks about.                     *)
LEMMA Growing ==
  ASSUME WorkInv, RunnerInv', Quiet
  PROVE  /\ LogGrows /\ Len(log) \in Nat /\ Len(log') \in Nat
         /\ ckpt' = ckpt /\ rec'.attempt = rec.attempt /\ ckpt.body \in RunBody
<1>1. Len(log') \in Nat
  BY DEF RunnerInv, StoreOk, StoreTypeOK
<1> QED
  BY <1>1, Parts, QuietLogGrows, StoreTypes DEF Quiet, QuietRec

(* newDraft starts from an empty body; there is no checkpoint yet, so the  *)
(* stored body is empty too (runJob, restartFromScratch).                  *)
LEMMA StartedWorks ==
  ASSUME WorkInv, RunnerInv', NEW p \in Procs, Started(p)
  PROVE  WorkInv' /\ WaitsStay
<1>1. /\ LocalOk(run[p]) /\ WorkOk(run[p]) /\ CallWorks(run[p]) /\ StoredOk
      /\ QuietMove(p) /\ execs' = execs /\ run[p].pc = "started"
  BY Parts, StartedQuiet DEF Started, AppendOwn, At
<1> DEFINE r == run[p]
           d == r.mode = "run"
           n == Len(log) + 1
           u == [r EXCEPT !.pc = "drain0", !.body = NewBody, !.lastSeq = n,
                          !.session = << >>, !.applied = {}, !.drafted = d]
<1>2. Set(p, u) \/ Set(p, Thrown(r))
  BY DEF Started, AppendOwn
<1>3. CASE Set(p, Thrown(r))
  <2>1. Continues(r, Thrown(r))
    BY <1>1, BareThrown DEF BarePc
  <2>2. Carries(p)
    BY <1>1, <1>3, <2>1, CarryOn
  <2> QED
    BY <2>2, CarriesKeeps
<1>4. ASSUME NEW s, Set(p, s), s.pc = "drain0", s.body = NewBody, s.gen = r.gen,
             s.finTo = r.finTo, s.final = r.final
      PROVE  WorkInv' /\ WaitsStay
  <2>1. /\ s.pc = "drain0" /\ s.body = NewBody /\ s.gen = r.gen /\ s.finTo = r.finTo
        /\ s.final = r.final
    BY <1>4
  <2>2. r.finTo = "release" /\ r.final = "none"
    BY <1>1, FinToRelease DEF WorkOk, Ending, CommitPc
  <2>3. Loaded(s) /\ ~Settling(s) /\ ~Saved(s) /\ ~PlanStored(s)
    BY <2>1, <2>2 DEF Loaded, LoadedPc, Settling, Saved, PlanStored, CommitPc
  <2>4. WorkOk(s)
    BY <2>1, <2>2, <2>3, EmptyBody DEF WorkOk, CommitPc, Ending
  <2>5. Quiet /\ ckpt' = ckpt /\ rec'.attempt = rec.attempt /\ Len(log') \in Nat
    BY <1>1, Growing DEF QuietMove
  <2>6. InLog(s.body, Len(log))'
    BY <2>1, <2>5, EmptyBody DEF InLog, NotCalled
  <2>7. s.gen = rec.attempt => Grows(ckpt.body, s.body)
    <3>1. s.gen = rec.attempt => ckpt.body = NewBody
      BY <1>1, <2>1 DEF CallWorks, StoredOk
    <3> QED
      BY <2>1, <3>1, GrowsRefl, NewBodyOk
  <2>8. CallWorks(s)'
    BY <2>1, <2>3, <2>4, <2>5, <2>6, <2>7 DEF CallWorks, PlanKnown, Grows, Known
  <2>9. \A k \in NeedsRight : ~Live(s, k)'
    BY <2>3 DEF Live, Right
  <2> QED
    BY <1>1, <1>4, <2>5, <2>1, <2>8, <2>9, NewWork DEF Waiting
<1>5. /\ u.pc = "drain0" /\ u.body = NewBody /\ u.gen = r.gen /\ u.finTo = r.finTo
      /\ u.final = r.final
  <2> HIDE DEF d, n
  <2> QED
    BY <1>1 DEF LocalOk, Typed, RunCallOf
<1> HIDE DEF u
<1> QED
  BY <1>2, <1>3, <1>4, <1>5

(* A recovery loads the stored body, which grows from itself and whose     *)
(* plan is stored.                                                         *)
LEMMA RecoverWorks ==
  ASSUME WorkInv, RunnerInv', NEW p \in Procs, Recover(p)
  PROVE  WorkInv' /\ WaitsStay
<1>1. /\ LocalOk(run[p]) /\ WorkOk(run[p]) /\ CallWorks(run[p]) /\ StoredOk /\ StoreOk
      /\ QuietMove(p) /\ execs' = execs /\ run[p].pc = "recover"
  BY Parts, RecoverQuiet DEF Recover, At
<1> DEFINE r == run[p]
           v == [r EXCEPT !.pc = "resumed", !.ws = TRUE, !.body = ckpt.body,
                          !.lastSeq = ckpt.lastEventSeq, !.seen = Len(log)]
           w == [r EXCEPT !.pc = "started", !.ws = TRUE, !.active = TRUE]
           u == [r EXCEPT !.pc = "parkRelease"]
<1>2. Set(p, v) \/ (~HasCheckpoint /\ Set(p, w)) \/ Set(p, u)
  BY DEF Recover, Goto
<1>3. r.finTo = "release" /\ r.final = "none" /\ ~r.drafted
  BY <1>1, Fields, FinToRelease DEF WorkOk, Ending, CommitPc, Loaded, LoadedPc
<1>4. /\ Quiet /\ LogGrows /\ ckpt' = ckpt /\ rec'.attempt = rec.attempt
      /\ Len(log) \in Nat /\ Len(log') \in Nat /\ ckpt.body \in RunBody
  BY <1>1, Growing DEF QuietMove
<1>5. CASE Set(p, u)
  <2>1. Continues(r, u)
    BY <1>1, BareMove DEF BarePc, Starting
  <2>2. Carries(p)
    BY <1>1, <1>5, <2>1, CarryOn
  <2> QED
    BY <2>2, CarriesKeeps
<1>6. ASSUME NEW s, Set(p, s), s.pc = "resumed", s.body = ckpt.body, s.gen = r.gen,
             s.finTo = r.finTo, s.final = r.final, s.drafted = r.drafted
      PROVE  WorkInv' /\ WaitsStay
  <2>1. /\ s.pc = "resumed" /\ s.body = ckpt.body /\ s.gen = r.gen /\ s.finTo = r.finTo
        /\ s.final = r.final /\ s.drafted = r.drafted
    BY <1>6
  <2>2. Loaded(s) /\ ~Settling(s) /\ ~Saved(s)
    BY <2>1 DEF Loaded, LoadedPc, Settling, Saved, CommitPc
  <2>3. WorkOk(s)
    BY <1>1, <1>3, <2>1, <2>2 DEF WorkOk, CommitPc, Ending, StoredOk
  <2>4. InLog(s.body, Len(log))'
    <3>1. PICK b : b = ckpt.body
      OBVIOUS
    <3>2. PICK n : n = ckpt.lastEventSeq
      OBVIOUS
    <3>3. PICK m : m = Len(log')
      OBVIOUS
    <3>4. n \in Nat /\ n <= Len(log) /\ InLog(b, n)
      BY <1>1, <3>1, <3>2, StoreTypes, RunnerAssumption DEF Seqs, StoreOk, CheckpointBehindLog, StoredOk
    <3>5. InLog(b, m)'
      BY <1>1, <1>4, <3>1, <3>3, <3>4, InLogStays DEF LogGrows
    <3> QED
      BY <2>1, <3>1, <3>3, <3>5 DEF InLog
  <2>5. Grows(ckpt.body, s.body)
    BY <1>4, <2>1, GrowsRefl
  <2>6. PlanKnown(s)
    BY <1>1, <2>1 DEF PlanKnown, StoredOk, PlanOk, Known
  <2>7. CallWorks(s)'
    BY <1>4, <2>1, <2>2, <2>3, <2>4, <2>5, <2>6 DEF CallWorks, PlanKnown, Grows, Known
  <2>8. \A k \in NeedsRight : ~Live(s, k)'
    BY <2>2 DEF Live, Right
  <2> QED
    BY <1>1, <1>4, <1>6, <2>7, <2>8, NewWork DEF Waiting
<1>7. ASSUME ~HasCheckpoint, NEW t, Set(p, t), t.pc = "started", t.body = r.body,
             t.gen = r.gen, t.finTo = r.finTo, t.final = r.final, t.drafted = r.drafted
      PROVE  WorkInv' /\ WaitsStay
  <2>1. /\ t.pc = "started" /\ t.body = r.body /\ t.gen = r.gen /\ t.finTo = r.finTo
        /\ t.final = r.final /\ t.drafted = r.drafted
    BY <1>7
  <2>2. ~Loaded(t) /\ ~Settling(t) /\ ~Saved(t) /\ ~PlanStored(t)
    BY <1>3, <2>1 DEF Loaded, LoadedPc, Settling, Saved, CommitPc, Ending, PlanStored
  <2>3. WorkOk(t)
    BY <1>1, <1>3, <2>1, <2>2 DEF WorkOk, CommitPc, Ending
  <2>4. ckpt.attempt = 0
    BY <1>1, <1>7, StoreTypes, RunnerAssumption DEF HasCheckpoint, Generation
  <2>5. PICK x : x = r
    OBVIOUS
  <2>6. CallWorks(x)'
    BY <1>1, <1>4, <2>5, StillWorks, Parts
  <2>7. CallWorks(t)'
    BY <1>4, <2>1, <2>2, <2>3, <2>4, <2>5, <2>6 DEF CallWorks, PlanKnown, InLog
  <2>8. \A k \in NeedsRight : ~Live(t, k)'
    BY <2>2 DEF Live, Right
  <2> QED
    BY <1>1, <1>4, <1>7, <2>7, <2>8, NewWork DEF Waiting
<1>8. /\ v.pc = "resumed" /\ v.body = ckpt.body /\ v.gen = r.gen /\ v.finTo = r.finTo
      /\ v.final = r.final /\ v.drafted = r.drafted
  BY <1>1 DEF LocalOk, Typed, RunCallOf
<1>9. /\ w.pc = "started" /\ w.body = r.body /\ w.gen = r.gen /\ w.finTo = r.finTo
      /\ w.final = r.final /\ w.drafted = r.drafted
  BY <1>1 DEF LocalOk, Typed, RunCallOf
<1> HIDE DEF v, w, u
<1> QED
  BY <1>2, <1>5, <1>6, <1>7, <1>8, <1>9

(* The checkpoint event sets the watermark beyond every seq of the draft.  *)
LEMMA CheckpointAppendWorks ==
  ASSUME WorkInv, RunnerInv', NEW p \in Procs, CheckpointAppend(p)
  PROVE  WorkInv' /\ WaitsStay
<1>1. /\ LocalOk(run[p]) /\ WorkOk(run[p]) /\ CallWorks(run[p]) /\ StoreOk /\ RunnerInv
      /\ execs' = execs /\ run[p].pc = "ckAppend" /\ run[p].pc \in CommitPc
  BY Parts DEF CheckpointAppend, AppendOwn, At, CommitPc
<1>2. Quiet
  <2>1. <<Ev("checkpoint")>> \in Seq(RunEvent)
    BY EventsTyped DEF EventType
  <2> QED
    BY <1>1, <2>1, PatchQuiet DEF CheckpointAppend, AppendOwn, AppendFenced, Quiet, QuietLog
<1> DEFINE r == run[p]
           n == Len(log) + 1
           u == [r EXCEPT !.pc = "ckSave", !.lastSeq = n]
<1>3. /\ LogGrows /\ ckpt' = ckpt /\ rec'.attempt = rec.attempt
      /\ Len(log) \in Nat /\ Len(log') \in Nat
  BY <1>2, Growing
<1>4. CASE Set(p, CommitThrown(p))
  <2>1. Carries(p)
    BY <1>1, <1>2, <1>4, CommitThrownContinues DEF Carries
  <2> QED
    BY <2>1, CarriesKeeps
<1>5. ASSUME AppendEvents(<<Ev("checkpoint")>>), NEW s, Set(p, s),
             Same(r, s), s.pc = "ckSave", s.lastSeq = n, s.commitTo = r.commitTo,
             s.final = r.final, s.withDraft = r.withDraft
      PROVE  WorkInv' /\ WaitsStay
  <2>1. Len(log') = n
    <3>1. Ev("checkpoint") \in RunEvent /\ log \in Seq(RunEvent)
      BY <1>1, StoreTypes, EventsTyped DEF EventType
    <3> QED
      BY <1>5, <3>1 DEF AppendEvents
  <2>2. /\ Same(r, s) /\ s.pc = "ckSave" /\ s.lastSeq = n /\ s.commitTo = r.commitTo
        /\ s.final = r.final /\ s.withDraft = r.withDraft
    BY <1>5
  <2>3. s.pc \in CommitPc /\ Loaded(s) /\ Loaded(r) /\ ~Saved(s)
    BY <1>1, <2>2 DEF CommitPc, Loaded, LoadedPc, Saved
  <2>4. Settling(s) <=> Settling(r)
    BY <1>1, <2>2 DEF Settling, CommitPc
  <2>5. PlanStored(s) => PlanStored(r)
    BY <2>2, <2>4 DEF PlanStored, Same
  <2>6. WorkOk(s)
    BY <1>1, <2>2, <2>3 DEF WorkOk, Same, CommitPc
  <2>7. PICK x : x = r
    OBVIOUS
  <2>8. CallWorks(x)'
    BY <1>1, <1>3, <2>7, StillWorks, Parts
  <2>9. InLog(s.body, Len(log))' /\ InLog(s.body, s.lastSeq)'
    BY <2>1, <2>2, <2>7, <2>8 DEF CallWorks, InLog, Same
  <2>10. CallWorks(s)'
    BY <2>2, <2>3, <2>5, <2>6, <2>7, <2>8, <2>9 DEF CallWorks, PlanKnown, Same
  <2>11. ASSUME NEW k \in NeedsRight, Live(s, k)' PROVE Live(r, k)
    BY <1>1, <1>3, <2>2, <2>3, <2>4, <2>11 DEF Live, Right, Same
  <2> QED
    BY <1>1, <1>2, <1>5, <2>10, <2>11, NewWork DEF Waiting
<1>6. /\ Same(r, u) /\ u.pc = "ckSave" /\ u.lastSeq = n /\ u.commitTo = r.commitTo
      /\ u.final = r.final /\ u.withDraft = r.withDraft
  <2> HIDE DEF n
  <2> QED
    BY <1>1 DEF LocalOk, Typed, RunCallOf, Same
<1>7. Set(p, CommitThrown(p)) \/ (AppendEvents(<<Ev("checkpoint")>>) /\ Set(p, u))
  BY DEF CheckpointAppend, AppendOwn, AppendFenced
<1> HIDE DEF u
<1> QED
  BY <1>4, <1>5, <1>6, <1>7

(* Recording a turn: all its calls are new to the table, because the table *)
(* knows no call of this step yet, and distinct, because a turn's ids are. *)
LEMMA RequestBody ==
  ASSUME NEW b \in RunBody, b.cont.type = "provider_turn", PlanOk(b), b.cont.step < MaxSteps,
         NEW turn \in Turns \cup {<< >>}, NEW n \in Nat, NEW c \in RunBody,
         NEW keys, keys = TurnKeys(b.cont.step, turn),
         c.calls = TurnCalls(b.calls, keys, n), c.cont = SettleTools(b.cont.step, keys),
         c.steps = b.steps
  PROVE  /\ PlanOk(c) /\ Grows(b, c)
         /\ \A i \in DOMAIN keys : ~Known(b, keys[i])
         /\ \A k \in Key : \/ c.calls[k] = b.calls[k]
                           \/ /\ c.calls[k].status = "recorded"
                              /\ c.calls[k].recordedAt <= n + Len(keys)
<1>1. /\ b.cont.step \in 0..MaxSteps /\ b.cont.step \in Nat /\ b.calls \in [Key -> CallState]
      /\ b.steps \in Nat
  BY BodyParts
<1>2. keys \in Seq(Key) /\ DOMAIN keys = DOMAIN turn /\ \A i \in DOMAIN keys : keys[i] = <<b.cont.step, turn[i]>>
  BY <1>1, TurnTyped DEF TurnKeys
<1>3. \A i \in DOMAIN keys : keys[i] \in Key /\ keys[i][1] = b.cont.step
  BY <1>2
<1>4. \A i \in DOMAIN keys : ~Known(b, keys[i])
  BY <1>1, <1>3 DEF PlanOk
<1>5. \A i, j \in DOMAIN keys : keys[i] = keys[j] => i = j
  <2>1. \A i, j \in DOMAIN turn : turn[i] = turn[j] => i = j
    BY DistinctCalls
  <2>2. \A i, j \in DOMAIN keys : keys[i] = keys[j] => turn[i] = turn[j]
    BY <1>2
  <2> QED
    BY <1>2, <2>1, <2>2
<1>6. \A m : Recorded(m).status = "recorded" /\ Recorded(m).recordedAt = m
  BY DEF Recorded, NotCalled
<1>7. ASSUME NEW k \in Key
      PROVE  \/ c.calls[k] = b.calls[k] /\ \A i \in DOMAIN keys : keys[i] # k
             \/ /\ c.calls[k].status = "recorded" /\ c.calls[k].recordedAt <= n + Len(keys)
                /\ \E i \in DOMAIN keys : keys[i] = k
  <2>1. CASE \E i \in DOMAIN keys : keys[i] = k
    <3> DEFINE j == CHOOSE i \in DOMAIN keys : keys[i] = k
    <3>1. j \in DOMAIN keys
      BY <2>1
    <3>2. c.calls[k] = Recorded(n + j)
      BY <2>1 DEF TurnCalls
    <3> HIDE DEF j
    <3>3. j \in Nat /\ j <= Len(keys) /\ Len(keys) \in Nat
      BY <1>2, <3>1
    <3> QED
      BY <1>6, <2>1, <3>2, <3>3
  <2>2. CASE ~\E i \in DOMAIN keys : keys[i] = k
    BY <2>2 DEF TurnCalls
  <2> QED
    BY <2>1, <2>2
<1>8. Grows(b, c)
  <2>1. ASSUME NEW k \in Key PROVE /\ Known(b, k) => Known(c, k)
                                   /\ b.calls[k].status \in {"completed", "uncertain"} => c.calls[k] = b.calls[k]
    BY <1>4, <1>7 DEF Known
  <2> QED
    BY <1>1, <2>1 DEF Grows
<1>9. PlanOk(c)
  <2>1. c.cont.type = "settle_tools" /\ c.cont.step = b.cont.step /\ c.cont.pending = keys
    BY <1>1, <1>2, SettleToolsOk
  <2>2. ASSUME NEW k \in Key, Known(c, k) PROVE k[1] <= c.cont.step
    <3>1. CASE \E i \in DOMAIN keys : keys[i] = k
      BY <1>1, <1>3, <2>1, <3>1
    <3>2. CASE ~\E i \in DOMAIN keys : keys[i] = k
      <4>1. Known(b, k)
        BY <1>7, <2>2, <3>2 DEF Known
      <4>2. k[1] < b.cont.step
        BY <4>1 DEF PlanOk
      <4>3. k[1] \in Int
        BY RunnerAssumption DEF Key
      <4> QED
        BY <1>1, <2>1, <4>2, <4>3
    <3> QED
      BY <3>1, <3>2
  <2>3. \A i \in DOMAIN keys : c.calls[keys[i]].status = "recorded"
    BY <1>3, <1>7
  <2> QED
    BY <1>5, <2>1, <2>2, <2>3 DEF PlanOk
<1> QED
  BY <1>4, <1>7, <1>8, <1>9

(* The calls another run may still have a right to are already committed.  *)
LEMMA OthersCommitted ==
  ASSUME WorkInv, NEW q \in Procs, NEW k \in Key, Live(run[q], k), run[q].gen # rec.attempt
  PROVE  Known(ckpt.body, k)
<1> DEFINE r == run[q]
<1>1. LocalOk(r) /\ CallWorks(r)
  BY Parts
<1>2. Right(r, k) /\ Saved(r) /\ Settling(r)
  BY DEF Live, Right
<1>3. PlanStored(r)
  BY <1>2 DEF Saved, PlanStored
<1>4. r.body.cont.type = "settle_tools" /\ r.body.cont.pending = r.pending
  BY <1>1, <1>2 DEF LocalOk, Shape
<1> QED
  BY <1>1, <1>2, <1>3, <1>4 DEF CallWorks, PlanKnown, Right

(* Recording a turn gives its call the right to the turn's calls, which    *)
(* nobody else has and which never ran, for the stored checkpoint does not *)
(* know them (runner.ts loop: record before any side effect).              *)
LEMMA RequestAppendWorks ==
  ASSUME WorkInv, RunnerInv', NEW p \in Procs, RequestAppend(p)
  PROVE  WorkInv' /\ WaitsStay
<1>1. /\ LocalOk(run[p]) /\ WorkOk(run[p]) /\ CallWorks(run[p]) /\ StoreOk /\ RunnerInv
      /\ QuietMove(p) /\ execs' = execs /\ run[p].pc = "reqAppend" /\ run[p].pc \in WorkPc
      /\ EffectsOk /\ CallOk(run[p]) /\ Typed(run[p])
  BY Parts, RequestAppendQuiet DEF RequestAppend, AppendOwn, At, WorkPc, LocalOk
<1> DEFINE r == run[p]
           step == r.body.cont.step
           keys == TurnKeys(step, r.turn)
           events == TurnEvents(keys)
           calls == TurnCalls(r.body.calls, keys, Len(log))
           plan == SettleTools(step, keys)
           b == [r.body EXCEPT !.calls = calls, !.cont = plan]
           t == [r EXCEPT !.body.calls = calls, !.body.cont = plan,
                          !.pending = keys, !.resume = FALSE]
           u == Commit(t, "settle")
<1>2. r.body \in RunBody /\ r.turn \in Turns \cup {<< >>} /\ r.body.steps \in Nat
  BY <1>1, Fields
<1>3. /\ step \in 0..MaxSteps /\ step < MaxSteps /\ r.body.cont.type = "provider_turn"
      /\ PlanOk(r.body)
  BY <1>1, <1>2, BodyParts DEF LocalOk, Shape, InTurn, WorkOk
<1>4. /\ Quiet /\ LogGrows /\ ckpt' = ckpt /\ rec'.attempt = rec.attempt
      /\ Len(log) \in Nat /\ Len(log') \in Nat /\ ckpt.body \in RunBody
  BY <1>1, Growing DEF QuietMove
<1>5. r.finTo = "release" /\ r.final = "none" /\ Loaded(r)
  BY <1>1, WorkPlain
<1>6. CASE Set(p, Thrown(r))
  <2>1. Carries(p)
    BY <1>1, <1>6, WorkThrown, CarryOn
  <2> QED
    BY <2>1, CarriesKeeps
<1>7. /\ keys \in Seq(Key) /\ events \in Seq(RunEvent) /\ Len(events) = Len(keys)
      /\ Len(keys) \in Nat /\ plan \in Continuation
  <2>1. keys \in Seq(Key) /\ events \in Seq(RunEvent) /\ Len(events) = Len(keys)
    BY <1>2, <1>3, TurnTyped
  <2> HIDE DEF keys, events
  <2> QED
    BY <1>3, <2>1, SettleToolsOk
<1>8. ASSUME AppendFenced(r.gen, events), NEW s, Set(p, s), NEW c \in RunBody,
             c.calls = calls, c.cont = plan, c.steps = r.body.steps,
             s.body = c, s.gen = r.gen, s.pending = keys, s.resume = FALSE,
             s.pc = "ckStatus", s.commitTo = "settle", s.finTo = r.finTo, s.final = r.final,
             s.drafted = r.drafted
      PROVE  WorkInv' /\ WaitsStay
  <2>1. PICK ks : ks = keys
    OBVIOUS
  <2>2. PICK n \in Nat : n = Len(log)
    BY <1>4
  <2>3. /\ PlanOk(c) /\ Grows(r.body, c)
        /\ \A i \in DOMAIN ks : ~Known(r.body, ks[i])
        /\ \A k \in Key : \/ c.calls[k] = r.body.calls[k]
                          \/ /\ c.calls[k].status = "recorded"
                             /\ c.calls[k].recordedAt <= n + Len(ks)
    <3>1. PICK body \in RunBody, turn \in Turns \cup {<< >>} : body = r.body /\ turn = r.turn
      BY <1>2
    <3>2. /\ ks = TurnKeys(body.cont.step, turn) /\ c.calls = TurnCalls(body.calls, ks, n)
          /\ c.cont = SettleTools(body.cont.step, ks) /\ c.steps = body.steps
      BY <1>8, <2>1, <2>2, <3>1
    <3>3. body.cont.type = "provider_turn" /\ PlanOk(body) /\ body.cont.step < MaxSteps
      BY <1>3, <3>1
    <3> HIDE DEF keys, events, calls, plan, t, u, b, r
    <3>4. /\ PlanOk(c) /\ Grows(body, c)
          /\ \A i \in DOMAIN ks : ~Known(body, ks[i])
          /\ \A k \in Key : \/ c.calls[k] = body.calls[k]
                            \/ /\ c.calls[k].status = "recorded"
                               /\ c.calls[k].recordedAt <= n + Len(ks)
      BY <3>2, <3>3, RequestBody
    <3> QED
      BY <3>1, <3>4
  <2>4. Len(log') = n + Len(ks) /\ r.gen = rec.attempt
    <3>1. log \in Seq(RunEvent)
      BY <1>1, StoreTypes
    <3>2. log' = log \o events /\ r.gen = rec.attempt
      BY <1>8 DEF AppendFenced, AppendEvents, Fenced
    <3> HIDE DEF events, keys
    <3>3. \A more \in Seq(RunEvent) : Len(log \o more) = Len(log) + Len(more)
      BY <3>1
    <3>4. Len(log \o events) = Len(log) + Len(events)
      BY <1>7, <3>3
    <3> QED
      BY <1>7, <2>1, <2>2, <3>2, <3>4
  <2> HIDE DEF keys, events, calls, plan, t, u, b
  <2>5. s.pc \in CommitPc /\ Loaded(s) /\ ~Saved(s) /\ Settling(s) /\ ~PlanStored(s)
    BY <1>5, <1>8 DEF CommitPc, Loaded, LoadedPc, Saved, Settling, PlanStored
  <2>6. WorkOk(s)
    BY <1>5, <1>8, <2>3, <2>5 DEF WorkOk, CommitPc
  <2>7. Grows(ckpt.body, r.body)
    BY <1>1, <1>5, <2>4 DEF CallWorks
  <2>8. Grows(ckpt.body, c)
    BY <1>2, <1>4, <1>8, <2>3, <2>7, GrowsTrans
  <2>9. InLog(c, Len(log))'
    <3>1. PICK x : x = r
      OBVIOUS
    <3>2. CallWorks(x)'
      BY <1>1, <1>4, <3>1, StillWorks
    <3>3. InLog(x.body, Len(log))'
      BY <3>2 DEF CallWorks
    <3> SUFFICES ASSUME NEW k \in Key
                 PROVE  /\ c.calls[k].recordedAt <= Len(log')
                        /\ c.calls[k].status = "completed" =>
                             /\ c.calls[k].resultSeq \in 1..Len(log')
                             /\ log'[c.calls[k].resultSeq].type = "tool_response"
      BY DEF InLog
    <3>4. CASE c.calls[k] = x.body.calls[k]
      BY <3>3, <3>4 DEF InLog
    <3>5. CASE c.calls[k].status = "recorded" /\ c.calls[k].recordedAt <= n + Len(ks)
      BY <2>4, <3>5
    <3> QED
      BY <2>3, <3>1, <3>4, <3>5
  <2>10. CallWorks(s)'
    BY <1>4, <1>8, <2>4, <2>5, <2>6, <2>8, <2>9 DEF CallWorks, PlanKnown, Grows, Known
  <2>11. StoredOk' /\ \A q \in Procs : CallWorks(run[q])'
    BY <1>4, <1>8, <2>10, MoveWorks
  <2>12. run'[p] = s /\ \A q \in Procs : q # p => run'[q] = run[q]
    BY <1>1, <1>8, MoveRun
  <2>13. ASSUME NEW k \in NeedsRight, Live(s, k)' PROVE execs[k] = 0 /\ ~Known(ckpt.body, k)
    <3>1. k \in Key
      BY DEF NeedsRight
    <3>2. PICK i \in DOMAIN ks : ks[i] = k
      BY <1>8, <2>1, <2>13 DEF Live, Right
    <3>3. ~Known(r.body, k)
      BY <2>3, <3>2
    <3>4. ~Known(ckpt.body, k)
      BY <2>7, <3>1, <3>3 DEF Grows
    <3>5. execs[k] \in Nat /\ ~(execs[k] > 0)
      BY <1>1, <3>1, <3>4 DEF EffectsOk
    <3> QED
      BY <3>4, <3>5
  <2>14. ASSUME NEW q \in Procs, q # p, NEW k \in NeedsRight, Live(run[q], k)'
         PROVE  Live(run[q], k) /\ Known(ckpt.body, k)
    <3>1. Live(run[q], k)
      BY <1>4, <2>12, <2>14 DEF Live, Right
    <3>2. run[q].gen # rec.attempt
      <4>1. r.gen > 0
        BY <1>1, RunTypes, Owned, Parts
      <4> QED
        BY <1>1, <2>4, <2>14, <4>1 DEF RunnerInv, OneRunPerGeneration
    <3> QED
      BY <3>1, <3>2, OthersCommitted DEF NeedsRight
  <2>16. ASSUME NEW k \in NeedsRight, Live(run[p], k)' PROVE execs[k] = 0 /\ ~Known(ckpt.body, k)
    <3>1. Live(s, k)'
      BY <2>12, <2>16 DEF Live, Right
    <3> QED
      BY <2>13, <3>1
  <2>17. EffectsOk'
    <3>1. (execs \in [Key -> Nat])' /\ (\A k \in NeedsRight : execs[k] <= 1)'
      BY <1>1 DEF EffectsOk
    <3>2. (\A k \in Key : execs[k] > 0 => Known(ckpt.body, k))'
      BY <1>1, <1>4 DEF EffectsOk, Known
    <3>3. (\A k \in NeedsRight, q \in Procs : Live(run[q], k) => execs[k] = 0)'
      BY <1>1, <2>14, <2>16 DEF EffectsOk
    <3>4. (\A k \in NeedsRight, x, y \in Procs : Live(run[x], k) /\ Live(run[y], k) => x = y)'
      BY <1>1, <2>14, <2>16 DEF EffectsOk
    <3> QED
      BY <3>1, <3>2, <3>3, <3>4 DEF EffectsOk
  <2>18. WaitsStay
    BY <1>1, <1>8, OnlyMoverWaits DEF Waiting
  <2> QED
    BY <2>11, <2>17, <2>18 DEF WorkInv
<1>9. Set(p, Thrown(r)) \/ (AppendFenced(r.gen, events) /\ Set(p, u))
  BY DEF RequestAppend, AppendOwn, TurnKeys, TurnEvents, TurnCalls
<1>10. ASSUME AppendFenced(r.gen, events), Set(p, u) PROVE WorkInv' /\ WaitsStay
  <2>1. calls \in [Key -> CallState]
    <3>1. Len(log) + Len(keys) <= MaxEvents
      BY <1>7, <1>10 DEF AppendFenced, AppendEvents
    <3>2. r.body.calls \in [Key -> CallState]
      BY <1>2, BodyParts
    <3> HIDE DEF keys
    <3> QED
      BY <1>4, <1>7, <3>1, <3>2, TurnCallsTyped
  <2>2. t = [r EXCEPT !.body = b, !.pending = keys, !.resume = FALSE]
    <3> HIDE DEF calls, plan, keys
    <3> QED
      BY <1>1, <1>2 DEF LocalOk, Typed, RunCallOf, RunBody
  <2> HIDE DEF keys, events, calls, plan
  <2>3. b \in RunBody /\ b.calls = calls /\ b.cont = plan /\ b.steps = r.body.steps
    BY <1>2, <1>7, <2>1 DEF RunBody
  <2> HIDE DEF b, t
  <2>4. /\ Typed(t) /\ t.body = b /\ t.gen = r.gen /\ t.pending = keys /\ t.resume = FALSE
        /\ t.finTo = r.finTo /\ t.final = r.final /\ t.drafted = r.drafted
    BY <1>1, <1>7, <2>2, <2>3 DEF Typed, RunCallOf
  <2>5. /\ u.body = b /\ u.gen = r.gen /\ u.pending = keys /\ u.resume = FALSE
        /\ u.pc = "ckStatus" /\ u.commitTo = "settle" /\ u.finTo = r.finTo /\ u.final = r.final
        /\ u.drafted = r.drafted
    BY <2>4 DEF Commit, Typed, RunCallOf
  <2> HIDE DEF u
  <2> QED
    BY <1>8, <1>10, <2>3, <2>5
<1> HIDE DEF u, events
<1> QED
  BY <1>6, <1>9, <1>10

(* A tool is run by the call that has the right to it, once, or it is      *)
(* idempotent; the stored checkpoint knows it (settleTools).               *)
LEMMA ExecuteWorks ==
  ASSUME WorkInv, RunnerInv', NEW p \in Procs, Execute(p)
  PROVE  WorkInv' /\ WaitsStay
<1>1. /\ LocalOk(run[p]) /\ WorkOk(run[p]) /\ CallWorks(run[p]) /\ StoreOk /\ RunnerInv
      /\ QuietMove(p) /\ run[p].pc = "exec" /\ run[p].pc \in WorkPc
      /\ EffectsOk /\ CallOk(run[p])
  BY Parts, ExecuteQuiet DEF Execute, At, WorkPc
<1> DEFINE r == run[p]
           u == [r EXCEPT !.pc = "respAppend"]
<1>2. PICK h : h = Head(r.pending)
  OBVIOUS
<1>3. r.pending # << >> /\ Settling(r) /\ PlanStored(r) /\ Saved(r)
  BY <1>1 DEF LocalOk, Shape, Settling, PlanStored, Saved
<1>4. h \in Key /\ r.pending \in Seq(Key) /\ 1 \in DOMAIN r.pending /\ r.pending[1] = h
  <2>1. r.pending \in Seq(Key)
    BY <1>1, Fields
  <2> QED
    BY <1>2, <1>3, <2>1
<1>5. r.body.cont.type = "settle_tools" /\ r.body.cont.pending = r.pending
  BY <1>1, <1>3 DEF LocalOk, Shape
<1>6. \A i, j \in DOMAIN r.pending : r.pending[i] = r.pending[j] => i = j
  BY <1>1, <1>5 DEF WorkOk, PlanOk
<1>7. Known(ckpt.body, h)
  BY <1>1, <1>3, <1>4, <1>5 DEF CallWorks, PlanKnown
<1>8. h \in NeedsRight => Live(r, h)
  <2>1. h \in NeedsRight => ~r.resume
    BY <1>1, <1>2 DEF WorkOk, NeedsRight
  <2> QED
    BY <1>1, <1>3, <1>4, <2>1 DEF Live, Right
<1>9. execs' = [execs EXCEPT ![h] = @ + 1] /\ Set(p, u)
  BY <1>2 DEF Execute, Goto
<1>10. /\ execs' \in [Key -> Nat] /\ execs'[h] = execs[h] + 1 /\ execs[h] \in Nat
       /\ \A k \in Key : k # h => execs'[k] = execs[k]
  BY <1>1, <1>4, <1>9 DEF EffectsOk
<1>11. ckpt' = ckpt /\ rec' = rec /\ log' = log /\ Quiet
  BY <1>1 DEF Execute, QuietMove
<1>12. Same(r, u) /\ u.pc = "respAppend" /\ u.final = r.final /\ u.withDraft = r.withDraft
  BY <1>1, PcSame
<1>13. PICK s : s = u
  OBVIOUS
<1> HIDE DEF u
<1>14. Continues(r, s)
  <2>1. r.finTo = "release" /\ r.final = "none" /\ Loaded(r) /\ r.body.steps \in Nat
    BY <1>1, WorkPlain, Fields
  <2>2. Loaded(s) /\ s.pc \notin Starting \cup {"ckSave"}
    BY <1>12, <1>13 DEF Loaded, LoadedPc, Starting
  <2>3. WorkOk(s)
    BY <1>1, <1>12, <1>13, <2>1, <2>2 DEF WorkOk, Same, CommitPc
  <2>4. \A k : Right(s, k) => Right(r, k)
    BY <1>1, <1>3, <1>12, <1>13 DEF Right, Same
  <2> QED
    BY <1>3, <1>12, <1>13, <2>1, <2>2, <2>3, <2>4 DEF Continues, Same, Waiting
<1>15. CallWorks(s)'
  <2>1. LocalOk(s)
    <3>1. run'[p] = s
      BY <1>1, <1>9, <1>13, MoveRun
    <3>2. LocalOk(run'[p])
      BY DEF RunnerInv, CallOk
    <3> QED
      BY <3>1, <3>2
  <2>2. LogGrows /\ Len(log') \in Nat
    BY <1>11, Growing
  <2> QED
    BY <1>1, <1>11, <1>14, <2>1, <2>2, ContinuesWorks
<1>16. StoredOk' /\ \A q \in Procs : CallWorks(run[q])'
  BY <1>9, <1>11, <1>13, <1>15, MoveWorks
<1>17. ASSUME NEW k \in NeedsRight, Live(s, k)' PROVE Live(r, k) /\ k # h
  <2>1. Right(s, k) /\ (s.gen = rec.attempt \/ Saved(s))
    BY <1>11, <1>17 DEF Live, Right
  <2>2. PICK i \in DOMAIN r.pending : r.pending[i] = k /\ i > 1
    BY <1>12, <1>13, <2>1 DEF Right, Same
  <2>3. k # h
    BY <1>4, <1>6, <2>2
  <2>4. Right(r, k)
    BY <1>14, <2>1 DEF Continues
  <2> QED
    BY <1>3, <2>3, <2>4 DEF Live
<1>18. \A q \in Procs, k \in NeedsRight : Live(run[q], k)' => Live(run[q], k)
  BY <1>9, <1>11, <1>13, <1>17, OnlyMoverLive
<1>19. run'[p] = s
  BY <1>1, <1>9, <1>13, MoveRun
<1>20. ASSUME NEW q \in Procs, NEW k \in NeedsRight, Live(run[q], k)' PROVE execs'[k] = 0
  <2>1. Live(run[q], k) /\ k \in Key
    BY <1>18, <1>20 DEF NeedsRight
  <2>2. execs[k] = 0
    BY <1>1, <2>1 DEF EffectsOk
  <2>3. k # h
    <3>1. CASE q = p
      <4>1. Live(s, k)'
        BY <1>19, <1>20, <3>1 DEF Live, Right
      <4> QED
        BY <1>17, <4>1
    <3>2. CASE q # p
      BY <1>1, <1>8, <2>1, <3>2 DEF EffectsOk
    <3> QED
      BY <3>1, <3>2
  <2> QED
    BY <1>10, <2>1, <2>2, <2>3
<1>21. \A k \in NeedsRight : execs'[k] <= 1
  <2> SUFFICES ASSUME NEW k \in NeedsRight PROVE execs'[k] <= 1
    OBVIOUS
  <2>1. CASE k = h
    BY <1>1, <1>8, <1>10, <2>1 DEF EffectsOk
  <2>2. CASE k # h
    BY <1>1, <1>10, <2>2 DEF EffectsOk, NeedsRight
  <2> QED
    BY <2>1, <2>2
<1>22. \A k \in Key : execs'[k] > 0 => Known(ckpt.body, k)
  BY <1>1, <1>7, <1>10 DEF EffectsOk
<1>23. EffectsOk'
  <2>1. (\A k \in Key : execs[k] > 0 => Known(ckpt.body, k))'
    BY <1>11, <1>22 DEF Known
  <2>2. (\A k \in NeedsRight, q \in Procs : Live(run[q], k) => execs[k] = 0)'
    BY <1>20
  <2>3. (\A k \in NeedsRight, x, y \in Procs : Live(run[x], k) /\ Live(run[y], k) => x = y)'
    BY <1>1, <1>18 DEF EffectsOk
  <2> QED
    BY <1>10, <1>21, <2>1, <2>2, <2>3 DEF EffectsOk
<1>24. WaitsStay
  <2>1. ~Waiting(s)
    BY <1>12, <1>13 DEF Waiting
  <2> QED
    BY <1>1, <1>9, <1>13, <2>1, OnlyMoverWaits
<1> QED
  BY <1>16, <1>23, <1>24 DEF WorkInv

(* Head and tail of a pending list, entry by entry.                        *)
LEMMA TailEntries ==
  ASSUME NEW ks \in Seq(Key), ks # << >>
  PROVE  /\ Tail(ks) \in Seq(Key)
         /\ 1 \in DOMAIN ks /\ Head(ks) = ks[1] /\ Head(ks) \in Key
         /\ \A i \in DOMAIN Tail(ks) : i \in Nat /\ i > 0 /\ i + 1 \in DOMAIN ks
                                       /\ Tail(ks)[i] = ks[i + 1] /\ Tail(ks)[i] \in Key
<1>1. Tail(ks) \in Seq(Key) /\ Len(ks) \in Nat /\ Len(ks) > 0 /\ Len(Tail(ks)) = Len(ks) - 1
  OBVIOUS
<1>2. DOMAIN ks = 1..Len(ks) /\ DOMAIN Tail(ks) = 1..(Len(ks) - 1)
  BY <1>1
<1>3. \A i \in 1..(Len(ks) - 1) : Tail(ks)[i] = ks[i + 1]
  BY <1>1
<1> QED
  BY <1>1, <1>2, <1>3

(* Striking the head off the plan after settling it.                       *)
LEMMA SettledBody ==
  ASSUME NEW b \in RunBody, NEW ks \in Seq(Key), ks # << >>, b.cont.type = "settle_tools",
         b.cont.pending = ks, PlanOk(b),
         NEW c \in RunBody, c.calls[Head(ks)].status \in {"completed", "uncertain"},
         \A k \in Key : k # Head(ks) => c.calls[k] = b.calls[k],
         c.cont.type = "settle_tools", c.cont.step = b.cont.step, c.cont.pending = Tail(ks),
         c.steps = b.steps
  PROVE  PlanOk(c) /\ Grows(b, c)
<1> DEFINE rest == Tail(ks)
           h == Head(ks)
<1>1. b.cont.step \in 0..MaxSteps /\ b.steps \in Nat /\ b.calls \in [Key -> CallState]
  BY BodyParts
<1>2. /\ rest \in Seq(Key) /\ h = ks[1] /\ 1 \in DOMAIN ks /\ h \in Key
      /\ \A i \in DOMAIN rest : i \in Nat /\ i > 0 /\ i + 1 \in DOMAIN ks
                                /\ rest[i] = ks[i + 1] /\ rest[i] \in Key
  BY TailEntries
<1>3. /\ \A k \in Key : Known(b, k) => k[1] <= b.cont.step
      /\ \A i \in DOMAIN ks : b.calls[ks[i]].status = "recorded"
      /\ \A i, j \in DOMAIN ks : ks[i] = ks[j] => i = j
  BY DEF PlanOk
<1> HIDE DEF rest, h
<1>4. /\ c.calls[h].status \in {"completed", "uncertain"}
      /\ \A k \in Key : k # h => c.calls[k] = b.calls[k]
      /\ c.cont.pending = rest
  BY DEF h, rest
<1>5. b.calls[h].status = "recorded"
  BY <1>2, <1>3
<1>6. Grows(b, c)
  BY <1>1, <1>4, <1>5 DEF Grows, Known
<1>7. \A i \in DOMAIN rest : rest[i] # h /\ c.calls[rest[i]].status = "recorded"
  <2> SUFFICES ASSUME NEW i \in DOMAIN rest
               PROVE  rest[i] # h /\ c.calls[rest[i]].status = "recorded"
    OBVIOUS
  <2>1. i + 1 \in DOMAIN ks /\ rest[i] = ks[i + 1] /\ rest[i] \in Key /\ i \in Nat /\ i > 0
    BY <1>2
  <2>2. rest[i] # h
    BY <1>2, <1>3, <2>1
  <2>3. b.calls[rest[i]].status = "recorded"
    BY <1>3, <2>1
  <2> QED
    BY <1>4, <2>1, <2>2, <2>3
<1>8. \A i, j \in DOMAIN rest : rest[i] = rest[j] => i = j
  <2> SUFFICES ASSUME NEW i \in DOMAIN rest, NEW j \in DOMAIN rest, rest[i] = rest[j] PROVE i = j
    OBVIOUS
  <2>1. i \in Nat /\ j \in Nat /\ i + 1 = j + 1
    BY <1>2, <1>3
  <2> QED
    BY <2>1
<1>9. \A k \in Key : Known(c, k) => k[1] <= c.cont.step
  BY <1>3, <1>4, <1>5 DEF Known
<1>10. PlanOk(c)
  BY <1>4, <1>7, <1>8, <1>9 DEF PlanOk
<1> QED
  BY <1>6, <1>10

(* A response settles the head of the list and moves it from the plan into *)
(* the table; an uncertain one gives up on it.                             *)
LEMMA ResponseWorks ==
  ASSUME WorkInv, RunnerInv', NEW p \in Procs, ResponseAppend(p) \/ UncertainAppend(p)
  PROVE  WorkInv' /\ WaitsStay
<1>1. /\ LocalOk(run[p]) /\ WorkOk(run[p]) /\ CallWorks(run[p]) /\ StoreOk /\ RunnerInv
      /\ execs' = execs /\ run[p].pc \in {"respAppend", "uncAppend"} /\ run[p].pc \in WorkPc
      /\ EffectsOk /\ CallOk(run[p]) /\ Typed(run[p]) /\ RunsOk
  BY Parts DEF ResponseAppend, UncertainAppend, AppendOwn, At, WorkPc, LocalOk
<1>2. QuietMove(p)
  BY <1>1, ResponseQuiet
<1> DEFINE r == run[p]
           key == Head(r.pending)
           ses(x) == Append(x.session, Len(log) + 1)
           events == <<EvKey("tool_response", key)>>
<1>3. /\ r.body \in RunBody /\ r.pending \in Seq(Key) /\ r.pending # << >> /\ Settling(r)
      /\ r.body.cont.type = "settle_tools" /\ r.body.cont.pending = r.pending /\ r.body.steps \in Nat
      /\ PlanStored(r) /\ r.resume \in BOOLEAN
  <2>1. Settling(r) /\ PlanStored(r)
    BY <1>1 DEF Settling, PlanStored
  <2> QED
    BY <1>1, <2>1, Fields DEF LocalOk, Shape
<1>4. /\ Quiet /\ LogGrows /\ ckpt' = ckpt /\ rec'.attempt = rec.attempt
      /\ Len(log) \in Nat /\ Len(log') \in Nat /\ ckpt.body \in RunBody
  BY <1>2, Growing DEF QuietMove
<1>5. r.finTo = "release" /\ r.final = "none" /\ Loaded(r)
  BY <1>1, WorkPlain
<1>6. CASE Set(p, Thrown(r))
  <2>1. Carries(p)
    BY <1>1, <1>2, <1>6, WorkThrown, CarryOn
  <2> QED
    BY <2>1, CarriesKeeps
<1>7. key \in Key /\ r.body.calls[key] \in CallState
  BY <1>3, TailEntries, BodyParts
<1>8. ASSUME AppendFenced(r.gen, events), NEW s, Set(p, s), NEW c \in RunBody, NEW cs \in CallState,
             cs.status \in {"completed", "uncertain"},
             cs.status = "completed" => cs.resultSeq = Len(log) + 1,
             cs.recordedAt = r.body.calls[key].recordedAt,
             c.calls = [r.body.calls EXCEPT ![key] = cs],
             c.cont = SettleTools(r.body.cont.step, Tail(r.pending)), c.steps = r.body.steps,
             s.body = c, s.gen = r.gen, s.pending = Tail(r.pending), s.resume = r.resume,
             s.pc = "ckStatus", s.commitTo = "settle", s.finTo = r.finTo, s.final = r.final,
             s.drafted = r.drafted
      PROVE  WorkInv' /\ WaitsStay
  <2>1. PICK h : h = key
    OBVIOUS
  <2>2. PICK n \in Nat : n = Len(log)
    BY <1>4
  <2>3. /\ PlanOk(c) /\ Grows(r.body, c) /\ h \in Key
        /\ c.calls[h] = cs /\ \A k \in Key : k # h => c.calls[k] = r.body.calls[k]
        /\ c.cont.pending = Tail(r.pending)
    <3>1. PICK body \in RunBody, ks \in Seq(Key) : body = r.body /\ ks = r.pending
      BY <1>3
    <3>2. h \in Key /\ h = Head(ks)
      BY <1>7, <2>1, <3>1
    <3>3. c.calls[h] = cs /\ \A k \in Key : k # h => c.calls[k] = body.calls[k]
      <4>1. body.calls \in [Key -> CallState] /\ c.calls = [body.calls EXCEPT ![h] = cs]
        BY <1>8, <2>1, <3>1, BodyParts
      <4> QED
        BY <3>2, <4>1
    <3>4. c.cont.type = "settle_tools" /\ c.cont.step = body.cont.step /\ c.cont.pending = Tail(ks)
      <4>1. Tail(ks) \in Seq(Key) /\ body.cont.step \in 0..MaxSteps
        BY <1>3, <3>1, TailEntries, BodyParts
      <4>2. c.cont = SettleTools(body.cont.step, Tail(ks))
        BY <1>8, <3>1
      <4>3. PICK rest, m : rest = Tail(ks) /\ m = body.cont.step
        OBVIOUS
      <4>4. c.cont = SettleTools(m, rest) /\ rest \in Seq(Key) /\ m \in 0..MaxSteps
        BY <4>1, <4>2, <4>3
      <4>5. c.cont.type = "settle_tools" /\ c.cont.step = m /\ c.cont.pending = rest
        BY <4>4, SettleToolsOk
      <4> QED
        BY <4>3, <4>5
    <3>5. /\ ks # << >> /\ body.cont.type = "settle_tools" /\ body.cont.pending = ks /\ PlanOk(body)
          /\ c.calls[Head(ks)].status \in {"completed", "uncertain"} /\ c.steps = body.steps
          /\ \A k \in Key : k # Head(ks) => c.calls[k] = body.calls[k]
      BY <1>1, <1>3, <1>8, <3>1, <3>2, <3>3 DEF WorkOk
    <3> HIDE DEF r, key, events
    <3>6. PlanOk(c) /\ Grows(body, c)
      BY <3>4, <3>5, SettledBody
    <3> QED
      BY <3>1, <3>2, <3>3, <3>4, <3>6
  <2>4. Len(log') = n + 1 /\ r.gen = rec.attempt /\ log'[n + 1].type = "tool_response"
    <3>1. log \in Seq(RunEvent)
      BY <1>1, StoreTypes
    <3>2. log' = log \o events /\ r.gen = rec.attempt
      BY <1>8 DEF AppendFenced, AppendEvents, Fenced
    <3>3. PICK e : e = EvKey("tool_response", key)
      OBVIOUS
    <3>4. e \in RunEvent /\ e.type = "tool_response"
      <4>1. "tool_response" \in EventType
        BY DEF EventType
      <4> QED
        BY <1>7, <3>3, <4>1, EventsTyped DEF EvKey
    <3>5. log' = log \o <<e>>
      BY <3>2, <3>3
    <3> QED
      BY <2>2, <3>1, <3>2, <3>4, <3>5
  <2> HIDE DEF key, events
  <2>5. s.pc \in CommitPc /\ Loaded(s) /\ ~Saved(s) /\ Settling(s) /\ (PlanStored(s) => r.resume)
    BY <1>5, <1>8 DEF CommitPc, Loaded, LoadedPc, Saved, Settling, PlanStored
  <2>6. WorkOk(s)
    BY <1>5, <1>8, <2>3, <2>5 DEF WorkOk, CommitPc
  <2>7. Grows(ckpt.body, c)
    <3>1. Grows(ckpt.body, r.body)
      BY <1>1, <1>5, <2>4 DEF CallWorks
    <3> QED
      BY <1>3, <1>4, <1>8, <2>3, <3>1, GrowsTrans
  <2>8. InLog(c, Len(log))'
    <3>1. PICK x : x = r
      OBVIOUS
    <3>2. CallWorks(x)'
      BY <1>1, <1>4, <3>1, StillWorks
    <3>3. InLog(x.body, Len(log))'
      BY <3>2 DEF CallWorks
    <3> SUFFICES ASSUME NEW k \in Key
                 PROVE  /\ c.calls[k].recordedAt <= Len(log')
                        /\ c.calls[k].status = "completed" =>
                             /\ c.calls[k].resultSeq \in 1..Len(log')
                             /\ log'[c.calls[k].resultSeq].type = "tool_response"
      BY DEF InLog
    <3>4. CASE k # h
      BY <2>3, <3>1, <3>3, <3>4 DEF InLog
    <3>5. CASE k = h
      <4>1. cs.recordedAt <= Len(log')
        BY <1>8, <2>1, <2>3, <3>1, <3>3 DEF InLog
      <4> QED
        BY <1>8, <2>2, <2>3, <2>4, <3>5, <4>1
    <3> QED
      BY <3>4, <3>5
  <2>9. /\ \A i \in DOMAIN Tail(r.pending) :
             i \in Nat /\ i > 0 /\ i + 1 \in DOMAIN r.pending /\ Tail(r.pending)[i] = r.pending[i + 1]
    BY <1>3, TailEntries
  <2>10. PlanKnown(s)
    <3> SUFFICES ASSUME NEW i \in DOMAIN s.body.cont.pending
                 PROVE  Known(ckpt.body, s.body.cont.pending[i])
      BY DEF PlanKnown
    <3>1. i \in DOMAIN Tail(r.pending) /\ s.body.cont.pending[i] = Tail(r.pending)[i]
      BY <1>8, <2>3
    <3>2. i + 1 \in DOMAIN r.pending /\ Tail(r.pending)[i] = r.pending[i + 1]
      BY <2>9, <3>1
    <3>3. Known(ckpt.body, r.pending[i + 1])
      BY <1>1, <1>3, <3>2 DEF CallWorks, PlanKnown
    <3> QED
      BY <3>1, <3>2, <3>3
  <2>11. CallWorks(s)'
    BY <1>4, <1>8, <2>4, <2>5, <2>6, <2>7, <2>8, <2>10 DEF CallWorks, PlanKnown, Grows, Known
  <2>12. ASSUME NEW k \in NeedsRight, Live(s, k)' PROVE Live(r, k)
    <3>1. ~s.resume /\ \E i \in DOMAIN s.pending : s.pending[i] = k
      BY <2>12 DEF Live, Right
    <3>2. PICK i \in DOMAIN Tail(r.pending) : Tail(r.pending)[i] = k
      BY <1>8, <3>1
    <3>3. i \in Nat /\ i > 0 /\ i + 1 \in DOMAIN r.pending /\ r.pending[i + 1] = k
      BY <2>9, <3>2
    <3>4. PICK j : j = i + 1
      OBVIOUS
    <3>5. j \in DOMAIN r.pending /\ r.pending[j] = k /\ j > 1
      BY <3>3, <3>4
    <3>6. Right(r, k)
      BY <1>3, <1>8, <3>1, <3>5 DEF Right
    <3> QED
      BY <2>4, <3>6 DEF Live
  <2> QED
    BY <1>1, <1>4, <1>8, <2>11, <2>12, NewWork DEF Waiting
<1>9. ASSUME NEW cs \in CallState
      PROVE  LET t == Settled(p, [r.body EXCEPT !.calls[key] = cs])
                 s == [t EXCEPT !.session = ses(t)] IN
             /\ s.body \in RunBody /\ s.body.calls = [r.body.calls EXCEPT ![key] = cs]
             /\ s.body.cont = SettleTools(r.body.cont.step, Tail(r.pending))
             /\ s.body.steps = r.body.steps /\ s.gen = r.gen /\ s.pending = Tail(r.pending)
             /\ s.resume = r.resume /\ s.pc = "ckStatus" /\ s.commitTo = "settle"
             /\ s.finTo = r.finTo /\ s.final = r.final /\ s.drafted = r.drafted
  <2> DEFINE b == [r.body EXCEPT !.calls[key] = cs]
             rest == Tail(r.pending)
             plan == SettleTools(b.cont.step, rest)
             c == [b EXCEPT !.cont = plan]
             t == [r EXCEPT !.pending = rest, !.body = c]
             m == Commit(t, "settle")
             s == [m EXCEPT !.session = ses(m)]
  <2>1. /\ b \in RunBody /\ b.cont = r.body.cont /\ b.steps = r.body.steps
        /\ b.calls = [r.body.calls EXCEPT ![key] = cs]
    BY <1>3, <1>7, MarkedBody
  <2>2. rest \in Seq(Key)
    BY <1>3, TailEntries
  <2> HIDE DEF rest
  <2>3. plan \in Continuation /\ plan = SettleTools(r.body.cont.step, rest)
    <3>1. r.body.cont.step \in 0..MaxSteps /\ b.cont.step = r.body.cont.step
      BY <1>3, <2>1, BodyParts
    <3> QED
      BY <2>2, <3>1, SettleToolsOk
  <2>4. Settled(p, b) = m
    BY DEF Settled, rest
  <2> HIDE DEF b, plan
  <2>5. c \in RunBody /\ c.cont = plan /\ c.calls = b.calls /\ c.steps = b.steps
    BY <2>1, <2>3, WithCont
  <2> HIDE DEF c
  <2>a. Typed(t)
    BY <1>1, <2>2, <2>5 DEF Typed, RunCallOf
  <2>6. /\ t.body = c /\ t.gen = r.gen /\ t.pending = rest /\ t.resume = r.resume
        /\ t.finTo = r.finTo /\ t.final = r.final /\ t.drafted = r.drafted
    BY <1>1 DEF Typed, RunCallOf
  <2> HIDE DEF t
  <2>b. Typed(m)
    BY <2>a DEF Commit, Typed, RunCallOf, RunPc, CommitTarget
  <2>7. /\ m.body = c /\ m.gen = r.gen /\ m.pending = rest /\ m.resume = r.resume
        /\ m.finTo = r.finTo /\ m.final = r.final /\ m.drafted = r.drafted
        /\ m.pc = "ckStatus" /\ m.commitTo = "settle"
    BY <2>6, <2>a, CommitSame DEF Same
  <2> HIDE DEF m
  <2>8. /\ s.body = c /\ s.gen = r.gen /\ s.pending = rest /\ s.resume = r.resume
        /\ s.finTo = r.finTo /\ s.final = r.final /\ s.drafted = r.drafted
        /\ s.pc = "ckStatus" /\ s.commitTo = "settle"
    <3> DEFINE q == ses(m)
    <3> HIDE DEF q
    <3>1. [m EXCEPT !.session = q].body = m.body /\ [m EXCEPT !.session = q].gen = m.gen
          /\ [m EXCEPT !.session = q].pending = m.pending /\ [m EXCEPT !.session = q].resume = m.resume
          /\ [m EXCEPT !.session = q].finTo = m.finTo /\ [m EXCEPT !.session = q].final = m.final
          /\ [m EXCEPT !.session = q].drafted = m.drafted /\ [m EXCEPT !.session = q].pc = m.pc
          /\ [m EXCEPT !.session = q].commitTo = m.commitTo
      BY <2>b DEF Typed, RunCallOf
    <3> QED
      BY <2>7, <3>1 DEF q
  <2> HIDE DEF s
  <2>9. /\ s.body \in RunBody /\ s.body.calls = [r.body.calls EXCEPT ![key] = cs]
        /\ s.body.cont = SettleTools(r.body.cont.step, Tail(r.pending))
        /\ s.body.steps = r.body.steps /\ s.gen = r.gen /\ s.pending = Tail(r.pending)
        /\ s.resume = r.resume /\ s.pc = "ckStatus" /\ s.commitTo = "settle"
        /\ s.finTo = r.finTo /\ s.final = r.final /\ s.drafted = r.drafted
    BY <2>1, <2>3, <2>5, <2>8 DEF rest
  <2> QED
    BY <2>4, <2>9 DEF s, b
<1>10. ASSUME NEW cs, AppendFenced(r.gen, events) => cs \in CallState,
              cs.status \in {"completed", "uncertain"},
              cs.status = "completed" => cs.resultSeq = Len(log) + 1,
              cs.recordedAt = r.body.calls[key].recordedAt,
              LET t == Settled(p, [r.body EXCEPT !.calls[key] = cs]) IN
              AppendOwn(p, events, [t EXCEPT !.session = ses(t)], Thrown(r))
       PROVE  WorkInv' /\ WaitsStay
  <2> DEFINE t == Settled(p, [r.body EXCEPT !.calls[key] = cs])
             s == [t EXCEPT !.session = ses(t)]
  <2>1. Set(p, Thrown(r)) \/ (AppendFenced(r.gen, events) /\ Set(p, s))
    BY <1>10 DEF AppendOwn
  <2>2. ASSUME AppendFenced(r.gen, events), Set(p, s) PROVE WorkInv' /\ WaitsStay
    <3>1. cs \in CallState
      BY <1>10, <2>2
    <3>2. /\ s.body \in RunBody /\ s.body.calls = [r.body.calls EXCEPT ![key] = cs]
          /\ s.body.cont = SettleTools(r.body.cont.step, Tail(r.pending))
          /\ s.body.steps = r.body.steps /\ s.gen = r.gen /\ s.pending = Tail(r.pending)
          /\ s.resume = r.resume /\ s.pc = "ckStatus" /\ s.commitTo = "settle"
          /\ s.finTo = r.finTo /\ s.final = r.final /\ s.drafted = r.drafted
      BY <1>9, <3>1
    <3> HIDE DEF s, events, key
    <3> QED
      BY <1>8, <1>10, <2>2, <3>1, <3>2
  <2> QED
    BY <1>6, <2>1, <2>2
<1>11. CASE ResponseAppend(p)
  <2> DEFINE cs == [r.body.calls[key] EXCEPT !.status = "completed", !.resultSeq = Len(log) + 1]
  <2>1. ASSUME AppendFenced(r.gen, events) PROVE cs \in CallState
    <3>1. Len(log) + 1 \in 0..MaxEvents
      BY <1>4, <2>1, RunnerAssumption DEF AppendFenced, AppendEvents
    <3> QED
      BY <1>7, <3>1 DEF CallState
  <2>2. [r.body EXCEPT !.calls[key].status = "completed",
                       !.calls[key].resultSeq = Len(log) + 1]
         = [r.body EXCEPT !.calls[key] = cs]
    BY <1>3, <1>7 DEF RunBody, CallState
  <2>3. /\ cs.status = "completed" /\ cs.resultSeq = Len(log) + 1
        /\ cs.recordedAt = r.body.calls[key].recordedAt
    <3> DEFINE n == Len(log) + 1
    <3> HIDE DEF n
    <3>1. /\ [r.body.calls[key] EXCEPT !.status = "completed", !.resultSeq = n].status = "completed"
          /\ [r.body.calls[key] EXCEPT !.status = "completed", !.resultSeq = n].resultSeq = n
          /\ [r.body.calls[key] EXCEPT !.status = "completed", !.resultSeq = n].recordedAt
               = r.body.calls[key].recordedAt
      BY <1>7 DEF CallState
    <3> QED
      BY <3>1 DEF n
  <2>4. LET t == Settled(p, [r.body EXCEPT !.calls[key] = cs]) IN
        AppendOwn(p, events, [t EXCEPT !.session = ses(t)], Thrown(r))
    BY <1>11, <2>2 DEF ResponseAppend
  <2> HIDE DEF cs, events
  <2> QED
    BY <1>10, <2>1, <2>3, <2>4
<1>12. CASE UncertainAppend(p)
  <2> DEFINE cs == [r.body.calls[key] EXCEPT !.status = "uncertain"]
  <2>1. cs \in CallState /\ cs.status = "uncertain" /\ cs.recordedAt = r.body.calls[key].recordedAt
    BY <1>7 DEF CallState
  <2>2. [r.body EXCEPT !.calls[key].status = "uncertain"] = [r.body EXCEPT !.calls[key] = cs]
    BY <1>3, <1>7 DEF RunBody, CallState
  <2>4. LET t == Settled(p, [r.body EXCEPT !.calls[key] = cs]) IN
        AppendOwn(p, events, [t EXCEPT !.session = ses(t)], Thrown(r))
    BY <1>12, <2>2 DEF UncertainAppend
  <2> HIDE DEF cs, events
  <2> QED
    BY <1>10, <2>1, <2>4
<1> QED
  BY <1>11, <1>12

(* A save that is not refused writes a body that grew from the stored one, *)
(* under a watermark beyond the stored one.                                *)
LEMMA SavesForward ==
  ASSUME WorkInv, NEW p \in Procs, CheckpointSave(p), ckpt' # ckpt
  PROVE  /\ run[p].gen = rec.attempt /\ run[p].gen > 0
         /\ ckpt'.attempt = run[p].gen /\ ckpt'.lastEventSeq = run[p].lastSeq /\ ckpt'.body = run[p].body
         /\ Grows(ckpt.body, run[p].body) /\ run[p].lastSeq > ckpt.lastEventSeq
<1> DEFINE r == run[p]
           cp == [attempt |-> r.gen, lastEventSeq |-> r.lastSeq, body |-> r.body]
<1>1. /\ LocalOk(r) /\ CallOk(r) /\ CallWorks(r) /\ r.pc = "ckSave" /\ RunsOk
  BY Parts DEF CheckpointSave, At
<1>2. SaveCheckpoint(cp)
  BY DEF CheckpointSave
<1>3. r.gen = rec.attempt /\ ckpt' = cp
  BY <1>2 DEF SaveCheckpoint, Fenced
<1>4. r.gen > 0
  <2>1. r.gen \in Nat /\ r.gen # 0
    BY <1>1, RunTypes, Owned
  <2> QED
    BY <2>1
<1>5. Loaded(r)
  BY <1>1 DEF Loaded, LoadedPc, CommitPc
<1> QED
  BY <1>1, <1>3, <1>4, <1>5 DEF CallOk, SaveReady, CallWorks

(* A save makes the plan and the table of its call the stored ones, and    *)
(* its rights saved ones.                                                  *)
LEMMA CheckpointSaveWorks ==
  ASSUME WorkInv, RunnerInv', NEW p \in Procs, CheckpointSave(p)
  PROVE  WorkInv' /\ WaitsStay
<1>1. /\ LocalOk(run[p]) /\ WorkOk(run[p]) /\ CallWorks(run[p]) /\ StoreOk /\ RunnerInv
      /\ rec' = rec /\ log' = log /\ execs' = execs /\ run[p].pc = "ckSave" /\ run[p].pc \in CommitPc
      /\ EffectsOk /\ CallOk(run[p]) /\ Typed(run[p])
  BY Parts DEF CheckpointSave, At, CommitPc, LocalOk
<1> DEFINE r == run[p]
           to == IF r.final = "none" THEN "ckResume" ELSE r.commitTo
           u == [r EXCEPT !.pc = to]
<1>2. CASE ckpt' = ckpt /\ Set(p, CommitThrown(p))
  <2>1. Quiet
    BY <1>1, <1>2, PatchQuiet DEF Quiet, QuietLog
  <2>2. Carries(p)
    BY <1>1, <1>2, <2>1, CommitThrownContinues DEF Carries
  <2> QED
    BY <2>2, CarriesKeeps
<1>3. /\ Same(r, u) /\ u.pc = to /\ u.final = r.final /\ u.withDraft = r.withDraft
      /\ u.commitTo = r.commitTo
  <2> HIDE DEF to
  <2> QED
    BY <1>1, PcSame
<1>4. ASSUME ckpt'.attempt = r.gen, ckpt'.lastEventSeq = r.lastSeq, ckpt'.body = r.body,
             r.gen = rec.attempt, r.gen > 0, Grows(ckpt.body, r.body), NEW s, s = u, Set(p, s)
      PROVE  WorkInv' /\ WaitsStay
  <2>1. /\ Same(r, s) /\ s.final = r.final /\ s.withDraft = r.withDraft /\ s.commitTo = r.commitTo
        /\ \/ r.final = "none" /\ s.pc = "ckResume"
           \/ r.final # "none" /\ s.pc = "finUpdate" /\ r.withDraft
    BY <1>1, <1>3, <1>4 DEF WorkOk
  <2>2. run'[p] = s /\ \A q \in Procs : q # p => run'[q] = run[q]
    BY <1>1, <1>4, MoveRun
  <2> HIDE DEF u, to
  <2>3. /\ Loaded(s) /\ s.pc \notin Starting /\ s.pc # "ckSave" /\ ~Waiting(s)
        /\ s.pc \in Ending \cup CommitPc /\ (s.pc \in CommitPc => r.final = "none")
    BY <2>1 DEF Loaded, LoadedPc, Ending, CommitPc, Starting, Waiting
  <2>4. WorkOk(s)
    BY <1>1, <2>1, <2>3 DEF WorkOk, Same
  <2>5. InLog(s.body, Len(log)) /\ InLog(r.body, r.lastSeq)
    BY <1>1, <2>1 DEF CallWorks, Same
  <2>6. StoredOk'
    <3>1. PlanOk(r.body) /\ ckpt'.attempt # 0
      BY <1>1, <1>4 DEF WorkOk
    <3>2. PlanOk(ckpt.body)'
      BY <1>4, <3>1 DEF PlanOk, Known
    <3>3. InLog(ckpt.body, ckpt.lastEventSeq)'
      BY <1>1, <1>4, <2>5 DEF InLog
    <3> QED
      BY <3>1, <3>2, <3>3 DEF StoredOk
  <2>7. r.body \in RunBody /\ ckpt.body \in RunBody
    BY <1>1, Fields, StoreTypes
  <2>8. Grows(r.body, s.body)
    BY <2>1, <2>7, GrowsRefl DEF Same
  <2>9. PlanKnown(s)'
    BY <1>1, <1>4, <2>1 DEF PlanKnown, WorkOk, PlanOk, Known, Same
  <2>10. CallWorks(s)'
    <3>1. InLog(s.body, Len(log))'
      BY <1>1, <2>5 DEF InLog
    <3>2. Grows(ckpt.body, s.body)'
      BY <1>4, <2>8 DEF Grows, Known
    <3> QED
      BY <2>3, <2>4, <2>9, <3>1, <3>2 DEF CallWorks, Starting
  <2>11. ASSUME NEW q \in Procs PROVE CallWorks(run[q])'
    <3>1. CASE q = p
      BY <2>2, <2>10, <3>1 DEF CallWorks, PlanKnown
    <3>2. CASE q # p
      <4>1. PICK x : x = run[q]
        OBVIOUS
      <4>2. CallWorks(x) /\ LocalOk(x) /\ x.gen # rec.attempt
        BY <1>1, <1>4, <3>2, <4>1, Parts DEF RunnerInv, OneRunPerGeneration
      <4>3. x = run'[q]
        BY <2>2, <3>2, <4>1
      <4>4. PlanKnown(x)'
        <5> SUFFICES ASSUME PlanStored(x), x.body.cont.type = "settle_tools",
                            NEW i \in DOMAIN x.body.cont.pending
                     PROVE  Known(ckpt'.body, x.body.cont.pending[i])
          BY DEF PlanKnown, Known
        <5>1. Known(ckpt.body, x.body.cont.pending[i])
          BY <4>2 DEF CallWorks, PlanKnown
        <5>2. x.body.cont.pending[i] \in Key
          <6>1. x.body.cont.pending \in Seq(Key)
            BY <4>2, Fields, BodyParts
          <6> QED
            BY <6>1
        <5> QED
          BY <1>4, <5>1, <5>2 DEF Grows
      <4>5. CallWorks(x)'
        BY <1>1, <4>2, <4>4 DEF CallWorks, InLog
      <4> QED
        BY <4>3, <4>5 DEF CallWorks, PlanKnown
    <3> QED
      BY <3>1, <3>2
  <2>12. ASSUME NEW k \in NeedsRight, Live(s, k)' PROVE Live(r, k)
    <3>1. Right(s, k)
      BY <2>12 DEF Live, Right
    <3>2. Right(r, k)
      BY <1>1, <2>1, <3>1 DEF Right, Settling, Same, CommitPc
    <3> QED
      BY <1>4, <3>2 DEF Live
  <2>13. EffectsOk'
    <3>1. \A q \in Procs, k \in NeedsRight : Live(run[q], k)' => Live(run[q], k)
      BY <1>1, <1>4, <2>12, OnlyMoverLive
    <3>2. \A k \in Key : Known(ckpt.body, k) => Known(ckpt'.body, k)
      BY <1>4 DEF Grows
    <3> QED
      BY <1>1, <3>1, <3>2, EffectsStay
  <2>14. WaitsStay
    BY <1>1, <1>4, <2>3, OnlyMoverWaits
  <2> QED
    BY <2>6, <2>11, <2>13, <2>14 DEF WorkInv
<1>5. (ckpt' = ckpt /\ Set(p, CommitThrown(p)))
      \/ (Set(p, u) /\ SaveCheckpoint([attempt |-> r.gen, lastEventSeq |-> r.lastSeq, body |-> r.body]))
  BY DEF CheckpointSave, Goto
<1>6. ASSUME Set(p, u), SaveCheckpoint([attempt |-> r.gen, lastEventSeq |-> r.lastSeq, body |-> r.body])
      PROVE  WorkInv' /\ WaitsStay
  <2>1. /\ r.gen = rec.attempt /\ ckpt'.attempt = r.gen /\ ckpt'.lastEventSeq = r.lastSeq
        /\ ckpt'.body = r.body
    BY <1>6 DEF SaveCheckpoint, Fenced
  <2>2. r.gen > 0
    <3>1. r.gen \in Nat /\ r.gen # 0
      BY <1>1, Parts, RunTypes, Owned
    <3> QED
      BY <3>1
  <2>3. Grows(ckpt.body, r.body)
    BY <1>1, <2>1 DEF CallWorks, Loaded, LoadedPc
  <2> HIDE DEF u
  <2> QED
    BY <1>4, <1>6, <2>1, <2>2, <2>3
<1> QED
  BY <1>2, <1>5, <1>6

(* acquireLease fences every other call: what they have not saved they     *)
(* cannot save any more, and their unsaved rights are void.                *)
LEMMA AcquireWorks ==
  ASSUME WorkInv, RunnerInv', NEW p \in Procs, Acquire(p), Waiting(run[p]) => ckpt.attempt = 0
  PROVE  WorkInv' /\ WaitsStay
<1>1. /\ LocalOk(run[p]) /\ WorkOk(run[p]) /\ CallWorks(run[p]) /\ StoreOk /\ RunnerInv /\ StoredOk
      /\ ckpt' = ckpt /\ log' = log /\ execs' = execs /\ run[p].pc = "acqLease"
      /\ EffectsOk /\ Typed(run[p])
  BY Parts DEF Acquire, At, LocalOk
<1> DEFINE r == run[p]
           g == rec.attempt + 1
           act == r.mode = "run"
           pc == IF r.mode = "run" THEN "start" ELSE "resuming"
           u == [r EXCEPT !.gen = g, !.active = act, !.pc = pc]
<1>2. CASE rec' = rec /\ Set(p, Rejected)
  <2>1. Quiet
    BY <1>1, <1>2, PatchQuiet DEF Quiet, QuietLog
  <2>2. Carries(p)
    BY <1>1, <1>2, <2>1, IdleBlank DEF Carries
  <2> QED
    BY <2>2, CarriesKeeps
<1>3. rec.attempt \in Nat /\ \A q \in Procs : run[q].gen \in Nat /\ run[q].gen <= rec.attempt
  BY <1>1, StoreTypes, RunTypes DEF RunnerInv, CallOk
<1>4. ASSUME rec'.attempt = g, NEW s, Set(p, s), s.body = r.body, s.final = r.final, s.finTo = r.finTo,
             s.drafted = r.drafted, s.mode = r.mode, s.pc = pc
      PROVE  WorkInv' /\ WaitsStay
  <2>1. run'[p] = s /\ \A q \in Procs : q # p => run'[q] = run[q]
    BY <1>1, <1>4, MoveRun
  <2>2. r.finTo = "release" /\ r.final = "none" /\ ~r.drafted
    BY <1>1, Fields, FinToRelease DEF WorkOk, Ending, CommitPc, Loaded, LoadedPc
  <2>3. s.pc \in {"start", "resuming"} /\ (s.pc = "start" => Waiting(r))
    BY <1>1, <1>4 DEF Waiting
  <2>4. /\ ~Loaded(s) /\ ~Settling(s) /\ ~Saved(s) /\ ~PlanStored(s) /\ ~Waiting(s)
        /\ s.pc \notin Ending \cup CommitPc
    BY <1>4, <2>2, <2>3 DEF Loaded, LoadedPc, Settling, Saved, CommitPc, Ending, PlanStored, Waiting
  <2>5. WorkOk(s)
    BY <1>1, <1>4, <2>2, <2>3, <2>4 DEF WorkOk
  <2>6. CallWorks(s)'
    <3>1. InLog(s.body, Len(log))'
      BY <1>1, <1>4 DEF CallWorks, InLog
    <3>2. s.pc = "start" => ckpt'.attempt = 0
      BY <1>1, <2>3
    <3> QED
      BY <2>3, <2>4, <2>5, <3>1, <3>2 DEF CallWorks, PlanKnown
  <2>7. ASSUME NEW q \in Procs PROVE CallWorks(run[q])'
    <3>1. CASE q = p
      BY <2>1, <2>6, <3>1 DEF CallWorks, PlanKnown
    <3>2. CASE q # p
      <4>1. PICK x : x = run[q]
        OBVIOUS
      <4>2. CallWorks(x) /\ x.gen # rec'.attempt
        BY <1>3, <1>4, <4>1, Parts
      <4>3. x = run'[q]
        BY <2>1, <3>2, <4>1
      <4>4. CallWorks(x)'
        BY <1>1, <4>2 DEF CallWorks, InLog, PlanKnown, Known
      <4> QED
        BY <4>3, <4>4 DEF CallWorks, PlanKnown
    <3> QED
      BY <3>1, <3>2
  <2>8. StoredOk'
    BY <1>1 DEF StoredOk, PlanOk, Known, InLog
  <2>9. ASSUME NEW q \in Procs, NEW k \in NeedsRight, Live(run[q], k)' PROVE Live(run[q], k)
    <3>1. q # p
      BY <2>1, <2>4, <2>9 DEF Live, Right
    <3>2. run'[q] = run[q] /\ run[q].gen # rec'.attempt
      BY <1>3, <1>4, <2>1, <3>1
    <3> QED
      BY <2>9, <3>2 DEF Live, Right, Saved
  <2>10. EffectsOk'
    BY <1>1, <2>9, EffectsStay DEF Known
  <2>11. WaitsStay
    BY <1>1, <1>4, <2>4, OnlyMoverWaits
  <2> QED
    BY <2>7, <2>8, <2>10, <2>11 DEF WorkInv
<1>5. (rec' = rec /\ Set(p, Rejected)) \/ (AcquireLease /\ Set(p, u))
  BY DEF Acquire
<1>6. /\ u.body = r.body /\ u.final = r.final /\ u.finTo = r.finTo /\ u.drafted = r.drafted
      /\ u.mode = r.mode /\ u.pc = pc
  <2> HIDE DEF g, act, pc
  <2> QED
    BY <1>1 DEF Typed, RunCallOf
<1>7. AcquireLease => rec'.attempt = g
  <2>1. rec \in JobRecord
    BY <1>1, StoreTypes
  <2> QED
    BY <2>1 DEF AcquireLease, JobRecord
<1> HIDE DEF u, g, pc
<1> QED
  BY <1>2, <1>4, <1>5, <1>6, <1>7

(* A quiet step that moves no call keeps the invariant.                    *)
LEMMA StillWork ==
  ASSUME WorkInv, RunnerInv', Quiet, run' = run, execs' = execs
  PROVE  WorkInv' /\ WaitsStay
<1>1. /\ LogGrows /\ Len(log') \in Nat /\ ckpt' = ckpt /\ rec'.attempt = rec.attempt /\ StoreOk /\ StoredOk
      /\ EffectsOk
  BY Growing, Parts
<1>2. StoredOk'
  BY <1>1, StoredStays
<1>3. ASSUME NEW q \in Procs PROVE CallWorks(run[q])'
  <2>1. PICK x : x = run[q]
    OBVIOUS
  <2>2. CallOk(x) /\ CallWorks(x)
    BY <2>1, Parts
  <2>3. CallWorks(x)'
    BY <1>1, <2>2, StillWorks
  <2> QED
    BY <2>1, <2>3 DEF CallWorks, PlanKnown
<1>4. EffectsOk'
  <2>1. \A q \in Procs, k \in NeedsRight : Live(run[q], k)' => Live(run[q], k)
    BY <1>1 DEF Live, Right
  <2> QED
    BY <1>1, <2>1, EffectsStay
<1>5. WaitsStay
  BY DEF WaitsStay, Waiting
<1> QED
  BY <1>2, <1>3, <1>4, <1>5 DEF WorkInv

(* Every step keeps the invariant, given that a call that waits to start   *)
(* from scratch finds no checkpoint.                                       *)
LEMMA WorkNext ==
  ASSUME WorkInv, RunnerInv', [Next]_vars, \A p \in Procs : Waiting(run[p]) => ckpt.attempt = 0
  PROVE  WorkInv' /\ WaitsStay
<1>0. StoreOk /\ RunsOk /\ WorksOk /\ RunnerInv
  BY Parts
<1>1. CASE UNCHANGED vars
  <2>1. Quiet /\ run' = run /\ execs' = execs
    BY <1>0, <1>1, PatchQuiet DEF vars, Quiet, QuietLog
  <2> QED
    BY <2>1, StillWork
<1>2. CASE Expire
  <2>1. Quiet /\ run' = run /\ execs' = execs
    BY <1>0, <1>2, PatchQuiet DEF Expire, Quiet, QuietLog
  <2> QED
    BY <2>1, StillWork
<1>3. ASSUME NEW p \in Procs, RunJob(p) \/ ResumeJob(p) PROVE WorkInv' /\ WaitsStay
  BY <1>0, <1>3, EntryCarries, CarriesKeeps
<1>4. ASSUME NEW p \in Procs, CtlCall(p) \/ CtlStep(p) \/ Crash(p)
      PROVE  WorkInv' /\ WaitsStay
  <2>1. ControlMove(p) /\ execs' = execs
    BY <1>0, <1>4, ControlQuiet, ControlEffects
  <2> QED
    BY <1>0, <2>1, ControlCarries, CarriesKeeps
<1>5. ASSUME NEW p \in Procs, RunStep(p) PROVE WorkInv' /\ WaitsStay
  <2>1. CASE Acquire(p)
    BY <2>1, AcquireWorks
  <2>2. CASE Started(p) \/ Recover(p) \/ CheckpointAppend(p) \/ CheckpointSave(p)
    BY <2>2, StartedWorks, RecoverWorks, CheckpointAppendWorks, CheckpointSaveWorks
  <2>3. CASE RequestAppend(p) \/ Execute(p) \/ ResponseAppend(p) \/ UncertainAppend(p)
    BY <2>3, RequestAppendWorks, ExecuteWorks, ResponseWorks
  <2>4. CASE RecoverRead(p) \/ AcquireRead(p) \/ Start(p) \/ Resuming(p)
    BY <1>0, <2>4, ReadsCarry, StartCarries, CarriesKeeps
  <2>5. CASE CreateEnvironment(p) \/ Drain(p) \/ SetRunning(p) \/ Resumed(p)
    BY <1>0, <2>5, CreateCarries, DrainCarries, SetRunningCarries, ResumedCarries, CarriesKeeps
  <2>6. CASE ParkRelease(p) \/ ParkUpdate(p) \/ CheckpointStatus(p) \/ CheckpointResume(p)
    BY <1>0, <2>6, ParkCarries, CheckpointStatusCarries, CheckpointResumeCarries, CarriesKeeps
  <2>7. CASE Loop(p) \/ Turn(p) \/ TurnAppend(p) \/ BudgetExhausted(p)
    BY <1>0, <2>7, LoopCarries, TurnCarries, TurnAppendCarries, CarriesKeeps
  <2>8. CASE Settle(p) \/ FinishAppend(p) \/ FinishUpdate(p) \/ Dispose(p) \/ Release(p)
    BY <1>0, <2>8, SettleCarries, FinishAppendCarries, FinishUpdateCarries, DisposeCarries, CarriesKeeps
  <2> QED
    BY <1>5, <2>1, <2>2, <2>3, <2>4, <2>5, <2>6, <2>7, <2>8 DEF RunStep
<1> QED
  BY <1>1, <1>2, <1>3, <1>4, <1>5 DEF Next

(* Only commitBoundary's save writes the checkpoint row.                   *)
LEMMA SavesOnly ==
  ASSUME [Next]_vars, ckpt' # ckpt
  PROVE  \E p \in Procs : CheckpointSave(p)
<1> SUFFICES ASSUME \A p \in Procs : ~CheckpointSave(p) PROVE ckpt' = ckpt
  OBVIOUS
<1>1. ASSUME NEW p \in Procs, RunJob(p) \/ ResumeJob(p) \/ CtlCall(p) \/ CtlStep(p) \/ Crash(p)
      PROVE  ckpt' = ckpt
  BY <1>1 DEF RunJob, ResumeJob, CtlCall, CancelJob, Reconcile, SubmitInput, CtlBegin, CtlStep,
     CancelUpdate, CancelAppend, CancelFinal, SuspendRead, SuspendCapture, SuspendEnvironment,
     SuspendAppend, SuspendPark, InputAppend, Crash
<1>2. ASSUME NEW p \in Procs, RunStep(p) PROVE ckpt' = ckpt
  <2>1. CASE RecoverRead(p) \/ AcquireRead(p) \/ Acquire(p) \/ Start(p) \/ CreateEnvironment(p)
             \/ Started(p) \/ Drain(p) \/ SetRunning(p) \/ Resuming(p) \/ Recover(p) \/ Resumed(p)
    BY <2>1 DEF RecoverRead, AcquireRead, Acquire, Start, CreateEnvironment, Started, Drain,
       SetRunning, Resuming, Recover, Resumed, WriteStatus, AppendOwn
  <2>2. CASE ParkRelease(p) \/ ParkUpdate(p) \/ CheckpointStatus(p) \/ CheckpointAppend(p)
             \/ CheckpointResume(p) \/ Loop(p) \/ Turn(p) \/ TurnAppend(p) \/ BudgetExhausted(p)
    BY <2>2 DEF ParkRelease, ParkUpdate, CheckpointStatus, CheckpointAppend, CheckpointResume,
       Loop, Turn, TurnAppend, BudgetExhausted, WriteStatus, AppendOwn
  <2>3. CASE RequestAppend(p) \/ Settle(p) \/ Execute(p) \/ ResponseAppend(p) \/ UncertainAppend(p)
             \/ FinishAppend(p) \/ FinishUpdate(p) \/ Dispose(p) \/ Release(p)
    BY <2>3 DEF RequestAppend, Settle, Execute, ResponseAppend, UncertainAppend,
       FinishAppend, FinishUpdate, Dispose, Release, AppendOwn
  <2> QED
    BY <1>2, <2>1, <2>2, <2>3 DEF RunStep
<1> QED
  BY <1>1, <1>2 DEF Next, vars, Expire

(* No step takes back committed progress.                                  *)
LEMMA ProgressForward ==
  ASSUME WorkInv, [Next]_vars
  PROVE  CommittedForward
<1>0. ckpt.lastEventSeq \in Nat /\ ckpt.body.steps \in Nat
  BY Parts, StoreTypes, BodyParts, RunnerAssumption DEF Seqs
<1>1. CASE ckpt' = ckpt
  BY <1>0, <1>1 DEF CommittedForward
<1>2. CASE ckpt' # ckpt
  <2>1. PICK p \in Procs : CheckpointSave(p)
    BY <1>2, SavesOnly
  <2>2. /\ ckpt'.lastEventSeq = run[p].lastSeq /\ ckpt'.body = run[p].body
        /\ Grows(ckpt.body, run[p].body) /\ run[p].lastSeq > ckpt.lastEventSeq
    BY <1>2, <2>1, SavesForward
  <2>3. run[p].lastSeq \in Nat
    BY Parts, RunTypes
  <2> QED
    BY <1>0, <2>2, <2>3 DEF CommittedForward, Grows
<1> QED
  BY <1>1, <1>2

-----------------------------------------------------------------------------
(* Before the job has first left the queue.                                *)

(* What each patch of the record does to the status.                       *)
LEMMA PatchStatus ==
  ASSUME StoreOk
  PROVE  /\ \A s : WithStatus(s).status = s /\ WithStatusNoLease(s).status = s
         /\ WithCancel.status = rec.status /\ WithSnapshot.status = rec.status
         /\ \A token : ReleaseLease(token) => rec'.status = rec.status
         /\ LeaseExpires => rec'.status = rec.status
         /\ AcquireLease => rec'.status = rec.status
<1>1. rec \in JobRecord
  BY StoreTypes
<1>2. \A s : WithStatus(s).status = s /\ WithStatusNoLease(s).status = s
  BY <1>1 DEF WithStatus, WithStatusNoLease, JobRecord
<1>3. WithCancel.status = rec.status /\ WithSnapshot.status = rec.status
  BY <1>1 DEF WithCancel, WithSnapshot, JobRecord
<1>4. \A token : ReleaseLease(token) => rec'.status = rec.status
  BY <1>1 DEF ReleaseLease, JobRecord
<1>5. LeaseExpires => rec'.status = rec.status
  BY <1>1 DEF LeaseExpires, JobRecord
<1>6. AcquireLease => rec'.status = rec.status
  <2> DEFINE g == rec.attempt + 1
             l == [token |-> g, live |-> TRUE]
  <2>1. AcquireLease => rec' = [rec EXCEPT !.attempt = g, !.lease = l]
    BY DEF AcquireLease
  <2> HIDE DEF g, l
  <2> QED
    BY <1>1, <2>1 DEF JobRecord
<1> QED
  BY <1>2, <1>3, <1>4, <1>5, <1>6

(* No step of the runner puts a job back into the queue.                   *)
LEMMA NeverQueued ==
  ASSUME RunnerInv, [Next]_vars, rec'.status = "queued"
  PROVE  rec.status = "queued"
<1>0. StoreOk /\ RunsOk
  BY DEF RunnerInv, RunsOk, CallOk
<1>1. ASSUME NEW p \in Procs, NEW status, NEW next, NEW thrown, WriteStatus(p, status, next, thrown),
             status # "queued"
      PROVE  rec.status = "queued"
  BY <1>0, <1>1, PatchStatus DEF WriteStatus, UpdateJobRecord
<1>2. ASSUME NEW p \in Procs, CtlCall(p) \/ CtlStep(p) \/ Crash(p) PROVE rec.status = "queued"
  <2>1. CASE CtlCall(p) \/ Crash(p) \/ CancelAppend(p) \/ InputAppend(p) \/ SuspendRead(p)
             \/ SuspendEnvironment(p) \/ SuspendAppend(p)
    BY <2>1 DEF CtlCall, CancelJob, Reconcile, SubmitInput, CtlBegin, Crash, CancelAppend, InputAppend,
       SuspendRead, SuspendEnvironment, SuspendAppend
  <2>2. CASE CancelUpdate(p) \/ CancelFinal(p) \/ SuspendCapture(p) \/ SuspendPark(p)
    BY <1>0, <2>2, PatchStatus
    DEF CancelUpdate, CancelFinal, SuspendCapture, SuspendPark, UpdateJobRecord
  <2> QED
    BY <1>2, <2>1, <2>2 DEF CtlStep
<1>3. ASSUME NEW p \in Procs, RunStep(p) PROVE rec.status = "queued"
  <2>1. CASE Start(p) \/ SetRunning(p) \/ Resuming(p) \/ ParkUpdate(p) \/ CheckpointStatus(p)
             \/ CheckpointResume(p)
    BY <1>1, <2>1 DEF Start, SetRunning, Resuming, ParkUpdate, CheckpointStatus, CheckpointResume
  <2>2. CASE Acquire(p) \/ ParkRelease(p) \/ Release(p)
    BY <1>0, <2>2, PatchStatus DEF Acquire, ParkRelease, Release
  <2>3. CASE FinishUpdate(p)
    <3>1. run[p].final \in Terminal
      BY <1>0, <2>3 DEF RunsOk, LocalOk, Shape, Finishing, FinishUpdate, At
    <3>2. run[p].final # "queued"
      BY <3>1 DEF Terminal
    <3> QED
      BY <1>0, <2>3, <3>2, PatchStatus DEF FinishUpdate, UpdateJobRecord
  <2>4. CASE RecoverRead(p) \/ AcquireRead(p) \/ CreateEnvironment(p) \/ Started(p) \/ Drain(p)
             \/ Recover(p) \/ Resumed(p) \/ CheckpointAppend(p) \/ CheckpointSave(p) \/ Loop(p)
    BY <2>4 DEF RecoverRead, AcquireRead, CreateEnvironment, Started, Drain, Recover, Resumed,
       CheckpointAppend, CheckpointSave, Loop, AppendOwn
  <2>5. CASE Turn(p) \/ TurnAppend(p) \/ BudgetExhausted(p) \/ RequestAppend(p) \/ Settle(p)
             \/ Execute(p) \/ ResponseAppend(p) \/ UncertainAppend(p) \/ FinishAppend(p) \/ Dispose(p)
    BY <2>5 DEF Turn, TurnAppend, BudgetExhausted, RequestAppend, Settle, Execute, ResponseAppend,
       UncertainAppend, FinishAppend, Dispose, AppendOwn
  <2> QED
    BY <1>3, <2>1, <2>2, <2>3, <2>4, <2>5 DEF RunStep
<1>4. CASE Expire
  BY <1>0, <1>4, PatchStatus DEF Expire
<1> QED
  BY <1>2, <1>3, <1>4 DEF Next, vars, RunJob, ResumeJob

(* One call moves and has still done nothing.                              *)
LEMMA UntouchedMove ==
  ASSUME RunnerInv, Untouched, NEW p \in Procs, NEW s, Set(p, s), Unstarted(p, s),
         ckpt' = ckpt, ctl' = ctl, rec'.status \in {"queued", "cancelled"}
  PROVE  Untouched'
<1>1. run'[p] = s /\ \A q \in Procs : q # p => run'[q] = run[q]
  BY MoveRun
<1>2. ASSUME NEW q \in Procs PROVE Unstarted(q, run[q])'
  <2>1. CASE q = p
    BY <1>1, <2>1 DEF Unstarted, Waiting
  <2>2. CASE q # p
    BY <1>1, <2>2 DEF Untouched, Unstarted, Waiting
  <2> QED
    BY <2>1, <2>2
<1> QED
  BY <1>2 DEF Untouched, Suspending

(* The steps that a call which has done nothing can take.                  *)
LEMMA UntouchedPc ==
  ASSUME NEW p \in Procs, Unstarted(p, run[p]), RunStep(p)
  PROVE  \/ AcquireRead(p) \/ Acquire(p) \/ Start(p) \/ FinishAppend(p) \/ FinishUpdate(p)
         \/ Dispose(p) \/ Release(p)
<1>1. run[p].pc \in {"idle", "release", "finAppend", "finUpdate", "dispose", "acqRead", "acqLease", "start"}
  BY DEF Unstarted, Waiting, Ending
<1>2. ~(RecoverRead(p) \/ CreateEnvironment(p) \/ Started(p) \/ Drain(p) \/ SetRunning(p)
        \/ Resuming(p) \/ Recover(p) \/ Resumed(p) \/ ParkRelease(p) \/ ParkUpdate(p))
  BY <1>1 DEF RecoverRead, CreateEnvironment, Started, Drain, SetRunning, Resuming, Recover,
     Resumed, ParkRelease, ParkUpdate, At
<1>3. ~(CheckpointStatus(p) \/ CheckpointAppend(p) \/ CheckpointSave(p) \/ CheckpointResume(p)
        \/ Loop(p) \/ Turn(p) \/ TurnAppend(p) \/ BudgetExhausted(p))
  BY <1>1 DEF CheckpointStatus, CheckpointAppend, CheckpointSave, CheckpointResume, Loop, Turn,
     TurnAppend, BudgetExhausted, At
<1>4. ~(RequestAppend(p) \/ Settle(p) \/ Execute(p) \/ ResponseAppend(p) \/ UncertainAppend(p))
  BY <1>1 DEF RequestAppend, Settle, Execute, ResponseAppend, UncertainAppend, At
<1> QED
  BY <1>2, <1>3, <1>4 DEF RunStep

(* Such a call ends without a draft and goes to its finally block.         *)
LEMMA UntouchedEnds ==
  ASSUME WorkInv, NEW p \in Procs, Unstarted(p, run[p]), run[p].pc \in Ending
  PROVE  /\ ~run[p].withDraft /\ ~run[p].drafted /\ run[p].finTo = "release"
         /\ run[p].final = "cancelled" \/ (p \in Starters /\ run[p].final = "failed")
<1>1. /\ ~run[p].withDraft /\ ~run[p].drafted
      /\ run[p].final = "cancelled" \/ (p \in Starters /\ run[p].final = "failed")
  BY DEF Unstarted, Ending, Waiting
<1>2. run[p].finTo = "release"
  BY <1>1, Parts, Fields DEF WorkOk
<1> QED
  BY <1>1, <1>2

(* A step of a run keeps the job untouched while it may still be started   *)
(* from scratch; the one that starts it is the only starter, so nobody     *)
(* else waits to.                                                          *)
LEMMA UntouchedRun ==
  ASSUME OneStarter, WorkInv, FreshOk, Untouched, Fresh', NEW p \in Procs, RunStep(p)
  PROVE  Untouched'
<1>0. LocalOk(run[p]) /\ WorkOk(run[p]) /\ StoreOk /\ RunnerInv
  BY Parts
<1> DEFINE r == run[p]
<1>1. Unstarted(p, r) /\ rec.status \in {"queued", "cancelled"}
  BY DEF Untouched
<1>2. Unstarted(p, Rejected) /\ Unstarted(p, IdleRun)
  BY DEF Unstarted, Rejected, IdleRun
<1>3. CASE AcquireRead(p)
  <2> DEFINE s == [r EXCEPT !.pc = "acqLease"]
  <2>1. Same(r, s) /\ s.pc = "acqLease"
    BY <1>0, PcSame
  <2>2. Set(p, Rejected) \/ Set(p, s)
    BY <1>3 DEF AcquireRead, Goto
  <2>3. r.pc = "acqRead" /\ ckpt' = ckpt /\ ctl' = ctl /\ rec' = rec
    BY <1>3 DEF AcquireRead, At
  <2> HIDE DEF s
  <2>4. Unstarted(p, s)
    BY <1>1, <2>1, <2>3 DEF Unstarted, Waiting, Ending, Same
  <2> QED
    BY <1>0, <1>1, <1>2, <2>2, <2>3, <2>4, UntouchedMove
<1>4. CASE Acquire(p)
  <2> DEFINE g == rec.attempt + 1
             act == r.mode = "run"
             pc == IF r.mode = "run" THEN "start" ELSE "resuming"
             s == [r EXCEPT !.gen = g, !.active = act, !.pc = pc]
  <2>1. r.pc = "acqLease" /\ ckpt' = ckpt /\ ctl' = ctl
    BY <1>4 DEF Acquire, At
  <2>2. p \in Starters /\ r.mode = "run"
    BY <1>1, <2>1 DEF Unstarted, Waiting, Ending
  <2>3. (rec' = rec /\ Set(p, Rejected)) \/ (AcquireLease /\ Set(p, s))
    BY <1>4 DEF Acquire
  <2>4. s.pc = "start"
    <3>1. pc = "start"
      BY <2>2
    <3> HIDE DEF g, act, pc
    <3> QED
      BY <1>0, <3>1 DEF LocalOk, Typed, RunCallOf
  <2>5. rec'.status = rec.status
    BY <1>0, <2>3, PatchStatus
  <2> HIDE DEF s
  <2>6. Unstarted(p, s)
    BY <2>2, <2>4 DEF Unstarted
  <2> QED
    BY <1>0, <1>1, <1>2, <2>1, <2>3, <2>5, <2>6, UntouchedMove
<1>5. CASE Start(p)
  <2>1. r.pc = "start" /\ ckpt' = ckpt /\ ctl' = ctl
    BY <1>5 DEF Start, At, WriteStatus
  <2>2. p \in Starters
    BY <1>1, <2>1 DEF Unstarted, Ending
  <2>3. ASSUME rec' = WithStatus("preparing"), Set(p, [r EXCEPT !.pc = "createEnv"]) PROVE FALSE
    <3>1. rec'.status # "queued"
      BY <1>0, <2>3, PatchStatus
    <3> DEFINE s == [r EXCEPT !.pc = "createEnv"]
    <3>2. s.pc = "createEnv"
      BY <1>0, PcSame
    <3> HIDE DEF s
    <3>3. run'[p] = s /\ \A q \in Procs : q # p => run'[q] = run[q]
      BY <1>0, <2>3, MoveRun DEF s
    <3>4. ASSUME NEW q \in Procs PROVE ~Waiting(run[q])'
      <4>1. CASE q = p
        BY <3>2, <3>3, <4>1 DEF Waiting
      <4>2. CASE q # p
        BY <2>2, <3>3, <4>2 DEF FreshOk, OneStarter, Waiting
      <4> QED
        BY <4>1, <4>2
    <3> QED
      BY <3>1, <3>4 DEF Fresh
  <2>4. ASSUME rec' = rec, Set(p, Thrown(r)) PROVE Untouched'
    <3> DEFINE s == Thrown(r)
    <3>1. Same(r, s) /\ s.pc = "finAppend" /\ s.final = "failed" /\ s.withDraft = r.drafted
      BY <1>0, FinishSame DEF Thrown
    <3> HIDE DEF s
    <3>2. ~r.drafted
      BY <1>0, <2>1 DEF WorkOk, Loaded, LoadedPc, Ending, CommitPc
    <3>3. Unstarted(p, s)
      BY <2>2, <3>1, <3>2 DEF Unstarted, Ending, Same
    <3> QED
      BY <1>0, <1>1, <2>1, <2>4, <3>3, UntouchedMove DEF s
  <2> QED
    BY <1>5, <2>3, <2>4 DEF Start, WriteStatus, UpdateJobRecord
<1>6. CASE FinishAppend(p)
  <2>1. r.pc = "finAppend" /\ ckpt' = ckpt /\ ctl' = ctl /\ rec' = rec /\ r.pc \in Ending
    BY <1>6 DEF FinishAppend, At, Ending
  <2>2. ~r.withDraft /\ ~r.drafted /\ (r.final = "cancelled" \/ (p \in Starters /\ r.final = "failed"))
    BY <1>1, <2>1, UntouchedEnds
  <2> DEFINE s == [r EXCEPT !.pc = "finUpdate"]
  <2>3. r.final # "completed"
    BY <2>2
  <2>4. Set(p, s)
    BY <1>6, <2>2, <2>3 DEF FinishAppend
  <2>5. Same(r, s) /\ s.pc = "finUpdate" /\ s.final = r.final /\ s.withDraft = r.withDraft
    BY <1>0, PcSame
  <2> HIDE DEF s
  <2>6. Unstarted(p, s)
    BY <2>2, <2>5 DEF Unstarted, Ending, Same
  <2> QED
    BY <1>0, <1>1, <2>1, <2>4, <2>6, UntouchedMove
<1>7. CASE FinishUpdate(p)
  <2>1. r.pc = "finUpdate" /\ ckpt' = ckpt /\ ctl' = ctl /\ r.pc \in Ending
    BY <1>7 DEF FinishUpdate, At, Ending
  <2>2. ~r.withDraft /\ ~r.drafted /\ (r.final = "cancelled" \/ (p \in Starters /\ r.final = "failed"))
    BY <1>1, <2>1, UntouchedEnds
  <2> DEFINE s == [r EXCEPT !.pc = "dispose"]
  <2>3. r.final # "completed"
    BY <2>2
  <2>4. Set(p, s) /\ (rec' = rec \/ rec' = WithStatusNoLease(r.final))
    BY <1>7, <2>3 DEF FinishUpdate, UpdateJobRecord, Goto
  <2>5. Same(r, s) /\ s.pc = "dispose" /\ s.final = r.final /\ s.withDraft = r.withDraft
    BY <1>0, PcSame
  <2> HIDE DEF s
  <2>6. Unstarted(p, s)
    BY <2>2, <2>5 DEF Unstarted, Ending, Same
  <2>7. rec'.status \in {"queued", "cancelled"}
    <3>1. CASE rec' = rec
      BY <1>1, <3>1
    <3>2. CASE rec' = WithStatusNoLease(r.final) /\ r.final = "cancelled"
      BY <1>0, <3>2, PatchStatus
    <3>3. CASE rec' = WithStatusNoLease(r.final) /\ p \in Starters /\ r.final = "failed"
      <4>1. rec'.status # "queued"
        BY <1>0, <3>3, PatchStatus
      <4>2. run'[p] = s /\ \A q \in Procs : q # p => run'[q] = run[q]
        BY <1>0, <2>4, MoveRun
      <4>3. ASSUME NEW q \in Procs PROVE ~Waiting(run[q])'
        <5>1. CASE q = p
          BY <2>5, <4>2, <5>1 DEF Waiting
        <5>2. CASE q # p
          BY <3>3, <4>2, <5>2 DEF FreshOk, OneStarter, Waiting
        <5> QED
          BY <5>1, <5>2
      <4> QED
        BY <4>1, <4>3 DEF Fresh
    <3> QED
      BY <2>2, <2>4, <3>1, <3>2, <3>3
  <2> QED
    BY <1>0, <2>1, <2>4, <2>6, <2>7, UntouchedMove
<1>8. CASE Dispose(p)
  <2>1. r.pc = "dispose" /\ ckpt' = ckpt /\ ctl' = ctl /\ rec' = rec /\ r.pc \in Ending
    BY <1>8 DEF Dispose, At, Ending
  <2>2. r.finTo = "release"
    BY <1>1, <2>1, UntouchedEnds
  <2> DEFINE s == [r EXCEPT !.pc = r.finTo, !.final = "none", !.finTo = "release"]
  <2>3. Set(p, IdleRun) \/ Set(p, s)
    BY <1>8 DEF Dispose
  <2>4. s.pc = "release"
    BY <1>0, <2>2 DEF LocalOk, Typed, RunCallOf
  <2> HIDE DEF s
  <2>5. Unstarted(p, s)
    BY <2>4 DEF Unstarted
  <2> QED
    BY <1>0, <1>1, <1>2, <2>1, <2>3, <2>5, UntouchedMove
<1>9. CASE Release(p)
  <2>1. ckpt' = ckpt /\ ctl' = ctl /\ Set(p, IdleRun) /\ rec'.status = rec.status
    BY <1>0, <1>9, PatchStatus DEF Release
  <2> QED
    BY <1>0, <1>1, <1>2, <2>1, UntouchedMove
<1> QED
  BY <1>1, <1>3, <1>4, <1>5, <1>6, <1>7, <1>8, <1>9, UntouchedPc

(* A step of a control call, or a crash, on a job nobody has started.      *)
LEMMA UntouchedCtl ==
  ASSUME RunnerInv, ctl \in CtlCalls, Untouched, NEW p \in Procs,
         CtlCall(p) \/ CtlStep(p) \/ Crash(p)
  PROVE  Untouched'
<1>0. StoreOk /\ LocalOk(run[p]) /\ rec.status \in {"queued", "cancelled"} /\ ~Suspending(ctl[p])
  BY DEF RunnerInv, CallOk, Untouched
<1>1. ASSUME NEW c, ctl' = [ctl EXCEPT ![p] = c], ~Suspending(c)
      PROVE  \A q \in Procs : ~Suspending(ctl[q])'
  <2>1. ctl'[p] = c /\ \A q \in Procs : q # p => ctl'[q] = ctl[q]
    BY <1>1 DEF CtlCalls
  <2> QED
    BY <1>1, <2>1 DEF Untouched, Suspending
<1>2. ASSUME NEW pc \in {"cancelAppend", "cancelFinal"}, CtlGoto(p, pc)
      PROVE  \A q \in Procs : ~Suspending(ctl[q])'
  <2>1. ctl'[p].pc = pc /\ \A q \in Procs : q # p => ctl'[q] = ctl[q]
    BY <1>2 DEF CtlCalls, CtlGoto
  <2> QED
    BY <1>2, <2>1 DEF Untouched, Suspending
<1>3. CtlEnd(p) => \A q \in Procs : ~Suspending(ctl[q])'
  BY <1>1 DEF CtlEnd, IdleCtl, Suspending
<1>4. ckpt' = ckpt
  BY DEF CtlCall, CancelJob, Reconcile, SubmitInput, CtlBegin, CtlStep,
     CancelUpdate, CancelAppend, CancelFinal, SuspendRead, SuspendCapture, SuspendEnvironment,
     SuspendAppend, SuspendPark, InputAppend, Crash
<1>5. ASSUME run' = run PROVE \A q \in Procs : Unstarted(q, run[q])'
  BY <1>5 DEF Untouched, Unstarted, Waiting
<1>6. CASE CtlCall(p)
  <2>1. ~Reconcile(p)
    BY <1>0 DEF Reconcile, Candidate
  <2>2. rec' = rec /\ run' = run
    BY <1>6 DEF CtlCall, CancelJob, Reconcile, SubmitInput, CtlBegin
  <2>3. \A q \in Procs : ~Suspending(ctl[q])'
    <3>1. ASSUME NEW pc \in {"cancelUpdate", "inputAppend"},
                 ctl' = [ctl EXCEPT ![p] = [pc |-> pc, att |-> rec.attempt]]
          PROVE  \A q \in Procs : ~Suspending(ctl[q])'
      <4>1. ~Suspending([pc |-> pc, att |-> rec.attempt])
        BY DEF Suspending
      <4> QED
        BY <1>1, <3>1, <4>1
    <3> QED
      BY <1>6, <2>1, <3>1 DEF CtlCall, CancelJob, SubmitInput, CtlBegin
  <2> QED
    BY <1>0, <1>4, <1>5, <2>2, <2>3 DEF Untouched
<1>7. CASE CancelUpdate(p)
  <2>1. \A q \in Procs : ~Suspending(ctl[q])'
    BY <1>2, <1>3, <1>7 DEF CancelUpdate
  <2>2. rec'.status = rec.status
    BY <1>0, <1>7, PatchStatus DEF CancelUpdate, UpdateJobRecord
  <2>3. \A q \in Procs : Unstarted(q, run[q])'
    <3>1. CASE AbortLocal(p)
      <4> DEFINE a == run[p].aborted \/ run[p].active
                 s == [run[p] EXCEPT !.aborted = a]
      <4>1. Set(p, s)
        BY <3>1 DEF AbortLocal, Set
      <4> HIDE DEF a
      <4>2. Twin(run[p], s)
        BY <1>0 DEF LocalOk, Typed, RunCallOf, Twin, Same
      <4> HIDE DEF s
      <4>3. run'[p] = s /\ \A q \in Procs : q # p => run'[q] = run[q]
        BY <4>1, MoveRun
      <4>4. Unstarted(p, s)
        BY <4>2 DEF Untouched, Unstarted, Waiting, Twin, Same
      <4>5. ASSUME NEW q \in Procs PROVE Unstarted(q, run[q])'
        <5>1. CASE q = p
          BY <4>3, <4>4, <5>1 DEF Unstarted, Waiting
        <5>2. CASE q # p
          BY <4>3, <5>2 DEF Untouched, Unstarted, Waiting
        <5> QED
          BY <5>1, <5>2
      <4> QED
        BY <4>5
    <3> QED
      BY <1>5, <1>7, <3>1 DEF CancelUpdate
  <2> QED
    BY <1>0, <1>4, <2>1, <2>2, <2>3 DEF Untouched
<1>8. CASE CancelAppend(p) \/ CancelFinal(p) \/ InputAppend(p)
  <2>1. \A q \in Procs : ~Suspending(ctl[q])'
    BY <1>2, <1>3, <1>8 DEF CancelAppend, CancelFinal, InputAppend
  <2>2. rec'.status \in {"queued", "cancelled"}
    BY <1>0, <1>8, PatchStatus DEF CancelAppend, CancelFinal, InputAppend, UpdateJobRecord
  <2>3. run' = run
    BY <1>8 DEF CancelAppend, CancelFinal, InputAppend
  <2> QED
    BY <1>4, <1>5, <2>1, <2>2, <2>3 DEF Untouched
<1>9. CASE Crash(p)
  <2>1. Set(p, IdleRun) /\ CtlEnd(p) /\ rec' = rec
    BY <1>9 DEF Crash, Set, CtlEnd
  <2>2. run'[p] = IdleRun /\ \A q \in Procs : q # p => run'[q] = run[q]
    BY <2>1, MoveRun
  <2>3. Unstarted(p, IdleRun)
    BY DEF Unstarted, IdleRun
  <2>4. ASSUME NEW q \in Procs PROVE Unstarted(q, run[q])'
    <3>1. CASE q = p
      BY <2>2, <2>3, <3>1 DEF Unstarted, Waiting
    <3>2. CASE q # p
      BY <2>2, <3>2 DEF Untouched, Unstarted, Waiting
    <3> QED
      BY <3>1, <3>2
  <2> QED
    BY <1>0, <1>3, <1>4, <2>1, <2>4 DEF Untouched
<1>10. ~(SuspendRead(p) \/ SuspendCapture(p) \/ SuspendEnvironment(p) \/ SuspendAppend(p) \/ SuspendPark(p))
  BY <1>0 DEF SuspendRead, SuspendCapture, SuspendEnvironment, SuspendAppend, SuspendPark, CtlAt, Suspending
<1> QED
  BY <1>6, <1>7, <1>8, <1>9, <1>10 DEF CtlStep

(* An entry point called on a job nobody has started.                      *)
LEMMA UntouchedEntry ==
  ASSUME RunnerInv, Untouched, NEW p \in Procs, RunJob(p) \/ ResumeJob(p)
  PROVE  Untouched'
<1>1. ~ResumeJob(p)
  BY DEF ResumeJob, Untouched, Terminal
<1>2. p \in Starters /\ ckpt' = ckpt /\ ctl' = ctl /\ rec' = rec
  BY <1>1 DEF RunJob
<1>3. Unstarted(p, CancelledAtEntry)
  BY DEF CancelledAtEntry, Finish, IdleRun, Unstarted, Ending
<1>4. Unstarted(p, [IdleRun EXCEPT !.pc = "acqRead"])
  BY <1>2 DEF IdleRun, Unstarted, Waiting
<1>5. \E s : Set(p, s) /\ Unstarted(p, s)
  BY <1>1, <1>3, <1>4 DEF RunJob
<1> QED
  BY <1>2, <1>5, UntouchedMove DEF Untouched

(* A job that may still be started from scratch stays untouched.           *)
LEMMA FreshNext ==
  ASSUME OneStarter, WorkInv, FreshOk, [Next]_vars, WaitsStay
  PROVE  FreshOk'
<1>0. RunnerInv /\ StoreOk
  BY Parts
<1>1. ctl' \in CtlCalls
  BY <1>0, CtlTyped DEF FreshOk
<1>2. \A p \in Procs : Waiting(run[p])' => p \in Starters
  BY DEF WaitsStay, FreshOk
<1>3. ASSUME Fresh' PROVE Untouched'
  <2>1. Fresh
    BY <1>0, <1>3, NeverQueued DEF Fresh, WaitsStay
  <2>2. Untouched /\ ctl \in CtlCalls
    BY <2>1 DEF FreshOk
  <2>3. CASE UNCHANGED vars
    BY <2>2, <2>3 DEF vars, Untouched, Unstarted, Waiting, Suspending
  <2>4. CASE Expire
    <3>1. rec'.status = rec.status /\ ckpt' = ckpt /\ run' = run /\ ctl' = ctl
      BY <1>0, <2>4, PatchStatus DEF Expire
    <3> QED
      BY <2>2, <3>1 DEF Untouched, Unstarted, Waiting, Suspending
  <2>5. ASSUME NEW p \in Procs, RunJob(p) \/ ResumeJob(p) PROVE Untouched'
    BY <1>0, <2>2, <2>5, UntouchedEntry
  <2>6. ASSUME NEW p \in Procs, CtlCall(p) \/ CtlStep(p) \/ Crash(p) PROVE Untouched'
    BY <1>0, <2>2, <2>6, UntouchedCtl
  <2>7. ASSUME NEW p \in Procs, RunStep(p) PROVE Untouched'
    BY <1>3, <2>2, <2>7, UntouchedRun
  <2> QED
    BY <2>3, <2>4, <2>5, <2>6, <2>7 DEF Next
<1> QED
  BY <1>1, <1>2, <1>3 DEF FreshOk

-----------------------------------------------------------------------------
(* The invariant.                                                          *)

(* A job that createJob has just written satisfies the invariant.          *)
LEMMA InitEffects == Init => EffectsInv
<1> SUFFICES ASSUME Init PROVE EffectsInv
  OBVIOUS
<1>1. RunnerInv
  BY InitInv
<1>2. ckpt.attempt = 0 /\ ckpt.lastEventSeq = 0 /\ ckpt.body = NewBody
  BY DEF Init
<1>3. \A p \in Procs : run[p] = IdleRun
  BY DEF Init
<1>4. Len(log) = 1
  BY DEF Init
<1>5. \A n \in Nat : InLog(NewBody, n)
  BY EmptyBody DEF InLog, NotCalled
<1>6. StoredOk
  BY <1>2, <1>5, EmptyBody DEF StoredOk
<1>7. Blank(IdleRun) /\ ~Waiting(IdleRun) /\ IdleRun.pc = "idle"
  BY IdleBlank DEF IdleRun
<1>8. CallWorks(IdleRun)
  <2>1. IdleRun.body = NewBody /\ WorkOk(IdleRun) /\ ~Loaded(IdleRun) /\ ~PlanStored(IdleRun)
    BY <1>7 DEF Blank
  <2> QED
    BY <1>4, <1>5, <1>7, <2>1 DEF CallWorks, PlanKnown
<1>9. EffectsOk
  <2>1. execs \in [Key -> Nat] /\ \A k \in Key : execs[k] = 0
    BY DEF Init
  <2>2. \A k : ~Live(IdleRun, k)
    BY <1>7 DEF Live, Right, Blank
  <2>3. \A p \in Procs, k \in NeedsRight : ~Live(run[p], k)
    BY <1>3, <2>2
  <2> QED
    BY <2>1, <2>3 DEF EffectsOk, NeedsRight
<1>10. FreshOk
  <2>1. ctl = [p \in Procs |-> IdleCtl] /\ rec.status = "queued"
    BY DEF Init
  <2>2. ctl \in CtlCalls
    BY <2>1, RunnerAssumption DEF CtlCalls, IdleCtl, CtlPc, Generation
  <2>3. \A p \in Procs : Unstarted(p, run[p]) /\ ~Suspending(ctl[p]) /\ ~Waiting(run[p])
    BY <1>3, <1>7, <2>1 DEF Unstarted, Suspending, IdleCtl
  <2> QED
    BY <1>2, <2>1, <2>2, <2>3 DEF FreshOk, Untouched
<1> QED
  BY <1>1, <1>3, <1>6, <1>8, <1>9, <1>10 DEF EffectsInv, WorkInv

(* Every step keeps the invariant.                                         *)
LEMMA EffectsNext ==
  ASSUME OneStarter, EffectsInv, [Next]_vars
  PROVE  EffectsInv'
<1>1. WorkInv /\ FreshOk /\ RunnerInv
  BY DEF EffectsInv, WorkInv
<1>2. RunnerInv'
  BY <1>1, NextKeeps
<1>3. \A p \in Procs : Waiting(run[p]) => ckpt.attempt = 0
  BY <1>1 DEF FreshOk, Fresh, Untouched
<1>4. WorkInv' /\ WaitsStay
  BY <1>1, <1>2, <1>3, WorkNext
<1>5. FreshOk'
  BY <1>1, <1>4, FreshNext
<1> QED
  BY <1>4, <1>5 DEF EffectsInv, WorkInv

(* With one starter the invariant holds in every reachable state (runJob,  *)
(* resumeJob, settleTools, commitBoundary).                                *)
THEOREM EffectsInvariant ==
  ASSUME OneStarter
  PROVE  Spec => []EffectsInv
<1>1. Init => EffectsInv
  BY InitEffects
<1>2. EffectsInv /\ [Next]_vars => EffectsInv'
  BY EffectsNext
<1> QED
  BY <1>1, <1>2, PTL DEF Spec

(* A call of a tool that is not idempotent is never run twice, whatever    *)
(* crashes, loses its lease and goes on as a zombie, or resumes the job    *)
(* (settleTools), for any number of processes and calls, as long as one    *)
(* process starts the queued job.                                          *)
THEOREM EffectsOnce ==
  ASSUME OneStarter
  PROVE  Spec => []NonIdempotentAtMostOnce
<1>1. EffectsInv => NonIdempotentAtMostOnce
  BY DEF EffectsInv, WorkInv, EffectsOk, NeedsRight, NonIdempotentAtMostOnce
<1> QED
  BY <1>1, EffectsInvariant, PTL

(* The stored checkpoint always passes validateCheckpoint, and it knows    *)
(* every call that ran (commitBoundary, settleTools): no crash between two *)
(* writes and no zombie leaves recovery with less than it needs.           *)
THEOREM RecoveryHasEnough ==
  ASSUME OneStarter
  PROVE  Spec => []CheckpointIsEnough
<1>1. ASSUME EffectsInv PROVE CheckpointIsEnough
  <2>1. StoredOk /\ EffectsOk /\ StoreOk
    BY <1>1 DEF EffectsInv, WorkInv, RunnerInv
  <2>2. ckpt.lastEventSeq <= Len(log)
    BY <2>1 DEF StoreOk, CheckpointBehindLog
  <2>3. InLog(ckpt.body, ckpt.lastEventSeq) /\ PlanOk(ckpt.body)
    BY <2>1 DEF StoredOk
  <2>4. ckpt.body.cont.type = "settle_tools" =>
          \A i \in DOMAIN ckpt.body.cont.pending : ckpt.body.calls[ckpt.body.cont.pending[i]].status # "none"
    BY <2>3 DEF PlanOk
  <2>5. StoredCheckpointValidates
    BY <2>2, <2>3, <2>4 DEF StoredCheckpointValidates, ValidCheckpoint, InLog
  <2>6. RecordedBeforeEffect
    BY <2>1 DEF EffectsOk, RecordedBeforeEffect, Known
  <2> QED
    BY <2>5, <2>6 DEF CheckpointIsEnough
<1> QED
  BY <1>1, EffectsInvariant, PTL

(* Committed progress only grows: watermark, usage counter and settled     *)
(* results are never taken back by any run (commitBoundary,                *)
(* saveCheckpoint).                                                        *)
THEOREM ProgressKept ==
  ASSUME OneStarter
  PROVE  Spec => CommittedProgressKept
<1>1. EffectsInv /\ [Next]_vars => CommittedForward
  BY ProgressForward DEF EffectsInv, WorkInv
<1>2. EffectsInv /\ [Next]_vars => [CommittedForward]_vars
  BY <1>1
<1> QED
  BY <1>2, EffectsInvariant, PTL DEF Spec, CommittedProgressKept

(* Input, parking and refusing environments, at any await of a run, cost   *)
(* nothing of what recovery promises (submitInput, suspendJob, recover):   *)
(* effects once, a checkpoint that is enough, inputs once, progress kept.  *)
THEOREM ControlAlwaysSafe ==
  ASSUME OneStarter
  PROVE  Spec => ControlSafe
<1> QED
  BY EffectsOnce, RecoveryHasEnough, InputsOnce, ProgressKept, PTL DEF ControlSafe
=============================================================================
