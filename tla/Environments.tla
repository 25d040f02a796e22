---------------------------- MODULE Environments ----------------------------
(***************************************************************************)
(* Where a job computes: its workspace, suspended, captured and restored   *)
(* by the actor (runner actor.ts) in one of three places:                  *)
(*   "local"   directories of this host (runner environment.ts),           *)
(*   "fake"    a remote account that keeps sandboxes (environment-cloud),  *)
(*   "docker"  containers and committed images (environment-docker).       *)
(* The two remote ones are reached through CloudExecutionEnvironment.      *)
(*                                                                         *)
(* One job.  A process suspends it, recovers it or ends it by a call of    *)
(* several steps; its engine goes on writing until it is stopped, and the  *)
(* process may die between any two steps.  A workspace is two files, and   *)
(* a file is the number of the write it holds.                             *)
(***************************************************************************)
EXTENDS Integers, Sequences, FiniteSets, SequencesExt

CONSTANTS
  EnvProcs,      \* processes
  Places,        \* deployments: provider, capabilities, policy or none
  MaxWrites,     \* bound: writes of the engine
  MaxImages,     \* bound: captures
  MaxEnvAttempt, \* bound: recoveries
  MaxEnvFaults,  \* bound: deaths, losses, failures
  MaxEnvCalls,   \* bound: suspensions and recoveries
  CheapFloor, SnapThreshold, EvictionThreshold, MinSteps   \* the policy's

Full == {"nativeSuspend", "nativeSnapshot", "nativeRestore"}

ASSUME EnvAssumption ==
  /\ Places \subseteq [provider : {"local", "docker"}, caps : {Full}, policy : BOOLEAN]
                   \cup [provider : {"fake"}, caps : SUBSET Full, policy : BOOLEAN]
  /\ {MaxWrites, MaxImages, MaxEnvAttempt, MaxEnvFaults, MaxEnvCalls} \subseteq Nat
  /\ {CheapFloor, SnapThreshold, EvictionThreshold, MinSteps} \subseteq Nat

VARIABLES
  place,      \* provider, its capabilities, and whether a policy is configured
  envJob,     \* the job: attempt, status, latestSnapshot, writes committed
  boxes,      \* workspaces ever materialized: status and files
  images,     \* captures by tag
  tags,       \* last capture named, as each process counts
  envCall,    \* what each process is doing
  engine,     \* the attempt each process's engine runs, or 0
  written,    \* writes so far
  sure,       \* what the checkpoint takes each file to hold
  marks,      \* what has happened so far, for the properties
  envFaults, envCalls

envVars == <<place, envJob, boxes, images, tags, envCall, engine, written, sure, marks, envFaults, envCalls>>

Files == {1, 2}
Empty == [f \in Files |-> 0]
NoRef == [tag |-> 0, sum |-> Empty, steps |-> 0]
NoImage == [files |-> Empty, whole |-> FALSE]

EnvIdle == [op |-> "none", pc |-> "idle", attempt |-> 0, ref |-> NoRef, steps |-> 0,
            risk |-> "none", box |-> 0, tag |-> 0, file |-> 1, sum |-> Empty, alone |-> TRUE]

EnvInit ==
  /\ place \in Places
  /\ envJob = [attempt |-> 1, status |-> "running", ref |-> NoRef, steps |-> 0]
  /\ boxes = <<[status |-> "running", files |-> Empty]>>
  /\ images = [t \in 1..MaxImages |-> NoImage]
  /\ tags = [p \in EnvProcs |-> 0]
  /\ envCall = [p \in EnvProcs |-> EnvIdle]
  /\ engine = [p \in EnvProcs |-> IF p = CHOOSE q \in EnvProcs : TRUE THEN 1 ELSE 0]
  /\ written = 0 /\ sure = Empty /\ marks = {} /\ envFaults = 0 /\ envCalls = 0

EnvTypeOK ==
  /\ place \in Places
  /\ envJob.attempt \in 1..MaxEnvAttempt /\ envJob.status \in {"running", "suspended", "ended"}
  /\ \A i \in DOMAIN boxes :
       /\ boxes[i].status \in {"provisioning", "running", "suspended", "terminated", "gone"}
       /\ boxes[i].files \in [Files -> 0..MaxWrites]
  /\ \A t \in DOMAIN images : images[t].files \in [Files -> 0..MaxWrites]
  /\ \A p \in EnvProcs : envCall[p].box \in 0..Len(boxes) /\ envCall[p].tag \in 0..MaxImages
  /\ marks \subseteq {"restored", "lost", "rotten", "retagged", "disposed", "raced"}

Local == place.provider = "local"
EnvAt(p, pc) == envCall[p].pc = pc
EnvGo(p, pc) == envCall' = [envCall EXCEPT ![p].pc = pc]
EnvReturn(p) == envCall' = [envCall EXCEPT ![p] = EnvIdle]

(* A step on a workspace that others may be restoring.                     *)
Disturbed(call) == IF call.pc = "back" THEN [call EXCEPT !.alone = FALSE] ELSE call
Touching(p, next) ==
  envCall' = [q \in EnvProcs |-> IF q = p THEN next ELSE Disturbed(envCall[q])]

(* sandboxByName: the first of that name, dead or not; a container that    *)
(* was removed, or a directory, is not there.                              *)
SandboxByName ==
  LET named == {i \in DOMAIN boxes : boxes[i].status # "gone"} IN
  IF named = {} THEN 0 ELSE CHOOSE i \in named : \A k \in named : i <= k

(* A container that was created and not started counts as unknown.         *)
MapDockerStatus(status) == IF status = "provisioning" THEN "unknown" ELSE status

Inspected(i) ==
  IF i = 0 THEN "unknown"
  ELSE IF place.provider = "docker" THEN MapDockerStatus(boxes[i].status) ELSE boxes[i].status

Dead(i) == Inspected(i) \in {"unknown", "terminated"}

-----------------------------------------------------------------------------
(* create: reattach to the sandbox of the job's name, or provision one.    *)

AfterCreate(p) == IF envCall[p].op = "suspend" THEN "decide" ELSE "attach"

CreateInspect(p) ==
  LET found == SandboxByName
      next == CASE Dead(found) -> "provision"
                [] Inspected(found) = "provisioning" -> "start"
                [] Inspected(found) = "suspended" -> "resume"
                [] OTHER -> AfterCreate(p) IN
  /\ EnvAt(p, "create") /\ ~Local
  /\ envCall' = [envCall EXCEPT ![p].pc = next, ![p].box = found]
  /\ UNCHANGED <<place, envJob, boxes, images, tags, engine, written, sure, marks, envFaults, envCalls>>

NewBox(status, files) == [status |-> status, files |-> files]

(* mkdir with recursive: the live directory, an empty one if none.         *)
Directory == IF SandboxByName = 0 THEN <<NewBox("running", Empty)>> ELSE boxes

MakeDirectory(p) ==
  /\ EnvAt(p, "create") /\ Local
  /\ boxes' = Directory
  /\ Touching(p, [envCall[p] EXCEPT !.pc = AfterCreate(p), !.box = 1])
  /\ UNCHANGED <<place, envJob, images, tags, engine, written, sure, marks, envFaults, envCalls>>

(* provision answers with what has the name, even when it is terminated.   *)
Provision(p) ==
  LET found == SandboxByName IN
  /\ EnvAt(p, "provision")
  /\ boxes' = IF found = 0 THEN Append(boxes, NewBox("provisioning", Empty)) ELSE boxes
  /\ Touching(p, [envCall[p] EXCEPT !.pc = "start", !.box = IF found = 0 THEN Len(boxes) + 1 ELSE found])
  /\ UNCHANGED <<place, envJob, images, tags, engine, written, sure, marks, envFaults, envCalls>>

FakeStart(status) == IF status = "provisioning" THEN "running" ELSE status

(* docker start also starts a container that has exited.                   *)
DockerStart(status) == IF status \in {"provisioning", "terminated"} THEN "running" ELSE status

(* It fails on a container that is not there, and the call with it.        *)
StartSandbox(p) ==
  LET i == envCall[p].box IN
  /\ EnvAt(p, "start")
  /\ boxes' = [boxes EXCEPT ![i].status =
                 IF place.provider = "docker" THEN DockerStart(@) ELSE FakeStart(@)]
  /\ IF boxes[i].status = "gone"
     THEN EnvReturn(p) ELSE Touching(p, [envCall[p] EXCEPT !.pc = AfterCreate(p)])
  /\ UNCHANGED <<place, envJob, images, tags, engine, written, sure, marks, envFaults, envCalls>>

Unpaused(status) == IF status = "suspended" THEN "running" ELSE status

(* resumeSandbox, or docker unpause whose failure is swallowed.            *)
ResumeSandbox(p) ==
  /\ EnvAt(p, "resume")
  /\ boxes' = [boxes EXCEPT ![envCall[p].box].status = Unpaused(@)]
  /\ Touching(p, [envCall[p] EXCEPT !.pc = AfterCreate(p)])
  /\ UNCHANGED <<place, envJob, images, tags, engine, written, sure, marks, envFaults, envCalls>>

-----------------------------------------------------------------------------
(* Suspension: create, decide, capture, hold the compute, park the job.    *)

(* The terminal check suspend and recover begin with.                      *)
MayAct == envJob.status # "ended"

StartSuspend(p, risk) ==
  /\ EnvAt(p, "idle") /\ MayAct /\ (risk = "high" => place.policy)
  /\ envCalls < MaxEnvCalls /\ envCalls' = envCalls + 1
  /\ envCall' = [envCall EXCEPT ![p] = [EnvIdle EXCEPT !.op = "suspend", !.pc = "create", !.risk = risk,
                   !.attempt = envJob.attempt, !.ref = envJob.ref, !.steps = envJob.steps]]
  /\ UNCHANGED <<place, envJob, boxes, images, tags, engine, written, sure, marks, envFaults>>

(* snapshotFacts: a job with a snapshot has no steps since, ever.          *)
Facts(call) ==
  [steps |-> IF call.ref.tag # 0 THEN 0 ELSE call.steps, tokens |-> call.steps,
   last |-> call.ref.tag # 0, risk |-> call.risk]

(* ThresholdSnapshotPolicy.decide: the first rule that matches.            *)
Decide(facts) ==
  IF ~({"nativeSnapshot", "nativeRestore"} \subseteq place.caps) THEN "logical_checkpoint_only"
  ELSE IF facts.last /\ facts.steps < MinSteps THEN "defer"
  ELSE IF facts.tokens < CheapFloor THEN "logical_checkpoint_only"
  ELSE IF facts.tokens >= (IF facts.risk = "high" THEN EvictionThreshold ELSE SnapThreshold)
  THEN "snapshot_now"
  ELSE "skip"

Stale(p) == envCall[p].attempt # envJob.attempt

(* suspend, up to the capture it may ask for.  What it reports on the way  *)
(* is appended for its attempt, and throws when there is a newer one.      *)
DecideCapture(p) ==
  LET wanted == IF place.policy THEN Decide(Facts(envCall[p])) = "snapshot_now"
                ELSE "nativeSnapshot" \in place.caps IN
  /\ EnvAt(p, "decide")
  /\ IF Stale(p) /\ (place.policy \/ ~wanted) THEN EnvReturn(p)
     ELSE envCall' = [envCall EXCEPT ![p].pc = IF wanted THEN "capture" ELSE "hold",
                                     ![p].risk = "none", ![p].box = 0]
  /\ UNCHANGED <<place, envJob, boxes, images, tags, engine, written, sure, marks, envFaults, envCalls>>

(* The name of a capture: a new id, or the process's own next number.      *)
Named(p) == [q \in EnvProcs |-> IF place.provider = "docker" /\ q # p THEN tags[q] ELSE tags[p] + 1]

(* snapshot: a sandbox that is not there cannot be captured, and the call  *)
(* throws.                                                                 *)
StartCapture(p) ==
  LET i == SandboxByName IN
  /\ EnvAt(p, "capture") /\ tags[p] < MaxImages
  /\ IF Dead(i) THEN EnvReturn(p) /\ UNCHANGED tags
     ELSE /\ envCall' = [envCall EXCEPT ![p].pc = IF Local THEN "copy" ELSE "image",
                                        ![p].box = i, ![p].tag = tags[p] + 1]
          /\ tags' = Named(p)
  /\ UNCHANGED <<place, envJob, boxes, images, engine, written, sure, marks, envFaults, envCalls>>

(* cp of the live directory, file by file, while the engine may write.     *)
CopyFile(p) ==
  LET f == envCall[p].file IN
  /\ EnvAt(p, "copy")
  /\ IF SandboxByName = 0 THEN EnvReturn(p) /\ UNCHANGED images
     ELSE /\ images' = [images EXCEPT ![envCall[p].tag].files[f] = boxes[1].files[f]]
          /\ envCall' = [envCall EXCEPT ![p].pc = IF f = 2 THEN "manifest" ELSE "copy", ![p].file = 2]
  /\ UNCHANGED <<place, envJob, boxes, tags, engine, written, sure, marks, envFaults, envCalls>>

(* Mutant: the manifest lists the live files.                              *)
WriteManifestOfLive(p) ==
  LET t == envCall[p].tag IN
  /\ EnvAt(p, "manifest")
  /\ images' = [images EXCEPT ![t].whole = TRUE]
  /\ envCall' = [envCall EXCEPT ![p].pc = "keep", ![p].sum = boxes[1].files]
  /\ UNCHANGED <<place, envJob, boxes, tags, engine, written, sure, marks, envFaults, envCalls>>

(* The hashes of what was copied, and the manifest renamed into place.     *)
WriteManifest(p) ==
  LET t == envCall[p].tag IN
  /\ EnvAt(p, "manifest")
  /\ images' = [images EXCEPT ![t].whole = TRUE]
  /\ envCall' = [envCall EXCEPT ![p].pc = "keep", ![p].sum = images[t].files]
  /\ UNCHANGED <<place, envJob, boxes, tags, engine, written, sure, marks, envFaults, envCalls>>

(* The fake's snapshot, of a sandbox that runs.                            *)
SnapshotFake(p) ==
  LET box == boxes[envCall[p].box] IN
  /\ EnvAt(p, "image") /\ place.provider = "fake"
  /\ IF box.status = "running"
     THEN /\ images' = [images EXCEPT ![envCall[p].tag] = [files |-> box.files, whole |-> TRUE]]
          /\ envCall' = [envCall EXCEPT ![p].pc = "keep", ![p].sum = box.files]
     ELSE EnvReturn(p) /\ UNCHANGED images
  /\ UNCHANGED <<place, envJob, boxes, tags, engine, written, sure, marks, envFaults, envCalls>>

(* docker commit, which moves a tag that is taken; the id of the image is  *)
(* read by a command of its own, and stands here for the files.            *)
DockerCommit(p) ==
  LET t == envCall[p].tag
      box == boxes[envCall[p].box] IN
  /\ EnvAt(p, "image") /\ place.provider = "docker"
  /\ IF box.status # "gone"
     THEN /\ images' = [images EXCEPT ![t] = [files |-> box.files, whole |-> TRUE]]
          /\ marks' = IF images[t] = NoImage THEN marks ELSE marks \cup {"retagged"}
          /\ EnvGo(p, "imageId")
     ELSE EnvReturn(p) /\ UNCHANGED <<images, marks>>
  /\ UNCHANGED <<place, envJob, boxes, tags, engine, written, sure, envFaults, envCalls>>

ReadImageId(p) ==
  /\ EnvAt(p, "imageId")
  /\ envCall' = [envCall EXCEPT ![p].pc = "keep", ![p].sum = images[envCall[p].tag].files]
  /\ UNCHANGED <<place, envJob, boxes, images, tags, engine, written, sure, marks, envFaults, envCalls>>

(* The reference goes into the record before the job is parked; a writer   *)
(* of an older attempt throws.                                             *)
KeepReference(p) ==
  LET call == envCall[p] IN
  /\ EnvAt(p, "keep")
  /\ IF Stale(p) THEN EnvReturn(p) /\ UNCHANGED envJob
     ELSE /\ envJob' = [envJob EXCEPT !.ref = [tag |-> call.tag, sum |-> call.sum, steps |-> call.steps]]
          /\ envCall' = [envCall EXCEPT ![p] = [EnvIdle EXCEPT !.op = "suspend", !.pc = "hold", !.attempt = call.attempt]]
  /\ UNCHANGED <<place, boxes, images, tags, engine, written, sure, marks, envFaults, envCalls>>

(* The environment's suspend: nothing for a directory.                     *)
Hold(p) ==
  LET i == SandboxByName IN
  /\ EnvAt(p, "hold")
  /\ IF "nativeSuspend" \in place.caps THEN EnvGo(p, "park") ELSE EnvReturn(p)
  /\ boxes' = IF ~Local /\ i # 0 /\ boxes[i].status = "running" /\ "nativeSuspend" \in place.caps
              THEN [boxes EXCEPT ![i].status = "suspended"] ELSE boxes
  /\ UNCHANGED <<place, envJob, images, tags, engine, written, sure, marks, envFaults, envCalls>>

(* The job is parked, whatever became of it meanwhile under this attempt;  *)
(* then the run of this process is aborted.                                *)
Park(p) ==
  /\ EnvAt(p, "park")
  /\ IF Stale(p) THEN UNCHANGED <<envJob, engine>>
     ELSE envJob' = [envJob EXCEPT !.status = "suspended"] /\ engine' = [engine EXCEPT ![p] = 0]
  /\ EnvReturn(p)
  /\ UNCHANGED <<place, boxes, images, tags, written, sure, marks, envFaults, envCalls>>

-----------------------------------------------------------------------------
(* Recovery: acquire, restore the snapshot of the record or else create,   *)
(* and run.                                                                *)

StartRecover(p) ==
  /\ EnvAt(p, "idle") /\ MayAct /\ engine[p] = 0
  /\ envCalls < MaxEnvCalls /\ envCalls' = envCalls + 1
  /\ envCall' = [envCall EXCEPT ![p] = [EnvIdle EXCEPT !.op = "recover", !.pc = "acquire", !.ref = envJob.ref]]
  /\ UNCHANGED <<place, envJob, boxes, images, tags, engine, written, sure, marks, envFaults>>

(* Without a checkpoint the snapshot is not looked at.                     *)
AcquireJob(p) ==
  /\ EnvAt(p, "acquire")
  /\ IF envJob.status = "ended" \/ envJob.attempt = MaxEnvAttempt
     THEN EnvReturn(p) /\ UNCHANGED envJob
     ELSE /\ envJob' = [envJob EXCEPT !.attempt = @ + 1, !.status = "running"]
          /\ envCall' = [envCall EXCEPT ![p].attempt = envJob.attempt + 1,
               ![p].pc = IF envCall[p].ref # NoRef /\ envJob.steps > 0 THEN "validate" ELSE "create"]
  /\ UNCHANGED <<place, boxes, images, tags, engine, written, sure, marks, envFaults, envCalls>>

(* A directory's manifest and the hash of every file it lists.             *)
ValidLocal(ref) == images[ref.tag].whole /\ images[ref.tag].files = ref.sum

(* inspectSnapshot: the fake tells whose the image is, docker does not.    *)
InspectFakeImage(t) == [name |-> "job", files |-> images[t].files]
InspectDockerImage(t) == [name |-> "", files |-> images[t].files]

(* The capability, the binding to the job's sandbox, the integrity tag.    *)
ValidCloud(ref) ==
  LET meta == IF place.provider = "docker" THEN InspectDockerImage(ref.tag) ELSE InspectFakeImage(ref.tag) IN
  "nativeRestore" \in place.caps /\ meta.name = "job" /\ meta.files = ref.sum

Valid(ref) == IF Local THEN ValidLocal(ref) ELSE ValidCloud(ref)

ValidateRestore(p) ==
  /\ EnvAt(p, "validate")
  /\ EnvGo(p, IF ~Valid(envCall[p].ref) THEN "create" ELSE IF Local THEN "wipe" ELSE "materialize")
  /\ UNCHANGED <<place, envJob, boxes, images, tags, engine, written, sure, marks, envFaults, envCalls>>

(* The live directory is removed and made anew ...                         *)
WipeLive(p) ==
  /\ EnvAt(p, "wipe")
  /\ boxes' = <<NewBox("running", Empty)>>
  /\ marks' = marks \cup {"restored"}
  /\ Touching(p, [envCall[p] EXCEPT !.pc = "back", !.box = 1])
  /\ UNCHANGED <<place, envJob, images, tags, engine, written, sure, envFaults, envCalls>>

(* ... and the captured files are copied into it one by one.  When a copy  *)
(* fails the job goes on with what is there.                               *)
CopyBack(p) ==
  LET t == envCall[p].ref.tag
      f == envCall[p].file IN
  /\ EnvAt(p, "back")
  /\ IF images[t] = NoImage \/ boxes[1].status = "gone"
     THEN EnvGo(p, "create") /\ UNCHANGED boxes
     ELSE /\ boxes' = [boxes EXCEPT ![1].files[f] = images[t].files[f]]
          /\ Touching(p, [envCall[p] EXCEPT !.pc = IF f = 2 THEN "attach" ELSE "back", !.file = 2])
  /\ UNCHANGED <<place, envJob, images, tags, engine, written, sure, marks, envFaults, envCalls>>

CopyBackFails(p) ==
  /\ EnvAt(p, "back") /\ envFaults < MaxEnvFaults
  /\ EnvGo(p, "create")
  /\ envFaults' = envFaults + 1
  /\ UNCHANGED <<place, envJob, boxes, images, tags, engine, written, sure, marks, envCalls>>

(* A remote restore materializes one more sandbox of the job's name.       *)
Materialize(p) ==
  /\ EnvAt(p, "materialize")
  /\ boxes' = Append(boxes, NewBox("running", images[envCall[p].ref.tag].files))
  /\ marks' = marks \cup {"restored"}
  /\ envCall' = [envCall EXCEPT ![p].pc = "attach", ![p].box = Len(boxes) + 1]
  /\ UNCHANGED <<place, envJob, images, tags, engine, written, sure, envFaults, envCalls>>

(* The recovery goes on to run the job, if it is still of its attempt.     *)
Attach(p) ==
  /\ EnvAt(p, "attach")
  /\ engine' = IF Stale(p) THEN engine ELSE [engine EXCEPT ![p] = envCall[p].attempt]
  /\ EnvReturn(p)
  /\ UNCHANGED <<place, envJob, boxes, images, tags, written, sure, marks, envFaults, envCalls>>

-----------------------------------------------------------------------------
(* The engine, a zombie's too, writes where the job's name leads: now one  *)
(* file, now the other.                                                    *)
EngineWrites(p) ==
  LET i == SandboxByName
      f == 1 + (written % 2) IN
  /\ engine[p] > 0 /\ written < MaxWrites
  /\ i # 0 /\ boxes[i].status = "running"
  /\ boxes' = [boxes EXCEPT ![i].files[f] = written + 1]
  /\ written' = written + 1
  /\ envCall' = [q \in EnvProcs |-> Disturbed(envCall[q])]
  /\ UNCHANGED <<place, envJob, images, tags, engine, sure, marks, envFaults, envCalls>>

(* A commit boundary of the current attempt: the checkpoint now takes the  *)
(* workspace to hold what the run saw in it.                               *)
CommitSteps(p) ==
  LET i == SandboxByName IN
  /\ engine[p] = envJob.attempt /\ envJob.status = "running" /\ i # 0
  /\ envJob.steps < written
  /\ envJob' = [envJob EXCEPT !.steps = written]
  /\ sure' = boxes[i].files
  /\ UNCHANGED <<place, boxes, images, tags, envCall, engine, written, marks, envFaults, envCalls>>

(* The run ends the job, and disposes of its environment.                  *)
EndJob(p) ==
  /\ EnvAt(p, "idle") /\ engine[p] = envJob.attempt /\ envJob.status = "running"
  /\ envJob' = [envJob EXCEPT !.status = "ended"]
  /\ engine' = [engine EXCEPT ![p] = 0]
  /\ envCall' = [envCall EXCEPT ![p] = [EnvIdle EXCEPT !.op = "destroy", !.pc = "dispose"]]
  /\ marks' = IF \E q \in EnvProcs \ {p} : ~EnvAt(q, "idle") THEN marks \cup {"raced"} ELSE marks
  /\ UNCHANGED <<place, boxes, images, tags, written, sure, envFaults, envCalls>>

FakeTerminate(status) == "terminated"

(* docker rm -f, and rm -r of a directory.                                 *)
DockerRemove(status) == "gone"

(* destroy of what the name leads to, if it is not dead already ...        *)
DestroySandbox(p) ==
  LET i == SandboxByName IN
  /\ EnvAt(p, "dispose") /\ ~Local
  /\ boxes' = IF Dead(i) THEN boxes
              ELSE [boxes EXCEPT ![i].status =
                      IF place.provider = "docker" THEN DockerRemove(@) ELSE FakeTerminate(@)]
  /\ marks' = marks \cup {"disposed"}
  /\ Touching(p, EnvIdle)
  /\ UNCHANGED <<place, envJob, images, tags, engine, written, sure, envFaults, envCalls>>

(* ... and of a directory, with the job's snapshots in it.                 *)
RemoveJobRoot(p) ==
  /\ EnvAt(p, "dispose") /\ Local
  /\ boxes' = [i \in DOMAIN boxes |-> [boxes[i] EXCEPT !.status = "gone"]]
  /\ images' = [t \in DOMAIN images |-> NoImage]
  /\ marks' = marks \cup {"disposed"}
  /\ Touching(p, EnvIdle)
  /\ UNCHANGED <<place, envJob, tags, engine, written, sure, envFaults, envCalls>>

-----------------------------------------------------------------------------
(* Faults: the process dies; the sandbox stops or is lost; bytes of a      *)
(* capture rot (while nobody is past validating it).                       *)

Fault(mark) == envFaults < MaxEnvFaults /\ envFaults' = envFaults + 1 /\ marks' = marks \cup mark

EnvProcessDies(p) ==
  /\ Fault({}) /\ (engine[p] > 0 \/ ~EnvAt(p, "idle"))
  /\ EnvReturn(p)
  /\ engine' = [engine EXCEPT ![p] = 0]
  /\ tags' = IF place.provider = "docker" THEN [tags EXCEPT ![p] = 0] ELSE tags
  /\ UNCHANGED <<place, envJob, boxes, images, written, sure, envCalls>>

SandboxStops(i) ==
  /\ ~Local /\ Fault({"lost"}) /\ boxes[i].status = "running"
  /\ boxes' = [boxes EXCEPT ![i].status = "terminated"]
  /\ UNCHANGED <<place, envJob, images, tags, envCall, engine, written, sure, envCalls>>

SandboxLost(i) ==
  /\ place.provider # "fake" /\ Fault({"lost"}) /\ boxes[i].status # "gone"
  /\ boxes' = [boxes EXCEPT ![i].status = "gone"]
  /\ envCall' = [q \in EnvProcs |-> Disturbed(envCall[q])]
  /\ UNCHANGED <<place, envJob, images, tags, engine, written, sure, envCalls>>

ImageRots(t) ==
  /\ Fault({"rotten"}) /\ images[t].files # Empty
  /\ \A p \in EnvProcs : envCall[p].pc \notin {"wipe", "back", "materialize", "copy", "manifest", "imageId"}
  /\ images' = [images EXCEPT ![t].files = Empty]
  /\ UNCHANGED <<place, envJob, boxes, tags, envCall, engine, written, sure, envCalls>>

EnvNext ==
  \/ \E p \in EnvProcs :
       \/ CreateInspect(p) \/ MakeDirectory(p) \/ Provision(p) \/ StartSandbox(p) \/ ResumeSandbox(p)
       \/ \E risk \in {"none", "high"} : StartSuspend(p, risk)
       \/ DecideCapture(p) \/ StartCapture(p) \/ CopyFile(p) \/ WriteManifest(p)
       \/ SnapshotFake(p) \/ DockerCommit(p) \/ ReadImageId(p) \/ KeepReference(p) \/ Hold(p) \/ Park(p)
       \/ StartRecover(p) \/ AcquireJob(p) \/ ValidateRestore(p) \/ WipeLive(p)
       \/ CopyBack(p) \/ CopyBackFails(p) \/ Materialize(p) \/ Attach(p)
       \/ EngineWrites(p) \/ CommitSteps(p) \/ EndJob(p) \/ DestroySandbox(p) \/ RemoveJobRoot(p) \/ EnvProcessDies(p)
  \/ \E i \in DOMAIN boxes : SandboxStops(i) \/ SandboxLost(i)
  \/ \E t \in DOMAIN images : ImageRots(t)

-----------------------------------------------------------------------------
(* What a recovery restores is what was captured: when its last step ends, *)
(* and nobody else was at the workspace since its first, the files are the *)
(* ones the checksum of the reference stands for, though bytes may have    *)
(* rotted since (restore validates the manifest and the payload).          *)
RestoredAsCaptured ==
  [][\A p \in EnvProcs :
       envCall[p].pc \in {"back", "materialize"} /\ envCall'[p].pc = "attach" /\ envCall[p].alone
         => boxes'[envCall'[p].box].files = envCall[p].ref.sum]_envVars

(* The snapshot a record names can be restored: a capture cut by a death   *)
(* or a failure is never named, and one that is named stays whole unless   *)
(* bytes rot, the job was disposed of, or docker gave its tag away again   *)
(* (snapshotCounter begins anew in every process).                         *)
ReferenceIsWhole ==
  envJob.ref # NoRef /\ marks \cap {"rotten", "disposed", "retagged"} = {}
    => images[envJob.ref.tag].whole /\ images[envJob.ref.tag].files = envJob.ref.sum

(* Suspending, parking, dying and recovering leave the workspace with      *)
(* every file as the checkpoint takes it to be, as long as no snapshot was *)
(* restored and no sandbox lost.  A restore breaks it: the snapshot of the *)
(* record may be older than the checkpoint.                                *)
KeptWithoutRestore ==
  marks \cap {"restored", "lost", "disposed"} = {}
    => SandboxByName # 0 /\ \A f \in Files : boxes[SandboxByName].files[f] >= sure[f]

(* A job that was disposed of while nobody else was at work on it computes *)
(* nowhere: every sandbox is stopped or removed, but for those a remote    *)
(* restore had added to its name.  A container that was created and never  *)
(* started may be left in docker: destroy takes its status for "unknown"   *)
(* and returns.                                                            *)
DisposedStaysDown ==
  "disposed" \in marks /\ "raced" \notin marks /\ ~(place.provider = "fake" /\ "restored" \in marks)
    => \A i \in DOMAIN boxes :
         \/ boxes[i].status \in {"terminated", "gone"}
         \/ place.provider = "docker" /\ MapDockerStatus(boxes[i].status) = "unknown"

(* The workspace of a job, over captures, suspensions, deaths, recoveries  *)
(* and disposal, in local directories, docker and a remote provider: what  *)
(* the record names can be restored and is restored as captured, nothing   *)
(* is lost without a restore, and nothing computes after disposal          *)
(* (environment.ts, docker-provider.ts, actor.ts).                         *)
WorkspaceKept ==
  /\ [](ReferenceIsWhole /\ KeptWithoutRestore /\ DisposedStaysDown)
  /\ RestoredAsCaptured
=============================================================================
