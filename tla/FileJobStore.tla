---------------------------- MODULE FileJobStore ----------------------------
(***************************************************************************)
(* The single-node job store kept in files (packages/vaulltcore-runner     *)
(* store-file.ts), for one job: job.json with the record and lastSeq,      *)
(* events.jsonl, checkpoint.json.                                          *)
(*                                                                         *)
(* A mutating call holds the job's mutex from reading job.json to its last *)
(* write; readers take no lock.  job.json and checkpoint.json are replaced *)
(* by renaming, events.jsonl is appended to and synced before job.json     *)
(* says so.  The process may die between any two of these steps.           *)
(***************************************************************************)
EXTENDS Integers, Sequences, FiniteSets, SequencesExt

CONSTANTS
  FileCalls,       \* callers
  MaxFileAttempt,  \* bound: leases granted
  MaxFileEvents,   \* bound: lines of the log
  MaxFileCrashes   \* bound: deaths of the process

ASSUME FileAssumption ==
  MaxFileAttempt \in Nat /\ MaxFileEvents \in Nat /\ MaxFileCrashes \in Nat

VARIABLES
  fileJob,      \* job.json: attempt, holder of the lease, lastSeq
  fileLog,      \* events.jsonl: seq of each line, CutShort or Spoiled
  fileCkpt,     \* lastEventSeq of checkpoint.json
  fileCall,     \* what each caller is doing, and job.json as it read it
  granted,      \* how often each attempt was answered as granted
  answered,     \* seqs answered as appended
  cut,          \* an append was cut between the log and job.json
  fileCrashes

fileVars == <<fileJob, fileLog, fileCkpt, fileCall, granted, answered, cut, fileCrashes>>

(* A line cut short has no newline; the next line is appended to it, and   *)
(* the two together do not parse.                                          *)
CutShort == 0
Spoiled == -1

FileOps == {"acquire", "release", "update", "append", "checkpoint"}
NoFileCall == [pc |-> "idle", op |-> "none", attempt |-> 0, read |-> 0, seqs |-> 0]

(* createJobRecord: a record no lease was granted on, and an empty log.    *)
FileInit ==
  /\ fileJob = [attempt |-> 0, holder |-> "none", live |-> FALSE, lastSeq |-> 0]
  /\ fileLog = << >> /\ fileCkpt = 0
  /\ fileCall = [c \in FileCalls |-> NoFileCall]
  /\ granted = [a \in 1..MaxFileAttempt |-> 0]
  /\ answered = {} /\ cut = FALSE
  /\ fileCrashes = 0

FileTypeOK ==
  /\ fileJob.attempt \in 0..MaxFileAttempt /\ fileJob.lastSeq \in 0..MaxFileEvents
  /\ fileJob.holder \in FileCalls \cup {"none"} /\ fileJob.live \in BOOLEAN
  /\ fileLog \in Seq(-1..MaxFileEvents) /\ Len(fileLog) <= MaxFileEvents
  /\ \A c \in FileCalls : fileCall[c].pc \in {"idle", "lock", "write", "commit"}

FileAt(c, pc) == fileCall[c].pc = pc
FileGo(c, pc) == fileCall' = [fileCall EXCEPT ![c].pc = pc]
Return(c) == fileCall' = [fileCall EXCEPT ![c] = NoFileCall]

(* A caller presents the attempt it was granted, or an older one.          *)
Request(c, op, attempt) ==
  /\ FileAt(c, "idle")
  /\ fileCall' = [fileCall EXCEPT ![c] = [NoFileCall EXCEPT !.pc = "lock", !.op = op, !.attempt = attempt]]
  /\ UNCHANGED <<fileJob, fileLog, fileCkpt, granted, answered, cut, fileCrashes>>

(* Mutex.run: one at a time; who waits goes in as the last one leaves.     *)
MutexFree(c) == \A d \in FileCalls \ {c} : fileCall[d].pc \in {"idle", "lock"}

(* What the call may do with the file it has read, or it throws.           *)
MayProceed(c, file) ==
  LET call == fileCall[c] IN
  CASE call.op = "acquire" -> ~(file.live /\ file.holder # c) /\ file.attempt < MaxFileAttempt
    [] call.op = "release" -> file.holder = c
    [] call.op = "append" -> file.attempt = call.attempt /\ Len(fileLog) < MaxFileEvents
    [] OTHER -> file.attempt = call.attempt

(* readJobFile, under the mutex.                                           *)
ReadJobFile(c) ==
  /\ FileAt(c, "lock") /\ MutexFree(c)
  /\ IF MayProceed(c, fileJob)
     THEN fileCall' = [fileCall EXCEPT ![c].pc = "write", ![c].read = fileJob]
     ELSE Return(c)
  /\ UNCHANGED <<fileJob, fileLog, fileCkpt, granted, answered, cut, fileCrashes>>

NextFile(c) ==
  LET file == fileCall[c].read IN
  CASE fileCall[c].op = "acquire" -> [file EXCEPT !.attempt = @ + 1, !.holder = c, !.live = TRUE]
    [] fileCall[c].op = "release" -> [file EXCEPT !.holder = "none", !.live = FALSE]
    [] OTHER -> file

(* writeJobFile: what was read, with the patch, takes the file's place.    *)
WriteJobFile(c) ==
  /\ FileAt(c, "write") /\ fileCall[c].op \in {"acquire", "release", "update"}
  /\ fileJob' = NextFile(c)
  /\ granted' = IF fileCall[c].op = "acquire"
                THEN [granted EXCEPT ![fileCall[c].read.attempt + 1] = @ + 1] ELSE granted
  /\ Return(c)
  /\ UNCHANGED <<fileLog, fileCkpt, answered, cut, fileCrashes>>

(* Mutant: job.json counts the events before the log has them.             *)
AppendFileLater(c) ==
  /\ FileAt(c, "write") /\ fileCall[c].op = "append"
  /\ fileJob' = [fileCall[c].read EXCEPT !.lastSeq = @ + 1]
  /\ FileGo(c, "commit")
  /\ UNCHANGED <<fileLog, fileCkpt, granted, answered, cut, fileCrashes>>

WithLine(log, seq) ==
  IF log # << >> /\ Last(log) = CutShort THEN Append(Front(log), Spoiled) ELSE Append(log, seq)

(* appendFile and sync.                                                    *)
AppendFile(c) ==
  /\ FileAt(c, "write") /\ fileCall[c].op = "append"
  /\ fileLog' = WithLine(fileLog, fileCall[c].read.lastSeq + 1)
  /\ FileGo(c, "commit")
  /\ UNCHANGED <<fileJob, fileCkpt, granted, answered, cut, fileCrashes>>

Counted(file) == [file EXCEPT !.lastSeq = @ + 1]

(* job.json gets the new lastSeq, and the events are answered for.         *)
CommitSeq(c) ==
  /\ FileAt(c, "commit")
  /\ fileJob' = Counted(fileCall[c].read)
  /\ answered' = answered \cup {fileCall[c].read.lastSeq + 1}
  /\ Return(c)
  /\ UNCHANGED <<fileLog, fileCkpt, granted, cut, fileCrashes>>

(* saveCheckpoint: of the attempt, and no further than lastSeq.            *)
SaveFileCheckpoint(c, seq) ==
  /\ FileAt(c, "write") /\ fileCall[c].op = "checkpoint"
  /\ fileCkpt' = IF seq <= fileCall[c].read.lastSeq THEN seq ELSE fileCkpt
  /\ Return(c)
  /\ UNCHANGED <<fileJob, fileLog, granted, answered, cut, fileCrashes>>

(* leaseExpiresAt passes.                                                  *)
FileLeaseLapses ==
  /\ fileJob.live
  /\ fileJob' = [fileJob EXCEPT !.live = FALSE]
  /\ \A c \in FileCalls : fileCall[c].pc \in {"idle", "lock"}
  /\ UNCHANGED <<fileLog, fileCkpt, fileCall, granted, answered, cut, fileCrashes>>

(* The process dies.  An append under way may have left nothing, the start *)
(* of a line, or the whole line; temporary files are not looked at again.  *)
FileCrash ==
  /\ fileCrashes < MaxFileCrashes
  /\ fileCrashes' = fileCrashes + 1
  /\ IF \E c \in FileCalls : FileAt(c, "write") /\ fileCall[c].op = "append"
     THEN \/ UNCHANGED <<fileLog, cut>>
          \/ fileLog' = WithLine(fileLog, CutShort) /\ cut' = TRUE
     ELSE UNCHANGED fileLog /\ cut' = (cut \/ \E c \in FileCalls : FileAt(c, "commit"))
  /\ fileCall' = [c \in FileCalls |-> NoFileCall]
  /\ UNCHANGED <<fileJob, fileCkpt, granted, answered>>

FileNext ==
  \/ \E c \in FileCalls :
       \/ \E op \in FileOps, attempt \in 0..MaxFileAttempt :
            attempt \in {fileJob.attempt, fileJob.attempt - 1} /\ Request(c, op, attempt)
       \/ ReadJobFile(c) \/ WriteJobFile(c) \/ AppendFile(c) \/ CommitSeq(c)
       \/ \E seq \in {fileCall[d].read.lastSeq + e : d \in {d \in {c} : FileAt(d, "write")}, e \in {0, 1}} :
            SaveFileCheckpoint(c, seq)
  \/ FileLeaseLapses \/ FileCrash

-----------------------------------------------------------------------------
(* listEvents: a line that does not parse makes it throw.                  *)
Listed == ToSet(fileLog)
Readable == Listed \cap {CutShort, Spoiled} = {}

(* No attempt is granted twice: callers overlap, and the process dies      *)
(* between any two steps, but every caller fences by the attempt it got    *)
(* (acquireLease, withLock).                                               *)
GrantedOnce == \A a \in 1..MaxFileAttempt : granted[a] <= 1

(* As long as no append was cut, the log is readable and its seqs are      *)
(* strictly monotonic, as the head comment says.  After a cut append the   *)
(* seq is used again, or the log cannot be read at all.                    *)
MonotonicUnlessCut == ~cut => Readable /\ \A i, j \in DOMAIN fileLog : i < j => fileLog[i] < fileLog[j]

(* While the log can be read, it has every event that was answered for and *)
(* the one the checkpoint names, whatever crashes came between the log and *)
(* job.json (appendEvents syncs first; saveCheckpoint compares).           *)
NothingAnsweredLost == Readable => answered \subseteq Listed /\ (fileCkpt > 0 => fileCkpt \in Listed)

(* What the file store answers for holds through overlapping callers and   *)
(* through a death between or inside any two writes, but for what its head *)
(* comment promises of the seqs: that needs appends that were not cut      *)
(* (withLock, appendEvents, saveCheckpoint).                               *)
FileStoreSafe ==
  /\ GrantedOnce
  /\ MonotonicUnlessCut
  /\ NothingAnsweredLost
=============================================================================
