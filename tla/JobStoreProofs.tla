--------------------------- MODULE JobStoreProofs ---------------------------
(***************************************************************************)
(* What the rows of a job promise: the store, the Postgres store that      *)
(* implements it, the snapshots that are collected, and the store that     *)
(* keeps the job in files.                                                 *)
(***************************************************************************)
EXTENDS PgJobStore, SnapshotGc, FileJobStore, TLAPS

-----------------------------------------------------------------------------
(***************************************************************************)
(* The store's guarantees for every number of generations, every log bound *)
(* and every set of event and checkpoint payloads, proved of StoreSpec:    *)
(* clients that call any method with any generation, however stale.        *)
(*                                                                         *)
(* StoreInv is inductive.  LeaseIsCurrent needs the types (a generation is *)
(* a number, so +1 is a new one); CheckpointBehindLog needs them too, and  *)
(* the log growing only at its end.                                        *)
(***************************************************************************)
(* The inductive invariant of the store: its types, the lease at the row's *)
(* generation, the checkpoint behind the log.                              *)
StoreInv == StoreTypeOK /\ LeaseIsCurrent /\ CheckpointBehindLog

(* What the lease column can hold besides nothing.                         *)
Lease == [token : Generation, live : BOOLEAN]

(* The lease values the transactions write are leases.                     *)
LEMMA LeaseValues ==
  /\ NoLease \in Lease
  /\ \A g \in Generation : [token |-> g, live |-> TRUE] \in Lease
  /\ \A l \in Lease : [l EXCEPT !.live = FALSE] \in Lease
<1>1. NoLease \in Lease
  BY StoreBounds DEF NoLease, Lease, Generation
<1>2. \A g \in Generation : [token |-> g, live |-> TRUE] \in Lease
  BY DEF Lease
<1>3. \A l \in Lease : [l EXCEPT !.live = FALSE] \in Lease
  BY DEF Lease
<1> QED
  BY <1>1, <1>2, <1>3

(* What the runner's patches and the lease transactions do to a record.    *)
LEMMA PatchValues ==
  ASSUME rec \in JobRecord
  PROVE  /\ \A s \in JobStatus :
              /\ WithStatus(s) \in JobRecord
              /\ WithStatus(s).attempt = rec.attempt
              /\ WithStatus(s).lease = rec.lease
         /\ /\ WithCancel \in JobRecord
            /\ WithCancel.attempt = rec.attempt
            /\ WithCancel.lease = rec.lease
         /\ /\ WithSnapshot \in JobRecord
            /\ WithSnapshot.attempt = rec.attempt
            /\ WithSnapshot.lease = rec.lease
         /\ \A s \in JobStatus :
              /\ WithStatusNoLease(s) \in JobRecord
              /\ WithStatusNoLease(s).attempt = rec.attempt
              /\ WithStatusNoLease(s).lease = NoLease
         /\ \A g \in Generation, l \in Lease :
              /\ [rec EXCEPT !.attempt = g, !.lease = l] \in JobRecord
              /\ [rec EXCEPT !.attempt = g, !.lease = l].attempt = g
              /\ [rec EXCEPT !.attempt = g, !.lease = l].lease = l
         /\ \A l \in Lease :
              /\ [rec EXCEPT !.lease = l] \in JobRecord
              /\ [rec EXCEPT !.lease = l].attempt = rec.attempt
              /\ [rec EXCEPT !.lease = l].lease = l
<1>1. \A s \in JobStatus : /\ WithStatus(s) \in JobRecord
                           /\ WithStatus(s).attempt = rec.attempt
                           /\ WithStatus(s).lease = rec.lease
  BY DEF WithStatus, JobRecord
<1>2. /\ WithCancel \in JobRecord
      /\ WithCancel.attempt = rec.attempt
      /\ WithCancel.lease = rec.lease
  BY DEF WithCancel, JobRecord
<1>3. /\ WithSnapshot \in JobRecord
      /\ WithSnapshot.attempt = rec.attempt
      /\ WithSnapshot.lease = rec.lease
  BY DEF WithSnapshot, JobRecord
<1>4. \A s \in JobStatus : /\ WithStatusNoLease(s) \in JobRecord
                           /\ WithStatusNoLease(s).attempt = rec.attempt
                           /\ WithStatusNoLease(s).lease = NoLease
  BY LeaseValues DEF WithStatusNoLease, JobRecord, Lease
<1>5. \A g \in Generation, l \in Lease :
        /\ [rec EXCEPT !.attempt = g, !.lease = l] \in JobRecord
        /\ [rec EXCEPT !.attempt = g, !.lease = l].attempt = g
        /\ [rec EXCEPT !.attempt = g, !.lease = l].lease = l
  BY DEF JobRecord, Lease
<1>6. \A l \in Lease : /\ [rec EXCEPT !.lease = l] \in JobRecord
                       /\ [rec EXCEPT !.lease = l].attempt = rec.attempt
                       /\ [rec EXCEPT !.lease = l].lease = l
  BY DEF JobRecord, Lease
<1> QED
  BY <1>1, <1>2, <1>3, <1>4, <1>5, <1>6

(* A created job satisfies the invariant (createJobRecord).                *)
LEMMA StoreInitInv == StoreInit => StoreInv
  BY StoreBounds
  DEF StoreInit, StoreInv, StoreTypeOK, LeaseIsCurrent, CheckpointBehindLog,
      JobRecord, JobStatus, Generation, Seqs, NoLease, Checkpoint

(* A patch that leaves the generation alone and keeps or drops the lease   *)
(* keeps the invariant, and is forward (updateJobRecord, releaseLease,     *)
(* enqueue).                                                               *)
LEMMA PatchKeepsInv ==
  ASSUME StoreInv, UNCHANGED <<log, ckpt>>, rec' \in JobRecord,
         rec'.attempt = rec.attempt,
         \/ rec'.lease = rec.lease
         \/ rec'.lease = NoLease
         \/ rec'.lease = [rec.lease EXCEPT !.live = FALSE]
  PROVE  StoreInv' /\ StoreForward
<1>1. StoreTypeOK'
  BY DEF StoreInv, StoreTypeOK, Checkpoint
<1>2. LeaseIsCurrent'
  BY DEF StoreInv, StoreTypeOK, LeaseIsCurrent, JobRecord, Generation, NoLease
<1>3. CheckpointBehindLog'
  BY DEF StoreInv, CheckpointBehindLog
<1>4. StoreForward
  BY DEF StoreInv, StoreTypeOK, StoreForward, Checkpoint, JobRecord, Generation
<1> QED
  BY <1>1, <1>2, <1>3, <1>4 DEF StoreInv

(* updateJobRecord, with any patch the runner passes.                      *)
LEMMA UpdateKeepsInv == StoreInv /\ ClientUpdate => StoreInv' /\ StoreForward
<1> SUFFICES ASSUME StoreInv, ClientUpdate PROVE StoreInv' /\ StoreForward
  OBVIOUS
<1>1. PICK g \in 0..rec.attempt, s \in JobStatus :
        \/ UpdateJobRecord(g, WithStatus(s))
        \/ UpdateJobRecord(g, WithStatusNoLease(s))
        \/ UpdateJobRecord(g, WithCancel)
        \/ UpdateJobRecord(g, WithSnapshot)
  BY DEF ClientUpdate
<1>2. /\ rec' \in JobRecord
      /\ rec'.attempt = rec.attempt
      /\ rec'.lease = rec.lease \/ rec'.lease = NoLease
  BY <1>1, PatchValues DEF UpdateJobRecord, StoreInv, StoreTypeOK
<1> QED
  BY <1>2, PatchKeepsInv DEF ClientUpdate

(* acquireLease, releaseLease, the passing of time, and enqueue.           *)
LEMMA LeaseKeepsInv == StoreInv /\ ClientLease => StoreInv' /\ StoreForward
<1> SUFFICES ASSUME StoreInv, ClientLease PROVE StoreInv' /\ StoreForward
  OBVIOUS
<1>1. CASE AcquireLease
  <2>1. rec.attempt + 1 \in Generation
    BY <1>1, StoreBounds
    DEF AcquireLease, StoreInv, StoreTypeOK, JobRecord, Generation
  <2>2. /\ rec' \in JobRecord
        /\ rec'.attempt = rec.attempt + 1
        /\ rec'.lease = [token |-> rec.attempt + 1, live |-> TRUE]
        /\ ~rec.lease.live
    BY <1>1, <2>1, LeaseValues, PatchValues
    DEF AcquireLease, LeaseHeld, StoreInv, StoreTypeOK
  <2>3. rec.attempt \in Nat /\ ckpt.attempt \in Nat
    BY DEF StoreInv, StoreTypeOK, JobRecord, Checkpoint, Generation
  <2>4. StoreTypeOK'
    BY <2>2 DEF ClientLease, StoreInv, StoreTypeOK, Checkpoint
  <2>5. LeaseIsCurrent' /\ CheckpointBehindLog'
    BY <2>2, <2>3 DEF ClientLease, StoreInv, LeaseIsCurrent, CheckpointBehindLog
  <2>6. StoreForward
    BY <2>2, <2>3 DEF ClientLease, StoreInv, StoreTypeOK, StoreForward
  <2> QED
    BY <2>4, <2>5, <2>6 DEF StoreInv
<1>2. CASE \E t \in 1..rec.attempt : ReleaseLease(t)
  <2>1. /\ rec' \in JobRecord
        /\ rec'.attempt = rec.attempt
        /\ rec'.lease = rec.lease \/ rec'.lease = NoLease
    BY <1>2, LeaseValues, PatchValues DEF ReleaseLease, StoreInv, StoreTypeOK
  <2> QED
    BY <2>1, PatchKeepsInv DEF ClientLease
<1>3. CASE LeaseExpires
  <2>1. /\ rec' \in JobRecord
        /\ rec'.attempt = rec.attempt
        /\ rec'.lease = [rec.lease EXCEPT !.live = FALSE]
    <3>1. rec \in JobRecord /\ rec.lease \in Lease
      BY DEF StoreInv, StoreTypeOK, JobRecord, Lease
    <3>2. rec' = [rec EXCEPT !.lease = [rec.lease EXCEPT !.live = FALSE]]
      BY <1>3, <3>1 DEF LeaseExpires, JobRecord
    <3> QED
      BY <3>1, <3>2, LeaseValues, PatchValues
  <2> QED
    BY <2>1, PatchKeepsInv DEF ClientLease
<1>4. CASE Requeue
  <2>1. /\ rec' \in JobRecord
        /\ rec'.attempt = rec.attempt
        /\ rec'.lease = NoLease
    BY <1>4, PatchValues DEF Requeue, StoreInv, StoreTypeOK, JobStatus
  <2> QED
    BY <2>1, PatchKeepsInv DEF ClientLease
<1> QED
  BY <1>1, <1>2, <1>3, <1>4 DEF ClientLease

(* appendEvents, fenced or not: the log only grows at its end.             *)
LEMMA AppendKeepsInv == StoreInv /\ ClientAppend => StoreInv' /\ StoreForward
<1> SUFFICES ASSUME StoreInv, ClientAppend PROVE StoreInv' /\ StoreForward
  OBVIOUS
<1>1. PICK e \in Event : AppendEvents(<<e>>)
  BY DEF ClientAppend, AppendFenced
<1>2. /\ log \in Seq(Event)
      /\ log' = log \o <<e>>
      /\ Len(log) + 1 <= MaxEvents
  BY <1>1 DEF AppendEvents, StoreInv, StoreTypeOK
<1>3. log' \in Seq(Event) /\ Len(log') = Len(log) + 1
  BY <1>2
<1>4. SubSeq(log', 1, Len(log)) = log
  BY <1>2, <1>3
<1>5. rec' = rec /\ ckpt' = ckpt
  BY DEF ClientAppend
<1>6. StoreTypeOK'
  BY <1>2, <1>3, <1>5 DEF StoreInv, StoreTypeOK
<1>7. LeaseIsCurrent'
  BY <1>5 DEF StoreInv, LeaseIsCurrent
<1>8. CheckpointBehindLog'
  BY <1>2, <1>3, <1>5
  DEF StoreInv, StoreTypeOK, CheckpointBehindLog, Checkpoint, Seqs
<1>9. StoreForward
  BY <1>4, <1>5 DEF StoreInv, StoreTypeOK, StoreForward, Checkpoint, JobRecord, Generation
<1> QED
  BY <1>6, <1>7, <1>8, <1>9 DEF StoreInv

(* saveCheckpoint: only the newest generation, never past the log.         *)
LEMMA SaveKeepsInv == StoreInv /\ ClientSave => StoreInv' /\ StoreForward
<1> SUFFICES ASSUME StoreInv, ClientSave PROVE StoreInv' /\ StoreForward
  OBVIOUS
<1>1. PICK g \in 1..rec.attempt, n \in Seqs, b \in Body :
        SaveCheckpoint([attempt |-> g, lastEventSeq |-> n, body |-> b])
  BY DEF ClientSave
<1>2. /\ ckpt' = [attempt |-> g, lastEventSeq |-> n, body |-> b]
      /\ g = rec.attempt
      /\ n <= Len(log)
  BY <1>1 DEF SaveCheckpoint, Fenced
<1>3. rec' = rec /\ log' = log
  BY DEF ClientSave
<1>4. g \in Generation
  BY <1>2 DEF StoreInv, StoreTypeOK, JobRecord
<1>5. StoreTypeOK'
  BY <1>2, <1>3, <1>4 DEF StoreInv, StoreTypeOK, Checkpoint
<1>6. LeaseIsCurrent'
  BY <1>3 DEF StoreInv, LeaseIsCurrent
<1>7. CheckpointBehindLog'
  BY <1>2, <1>3, <1>4 DEF CheckpointBehindLog, Generation
<1>8. StoreForward
  BY <1>2, <1>3, <1>4
  DEF StoreInv, StoreTypeOK, CheckpointBehindLog, StoreForward, Generation
<1> QED
  BY <1>5, <1>6, <1>7, <1>8 DEF StoreInv

(* One step of the store, whoever takes it.                                *)
LEMMA StoreStepInv ==
  StoreInv /\ [StoreNext]_storeVars => StoreInv' /\ [StoreForward]_storeVars
<1> SUFFICES ASSUME StoreInv, [StoreNext]_storeVars
             PROVE StoreInv' /\ [StoreForward]_storeVars
  OBVIOUS
<1>1. CASE StoreNext
  BY <1>1, UpdateKeepsInv, LeaseKeepsInv, AppendKeepsInv, SaveKeepsInv DEF StoreNext
<1>2. CASE UNCHANGED storeVars
  BY <1>2 DEF storeVars, StoreInv, StoreTypeOK, LeaseIsCurrent, CheckpointBehindLog
<1> QED
  BY <1>1, <1>2

(* The durable rows keep their types under every sequence of store calls.  *)
THEOREM StoreTypeCorrect == StoreSpec => []StoreTypeOK
<1>1. StoreInv => StoreTypeOK
  BY DEF StoreInv
<1> QED
  BY <1>1, StoreInitInv, StoreStepInv, PTL DEF StoreSpec

(* Ownership: however many stale tokens are in the hands of clients, the   *)
(* lease row belongs to the newest generation or to nobody (sql-store.ts   *)
(* acquireLease / releaseLease / updateJobRecord).                         *)
THEOREM OwnershipSafe == StoreSpec => []LeaseIsCurrent
<1>1. StoreInv => LeaseIsCurrent
  BY DEF StoreInv
<1> QED
  BY <1>1, StoreInitInv, StoreStepInv, PTL DEF StoreSpec

(* The stored checkpoint never points past the log and was written by a    *)
(* generation that was granted (sql-store.ts saveCheckpoint).              *)
THEOREM CheckpointSafe == StoreSpec => []CheckpointBehindLog
<1>1. StoreInv => CheckpointBehindLog
  BY DEF StoreInv
<1> QED
  BY <1>1, StoreInitInv, StoreStepInv, PTL DEF StoreSpec

(* History is never undone: generations are taken one at a time and only   *)
(* from an unheld job, an older generation's checkpoint never replaces a   *)
(* newer one's, and the log is append-only (sql-store.ts, the fencing of   *)
(* every method).                                                          *)
THEOREM HistoryKept == StoreSpec => StoreOnlyForward
  BY StoreInitInv, StoreStepInv, PTL DEF StoreSpec, StoreOnlyForward

-----------------------------------------------------------------------------
(***************************************************************************)
(* PostgreSQL in place of SQLite, for every number of connections,         *)
(* transactions, workers and generations: what concurrent transactions     *)
(* commit is what StoreNext allows, step for step, so the guarantees above *)
(* carry over; and the dispatcher renews the newest claim only.            *)
(*                                                                         *)
(* The argument for the store: a transaction decides on its snapshot and   *)
(* writes later.  Until another commit is marked in "changed" the snapshot *)
(* still is the jobs row (SnapshotHolds); while the row lock is held no    *)
(* such commit happens (LockKeepsRow), because locks are disjoint; and     *)
(* what the method checked stays true until its commit (ChecksHold).       *)
(***************************************************************************)
(* An unmarked snapshot is the committed jobs row.                         *)
SnapshotHolds(c) ==
  tx[c].pc # "idle" /\ "jobs" \notin tx[c].changed =>
    tx[c].attempt = rec.attempt /\ tx[c].lastSeq = Len(log)

(* Nobody commits to the jobs row under another's row lock.                *)
LockKeepsRow(c) ==
  tx[c].pc \in {"locked", "written"} /\ LocksJob(tx[c].op) =>
    "jobs" \notin tx[c].changed

(* No row is locked by two connections.                                    *)
LocksDisjoint ==
  \A c, d \in PgClients : c # d => Locked(c) \cap Locked(d) = {}

(* What the caller passed is what a caller can have.                       *)
CallStands(c) ==
  tx[c].pc # "idle" =>
    /\ tx[c].op \in PgOp \ {"none"}
    /\ tx[c].g <= rec.attempt
    /\ tx[c].op \in {"renew", "release", "save"} => tx[c].g > 0
    /\ tx[c].op = "acquire" => tx[c].attempt < MaxPgAttempt
    /\ tx[c].op \in {"append", "appendUnfenced"} => tx[c].lastSeq < MaxEvents

(* What the method checked before its writes is still so.                  *)
ChecksHold(c) == tx[c].pc = "written" => PgAccepts(tx[c])

(* The inductive invariant of the transactions: the abstract store's, and  *)
(* what every open transaction knows about the row.                        *)
PgStoreInv ==
  /\ StoreInv
  /\ PgStoreTypeOK
  /\ LocksDisjoint
  /\ \A c \in PgClients :
       SnapshotHolds(c) /\ LockKeepsRow(c) /\ CallStands(c) /\ ChecksHold(c)

-----------------------------------------------------------------------------
(* Which methods write which rows.                                         *)
LEMMA WritesRows ==
  ASSUME NEW op \in PgOp \ {"none"}
  PROVE  /\ Writes(op) \subseteq Tables
         /\ "jobs" \in Writes(op) <=>
              op \in {"status", "close", "acquire", "append", "appendUnfenced"}
         /\ "job_leases" \in Writes(op) <=> op \in {"close", "acquire", "renew", "release"}
  BY DEF Writes, PgOp, Tables

(* A step that leaves every row and every other transaction alone, and     *)
(* locks nothing another connection has locked, keeps what is known of the *)
(* other transactions.                                                     *)
LEMMA OthersKept ==
  ASSUME PgStoreInv, UNCHANGED storeVars, pgBegun' \in 0..MaxPgTx,
         NEW c \in PgClients, NEW t \in Transaction, tx' = [tx EXCEPT ![c] = t],
         SnapshotHolds(c)', LockKeepsRow(c)', CallStands(c)', ChecksHold(c)',
         \A d \in PgClients \ {c} : Locked(d) \cap Locked(c)' = {}
  PROVE  PgStoreInv'
<1>1. StoreInv' /\ rec' = rec /\ log' = log
  BY DEF PgStoreInv, StoreInv, StoreTypeOK, LeaseIsCurrent, CheckpointBehindLog, storeVars
<1>2. PgStoreTypeOK'
  BY DEF PgStoreInv, PgStoreTypeOK
<1>3. \A d \in PgClients \ {c} : tx'[d] = tx[d]
  BY DEF PgStoreInv, PgStoreTypeOK
<1>4. \A d \in PgClients \ {c} : Locked(d)' = Locked(d)
  BY <1>3 DEF Locked
<1>5. LocksDisjoint'
  BY <1>4 DEF PgStoreInv, LocksDisjoint
<1>6. ASSUME NEW d \in PgClients \ {c}
      PROVE SnapshotHolds(d)' /\ LockKeepsRow(d)' /\ CallStands(d)'
  BY <1>1, <1>3 DEF PgStoreInv, SnapshotHolds, LockKeepsRow, CallStands
<1>7. ASSUME NEW d \in PgClients \ {c} PROVE ChecksHold(d)'
  BY <1>1, <1>3 DEF PgStoreInv, ChecksHold, PgAccepts, UpdateAccepts, LeaseHeld,
     Renewable, AppendAccepts, SaveAccepts
<1> QED
  BY <1>1, <1>2, <1>5, <1>6, <1>7 DEF PgStoreInv

(* BEGIN.                                                                  *)
LEMMA BeginKeeps ==
  ASSUME PgStoreInv, NEW c \in PgClients, NEW op \in PgOp \ {"none"},
         NEW g \in 0..rec.attempt, NEW seq \in 0..Len(log),
         op \in {"append", "appendUnfenced"} => Len(log) < MaxEvents,
         op \in {"renew", "release", "save"} => g > 0,
         Begin(c, op, g, seq)
  PROVE  PgStoreInv'
<1> DEFINE t == [pc |-> "begun", op |-> op, g |-> g, seq |-> seq,
                 attempt |-> rec.attempt, lastSeq |-> Len(log), changed |-> {}]
<1>1. rec.attempt \in Nat /\ Len(log) \in Nat
  BY DEF PgStoreInv, StoreInv, StoreTypeOK, JobRecord, Generation
<1>2. t \in Transaction
  BY <1>1 DEF Transaction
<1>3. tx' = [tx EXCEPT ![c] = t] /\ UNCHANGED storeVars /\ tx'[c] = t
  BY DEF Begin, PgStoreInv, PgStoreTypeOK
<1>4. pgBegun' \in 0..MaxPgTx
  BY PgAssumption DEF Begin, PgStoreInv, PgStoreTypeOK
<1>5. rec' = rec /\ log' = log
  BY <1>3 DEF storeVars
<1>6. SnapshotHolds(c)' /\ LockKeepsRow(c)' /\ ChecksHold(c)'
  BY <1>3, <1>5 DEF SnapshotHolds, LockKeepsRow, ChecksHold
<1>7. CallStands(c)'
  BY <1>1, <1>3, <1>5 DEF CallStands, Begin
<1>8. Locked(c)' = {}
  BY <1>3 DEF Locked
<1> HIDE DEF t
<1> QED
  BY <1>2, <1>3, <1>4, <1>6, <1>7, <1>8, OthersKept

(* readRow and the writes: the connection goes on and keeps its call.      *)
LEMMA PgStepTx ==
  ASSUME PgStoreInv, NEW c \in PgClients, NEW pc \in {"locked", "written"},
         PgStep(c, pc)
  PROVE  /\ [tx[c] EXCEPT !.pc = pc] \in Transaction
         /\ tx' = [tx EXCEPT ![c] = [tx[c] EXCEPT !.pc = pc]]
         /\ tx'[c].pc = pc /\ tx'[c].op = tx[c].op /\ tx'[c].g = tx[c].g
         /\ tx'[c].seq = tx[c].seq /\ tx'[c].attempt = tx[c].attempt
         /\ tx'[c].lastSeq = tx[c].lastSeq /\ tx'[c].changed = tx[c].changed
         /\ UNCHANGED storeVars /\ rec' = rec /\ log' = log
         /\ pgBegun' \in 0..MaxPgTx
<1>1. tx \in [PgClients -> Transaction] /\ tx[c] \in Transaction
  BY DEF PgStoreInv, PgStoreTypeOK
<1>2. [tx[c] EXCEPT !.pc = pc] \in Transaction
  BY <1>1 DEF Transaction
<1>3. tx' = [tx EXCEPT ![c] = [tx[c] EXCEPT !.pc = pc]]
  BY <1>1 DEF PgStep
<1>4. /\ tx'[c].pc = pc /\ tx'[c].op = tx[c].op /\ tx'[c].g = tx[c].g
      /\ tx'[c].seq = tx[c].seq /\ tx'[c].attempt = tx[c].attempt
      /\ tx'[c].lastSeq = tx[c].lastSeq /\ tx'[c].changed = tx[c].changed
  BY <1>1, <1>3 DEF Transaction
<1> QED
  BY <1>2, <1>3, <1>4 DEF PgStep, storeVars, PgStoreInv, PgStoreTypeOK

(* Reading the row, with or without its lock, keeps the invariant.         *)
LEMMA ReadRowKeeps ==
  ASSUME PgStoreInv, NEW c \in PgClients, ReadRow(c)
  PROVE  PgStoreInv'
<1>1. PgStep(c, "locked") /\ tx[c].pc = "begun"
  BY DEF ReadRow
<1>2. SnapshotHolds(c)' /\ CallStands(c)' /\ ChecksHold(c)'
  BY <1>1, PgStepTx, ZenonT(40) DEF PgStoreInv, SnapshotHolds, CallStands, ChecksHold
<1>3. LockKeepsRow(c)'
  BY <1>1, PgStepTx DEF LockKeepsRow, ReadRow
<1>4. Locked(c)' = IF LocksJob(tx[c].op) THEN {"jobs"} ELSE {}
  BY <1>1, PgStepTx DEF Locked, LocksJob
<1>5. \A d \in PgClients \ {c} : Locked(d) \cap Locked(c)' = {}
  BY <1>4 DEF ReadRow, Free
<1> QED
  BY <1>1, <1>2, <1>3, <1>5, PgStepTx, OthersKept

(* Buffering a transaction's write keeps the invariant.                    *)
LEMMA PgWriteKeeps ==
  ASSUME PgStoreInv, NEW c \in PgClients, PgWrite(c)
  PROVE  PgStoreInv'
<1>1. PgStep(c, "written") /\ tx[c].pc = "locked"
  BY DEF PgWrite
<1>2. SnapshotHolds(c)' /\ CallStands(c)' /\ LockKeepsRow(c)'
  BY <1>1, PgStepTx, ZenonT(40) DEF PgStoreInv, SnapshotHolds, CallStands, LockKeepsRow, LocksJob
<1>3. ChecksHold(c)'
  BY <1>1, PgStepTx DEF ChecksHold, PgWrite, PgAccepts, UpdateAccepts, LeaseHeld,
     Renewable, AppendAccepts, SaveAccepts
<1>4. Locked(c)' \subseteq Locked(c) \cup Writes(tx[c].op)
  BY <1>1, PgStepTx DEF Locked, LocksJob
<1>5. \A d \in PgClients \ {c} : Locked(d) \cap Locked(c)' = {}
  BY <1>4 DEF PgWrite, Free, PgStoreInv, LocksDisjoint
<1> QED
  BY <1>1, <1>2, <1>3, <1>5, PgStepTx, OthersKept

(* Rolling a transaction back keeps the invariant.                         *)
LEMMA RollBackKeeps ==
  ASSUME PgStoreInv, NEW c \in PgClients, RollBack(c)
  PROVE  PgStoreInv'
<1>1. NoTransaction \in Transaction /\ NoTransaction.pc = "idle"
  BY DEF NoTransaction, Transaction, PgOp
<1>2. /\ tx' = [tx EXCEPT ![c] = NoTransaction] /\ tx'[c] = NoTransaction
      /\ UNCHANGED storeVars /\ pgBegun' \in 0..MaxPgTx
  BY DEF RollBack, PgStoreInv, PgStoreTypeOK
<1>3. SnapshotHolds(c)' /\ LockKeepsRow(c)' /\ CallStands(c)' /\ ChecksHold(c)'
  BY <1>1, <1>2 DEF SnapshotHolds, LockKeepsRow, CallStands, ChecksHold
<1>4. Locked(c)' = {}
  BY <1>1, <1>2 DEF Locked
<1> QED
  BY <1>1, <1>2, <1>3, <1>4, OthersKept

-----------------------------------------------------------------------------
(* What a connection that may commit knows.                                *)
LEMMA ReadyToCommit ==
  ASSUME PgStoreInv, NEW c \in PgClients, PgCommit(c)
  PROVE  /\ tx[c] \in Transaction /\ tx[c].op \in PgOp \ {"none"}
         /\ PgAccepts(tx[c]) /\ tx[c].pc = "written"
         /\ tx[c].g \in Nat /\ tx[c].g <= rec.attempt
         /\ tx[c].op \in {"renew", "release", "save"} => tx[c].g > 0
         /\ tx[c].op # "release" =>
              tx[c].attempt = rec.attempt /\ tx[c].lastSeq = Len(log)
         /\ tx[c].op = "acquire" => rec.attempt < MaxPgAttempt
         /\ tx[c].op \in {"append", "appendUnfenced"} => Len(log) < MaxEvents
<1>1. tx[c] \in Transaction /\ tx[c].pc = "written" /\ tx[c].g \in Nat
  BY DEF PgStoreInv, PgStoreTypeOK, PgCommit, Transaction
<1>2. PgAccepts(tx[c])
  BY <1>1 DEF PgStoreInv, ChecksHold
<1>3. tx[c].op # "release" => tx[c].attempt = rec.attempt /\ tx[c].lastSeq = Len(log)
  BY <1>1 DEF PgStoreInv, LockKeepsRow, SnapshotHolds, LocksJob
<1>4. CallStands(c)
  BY DEF PgStoreInv
<1> QED
  BY <1>1, <1>2, <1>3, <1>4 DEF CallStands

(* The rows a commit leaves, method by method.                             *)
LEMMA CommittedRows ==
  ASSUME NEW c \in PgClients, PgCommit(c), tx[c].op \in PgOp \ {"none"}
  PROVE  /\ tx[c].op \in {"status", "close"} => rec' = UpdatedRow(tx[c])
         /\ tx[c].op = "acquire" => rec' = AcquiredRow(tx[c])
         /\ tx[c].op = "release" => rec' = ReleasedRow(tx[c])
         /\ tx[c].op \in {"renew", "append", "appendUnfenced", "save"} => rec' = rec
         /\ tx[c].op \in {"append", "appendUnfenced"} => log' = AppendedLog(tx[c])
         /\ tx[c].op \notin {"append", "appendUnfenced"} => log' = log
         /\ tx[c].op = "save" => ckpt' = SavedCheckpoint(tx[c])
         /\ tx[c].op # "save" => ckpt' = ckpt
  BY DEF PgCommit, PgOp

(* A commit is a step of the single-connection store.                      *)
LEMMA CommitIsStep ==
  ASSUME PgStoreInv, NEW c \in PgClients, PgCommit(c)
  PROVE  [StoreNext]_storeVars
<1> DEFINE t == tx[c]
<1>0. rec \in JobRecord /\ rec.attempt \in Nat /\ log \in Seq(Event)
      /\ Len(log) \in 0..MaxEvents /\ Len(log) \in Nat
  BY StoreBounds DEF PgStoreInv, StoreInv, StoreTypeOK, JobRecord, Generation
<1>1. t.op \in PgOp \ {"none"}
  BY ReadyToCommit
<1>2. CASE t.op \in {"status", "close"}
  <2>1. t.attempt = rec.attempt /\ t.g = rec.attempt
    BY <1>2, ReadyToCommit DEF PgAccepts, UpdateAccepts
  <2>2. rec' = WithStatus("running") \/ rec' = WithStatusNoLease("suspended")
    BY <1>1, <1>2, CommittedRows DEF UpdatedRow
  <2>3. log' = log /\ ckpt' = ckpt
    BY <1>1, <1>2, CommittedRows
  <2>4. "running" \in JobStatus /\ "suspended" \in JobStatus /\ rec.attempt \in 0..rec.attempt
    BY <1>0 DEF JobStatus
  <2>5. \E s \in JobStatus : \/ UpdateJobRecord(rec.attempt, WithStatus(s))
                             \/ UpdateJobRecord(rec.attempt, WithStatusNoLease(s))
    BY <2>2, <2>4 DEF UpdateJobRecord, Fenced
  <2>6. ClientUpdate
    BY <2>3, <2>4, <2>5 DEF ClientUpdate
  <2> QED
    BY <2>6 DEF StoreNext
<1>3. CASE t.op = "acquire"
  <2>1. t.attempt = rec.attempt /\ ~LeaseHeld /\ rec.attempt < MaxAttempt
    BY <1>0, <1>3, ReadyToCommit, PgAssumption, StoreBounds DEF PgAccepts
  <2>2. rec' = [rec EXCEPT !.attempt = rec.attempt + 1,
                           !.lease = [token |-> rec.attempt + 1, live |-> TRUE]]
    BY <1>1, <1>3, <2>1, CommittedRows DEF AcquiredRow
  <2>3. log' = log /\ ckpt' = ckpt
    BY <1>1, <1>3, CommittedRows
  <2>4. AcquireLease
    BY <2>1, <2>2 DEF AcquireLease
  <2> QED
    BY <2>3, <2>4 DEF ClientLease, StoreNext
<1>4. CASE t.op = "release"
  <2>1. t.g \in 1..rec.attempt
    BY <1>0, <1>4, ReadyToCommit
  <2>2. rec' = ReleasedRow(t) /\ log' = log /\ ckpt' = ckpt
    BY <1>1, <1>4, CommittedRows
  <2>3. ReleaseLease(t.g)
    BY <2>2 DEF ReleasedRow, ReleaseLease
  <2> QED
    BY <2>1, <2>2, <2>3 DEF ClientLease, StoreNext
<1>5. CASE t.op = "renew"
  BY <1>1, <1>5, CommittedRows DEF storeVars
<1>6. CASE t.op \in {"append", "appendUnfenced"}
  <2>1. t.lastSeq = Len(log) /\ Len(log) < MaxEvents
    BY <1>6, ReadyToCommit
  <2>2. PICK e \in Event : e = CHOOSE x \in Event : TRUE
    BY PgAssumption
  <2>3. rec' = rec /\ ckpt' = ckpt /\ log' = SubSeq(log, 1, Len(log)) \o <<e>>
    BY <1>1, <1>6, <2>1, <2>2, CommittedRows DEF AppendedLog
  <2>4. SubSeq(log, 1, Len(log)) = log
    BY <1>0
  <2>5. AppendEvents(<<e>>)
    <3>1. Len(<<e>>) = 1
      OBVIOUS
    <3>2. log' = log \o <<e>>
      BY <2>3, <2>4
    <3>3. Len(log) + 1 <= MaxEvents
      BY <1>0, <2>1, StoreBounds
    <3> QED
      BY <3>1, <3>2, <3>3 DEF AppendEvents
  <2>6. rec.attempt \in 0..rec.attempt
    BY <1>0
  <2> QED
    BY <2>3, <2>5, <2>6 DEF ClientAppend, StoreNext
<1>7. CASE t.op = "save"
  <2>1. /\ t.g = rec.attempt /\ t.g \in 1..rec.attempt
        /\ t.seq \in Seqs /\ t.seq <= Len(log)
    <3>1. /\ t.g = rec.attempt /\ t.g \in Nat /\ t.g > 0 /\ t.seq \in Nat
          /\ t.seq <= Len(log)
      BY <1>7, ReadyToCommit DEF PgAccepts, SaveAccepts, Transaction
    <3> QED
      BY <1>0, <3>1, StoreBounds DEF Seqs
  <2>2. ckpt.body \in Body
    BY DEF PgStoreInv, StoreInv, StoreTypeOK, Checkpoint
  <2>3. /\ ckpt' = [attempt |-> t.g, lastEventSeq |-> t.seq, body |-> ckpt.body]
        /\ rec' = rec /\ log' = log
    BY <1>1, <1>7, CommittedRows DEF SavedCheckpoint
  <2>4. SaveCheckpoint([attempt |-> t.g, lastEventSeq |-> t.seq, body |-> ckpt.body])
    BY <2>1, <2>3 DEF SaveCheckpoint, Fenced
  <2>5. ClientSave
    BY <2>1, <2>2, <2>3, <2>4 DEF ClientSave
  <2> QED
    BY <2>5 DEF StoreNext
<1> QED
  BY <1>1, <1>2, <1>3, <1>4, <1>5, <1>6, <1>7 DEF PgOp

(* What a commit leaves alone in the rows another connection looks at:     *)
(* the jobs row unless it wrote it, the lease unless it wrote that; and no *)
(* generation is ever taken back.                                          *)
LEMMA CommitTouches ==
  ASSUME PgStoreInv, NEW c \in PgClients, PgCommit(c)
  PROVE  /\ "jobs" \notin Writes(tx[c].op) => rec'.attempt = rec.attempt /\ log' = log
         /\ "job_leases" \notin Writes(tx[c].op) => rec'.lease = rec.lease
         /\ rec'.attempt \in Nat /\ rec.attempt <= rec'.attempt
<1>0. rec \in JobRecord /\ rec.attempt \in Nat
  BY DEF PgStoreInv, StoreInv, StoreTypeOK, JobRecord, Generation
<1>1. tx[c].op \in PgOp \ {"none"}
  BY ReadyToCommit
<1>2. tx[c].op \in {"status", "close"} => /\ rec'.attempt = rec.attempt
                                          /\ tx[c].op = "status" => rec'.lease = rec.lease
  <2>1. "running" \in JobStatus /\ "suspended" \in JobStatus
    BY DEF JobStatus
  <2>2. tx[c].op = "status" => rec' = WithStatus("running")
    BY <1>1, CommittedRows DEF UpdatedRow
  <2>3. tx[c].op = "close" => rec' = WithStatusNoLease("suspended")
    BY <1>1, CommittedRows DEF UpdatedRow
  <2>4. /\ WithStatus("running").attempt = rec.attempt
        /\ WithStatus("running").lease = rec.lease
        /\ WithStatusNoLease("suspended").attempt = rec.attempt
    BY <1>0, <2>1, PatchValues
  <2> QED
    BY <2>2, <2>3, <2>4
<1>3. tx[c].op = "acquire" => rec'.attempt = rec.attempt + 1
  <2>1. tx[c].op = "acquire" => tx[c].attempt = rec.attempt
    BY ReadyToCommit
  <2>2. tx[c].op = "acquire" =>
          rec' = [rec EXCEPT !.attempt = tx[c].attempt + 1,
                             !.lease = [token |-> tx[c].attempt + 1, live |-> TRUE]]
    BY <1>1, CommittedRows DEF AcquiredRow
  <2> QED
    BY <1>0, <2>1, <2>2 DEF JobRecord
<1>4. tx[c].op = "release" => rec'.attempt = rec.attempt
  BY <1>0, <1>1, CommittedRows DEF ReleasedRow, JobRecord
<1>5. tx[c].op \in {"renew", "append", "appendUnfenced", "save"} => rec' = rec
  BY <1>1, CommittedRows
<1>6. tx[c].op \notin {"append", "appendUnfenced"} => log' = log
  BY <1>1, CommittedRows
<1>7. rec'.attempt \in Nat /\ rec.attempt <= rec'.attempt
  <2>1. rec'.attempt = rec.attempt \/ rec'.attempt = rec.attempt + 1
    BY <1>1, <1>2, <1>3, <1>4, <1>5 DEF PgOp
  <2> QED
    BY <1>0, <2>1
<1>8. "jobs" \notin Writes(tx[c].op) => rec'.attempt = rec.attempt /\ log' = log
  BY <1>1, <1>4, <1>5, <1>6, WritesRows DEF PgOp
<1>9. "job_leases" \notin Writes(tx[c].op) => rec'.lease = rec.lease
  BY <1>1, <1>2, <1>5, WritesRows DEF PgOp
<1> QED
  BY <1>7, <1>8, <1>9

(* What the commit does to the transactions open elsewhere.                *)
LEMMA CommitMarks ==
  ASSUME PgStoreInv, NEW c \in PgClients, PgCommit(c), NEW d \in PgClients \ {c},
         tx[d].pc # "idle"
  PROVE  /\ tx'[d] \in Transaction
         /\ tx'[d].pc = tx[d].pc /\ tx'[d].op = tx[d].op /\ tx'[d].g = tx[d].g
         /\ tx'[d].seq = tx[d].seq /\ tx'[d].attempt = tx[d].attempt
         /\ tx'[d].lastSeq = tx[d].lastSeq
         /\ tx'[d].changed = tx[d].changed \cup Writes(tx[c].op)
<1>1. tx[d] \in Transaction /\ Writes(tx[c].op) \subseteq Tables
  BY ReadyToCommit, WritesRows DEF PgStoreInv, PgStoreTypeOK
<1>2. tx'[d] = [tx[d] EXCEPT !.changed = @ \cup Writes(tx[c].op)]
  BY DEF PgCommit
<1> QED
  BY <1>1, <1>2 DEF Transaction

(* Committing keeps the invariant: the checks made before the commit still *)
(* hold of the row when it is written.                                     *)
LEMMA CommitKeeps ==
  ASSUME PgStoreInv, NEW c \in PgClients, PgCommit(c)
  PROVE  PgStoreInv'
<1>1. StoreInv'
  BY CommitIsStep, StoreStepInv DEF PgStoreInv
<1>2. tx'[c] = NoTransaction
  BY DEF PgCommit
<1>3. NoTransaction \in Transaction /\ NoTransaction.pc = "idle"
  BY DEF NoTransaction, Transaction, PgOp
<1>4. \A d \in PgClients \ {c} : tx[d].pc = "idle" => tx'[d] = tx[d]
  BY DEF PgCommit
<1>5. PgStoreTypeOK'
  <2>1. \A d \in PgClients : tx'[d] \in Transaction
    BY <1>2, <1>3, <1>4, CommitMarks DEF PgStoreInv, PgStoreTypeOK
  <2>2. tx' = [d \in PgClients |-> tx'[d]]
    BY DEF PgCommit
  <2> QED
    BY <2>1, <2>2 DEF PgCommit, PgStoreInv, PgStoreTypeOK
<1>6. Locked(c)' = {} /\ \A d \in PgClients \ {c} : Locked(d)' = Locked(d)
  BY <1>2, <1>3, <1>4, CommitMarks DEF Locked
<1>7. LocksDisjoint'
  BY <1>6 DEF PgStoreInv, LocksDisjoint
<1>8. SnapshotHolds(c)' /\ LockKeepsRow(c)' /\ CallStands(c)' /\ ChecksHold(c)'
  BY <1>2, <1>3 DEF SnapshotHolds, LockKeepsRow, CallStands, ChecksHold
<1>9. ASSUME NEW d \in PgClients \ {c}, tx[d].pc = "idle"
      PROVE SnapshotHolds(d)' /\ LockKeepsRow(d)' /\ CallStands(d)' /\ ChecksHold(d)'
  BY <1>4, <1>9 DEF SnapshotHolds, LockKeepsRow, CallStands, ChecksHold
<1>10. ASSUME NEW d \in PgClients \ {c}, tx[d].pc # "idle"
       PROVE SnapshotHolds(d)' /\ LockKeepsRow(d)' /\ CallStands(d)' /\ ChecksHold(d)'
  <2>1. Writes(tx[c].op) \subseteq Locked(c)
    BY ReadyToCommit DEF Locked
  <2>2. Locked(c) \cap Locked(d) = {}
    BY DEF PgStoreInv, LocksDisjoint
  <2>3. SnapshotHolds(d)'
    BY <1>10, CommitMarks, CommitTouches DEF PgStoreInv, SnapshotHolds
  <2>4. LockKeepsRow(d)'
    BY <1>10, <2>1, <2>2, CommitMarks DEF PgStoreInv, LockKeepsRow, Locked
  <2>5. CallStands(d)'
    <3>1. tx[d].g \in Nat /\ rec.attempt \in Nat
      BY DEF PgStoreInv, PgStoreTypeOK, Transaction, StoreInv, StoreTypeOK,
         JobRecord, Generation
    <3> QED
      BY <1>10, <3>1, CommitMarks, CommitTouches DEF PgStoreInv, CallStands
  <2>6. ChecksHold(d)'
    <3> SUFFICES ASSUME tx[d].pc = "written" PROVE PgAccepts(tx[d])'
      BY <1>10, CommitMarks DEF ChecksHold
    <3>1. PgAccepts(tx[d]) /\ tx[d].op \in PgOp \ {"none"}
      BY DEF PgStoreInv, ChecksHold, CallStands
    <3>2. tx[d].op \in {"acquire", "renew"} => rec'.lease = rec.lease
      <4>1. tx[d].op \in {"acquire", "renew"} => "job_leases" \in Locked(d)
        BY <3>1, WritesRows DEF Locked
      <4> QED
        BY <2>1, <2>2, <4>1, CommitTouches
    <3> QED
      BY <1>10, <3>1, <3>2, CommitMarks DEF PgAccepts, UpdateAccepts, LeaseHeld,
         Renewable, AppendAccepts, SaveAccepts
  <2> QED
    BY <2>3, <2>4, <2>5, <2>6
<1> QED
  BY <1>1, <1>5, <1>7, <1>8, <1>9, <1>10 DEF PgStoreInv

(* Time passes: a lease that no written renewal holds runs out.            *)
LEMMA PgExpiryKeeps ==
  ASSUME PgStoreInv, PgLeaseExpires
  PROVE  PgStoreInv' /\ StoreNext
<1>1. StoreNext
  BY DEF PgLeaseExpires, ClientLease, StoreNext
<1>2. StoreInv'
  BY <1>1, StoreStepInv DEF PgStoreInv
<1>3. tx' = tx /\ pgBegun' = pgBegun /\ log' = log
  BY DEF PgLeaseExpires, pgStoreVars
<1>4. rec'.attempt = rec.attempt /\ ~rec'.lease.live
  BY DEF PgLeaseExpires, LeaseExpires, PgStoreInv, StoreInv, StoreTypeOK, JobRecord
<1>5. PgStoreTypeOK' /\ LocksDisjoint'
  BY <1>3 DEF PgStoreInv, PgStoreTypeOK, LocksDisjoint, Locked
<1>6. ASSUME NEW c \in PgClients
      PROVE SnapshotHolds(c)' /\ LockKeepsRow(c)' /\ CallStands(c)'
  BY <1>3, <1>4 DEF PgStoreInv, SnapshotHolds, LockKeepsRow, CallStands
<1>7. ASSUME NEW c \in PgClients PROVE ChecksHold(c)'
  BY <1>3, <1>4 DEF PgStoreInv, PgLeaseExpires, ChecksHold, PgAccepts, UpdateAccepts,
     LeaseHeld, Renewable, AppendAccepts, SaveAccepts
<1> QED
  BY <1>1, <1>2, <1>5, <1>6, <1>7 DEF PgStoreInv

(* Every step of the store on PostgreSQL keeps the invariant, and is a     *)
(* step of the store on one connection or leaves its rows alone.           *)
LEMMA PgStoreStep ==
  PgStoreInv /\ PgStoreNext => PgStoreInv' /\ [StoreNext]_storeVars
<1> SUFFICES ASSUME PgStoreInv, PgStoreNext PROVE PgStoreInv' /\ [StoreNext]_storeVars
  OBVIOUS
<1>1. CASE PgLeaseExpires
  BY <1>1, PgExpiryKeeps
<1>2. CASE ~PgLeaseExpires
  <2>1. PICK c \in PgClients :
          \/ \E op \in PgOp \ {"none"}, g \in 0..rec.attempt, seq \in 0..Len(log) :
               /\ op # "save" => seq = 0
               /\ op \in {"acquire", "appendUnfenced"} => g = 0
               /\ op \in {"append", "appendUnfenced"} => Len(log) < MaxEvents
               /\ op \in {"renew", "release", "save"} => g > 0
               /\ Begin(c, op, g, seq)
          \/ ReadRow(c) \/ PgWrite(c) \/ PgCommit(c) \/ RollBack(c)
    BY <1>2 DEF PgStoreNext
  <2>2. CASE \E op \in PgOp \ {"none"}, g \in 0..rec.attempt, seq \in 0..Len(log) :
               /\ op \in {"append", "appendUnfenced"} => Len(log) < MaxEvents
               /\ op \in {"renew", "release", "save"} => g > 0
               /\ Begin(c, op, g, seq)
    BY <2>2, BeginKeeps DEF Begin
  <2>3. CASE ReadRow(c)
    BY <2>3, ReadRowKeeps DEF ReadRow, PgStep
  <2>4. CASE PgWrite(c)
    BY <2>4, PgWriteKeeps DEF PgWrite, PgStep
  <2>5. CASE PgCommit(c)
    BY <2>5, CommitKeeps, CommitIsStep
  <2>6. CASE RollBack(c)
    BY <2>6, RollBackKeeps DEF RollBack
  <2> QED
    BY <2>1, <2>2, <2>3, <2>4, <2>5, <2>6
<1> QED
  BY <1>1, <1>2

-----------------------------------------------------------------------------
(* The dispatcher: the claim and the lease carry the newest generation or  *)
(* nothing, and nobody holds a later one.                                  *)
DispatchInv ==
  /\ PgDispatchTypeOK
  /\ pgClaim.token \in {0, pgJob.attempt}
  /\ pgLease.token \in {0, pgJob.attempt}
  /\ \A w \in PgWorkers : pgHeld[w].token <= pgJob.attempt

(* A dispatcher's claim takes a row of its own and renews only the newest  *)
(* generation.                                                             *)
LEMMA ClaimStep ==
  ASSUME DispatchInv, NEW w \in PgWorkers, PgClaimJob(w)
  PROVE  DispatchInv' /\ OnlyNewestRenewed
<1> DEFINE g == pgJob.attempt + 1
<1>1. pgJob.attempt \in Nat /\ g \in 0..MaxPgAttempt /\ g \in Nat
  BY PgAssumption DEF DispatchInv, PgDispatchTypeOK, PgClaimJob
<1>2. /\ pgJob' \in [queued : BOOLEAN, attempt : 0..MaxPgAttempt]
      /\ pgJob'.attempt = g
  BY <1>1 DEF DispatchInv, PgDispatchTypeOK, PgClaimJob
<1>3. /\ pgLease' = [token |-> g, live |-> TRUE]
      /\ pgClaim' = [token |-> g, live |-> TRUE, acknowledged |-> FALSE]
      /\ pgHeld' = [pgHeld EXCEPT ![w] = [token |-> g, renewals |-> 0]]
  BY DEF PgClaimJob
<1>4. \A v \in PgWorkers : pgHeld[v].token \in Nat /\ pgHeld[v].token <= pgJob.attempt
  BY DEF DispatchInv, PgDispatchTypeOK
<1>5. \A v \in PgWorkers : /\ v # w => pgHeld'[v] = pgHeld[v]
                           /\ pgHeld'[w].token = g
  BY <1>3 DEF DispatchInv, PgDispatchTypeOK
<1>6. pgHeld' \in [PgWorkers -> [token : Nat, renewals : 0..1]]
  BY <1>1, <1>3 DEF DispatchInv, PgDispatchTypeOK
<1>7. PgDispatchTypeOK'
  BY <1>1, <1>2, <1>3, <1>6 DEF PgDispatchTypeOK, PgRow
<1>8. \A v \in PgWorkers : pgHeld'[v].token <= pgJob'.attempt
  BY <1>1, <1>2, <1>4, <1>5
<1>9. \A v \in PgWorkers : ~Renewed(v)
  BY <1>1, <1>4, <1>5 DEF Renewed
<1> QED
  BY <1>2, <1>3, <1>7, <1>8, <1>9 DEF DispatchInv, OnlyNewestRenewed

(* Acknowledge, heartbeat and release keep the generation.                 *)
LEMMA HolderStep ==
  ASSUME DispatchInv, NEW w \in PgWorkers,
         PgAcknowledge(w) \/ PgHeartbeat(w) \/ PgRelease(w)
  PROVE  DispatchInv' /\ OnlyNewestRenewed
<1>0. /\ pgHeld \in [PgWorkers -> [token : Nat, renewals : 0..1]]
      /\ pgJob.attempt \in Nat /\ pgLease \in PgRow
      /\ pgClaim \in [token : Nat, live : BOOLEAN, acknowledged : BOOLEAN]
  BY PgAssumption DEF DispatchInv, PgDispatchTypeOK
<1>1. CASE PgAcknowledge(w)
  <2>1. /\ pgClaim' \in [token : Nat, live : BOOLEAN, acknowledged : BOOLEAN]
        /\ pgClaim'.token = pgClaim.token
        /\ UNCHANGED <<pgJob, pgLease, pgHeld>>
    BY <1>0, <1>1 DEF PgAcknowledge
  <2> QED
    BY <2>1 DEF DispatchInv, PgDispatchTypeOK, OnlyNewestRenewed, Renewed
<1>2. CASE PgHeartbeat(w)
  <2>1. /\ pgHeld[w].token = pgClaim.token /\ pgClaim.token = pgJob.attempt
        /\ UNCHANGED <<pgJob, pgClaim>>
    BY <1>0, <1>2 DEF PgHeartbeat, MayBeat, OwnClaim, DispatchInv
  <2>2. /\ pgLease' \in PgRow /\ pgLease'.token = pgLease.token
        /\ pgLease.token = pgHeld[w].token => pgLease'.live
    BY <1>0, <1>2 DEF PgHeartbeat, PgRow
  <2>3. pgHeld[w].renewals \in 0..1 /\ 1 - pgHeld[w].renewals \in 0..1
    BY <1>0
  <2>4. pgHeld' \in [PgWorkers -> [token : Nat, renewals : 0..1]]
    BY <1>0, <1>2, <2>3 DEF PgHeartbeat
  <2>5. \A v \in PgWorkers : /\ pgHeld'[v].token = pgHeld[v].token
                             /\ v # w => pgHeld'[v] = pgHeld[v]
    BY <1>0, <1>2 DEF PgHeartbeat
  <2>6. pgHeld' # pgHeld => pgLease.token = pgClaim.token
    BY <1>2 DEF PgHeartbeat
  <2>7. OnlyNewestRenewed
    BY <2>1, <2>2, <2>5, <2>6 DEF OnlyNewestRenewed, Renewed
  <2> QED
    BY <2>1, <2>2, <2>4, <2>5, <2>7 DEF DispatchInv, PgDispatchTypeOK
<1>3. CASE PgRelease(w)
  <2>1. /\ pgClaim' \in [token : Nat, live : BOOLEAN, acknowledged : BOOLEAN]
        /\ pgClaim'.token \in {0, pgClaim.token}
        /\ pgLease' \in PgRow /\ pgLease'.token \in {0, pgLease.token}
        /\ pgJob' = pgJob
    BY <1>0, <1>3 DEF PgRelease, PgRow, NoPgRow
  <2>2. /\ pgHeld' \in [PgWorkers -> [token : Nat, renewals : 0..1]]
        /\ pgHeld'[w].token = 0 /\ pgHeld[w].token # 0
        /\ \A v \in PgWorkers : v # w => pgHeld'[v] = pgHeld[v]
    BY <1>0, <1>3 DEF PgRelease
  <2>3. \A v \in PgWorkers : pgHeld'[v].token <= pgJob'.attempt
    BY <1>0, <2>1, <2>2 DEF DispatchInv
  <2>4. OnlyNewestRenewed
    BY <2>2 DEF OnlyNewestRenewed, Renewed
  <2> QED
    BY <2>1, <2>2, <2>3, <2>4 DEF DispatchInv, PgDispatchTypeOK
<1> QED
  BY <1>1, <1>2, <1>3

(* A change of the rows outside the dispatcher keeps its invariant.        *)
LEMMA RowsStep ==
  ASSUME DispatchInv, PgRowsChange, UNCHANGED pgHeld
  PROVE  DispatchInv' /\ OnlyNewestRenewed
<1>0. /\ pgJob \in [queued : BOOLEAN, attempt : 0..MaxPgAttempt] /\ pgLease \in PgRow
      /\ pgClaim \in [token : Nat, live : BOOLEAN, acknowledged : BOOLEAN]
  BY DEF DispatchInv, PgDispatchTypeOK
<1>1. /\ pgJob' \in [queued : BOOLEAN, attempt : 0..MaxPgAttempt]
      /\ pgJob'.attempt = pgJob.attempt
  BY <1>0 DEF PgRowsChange
<1>2. pgLease' \in PgRow /\ pgLease'.token \in {0, pgLease.token}
  <2>1. pgLease' = pgLease \/ pgLease' = [pgLease EXCEPT !.live = FALSE] \/ pgLease' = NoPgRow
    BY DEF PgRowsChange
  <2>2. CASE pgLease' = pgLease
    BY <1>0, <2>2
  <2>3. CASE pgLease' = [pgLease EXCEPT !.live = FALSE]
    BY <1>0, <2>3 DEF PgRow
  <2>4. CASE pgLease' = NoPgRow
    BY <2>4 DEF PgRow, NoPgRow
  <2> QED
    BY <2>1, <2>2, <2>3, <2>4
<1>3. /\ pgClaim' \in [token : Nat, live : BOOLEAN, acknowledged : BOOLEAN]
      /\ pgClaim'.token = pgClaim.token
  BY <1>0 DEF PgRowsChange
<1> QED
  BY <1>1, <1>2, <1>3 DEF DispatchInv, PgDispatchTypeOK, OnlyNewestRenewed, Renewed

-----------------------------------------------------------------------------
(* The inductive invariant of store and dispatcher together.               *)
PgInv == PgStoreInv /\ DispatchInv

(* It holds at the start.                                                  *)
LEMMA PgInitInv == StoreInit /\ PgStoreInit /\ PgDispatchInit => PgInv
<1> SUFFICES ASSUME StoreInit, PgStoreInit, PgDispatchInit PROVE PgInv
  OBVIOUS
<1>1. NoTransaction \in Transaction /\ NoTransaction.pc = "idle"
  BY DEF NoTransaction, Transaction, PgOp
<1>2. \A c \in PgClients : tx[c] = NoTransaction
  BY DEF PgStoreInit
<1>3. PgStoreTypeOK
  BY <1>1, PgAssumption DEF PgStoreInit, PgStoreTypeOK
<1>4. LocksDisjoint
  BY <1>1, <1>2 DEF LocksDisjoint, Locked
<1>5. \A c \in PgClients :
        SnapshotHolds(c) /\ LockKeepsRow(c) /\ CallStands(c) /\ ChecksHold(c)
  BY <1>1, <1>2 DEF SnapshotHolds, LockKeepsRow, CallStands, ChecksHold
<1>6. PgStoreInv
  BY <1>3, <1>4, <1>5, StoreInitInv DEF PgStoreInv
<1>7. DispatchInv
  BY PgAssumption DEF PgDispatchInit, DispatchInv, PgDispatchTypeOK, PgRow, NoPgRow
<1> QED
  BY <1>6, <1>7 DEF PgInv

(* A step that leaves the rows of one half alone keeps its invariant.      *)
LEMMA PgHalfStutters ==
  /\ PgStoreInv /\ UNCHANGED <<storeVars, pgStoreVars>> => PgStoreInv'
  /\ DispatchInv /\ UNCHANGED pgDispatchVars => DispatchInv'
<1>1. ASSUME PgStoreInv, UNCHANGED <<storeVars, pgStoreVars>> PROVE PgStoreInv'
  <2>1. rec' = rec /\ log' = log /\ ckpt' = ckpt /\ tx' = tx /\ pgBegun' = pgBegun
    BY <1>1 DEF storeVars, pgStoreVars
  <2>2. StoreInv'
    BY <1>1, <2>1 DEF PgStoreInv, StoreInv, StoreTypeOK, LeaseIsCurrent, CheckpointBehindLog
  <2>3. PgStoreTypeOK' /\ LocksDisjoint'
    BY <1>1, <2>1 DEF PgStoreInv, PgStoreTypeOK, LocksDisjoint, Locked
  <2>4. ASSUME NEW c \in PgClients
        PROVE SnapshotHolds(c)' /\ LockKeepsRow(c)' /\ CallStands(c)'
    BY <1>1, <2>1 DEF PgStoreInv, SnapshotHolds, LockKeepsRow, CallStands
  <2>5. ASSUME NEW c \in PgClients PROVE ChecksHold(c)'
    BY <1>1, <2>1 DEF PgStoreInv, ChecksHold, PgAccepts, UpdateAccepts, LeaseHeld,
       Renewable, AppendAccepts, SaveAccepts
  <2> QED
    BY <2>2, <2>3, <2>4, <2>5 DEF PgStoreInv
<1>2. ASSUME DispatchInv, UNCHANGED pgDispatchVars PROVE DispatchInv'
  BY <1>2 DEF DispatchInv, PgDispatchTypeOK, pgDispatchVars
<1> QED
  BY <1>1, <1>2

(* Every step keeps it, is a step of the abstract store or leaves it       *)
(* alone, and renews only the newest generation.                           *)
LEMMA PgStepInv ==
  PgInv /\ [PgNext]_<<storeVars, pgStoreVars, pgDispatchVars>> =>
    PgInv' /\ [StoreNext]_storeVars /\ [OnlyNewestRenewed]_pgDispatchVars
<1> SUFFICES ASSUME PgInv, [PgNext]_<<storeVars, pgStoreVars, pgDispatchVars>>
             PROVE  PgInv' /\ [StoreNext]_storeVars /\ [OnlyNewestRenewed]_pgDispatchVars
  OBVIOUS
<1>1. CASE PgStoreNext /\ UNCHANGED pgDispatchVars
  BY <1>1, PgStoreStep, PgHalfStutters DEF PgInv
<1>2. CASE PgDispatchNext /\ UNCHANGED <<storeVars, pgStoreVars>>
  <2>1. DispatchInv' /\ OnlyNewestRenewed
    BY <1>2, ClaimStep, HolderStep, RowsStep DEF PgInv, PgDispatchNext
  <2> QED
    BY <1>2, <2>1, PgHalfStutters DEF PgInv
<1>3. CASE UNCHANGED <<storeVars, pgStoreVars, pgDispatchVars>>
  BY <1>3, PgHalfStutters DEF PgInv
<1> QED
  BY <1>1, <1>2, <1>3 DEF PgNext

(* Concurrent transactions of several processes commit what SqlJobStore's  *)
(* one connection could have, step for step, and a worker is told that its *)
(* claim was renewed only while it is the newest (pg-store.ts,             *)
(* pg-dispatcher.ts heartbeat).                                            *)
THEOREM PostgresServes == PgSpec => PgServes
<1>1. PgSpec => [][StoreNext]_storeVars /\ [][OnlyNewestRenewed]_pgDispatchVars
  BY PgInitInv, PgStepInv, PTL DEF PgSpec
<1> QED
  BY <1>1 DEF PgServes, PgImplementsStore, RenewedIsNewest

(* What is proved of the store carries over: on PostgreSQL too the lease   *)
(* belongs to the newest generation or to nobody, and the checkpoint never *)
(* points past the log (pg-store.ts acquireLease, saveCheckpoint).         *)
THEOREM PostgresRowsSafe == PgSpec => [](LeaseIsCurrent /\ CheckpointBehindLog)
<1>1. PgInv => LeaseIsCurrent /\ CheckpointBehindLog
  BY DEF PgInv, PgStoreInv, StoreInv
<1> QED
  BY <1>1, PgInitInv, PgStepInv, PTL DEF PgSpec

-----------------------------------------------------------------------------
(***************************************************************************)
(* Collection is safe for every number of snapshots, of overlapping passes *)
(* and of failures.  GcInv is inductive.  Its heart is StaleIsDead: what a *)
(* pass has in its decision, however old that is, is a snapshot that no    *)
(* capture can bring back, because a capture works on the newest snapshot  *)
(* only (InCapture) and nothing has replaced that one yet (Replacing).     *)
(***************************************************************************)
(* Snapshots no recovery can choose any more: none of these states is ever *)
(* left for a usable one.                                                  *)
Dead == {s \in Snapshot : life[s].state \in {"failed", "superseded", "deleted"}}

(* What driver d still holds of the decision it took.                      *)
Holds(d) == gc[d].todo \cup
            (IF gc[d].pc \in {"await", "gone", "kept"} THEN {gc[d].cur} ELSE {})

(* Snapshots not taken yet have left no trace.                             *)
Untaken ==
  \A s \in Snapshot : s > cap.cur =>
    /\ life[s].state = "none" /\ life[s].by = 0
    /\ attempt[s] = "none" /\ s \notin image

(* The snapshot being captured is stored, and nothing has replaced it.     *)
InCapture ==
  cap.pc # "idle" =>
    /\ cap.cur \in image
    /\ life[cap.cur].by = 0
    /\ cap.cur \in Snapshot
    /\ life[cap.cur].state \in {"none", "created", "active"}
    /\ cap.pc \in {"registered", "activated"} => life[cap.cur].state # "none"
    /\ cap.pc = "activated" => life[cap.cur].state = "active"

(* A replaced snapshot is out of use, its replacement is a later one, and  *)
(* there is an active one as long as any was replaced.                     *)
Replacing ==
  /\ \A s \in Snapshot : life[s].by # 0 =>
       life[s].by > s /\ life[s].state \in {"superseded", "deleted"}
  /\ (\E s \in Snapshot : life[s].by # 0) => \E t \in Snapshot : life[t].state = "active"

(* Whatever a pass still holds from its listing can no longer become live, *)
(* however long ago the listing was read.                                  *)
StaleIsDead == \A d \in Drivers : Holds(d) \subseteq Dead

(* Every snapshot a recovery may choose has its image in the artifact      *)
(* store.                                                                  *)
LiveIsStored == Live \subseteq image

(* Between a pass's delete call and its row update the image is already    *)
(* absent.                                                                 *)
GoneIsGone == \A d \in Drivers : gc[d].pc = "gone" => gc[d].cur \notin image

(* The inductive invariant of capture, supersession and collection.        *)
GcInv ==
  /\ GcTypeOK /\ Untaken /\ InCapture /\ Replacing
  /\ StaleIsDead /\ LiveIsStored /\ GoneIsGone /\ DeletedIsGone

(* The invariant is what the promise needs.                                *)
LEMMA GcInvSafe == GcInv => SnapshotsSafe
<1> SUFFICES ASSUME GcInv PROVE SnapshotsSafe
  OBVIOUS
<1> USE DEF GcInv
<1>1. UsableImageKept
  BY DEF UsableImageKept, LiveIsStored, StaleIsDead, Holds, Dead, Live
<1>2. RecoveryArtifactKept
  BY DEF RecoveryArtifactKept, Replacing, LiveIsStored, Live
<1>3. DeletedIsGone
  OBVIOUS
<1> QED
  BY <1>1, <1>2, <1>3 DEF SnapshotsSafe

(* The invariant holds before anything was captured.                       *)
LEMMA GcInitInv == GcInit => GcInv
<1> SUFFICES ASSUME GcInit PROVE GcInv
  OBVIOUS
<1> USE GcAssumption DEF GcInit, Snapshot
<1>1. GcTypeOK
  BY DEF GcTypeOK, LifeState, AttemptState, CapPc, GcPc, IdleGc
<1>2. Untaken /\ InCapture /\ Replacing
  BY DEF Untaken, InCapture, Replacing
<1>3. StaleIsDead /\ GoneIsGone
  BY DEF StaleIsDead, GoneIsGone, Holds, IdleGc
<1>4. LiveIsStored /\ DeletedIsGone
  BY DEF LiveIsStored, DeletedIsGone, Live
<1> QED
  BY <1>1, <1>2, <1>3, <1>4 DEF GcInv

-----------------------------------------------------------------------------
(* Capturing.  The snapshot that is taken is a new number, so nothing any  *)
(* pass holds, and no attempt row, is about it.                            *)
LEMMA TakeKeepsInv == GcInv /\ TakeSnapshot => GcInv'
<1> SUFFICES ASSUME GcInv, TakeSnapshot PROVE GcInv'
  OBVIOUS
<1> USE GcAssumption DEF GcInv, TakeSnapshot, Snapshot
<1>a. cap.cur \in Nat /\ cap.cur + 1 \in 1..N /\ cap.cur + 1 > cap.cur
  BY DEF GcTypeOK
<1>1. GcTypeOK'
  <2>1. cap' \in [pc : CapPc, cur : 0..N]
    BY <1>a DEF CapPc
  <2>2. image' \subseteq 1..N
    BY <1>a DEF GcTypeOK
  <2> QED
    BY <2>1, <2>2 DEF GcTypeOK
<1>2. Untaken' /\ InCapture'
  BY <1>a DEF GcTypeOK, Untaken, InCapture
<1>3. Replacing'
  BY DEF Replacing
<1>4. StaleIsDead'
  BY DEF StaleIsDead, Holds, Dead
<1>5. LiveIsStored'
  BY DEF LiveIsStored, Live
<1>6. GoneIsGone'
  <2>1. cap.cur + 1 \notin Dead
    BY <1>a DEF Untaken, Dead
  <2>2. \A d \in Drivers : gc[d].pc = "gone" => gc[d].cur \in Dead
    BY DEF StaleIsDead, Holds
  <2> QED
    BY <2>1, <2>2 DEF GoneIsGone
<1>7. DeletedIsGone'
  BY SMTT(20) DEF GcTypeOK, Untaken, DeletedIsGone
<1> QED
  BY <1>1, <1>2, <1>3, <1>4, <1>5, <1>6, <1>7

(* A step that only moves the captured snapshot to "created" or "active",  *)
(* or to "failed" when it was never active, disturbs no decision.          *)
LEMMA CaptureKeepsInv ==
  GcInv /\ (RecordSnapshotCreated \/ ActivateSnapshot \/ MarkFailed) => GcInv'
<1> SUFFICES ASSUME GcInv, RecordSnapshotCreated \/ ActivateSnapshot \/ MarkFailed
             PROVE GcInv'
  OBVIOUS
<1>1. PICK state \in {"created", "active", "failed"} :
        /\ life' = [life EXCEPT ![cap.cur].state = state]
        /\ life[cap.cur].state = "active" => state = "active"
        /\ cap.pc # "idle"
        /\ \/ state = "failed" /\ cap' = [cap EXCEPT !.pc = "idle"]
           \/ /\ state = "created" /\ life[cap.cur].state = "none"
              /\ cap' = [cap EXCEPT !.pc = "registered"]
           \/ /\ state = "active"
              /\ \E pc \in {"registered", "activated"} : cap' = [cap EXCEPT !.pc = pc]
        /\ UNCHANGED <<attempt, image, gc, failures, crashes>>
  BY DEF RecordSnapshotCreated, ActivateSnapshot, MarkFailed, SetState, GcInv, InCapture
<1>2. cap.cur \in Snapshot /\ cap.cur \in image /\ life[cap.cur].by = 0
  BY <1>1 DEF GcInv, InCapture
<1>3. cap'.cur = cap.cur /\ cap'.pc \in {"idle", "registered", "activated"}
  BY <1>1 DEF GcInv, GcTypeOK
<1>4. \A s \in Snapshot : /\ life'[s].by = life[s].by
                          /\ s # cap.cur => life'[s] = life[s]
                          /\ s = cap.cur => life'[s].state = state
  BY <1>1, <1>2 DEF GcInv, GcTypeOK
<1>5. GcTypeOK'
  BY <1>1, <1>2 DEF GcInv, GcTypeOK, LifeState, CapPc
<1>6. Untaken' /\ InCapture'
  BY <1>1, <1>2, <1>3, <1>4 DEF GcInv, GcTypeOK, Untaken, InCapture, Snapshot
<1>7. Replacing'
  BY <1>1, <1>2, <1>4 DEF GcInv, Replacing
<1>8. StaleIsDead'
  BY <1>1, <1>2, <1>4 DEF GcInv, StaleIsDead, Holds, Dead, InCapture
<1>9. LiveIsStored' /\ GoneIsGone' /\ DeletedIsGone'
  BY <1>1, <1>2, <1>4 DEF GcInv, LiveIsStored, Live, GoneIsGone, DeletedIsGone
<1> QED
  BY <1>5, <1>6, <1>7, <1>8, <1>9 DEF GcInv

(* supersedeSnapshot: only behind an active replacement.                   *)
LEMMA SupersedeKeepsInv == GcInv /\ SupersedeSnapshot => GcInv'
<1> SUFFICES ASSUME GcInv, SupersedeSnapshot PROVE GcInv'
  OBVIOUS
<1> USE DEF GcInv
<1>1. CASE Live \subseteq {cap.cur}
  <2>1. cap' = [cap EXCEPT !.pc = "idle"]
        /\ UNCHANGED <<life, attempt, image, gc, failures, crashes>>
    BY <1>1 DEF SupersedeSnapshot
  <2> QED
    BY <2>1
    DEF GcTypeOK, CapPc, Untaken, InCapture, Replacing, StaleIsDead, Holds, Dead,
        LiveIsStored, Live, GoneIsGone, DeletedIsGone
<1>2. CASE ~(Live \subseteq {cap.cur})
  <2>1. PICK old \in Live \ {cap.cur} :
          life' = [life EXCEPT ![old].state = "superseded", ![old].by = cap.cur]
    BY <1>2 DEF SupersedeSnapshot
  <2>2. cap.pc = "activated" /\ UNCHANGED <<cap, attempt, image, gc, failures, crashes>>
    BY <1>2 DEF SupersedeSnapshot
  <2>3. old \in Snapshot /\ old < cap.cur /\ cap.cur \in Snapshot /\ old \in image
    BY <2>1, <2>2 DEF Live, Untaken, GcTypeOK, InCapture, LiveIsStored, Snapshot
  <2>4. \A s \in Snapshot :
          /\ s # old => life'[s] = life[s]
          /\ s = old => life'[s].state = "superseded" /\ life'[s].by = cap.cur
    BY <2>1, <2>3 DEF GcTypeOK
  <2>5. GcTypeOK'
    BY <2>1, <2>2, <2>3, ZenonT(40) DEF GcTypeOK, LifeState
  <2>6. Untaken' /\ InCapture'
    BY <2>2, <2>3, <2>4 DEF Untaken, InCapture, Snapshot
  <2>7. Replacing'
    BY <2>2, <2>3, <2>4 DEF Replacing, InCapture, Snapshot
  <2>8. StaleIsDead' /\ LiveIsStored' /\ GoneIsGone' /\ DeletedIsGone'
    BY <2>2, <2>3, <2>4
    DEF StaleIsDead, Holds, Dead, LiveIsStored, Live, GoneIsGone, DeletedIsGone
  <2> QED
    BY <2>5, <2>6, <2>7, <2>8
<1> QED
  BY <1>1, <1>2

(* A capture that dies is taken up again; rows expire; an operator marks.  *)
LEMMA OutsideKeepsInv ==
  ASSUME GcInv, CaptureCrash \/ \E s \in Snapshot : Expire(s) \/ MarkEligible(s)
  PROVE  GcInv'
<1> USE DEF GcInv
<1>1. CASE CaptureCrash
  <2>1. GcTypeOK'
    BY <1>1, GcAssumption DEF CaptureCrash, GcTypeOK, CapPc
  <2>2. Untaken' /\ InCapture'
    BY <1>1 DEF CaptureCrash, GcTypeOK, Untaken, InCapture
  <2> QED
    BY <1>1, <2>1, <2>2
    DEF CaptureCrash, Replacing, StaleIsDead, Holds, Dead, LiveIsStored, Live,
        GoneIsGone, DeletedIsGone
<1>2. ASSUME NEW s \in Snapshot, Expire(s) PROVE GcInv'
  <2>1. \A t \in Snapshot : life'[t].state = life[t].state /\ life'[t].by = life[t].by
    BY <1>2 DEF Expire, GcTypeOK
  <2>2. UNCHANGED <<attempt, image, cap, gc, failures, crashes>>
    BY <1>2 DEF Expire
  <2>3. GcTypeOK'
    BY <1>2 DEF Expire, GcTypeOK
  <2> QED
    BY <2>1, <2>2, <2>3
    DEF Untaken, InCapture, Replacing, StaleIsDead, Holds, Dead, LiveIsStored, Live,
        GoneIsGone, DeletedIsGone
<1>3. ASSUME NEW s \in Snapshot, MarkEligible(s) PROVE GcInv'
  <2>1. attempt' = [attempt EXCEPT ![s] = "eligible"] /\ life[s].state # "none"
        /\ UNCHANGED <<life, image, cap, gc, failures, crashes>>
    BY <1>3 DEF MarkEligible, SetAttempt
  <2>2. GcTypeOK' /\ Untaken' /\ DeletedIsGone'
    BY <2>1 DEF GcTypeOK, AttemptState, Untaken, DeletedIsGone
  <2> QED
    BY <2>1, <2>2
    DEF InCapture, Replacing, StaleIsDead, Holds, Dead, LiveIsStored, Live, GoneIsGone
<1> QED
  BY <1>1, <1>2, <1>3

-----------------------------------------------------------------------------
(* A pass.  Its decision holds only dead snapshots when it is taken, and   *)
(* the dead stay dead.                                                     *)
LEMMA DeletableIsDead == GcInv => Deletable \subseteq Dead
  BY DEF GcInv, Deletable, Dead, HasActiveReplacement, Replacing

(* A collection pass, and its crash at any point, keep the invariant.      *)
LEMMA PassKeepsInv ==
  ASSUME GcInv, NEW d \in Drivers, Pass(d) \/ GcCrash(d)
  PROVE  GcInv'
<1> USE DEF GcInv, SetGc
<1>1. CASE StartGc(d) \/ GcCrash(d)
  <2>1. UNCHANGED <<life, attempt, image, cap, failures>>
    BY <1>1 DEF StartGc, GcCrash
  <2>2. PICK g \in [pc : {"idle", "next"}, todo : SUBSET Dead, cur : {0}] :
          gc' = [gc EXCEPT ![d] = g]
    BY <1>1, DeletableIsDead DEF StartGc, GcCrash, IdleGc
  <2>3. GcTypeOK'
    BY <1>1, <2>1, <2>2, GcAssumption DEF GcTypeOK, GcPc, Dead, StartGc, GcCrash
  <2>4. StaleIsDead' /\ GoneIsGone'
    BY <2>1, <2>2 DEF GcTypeOK, StaleIsDead, GoneIsGone, Holds, Dead
  <2> QED
    BY <2>1, <2>3, <2>4
    DEF Untaken, InCapture, Replacing, LiveIsStored, Live, DeletedIsGone
<1>2. CASE ClaimNext(d)
  <2>1. UNCHANGED <<life, image, cap, failures, crashes>> /\ gc[d].pc = "next"
    BY <1>2 DEF ClaimNext
  <2>2. gc[d].todo \subseteq Dead /\ Dead \subseteq Snapshot
    BY DEF StaleIsDead, Holds, Dead
  <2>3. PICK g \in [pc : {"idle", "next", "await"}, todo : SUBSET Dead, cur : 0..N] :
          /\ gc' = [gc EXCEPT ![d] = g]
          /\ g.pc = "await" => g.cur \in Dead
          /\ \/ UNCHANGED attempt
             \/ \E s \in Dead : /\ attempt[s] # "deleted"
                               /\ attempt' = [attempt EXCEPT ![s] = "deleting"]
    <3>1. CASE gc[d].todo = {}
      <4>1. IdleGc \in [pc : {"idle", "next", "await"}, todo : SUBSET Dead, cur : 0..N]
        BY GcAssumption DEF IdleGc
      <4> QED
        BY <1>2, <3>1, <4>1 DEF ClaimNext, IdleGc
    <3>2. CASE gc[d].todo # {}
      <4>1. PICK s \in gc[d].todo :
              LET rest == [gc[d] EXCEPT !.todo = gc[d].todo \ {s}] IN
              IF attempt[s] = "deleted"
              THEN SetGc(d, rest) /\ UNCHANGED attempt
              ELSE /\ SetGc(d, [rest EXCEPT !.pc = "await", !.cur = s])
                   /\ SetAttempt(s, "deleting")
        BY <1>2, <3>2 DEF ClaimNext
      <4>2. gc[d] \in [pc : GcPc, todo : SUBSET Snapshot, cur : 0..N]
            /\ gc[d].pc = "next" /\ s \in Dead /\ s \in 0..N
        BY <2>1, <2>2, GcAssumption DEF GcTypeOK, Snapshot
      <4>3. CASE attempt[s] = "deleted"
        <5> DEFINE g == [gc[d] EXCEPT !.todo = gc[d].todo \ {s}]
        <5>1. g \in [pc : {"idle", "next", "await"}, todo : SUBSET Dead, cur : 0..N]
              /\ g.pc = "next"
          BY <2>2, <4>2 DEF GcPc
        <5> QED
          BY <4>1, <4>3, <5>1
      <4>4. CASE attempt[s] # "deleted"
        <5> DEFINE g == [gc[d] EXCEPT !.todo = gc[d].todo \ {s}, !.pc = "await", !.cur = s]
        <5>1. g \in [pc : {"idle", "next", "await"}, todo : SUBSET Dead, cur : 0..N]
              /\ g.cur = s
          BY <2>2, <4>2 DEF GcPc
        <5>2. gc' = [gc EXCEPT ![d] = g] /\ attempt' = [attempt EXCEPT ![s] = "deleting"]
          BY <4>1, <4>4, <4>2 DEF SetAttempt
        <5> HIDE DEF g
        <5> QED
          BY <4>2, <4>4, <5>1, <5>2
      <4> QED
        BY <4>3, <4>4
    <3> QED
      BY <3>1, <3>2
  <2>4. GcTypeOK'
    BY <2>1, <2>2, <2>3 DEF GcTypeOK, GcPc, AttemptState
  <2>5. StaleIsDead' /\ GoneIsGone'
    BY <2>1, <2>3 DEF GcTypeOK, StaleIsDead, GoneIsGone, Holds, Dead
  <2>6. Untaken' /\ DeletedIsGone'
    BY <2>1, <2>2, <2>3 DEF GcTypeOK, Untaken, DeletedIsGone, Dead
  <2> QED
    BY <2>1, <2>4, <2>5, <2>6 DEF InCapture, Replacing, LiveIsStored, Live
<1>3. CASE ProviderDeletes(d)
  <2>1. /\ gc[d].pc = "await" /\ gc[d].cur \in Dead
        /\ image' = image \ {gc[d].cur}
        /\ gc' = [gc EXCEPT ![d] = [gc[d] EXCEPT !.pc = "gone"]]
        /\ UNCHANGED <<life, attempt, cap, failures, crashes>>
    BY <1>3 DEF ProviderDeletes, StaleIsDead, Holds
  <2>2. GcTypeOK'
    BY <2>1 DEF GcTypeOK, GcPc
  <2>3. Untaken' /\ InCapture' /\ Replacing' /\ LiveIsStored' /\ DeletedIsGone'
    BY <2>1 DEF Untaken, InCapture, Replacing, LiveIsStored, Live, Dead, DeletedIsGone
  <2>4. StaleIsDead' /\ GoneIsGone'
    BY <2>1 DEF GcTypeOK, StaleIsDead, GoneIsGone, Holds, Dead
  <2> QED
    BY <2>2, <2>3, <2>4
<1>4. CASE ProviderFails(d)
  <2>1. /\ gc[d].pc = "await"
        /\ gc' = [gc EXCEPT ![d] = [gc[d] EXCEPT !.pc = "kept"]]
        /\ failures < MaxFailures /\ failures' = failures + 1
        /\ UNCHANGED <<life, attempt, image, cap, crashes>>
    BY <1>4 DEF ProviderFails
  <2>2. GcTypeOK'
    BY <2>1, GcAssumption DEF GcTypeOK, GcPc
  <2>3. StaleIsDead' /\ GoneIsGone'
    BY <2>1 DEF GcTypeOK, StaleIsDead, GoneIsGone, Holds, Dead
  <2> QED
    BY <2>1, <2>2, <2>3 DEF Untaken, InCapture, Replacing, LiveIsStored, Live, DeletedIsGone
<1>5. CASE ConfirmDeleted(d) \/ RecordFailure(d)
  <2> DEFINE s == gc[d].cur
  <2>1. /\ gc[d].pc \in {"gone", "kept"} /\ s \in Dead /\ s \in Snapshot
        /\ gc' = [gc EXCEPT ![d] = [gc[d] EXCEPT !.pc = "next", !.cur = 0]]
        /\ UNCHANGED <<image, cap, failures, crashes>>
    BY <1>5 DEF ConfirmDeleted, RecordFailure, StaleIsDead, Holds, Dead
  <2>2. \/ /\ s \notin image
           /\ life' = [life EXCEPT ![s].state = "deleted"]
           /\ attempt' = [attempt EXCEPT ![s] = "deleted"]
        \/ life' = life /\ attempt' = [attempt EXCEPT ![s] = "failed"]
    BY <1>5 DEF ConfirmDeleted, RecordFailure, SetState, SetAttempt, GoneIsGone
  <2> HIDE DEF s
  <2>3. \A t \in Snapshot :
          /\ life'[t].by = life[t].by
          /\ \/ life'[t].state = life[t].state
             \/ t = s /\ life'[t].state = "deleted"
          /\ t # s => attempt'[t] = attempt[t]
    BY <2>1, <2>2 DEF GcTypeOK
  <2>4. GcTypeOK'
    <3>1. life' \in [Snapshot -> [state : LifeState, by : 0..N, expired : BOOLEAN]]
      BY <2>1, <2>2, SMTT(20) DEF GcTypeOK, LifeState
    <3>2. attempt' \in [Snapshot -> AttemptState]
      BY <2>1, <2>2 DEF GcTypeOK, AttemptState
    <3>3. gc' \in [Drivers -> [pc : GcPc, todo : SUBSET Snapshot, cur : 0..N]]
      <4>1. 0 \in 0..N /\ "next" \in GcPc
        BY GcAssumption DEF GcPc
      <4>2. [gc[d] EXCEPT !.pc = "next", !.cur = 0]
              \in [pc : GcPc, todo : SUBSET Snapshot, cur : 0..N]
        BY <4>1 DEF GcTypeOK
      <4> QED
        BY <2>1, <4>2 DEF GcTypeOK
    <3> QED
      BY <2>1, <3>1, <3>2, <3>3 DEF GcTypeOK
  <2>5. Untaken' /\ InCapture' /\ Replacing'
    BY <2>1, <2>3 DEF Untaken, InCapture, Replacing, Dead
  <2>6. StaleIsDead' /\ GoneIsGone'
    BY <2>1, <2>3 DEF GcTypeOK, StaleIsDead, GoneIsGone, Holds, Dead
  <2>7. LiveIsStored' /\ DeletedIsGone'
    BY <2>1, <2>2, <2>3 DEF GcTypeOK, LiveIsStored, Live, DeletedIsGone
  <2> QED
    BY <2>4, <2>5, <2>6, <2>7
<1> QED
  BY <1>1, <1>2, <1>3, <1>4, <1>5 DEF Pass

(* Every step of the lifecycle keeps the invariant.                        *)
LEMMA GcStepInv == GcInv /\ [GcNext]_gcVars => GcInv'
<1> SUFFICES ASSUME GcInv, [GcNext]_gcVars PROVE GcInv'
  OBVIOUS
<1>1. CASE Capture
  BY <1>1, TakeKeepsInv, CaptureKeepsInv, SupersedeKeepsInv DEF Capture
<1>2. CASE CaptureCrash \/ \E s \in Snapshot : Expire(s) \/ MarkEligible(s)
  BY <1>2, OutsideKeepsInv
<1>3. CASE \E d \in Drivers : Pass(d) \/ GcCrash(d)
  BY <1>3, PassKeepsInv
<1>4. CASE UNCHANGED gcVars
  BY <1>4
  DEF gcVars, GcInv, GcTypeOK, Untaken, InCapture, Replacing, StaleIsDead, Holds, Dead,
      LiveIsStored, Live, GoneIsGone, DeletedIsGone
<1> QED
  BY <1>1, <1>2, <1>3, <1>4 DEF GcNext

(* The rows of the registry and of the attempts keep their types.          *)
THEOREM GcTypeCorrect == GcSpec => []GcTypeOK
<1>1. GcInv => GcTypeOK
  BY DEF GcInv
<1> QED
  BY <1>1, GcInitInv, GcStepInv, PTL DEF GcSpec

(* Collection never takes what recovery needs, and never calls deleted     *)
(* what the provider still holds, for any number of snapshots and of       *)
(* overlapping passes with stale decisions (snapshot-gc.ts runGc,          *)
(* distributed-store.ts gcDecision).                                       *)
THEOREM CollectionSafe == GcSpec => []SnapshotsSafe
  BY GcInvSafe, GcInitInv, GcStepInv, PTL DEF GcSpec

-----------------------------------------------------------------------------
(***************************************************************************)
(* The file store, for every number of callers, attempts, lines and        *)
(* deaths, proved of FileInit and FileNext.                                *)
(*                                                                         *)
(* What is safe is not inductive: it says nothing of the call between two  *)
(* writes.  FileInv adds that the one call inside the mutex has what       *)
(* job.json says, and where the log stands against lastSeq before and      *)
(* after the append.                                                       *)
(***************************************************************************)
(* job.json, and what a call keeps of it.                                  *)
FileRow == [attempt : 0..MaxFileAttempt, holder : FileCalls \cup {"none"}, live : BOOLEAN, lastSeq : Nat]
FileCallRow ==
  [pc : {"idle", "lock", "write", "commit"}, op : FileOps \cup {"none"}, attempt : Int,
   read : FileRow \cup {0}, seqs : {0}]

(* Call c is between reading job.json and its last write.                  *)
Inside(c) == fileCall[c].pc \in {"write", "commit"}
Committing == \E c \in FileCalls : fileCall[c].pc = "commit"

(* One call is inside the mutex, and job.json is as it read it.            *)
MutexHeld ==
  /\ \A c, d \in FileCalls : Inside(c) /\ Inside(d) => c = d
  /\ \A c \in FileCalls : Inside(c) =>
       /\ fileCall[c].read = fileJob
       /\ fileCall[c].pc = "commit" => fileCall[c].op = "append"
       /\ fileCall[c].op = "acquire" => fileJob.attempt < MaxFileAttempt

(* Attempts beyond the file's were never granted.                          *)
GrantsBehind ==
  \A a \in 1..MaxFileAttempt : granted[a] <= 1 /\ (a > fileJob.attempt => granted[a] = 0)

(* Without a cut append line i has seq i, and the log is job.json's or one *)
(* line longer.                                                            *)
LinesCounted ==
  ~cut => /\ \A i \in DOMAIN fileLog : fileLog[i] = i
          /\ Len(fileLog) = IF Committing THEN fileJob.lastSeq + 1 ELSE fileJob.lastSeq

(* A log without a spoiled line has every seq that job.json counts, and    *)
(* the one about to be counted.                                            *)
CountedStored ==
  /\ answered \subseteq 1..fileJob.lastSeq
  /\ fileCkpt \in 0..fileJob.lastSeq
  /\ Spoiled \notin Listed => /\ 1..fileJob.lastSeq \subseteq Listed
                              /\ Committing => fileJob.lastSeq + 1 \in Listed

(* The inductive invariant of the file store.                              *)
FileInv ==
  /\ fileJob \in FileRow
  /\ fileLog \in Seq(Int)
  /\ fileCall \in [FileCalls -> FileCallRow]
  /\ granted \in [1..MaxFileAttempt -> Nat]
  /\ cut \in BOOLEAN
  /\ MutexHeld /\ GrantsBehind /\ LinesCounted /\ CountedStored

-----------------------------------------------------------------------------
(* A line appended: no seq is lost, and it is there unless it spoiled the  *)
(* line before.                                                            *)
LEMMA LineAppended ==
  ASSUME NEW lines \in Seq(Int), NEW seq \in Int
  PROVE  /\ WithLine(lines, seq) \in Seq(Int)
         /\ \A x \in Int : x \in ToSet(lines) /\ x # CutShort => x \in ToSet(WithLine(lines, seq))
         /\ Spoiled \in ToSet(WithLine(lines, seq)) \/ seq \in ToSet(WithLine(lines, seq))
         /\ CutShort \notin ToSet(lines) => WithLine(lines, seq) = Append(lines, seq)
<1>1. CASE lines # << >> /\ Last(lines) = CutShort
  <2>. DEFINE n == Len(lines)
              f == Front(lines)
              w == Append(f, Spoiled)
  <2>1. WithLine(lines, seq) = w BY <1>1 DEF WithLine
  <2>2. n \in Nat /\ n > 0 /\ DOMAIN lines = 1..n BY <1>1
  <2>3. f \in Seq(Int) /\ Len(f) = n - 1 /\ \A i \in 1..(n - 1) : f[i] = lines[i]
    BY <2>2 DEF Front
  <2>4. Spoiled \in Int /\ lines[n] = CutShort BY <1>1 DEF Spoiled, Last
  <2>5. w \in Seq(Int) /\ Len(w) = n /\ w[n] = Spoiled /\ \A i \in 1..(n - 1) : w[i] = lines[i]
    <3>. HIDE DEF f, n
    <3>1. w \in Seq(Int) /\ Len(w) = n BY <2>2, <2>3, <2>4
    <3>2. w[n] = Spoiled BY <2>2, <2>3, <2>4
    <3>3. \A i \in 1..(n - 1) : w[i] = f[i] BY <2>2, <2>3, <2>4
    <3>. QED BY <2>3, <3>1, <3>2, <3>3
  <2>. HIDE DEF w
  <2>6. Spoiled \in ToSet(w) BY <2>2, <2>5 DEF ToSet
  <2>7. \A x \in Int : x \in ToSet(lines) /\ x # CutShort => x \in ToSet(w)
    <3>1. SUFFICES ASSUME NEW x \in Int, x \in ToSet(lines), x # CutShort PROVE x \in ToSet(w) OBVIOUS
    <3>2. PICK i \in 1..n : lines[i] = x BY <2>2, <3>1 DEF ToSet
    <3>3. i \in 1..(n - 1) BY <2>2, <2>4, <3>1, <3>2
    <3>4. i \in DOMAIN w /\ w[i] = x BY <2>2, <2>5, <3>2, <3>3
    <3>. QED BY <3>4 DEF ToSet
  <2>8. CutShort \in ToSet(lines) BY <2>2, <2>4 DEF ToSet
  <2>. QED BY <2>1, <2>5, <2>6, <2>7, <2>8
<1>2. CASE ~(lines # << >> /\ Last(lines) = CutShort)
  <2>. DEFINE w == Append(lines, seq)
  <2>1. WithLine(lines, seq) = w BY <1>2 DEF WithLine
  <2>2. w \in Seq(Int) /\ Len(w) = Len(lines) + 1 /\ w[Len(lines) + 1] = seq /\ Len(lines) \in Nat
        /\ \A i \in 1..Len(lines) : w[i] = lines[i]
    OBVIOUS
  <2>3. DOMAIN w = 1..(Len(lines) + 1) /\ DOMAIN lines = 1..Len(lines) BY <2>2
  <2>. HIDE DEF w
  <2>4. seq \in ToSet(w) BY <2>2, <2>3 DEF ToSet
  <2>5. \A x \in Int : x \in ToSet(lines) => x \in ToSet(w) BY <2>2, <2>3 DEF ToSet
  <2>. QED BY <2>1, <2>2, <2>4, <2>5 DEF w
<1>. QED BY <1>1, <1>2

(* A step of call c, which becomes r, outside the mutex.                   *)
LEMMA FileQuiet ==
  ASSUME FileInv, NEW c \in FileCalls, NEW r \in FileCallRow, r.pc \in {"idle", "lock"},
         fileCall' = [fileCall EXCEPT ![c] = r], fileCall[c].pc # "commit",
         UNCHANGED <<fileJob, fileLog, granted, answered, cut>>,
         fileCkpt' \in 0..fileJob.lastSeq
  PROVE  FileInv'
<1>1. fileCall' \in [FileCalls -> FileCallRow] /\ \A d \in FileCalls : fileCall'[d] = IF d = c THEN r ELSE fileCall[d]
  BY DEF FileInv
<1>2. \A d \in FileCalls : Inside(d)' => Inside(d) /\ fileCall'[d] = fileCall[d] BY <1>1 DEF Inside
<1>3. MutexHeld' BY <1>2 DEF FileInv, MutexHeld
<1>4. Committing' = Committing BY <1>1 DEF Committing
<1>5. GrantsBehind' BY DEF FileInv, GrantsBehind
<1>6. LinesCounted' BY <1>4 DEF FileInv, LinesCounted
<1>7. CountedStored' BY <1>4 DEF FileInv, CountedStored, Listed
<1>. QED BY <1>1, <1>3, <1>5, <1>6, <1>7 DEF FileInv

(* The idle call.                                                          *)
LEMMA IdleFileCall == NoFileCall \in FileCallRow /\ NoFileCall.pc = "idle"
BY DEF NoFileCall, FileCallRow

(* A request asks for the mutex.                                           *)
LEMMA RequestKeeps ==
  ASSUME FileInv, NEW c \in FileCalls, NEW op \in FileOps, NEW presented \in 0..MaxFileAttempt,
         Request(c, op, presented)
  PROVE  FileInv'
<1>. DEFINE r == [NoFileCall EXCEPT !.pc = "lock", !.op = op, !.attempt = presented]
<1>1. r \in FileCallRow /\ r.pc = "lock"
  <2>1. presented \in Int BY FileAssumption
  <2>. DEFINE base == NoFileCall
  <2>2. base \in FileCallRow BY IdleFileCall
  <2>. HIDE DEF base
  <2>3. [base EXCEPT !.pc = "lock", !.op = op, !.attempt = presented] \in FileCallRow
        /\ [base EXCEPT !.pc = "lock", !.op = op, !.attempt = presented].pc = "lock"
    BY <2>1, <2>2 DEF FileCallRow
  <2>. QED BY <2>3 DEF base
<1>2. fileCall' = [fileCall EXCEPT ![c] = r] /\ fileCall[c].pc = "idle"
  BY DEF Request, FileAt
<1>3. fileCkpt' \in 0..fileJob.lastSeq BY DEF FileInv, CountedStored, Request
<1>. HIDE DEF r
<1>. QED BY <1>1, <1>2, <1>3, FileQuiet DEF Request

(* Inside the mutex a call may do what the file it read allows.            *)
LEMMA ReadJobFileKeeps ==
  ASSUME FileInv, NEW c \in FileCalls, ReadJobFile(c)
  PROVE  FileInv'
<1>1. fileCall \in [FileCalls -> FileCallRow] /\ fileCall[c].pc = "lock" BY DEF FileInv, ReadJobFile, FileAt
<1>2. UNCHANGED <<fileJob, fileLog, fileCkpt, granted, answered, cut>> BY DEF ReadJobFile
<1>3. fileCkpt \in 0..fileJob.lastSeq BY DEF FileInv, CountedStored
<1>4. CASE ~MayProceed(c, fileJob)
  <2>1. fileCall' = [fileCall EXCEPT ![c] = NoFileCall] BY <1>4 DEF ReadJobFile, Return
  <2>. QED BY <1>1, <1>2, <1>3, <2>1, IdleFileCall, FileQuiet
<1>5. CASE MayProceed(c, fileJob)
  <2>. DEFINE r == [fileCall[c] EXCEPT !.pc = "write", !.read = fileJob]
  <2>1. fileCall' = [fileCall EXCEPT ![c] = r] BY <1>1, <1>5 DEF ReadJobFile
  <2>2. r \in FileCallRow /\ r.pc = "write" /\ r.read = fileJob /\ r.op = fileCall[c].op
    BY <1>1 DEF FileInv, FileCallRow
  <2>. HIDE DEF r
  <2>3. fileCall' \in [FileCalls -> FileCallRow] /\ \A d \in FileCalls : fileCall'[d] = IF d = c THEN r ELSE fileCall[d]
    BY <1>1, <2>1, <2>2
  <2>4. \A d \in FileCalls : Inside(d)' => d = c
    BY <2>3 DEF ReadJobFile, MutexFree, Inside
  <2>5. fileCall[c].op = "acquire" => fileJob.attempt < MaxFileAttempt
    BY <1>5 DEF MayProceed
  <2>6. MutexHeld' BY <1>2, <2>2, <2>3, <2>4, <2>5 DEF MutexHeld
  <2>7. Committing' = FALSE /\ Committing = FALSE
    BY <1>1, <2>2, <2>3 DEF Committing, ReadJobFile, MutexFree
  <2>8. GrantsBehind' BY <1>2 DEF FileInv, GrantsBehind
  <2>9. LinesCounted' BY <1>2, <2>7 DEF FileInv, LinesCounted
  <2>10. CountedStored' BY <1>2, <2>7 DEF FileInv, CountedStored, Listed
  <2>. QED BY <1>2, <2>3, <2>6, <2>8, <2>9, <2>10 DEF FileInv
<1>. QED BY <1>4, <1>5

(* job.json is replaced by what was read and the patch: an acquire takes   *)
(* an attempt nobody was granted.                                          *)
LEMMA WriteJobFileKeeps ==
  ASSUME FileInv, NEW c \in FileCalls, WriteJobFile(c)
  PROVE  FileInv'
<1>1. fileCall \in [FileCalls -> FileCallRow] /\ fileCall[c].pc = "write" /\ Inside(c)
  BY DEF FileInv, WriteJobFile, FileAt, Inside
<1>2. fileCall[c].read = fileJob /\ (fileCall[c].op = "acquire" => fileJob.attempt < MaxFileAttempt)
  BY <1>1 DEF FileInv, MutexHeld
<1>3. fileCall' = [fileCall EXCEPT ![c] = NoFileCall] BY DEF WriteJobFile, Return
<1>4. fileCall' \in [FileCalls -> FileCallRow] /\ \A d \in FileCalls : fileCall'[d] = IF d = c THEN NoFileCall ELSE fileCall[d]
  BY <1>1, <1>3, IdleFileCall
<1>5. \A d \in FileCalls : ~Inside(d)'
  BY <1>1, <1>4, IdleFileCall DEF FileInv, MutexHeld, Inside
<1>6. MutexHeld' BY <1>5 DEF MutexHeld
<1>7. Committing' = FALSE /\ Committing = FALSE
  BY <1>1, <1>5 DEF Committing, Inside, FileInv, MutexHeld
<1>. DEFINE n == fileJob.attempt + 1
<1>8. fileJob.attempt \in Nat /\ fileJob \in FileRow /\ MaxFileAttempt \in Nat BY FileAssumption DEF FileInv, FileRow
<1>9. /\ fileJob' \in FileRow /\ fileJob'.lastSeq = fileJob.lastSeq
      /\ fileCall[c].op = "acquire" => fileJob'.attempt = n
      /\ fileCall[c].op # "acquire" => fileJob'.attempt = fileJob.attempt
  <2>1. CASE fileCall[c].op = "acquire"
    <3>1. n \in 0..MaxFileAttempt BY <1>2, <1>8, <2>1
    <3>2. fileJob' = [fileJob EXCEPT !.attempt = n, !.holder = c, !.live = TRUE]
      BY <1>2, <1>8, <2>1 DEF WriteJobFile, NextFile, FileRow
    <3>. HIDE DEF n
    <3>. QED BY <1>8, <2>1, <3>1, <3>2 DEF FileRow
  <2>2. CASE fileCall[c].op = "release"
    <3>1. fileJob' = [fileJob EXCEPT !.holder = "none", !.live = FALSE]
      BY <1>2, <2>2 DEF WriteJobFile, NextFile
    <3>. QED BY <1>8, <2>2, <3>1 DEF FileRow
  <2>3. CASE fileCall[c].op = "update"
    <3>1. fileJob' = fileJob BY <1>2, <2>3 DEF WriteJobFile, NextFile
    <3>. QED BY <1>8, <2>3, <3>1
  <2>. QED BY <2>1, <2>2, <2>3 DEF WriteJobFile
<1>10. granted' \in [1..MaxFileAttempt -> Nat] /\ GrantsBehind'
  <2>1. granted \in [1..MaxFileAttempt -> Nat] BY DEF FileInv
  <2>2. CASE fileCall[c].op = "acquire"
    <3>1. n \in 1..MaxFileAttempt /\ n > fileJob.attempt BY <1>2, <1>8, <2>2
    <3>2. granted' = [granted EXCEPT ![n] = granted[n] + 1] BY <1>2, <2>2 DEF WriteJobFile
    <3>3. granted[n] = 0 BY <3>1 DEF FileInv, GrantsBehind
    <3>4. granted' \in [1..MaxFileAttempt -> Nat] /\ \A a \in 1..MaxFileAttempt : granted'[a] = IF a = n THEN 1 ELSE granted[a]
      BY <2>1, <3>1, <3>2, <3>3
    <3>5. \A a \in 1..MaxFileAttempt : a > fileJob'.attempt => a > fileJob.attempt /\ a # n
      BY <1>8, <1>9, <2>2
    <3>. QED BY <3>4, <3>5 DEF FileInv, GrantsBehind
  <2>3. CASE fileCall[c].op # "acquire"
    <3>1. granted' = granted BY <2>3 DEF WriteJobFile
    <3>. QED BY <1>9, <2>1, <2>3, <3>1 DEF FileInv, GrantsBehind
  <2>. QED BY <2>2, <2>3
<1>11. UNCHANGED <<fileLog, fileCkpt, answered, cut>> BY DEF WriteJobFile
<1>12. LinesCounted' BY <1>7, <1>9, <1>11 DEF FileInv, LinesCounted
<1>13. CountedStored' BY <1>7, <1>9, <1>11 DEF FileInv, CountedStored, Listed
<1>. QED BY <1>4, <1>6, <1>9, <1>10, <1>11, <1>12, <1>13 DEF FileInv

(* The line of an append: job.json does not count it yet.                  *)
LEMMA AppendFileKeeps ==
  ASSUME FileInv, NEW c \in FileCalls, AppendFile(c)
  PROVE  FileInv'
<1>1. fileCall \in [FileCalls -> FileCallRow] /\ fileCall[c].pc = "write" /\ Inside(c)
  BY DEF FileInv, AppendFile, FileAt, Inside
<1>2. fileCall[c].read = fileJob /\ fileCall[c].op = "append"
  BY <1>1 DEF FileInv, MutexHeld, AppendFile
<1>3. UNCHANGED <<fileJob, fileCkpt, granted, answered, cut>> BY DEF AppendFile
<1>. DEFINE seq == fileJob.lastSeq + 1
            r == [fileCall[c] EXCEPT !.pc = "commit"]
<1>4. fileLog' = WithLine(fileLog, seq) BY <1>2 DEF AppendFile
<1>5. fileCall' = [fileCall EXCEPT ![c] = r] BY <1>1 DEF AppendFile, FileGo
<1>6. r \in FileCallRow /\ r.pc = "commit" /\ r.op = "append" /\ r.read = fileJob
  BY <1>1, <1>2 DEF FileCallRow
<1>7. fileJob.lastSeq \in Nat /\ seq \in Nat /\ seq > 0 BY DEF FileInv, FileRow
<1>. HIDE DEF r
<1>8. fileCall' \in [FileCalls -> FileCallRow] /\ \A d \in FileCalls : fileCall'[d] = IF d = c THEN r ELSE fileCall[d]
  BY <1>1, <1>5, <1>6
<1>9. \A d \in FileCalls : Inside(d)' => d = c
  BY <1>1, <1>8 DEF FileInv, MutexHeld, Inside
<1>10. MutexHeld' BY <1>3, <1>6, <1>8, <1>9 DEF MutexHeld
<1>11. Committing' = TRUE /\ Committing = FALSE
  BY <1>1, <1>6, <1>8 DEF Committing, Inside, FileInv, MutexHeld
<1>12. GrantsBehind' BY <1>3 DEF FileInv, GrantsBehind
<1>13. /\ fileLog' \in Seq(Int)
       /\ \A x \in Int : x \in Listed /\ x # CutShort => x \in Listed'
       /\ Spoiled \in Listed' \/ seq \in Listed'
       /\ CutShort \notin Listed => fileLog' = Append(fileLog, seq)
  <2>1. fileLog \in Seq(Int) BY DEF FileInv
  <2>. HIDE DEF seq
  <2>2. seq \in Int BY <1>7
  <2>. DEFINE w == WithLine(fileLog, seq)
  <2>3. /\ w \in Seq(Int)
        /\ \A x \in Int : x \in ToSet(fileLog) /\ x # CutShort => x \in ToSet(w)
        /\ Spoiled \in ToSet(w) \/ seq \in ToSet(w)
        /\ CutShort \notin ToSet(fileLog) => w = Append(fileLog, seq)
    BY <2>1, <2>2, LineAppended, Zenon
  <2>4. fileLog' = w BY <1>4
  <2>. HIDE DEF w
  <2>5. Listed = ToSet(fileLog) /\ Listed' = ToSet(w) BY <2>4 DEF Listed
  <2>. QED BY <2>3, <2>4, <2>5
<1>14. LinesCounted'
  <2>1. SUFFICES ASSUME ~cut
                 PROVE  (\A i \in DOMAIN fileLog' : fileLog'[i] = i) /\ Len(fileLog') = seq
    BY <1>3, <1>11 DEF LinesCounted
  <2>2. (\A i \in DOMAIN fileLog : fileLog[i] = i) /\ Len(fileLog) = fileJob.lastSeq /\ fileLog \in Seq(Int)
    BY <1>11, <2>1 DEF FileInv, LinesCounted
  <2>3. CutShort \notin Listed BY <2>2 DEF Listed, ToSet, CutShort
  <2>4. fileLog' = Append(fileLog, seq) BY <1>13, <2>3
  <2>. QED BY <1>7, <2>2, <2>4
<1>15. CountedStored'
  <2>1. Spoiled \in Int /\ Spoiled # CutShort BY DEF Spoiled, CutShort
  <2>2. \A x \in 1..fileJob.lastSeq : x \in Int /\ x # CutShort BY DEF CutShort
  <2>3. Spoiled \notin Listed' => Spoiled \notin Listed BY <1>13, <2>1
  <2>4. Spoiled \notin Listed' => 1..fileJob.lastSeq \subseteq Listed'
    BY <1>13, <2>2, <2>3 DEF FileInv, CountedStored
  <2>. QED BY <1>3, <1>13, <2>4 DEF FileInv, CountedStored
<1>. QED BY <1>3, <1>8, <1>10, <1>12, <1>13, <1>14, <1>15 DEF FileInv

(* job.json counts the line that the log has.                              *)
LEMMA CommitSeqKeeps ==
  ASSUME FileInv, NEW c \in FileCalls, CommitSeq(c)
  PROVE  FileInv'
<1>1. fileCall \in [FileCalls -> FileCallRow] /\ fileCall[c].pc = "commit" /\ Inside(c)
  BY DEF FileInv, CommitSeq, FileAt, Inside
<1>2. fileCall[c].read = fileJob BY <1>1 DEF FileInv, MutexHeld
<1>3. fileCall' = [fileCall EXCEPT ![c] = NoFileCall] BY DEF CommitSeq, Return
<1>4. fileCall' \in [FileCalls -> FileCallRow] /\ \A d \in FileCalls : fileCall'[d] = IF d = c THEN NoFileCall ELSE fileCall[d]
  BY <1>1, <1>3, IdleFileCall
<1>5. \A d \in FileCalls : ~Inside(d)'
  BY <1>1, <1>4, IdleFileCall DEF FileInv, MutexHeld, Inside
<1>6. MutexHeld' BY <1>5 DEF MutexHeld
<1>7. Committing' = FALSE /\ Committing = TRUE BY <1>1, <1>5 DEF Committing, Inside
<1>8. fileJob \in FileRow /\ fileJob.lastSeq \in Nat BY DEF FileInv, FileRow
<1>. DEFINE n == fileJob.lastSeq + 1
<1>9. n \in Nat /\ n > 0 /\ 1..n = (1..fileJob.lastSeq) \cup {n} /\ 0..fileJob.lastSeq \subseteq 0..n BY <1>8
<1>10. fileJob' = [fileJob EXCEPT !.lastSeq = n] BY <1>2 DEF CommitSeq, Counted
<1>11. answered' = answered \cup {n} BY <1>2 DEF CommitSeq
<1>12. UNCHANGED <<fileLog, fileCkpt, granted, cut>> BY DEF CommitSeq
<1>13. fileJob' \in FileRow /\ fileJob'.lastSeq = n /\ fileJob'.attempt = fileJob.attempt
  <2>. HIDE DEF n
  <2>. QED BY <1>8, <1>9, <1>10 DEF FileRow
<1>14. GrantsBehind' BY <1>12, <1>13 DEF FileInv, GrantsBehind
<1>15. LinesCounted' BY <1>7, <1>12, <1>13 DEF FileInv, LinesCounted
<1>16. CountedStored'
  <2>1. Spoiled \notin Listed => 1..fileJob.lastSeq \subseteq Listed /\ n \in Listed
    BY <1>7 DEF FileInv, CountedStored
  <2>2. answered \subseteq 1..fileJob.lastSeq /\ fileCkpt \in 0..fileJob.lastSeq
    BY DEF FileInv, CountedStored
  <2>. HIDE DEF n
  <2>. QED BY <1>7, <1>9, <1>11, <1>12, <1>13, <2>1, <2>2 DEF CountedStored, Listed
<1>. QED BY <1>4, <1>6, <1>12, <1>13, <1>14, <1>15, <1>16 DEF FileInv

(* A checkpoint names no seq that job.json does not count.                 *)
LEMMA SaveFileCheckpointKeeps ==
  ASSUME FileInv, NEW c \in FileCalls, NEW seq, SaveFileCheckpoint(c, seq),
         seq \in {fileCall[d].read.lastSeq + e : d \in {d \in {c} : FileAt(d, "write")}, e \in {0, 1}}
  PROVE  FileInv'
<1>1. fileCall[c].pc = "write" /\ Inside(c) BY DEF SaveFileCheckpoint, FileAt, Inside
<1>2. fileCall[c].read = fileJob /\ fileJob.lastSeq \in Nat BY <1>1 DEF FileInv, MutexHeld, FileRow
<1>3. seq \in Nat BY <1>2
<1>4. fileCkpt' \in 0..fileJob.lastSeq
  BY <1>2, <1>3 DEF SaveFileCheckpoint, FileInv, CountedStored
<1>5. fileCall' = [fileCall EXCEPT ![c] = NoFileCall] BY DEF SaveFileCheckpoint, Return
<1>. QED BY <1>1, <1>4, <1>5, IdleFileCall, FileQuiet DEF SaveFileCheckpoint

(* A lease lapses between the calls.                                       *)
LEMMA FileLeaseLapsesKeeps ==
  ASSUME FileInv, FileLeaseLapses
  PROVE  FileInv'
<1>1. fileJob \in FileRow /\ fileJob' = [fileJob EXCEPT !.live = FALSE] BY DEF FileInv, FileLeaseLapses
<1>2. fileJob' \in FileRow /\ fileJob'.lastSeq = fileJob.lastSeq /\ fileJob'.attempt = fileJob.attempt
  BY <1>1 DEF FileRow
<1>3. UNCHANGED <<fileLog, fileCkpt, fileCall, granted, answered, cut>> BY DEF FileLeaseLapses
<1>4. \A c \in FileCalls : ~Inside(c)' BY <1>3 DEF FileLeaseLapses, Inside
<1>5. MutexHeld' BY <1>4 DEF MutexHeld
<1>6. Committing' = Committing BY <1>3 DEF Committing
<1>7. GrantsBehind' BY <1>2, <1>3 DEF FileInv, GrantsBehind
<1>8. LinesCounted' BY <1>2, <1>3, <1>6 DEF FileInv, LinesCounted
<1>9. CountedStored' BY <1>2, <1>3, <1>6 DEF FileInv, CountedStored, Listed
<1>. QED BY <1>2, <1>3, <1>5, <1>7, <1>8, <1>9 DEF FileInv

(* A death leaves a whole line nobody counts, or the start of one: cut.    *)
LEMMA FileCrashKeeps ==
  ASSUME FileInv, FileCrash
  PROVE  FileInv'
<1>1. UNCHANGED <<fileJob, fileCkpt, granted, answered>> BY DEF FileCrash
<1>2. fileCall' \in [FileCalls -> FileCallRow] /\ \A d \in FileCalls : fileCall'[d] = NoFileCall
  BY IdleFileCall DEF FileCrash
<1>3. \A d \in FileCalls : ~Inside(d)' BY <1>2, IdleFileCall DEF Inside
<1>4. MutexHeld' BY <1>3 DEF MutexHeld
<1>5. Committing' = FALSE BY <1>3 DEF Committing, Inside
<1>6. GrantsBehind' BY <1>1 DEF FileInv, GrantsBehind
<1>7. fileLog \in Seq(Int) /\ cut \in BOOLEAN BY DEF FileInv
<1>8. CASE fileLog' = fileLog /\ cut' = (cut \/ Committing)
  <2>1. LinesCounted' BY <1>1, <1>5, <1>8 DEF FileInv, LinesCounted
  <2>2. CountedStored' BY <1>1, <1>5, <1>8 DEF FileInv, CountedStored, Listed
  <2>3. cut' \in BOOLEAN BY <1>7, <1>8 DEF Committing
  <2>4. fileLog' \in Seq(Int) BY <1>7, <1>8
  <2>5. fileJob' \in FileRow /\ granted' \in [1..MaxFileAttempt -> Nat] BY <1>1 DEF FileInv
  <2>. QED BY <1>2, <1>4, <1>6, <2>1, <2>2, <2>3, <2>4, <2>5 DEF FileInv
<1>9. CASE fileLog' = WithLine(fileLog, CutShort) /\ cut' = TRUE
  <2>1. LinesCounted' BY <1>9 DEF LinesCounted
  <2>2. CutShort \in Int /\ Spoiled \in Int /\ Spoiled # CutShort BY DEF Spoiled, CutShort
  <2>3. fileLog' \in Seq(Int) /\ \A x \in Int : x \in Listed /\ x # CutShort => x \in Listed'
    BY <1>7, <1>9, <2>2, LineAppended DEF Listed
  <2>4. \A x \in 1..fileJob.lastSeq : x \in Int /\ x # CutShort BY DEF CutShort
  <2>5. Spoiled \notin Listed' => 1..fileJob.lastSeq \subseteq Listed'
    BY <2>2, <2>3, <2>4 DEF FileInv, CountedStored
  <2>6. CountedStored' BY <1>1, <1>5, <2>5 DEF FileInv, CountedStored
  <2>7. fileJob' \in FileRow /\ granted' \in [1..MaxFileAttempt -> Nat] BY <1>1 DEF FileInv
  <2>. QED BY <1>2, <1>4, <1>6, <1>9, <2>1, <2>3, <2>6, <2>7 DEF FileInv
<1>10. CASE \E c \in FileCalls : FileAt(c, "write") /\ fileCall[c].op = "append"
  <2>1. PICK c \in FileCalls : fileCall[c].pc = "write" BY <1>10 DEF FileAt
  <2>2. Committing = FALSE BY <2>1 DEF Committing, Inside, FileInv, MutexHeld
  <2>3. (fileLog' = fileLog /\ cut' = cut) \/ (fileLog' = WithLine(fileLog, CutShort) /\ cut' = TRUE)
    BY <1>10 DEF FileCrash
  <2>4. cut = (cut \/ Committing) BY <1>7, <2>2
  <2>. QED BY <1>8, <1>9, <2>3, <2>4
<1>11. CASE ~\E c \in FileCalls : FileAt(c, "write") /\ fileCall[c].op = "append"
  <2>1. fileLog' = fileLog /\ cut' = (cut \/ \E c \in FileCalls : FileAt(c, "commit")) BY <1>11 DEF FileCrash
  <2>. QED BY <1>8, <2>1 DEF FileAt, Committing
<1>. QED BY <1>10, <1>11

-----------------------------------------------------------------------------
(* A new job's files.                                                      *)
LEMMA FileInitKeeps == FileInit => FileInv
<1>. SUFFICES ASSUME FileInit PROVE FileInv OBVIOUS
<1>1. MaxFileAttempt \in Nat BY FileAssumption
<1>2. fileJob \in FileRow /\ fileJob.lastSeq = 0 /\ fileJob.attempt = 0 BY <1>1 DEF FileInit, FileRow
<1>3. fileLog \in Seq(Int) /\ Len(fileLog) = 0 /\ DOMAIN fileLog = {} BY DEF FileInit
<1>4. fileCall \in [FileCalls -> FileCallRow] /\ \A c \in FileCalls : fileCall[c].pc = "idle"
  BY IdleFileCall DEF FileInit
<1>5. MutexHeld /\ Committing = FALSE BY <1>4 DEF MutexHeld, Inside, Committing
<1>6. granted \in [1..MaxFileAttempt -> Nat] /\ GrantsBehind BY DEF FileInit, GrantsBehind
<1>7. LinesCounted BY <1>2, <1>3, <1>5 DEF LinesCounted
<1>8. CountedStored BY <1>2, <1>5 DEF FileInit, CountedStored
<1>9. cut \in BOOLEAN BY DEF FileInit
<1>. QED BY <1>2, <1>3, <1>4, <1>5, <1>6, <1>7, <1>8, <1>9 DEF FileInv

(* Every step of the file store keeps the invariant.                       *)
LEMMA FileStepKeeps == FileInv /\ [FileNext]_fileVars => FileInv'
<1>. SUFFICES ASSUME FileInv, [FileNext]_fileVars PROVE FileInv' OBVIOUS
<1>1. ASSUME NEW c \in FileCalls, NEW op \in FileOps, NEW presented \in 0..MaxFileAttempt, Request(c, op, presented)
      PROVE  FileInv'
  BY <1>1, RequestKeeps
<1>2. ASSUME NEW c \in FileCalls, ReadJobFile(c) PROVE FileInv' BY <1>2, ReadJobFileKeeps
<1>3. ASSUME NEW c \in FileCalls, WriteJobFile(c) PROVE FileInv' BY <1>3, WriteJobFileKeeps
<1>4. ASSUME NEW c \in FileCalls, AppendFile(c) PROVE FileInv' BY <1>4, AppendFileKeeps
<1>5. ASSUME NEW c \in FileCalls, CommitSeq(c) PROVE FileInv' BY <1>5, CommitSeqKeeps
<1>6. ASSUME NEW c \in FileCalls,
             NEW seq \in {fileCall[d].read.lastSeq + e : d \in {d \in {c} : FileAt(d, "write")}, e \in {0, 1}},
             SaveFileCheckpoint(c, seq)
      PROVE  FileInv'
  BY <1>6, SaveFileCheckpointKeeps
<1>7. CASE FileLeaseLapses BY <1>7, FileLeaseLapsesKeeps
<1>8. CASE FileCrash BY <1>8, FileCrashKeeps
<1>9. CASE UNCHANGED fileVars
  <2>1. UNCHANGED <<fileJob, fileLog, fileCkpt, fileCall, granted, answered, cut>> BY <1>9 DEF fileVars
  <2>. QED BY <2>1 DEF FileInv, FileRow, FileCallRow, MutexHeld, GrantsBehind, LinesCounted, CountedStored,
                      Inside, Committing, Listed
<1>. QED BY <1>1, <1>2, <1>3, <1>4, <1>5, <1>6, <1>7, <1>8, <1>9 DEF FileNext

(* The invariant is what the store answers for.                            *)
LEMMA FileInvSafe == FileInv => FileStoreSafe
<1>. SUFFICES ASSUME FileInv PROVE FileStoreSafe OBVIOUS
<1>1. GrantedOnce BY DEF FileInv, GrantsBehind, GrantedOnce
<1>2. MonotonicUnlessCut
  <2>1. SUFFICES ASSUME ~cut
                 PROVE  Readable /\ \A i, j \in DOMAIN fileLog : i < j => fileLog[i] < fileLog[j]
    BY DEF MonotonicUnlessCut
  <2>2. fileLog \in Seq(Int) /\ \A i \in DOMAIN fileLog : fileLog[i] = i
    BY <2>1 DEF FileInv, LinesCounted
  <2>3. Readable BY <2>2 DEF Readable, Listed, ToSet, CutShort, Spoiled
  <2>. QED BY <2>2, <2>3
<1>3. NothingAnsweredLost
  <2>1. fileJob.lastSeq \in Nat BY DEF FileInv, FileRow
  <2>2. Readable => Spoiled \notin Listed BY DEF Readable
  <2>. QED BY <2>1, <2>2 DEF FileInv, CountedStored, NothingAnsweredLost
<1>. QED BY <1>1, <1>2, <1>3 DEF FileStoreSafe

(* At any moment the job's files are as the mutex and the order of the     *)
(* writes leave them: one call is inside the mutex and has what job.json   *)
(* says, the log has every event that job.json counts, and an attempt is   *)
(* granted at most once (withLock, acquireLease, appendEvents).            *)
THEOREM FileKept == FileInit /\ [][FileNext]_fileVars => []FileInv
BY FileInitKeeps, FileStepKeeps, PTL

(* What the file store answers for holds however its callers overlap and   *)
(* wherever the process dies: an attempt is granted once, the seqs rise    *)
(* unless an append was cut, and while the log can be read nothing that    *)
(* was answered for is missing (withLock, appendEvents, saveCheckpoint).   *)
THEOREM FileStoreAlwaysSafe == FileInit /\ [][FileNext]_fileVars => []FileStoreSafe
BY FileKept, FileInvSafe, PTL
=============================================================================
