----------------------------- MODULE PgJobStore -----------------------------
(***************************************************************************)
(* PostgresJobStore and PostgresDispatcher (packages/vaulltcore-store-sql  *)
(* pg-store.ts, pg-dispatcher.ts).  Here a store method is a transaction   *)
(* of several statements on its own connection: BEGIN takes a snapshot,    *)
(* readRow takes the job's row lock, the writes take theirs, COMMIT makes  *)
(* them visible at once.  Of PostgreSQL the model keeps what the code      *)
(* leans on: a row lock makes others wait, and a transaction that locks or *)
(* writes a row another one committed since its snapshot is rolled back.   *)
(* (SERIALIZABLE rolls back more; nothing here depends on that.)           *)
(*                                                                         *)
(* rec, log and ckpt of JobStore are the committed rows, so what is stated *)
(* of the SQLite store is stated of this one, and a COMMIT must be a step  *)
(* of JobStore.                                                            *)
(***************************************************************************)
EXTENDS JobStore

CONSTANTS
  PgClients,     \* connections
  MaxPgTx,       \* bound: transactions begun
  MaxPgAttempt,  \* bound: ownership generations
  PgWorkers      \* workers that claim through the dispatcher

ASSUME PgAssumption ==
  /\ MaxPgTx \in Nat /\ MaxPgAttempt \in Nat
  /\ MaxPgAttempt <= MaxAttempt
  /\ Event # {}

VARIABLES
  tx,            \* the transaction open on each connection
  pgBegun,
  pgJob,         \* the columns of the jobs row the dispatcher looks at
  pgLease,       \* job_leases: token and whether it is live
  pgClaim,       \* dispatch_claims: likewise, with acknowledged
  pgHeld         \* the claim each worker holds, and how often it was renewed

pgStoreVars == <<tx, pgBegun>>
pgDispatchVars == <<pgJob, pgLease, pgClaim, pgHeld>>

Tables == {"jobs", "job_leases", "job_events", "job_checkpoints"}
PgOp == {"none", "status", "close", "acquire", "renew", "release", "append",
         "appendUnfenced", "save"}

(* g is the attempt or the token the caller passes, seq its watermark;     *)
(* attempt and lastSeq are the jobs row as the snapshot shows it.          *)
Transaction == [pc : {"idle", "begun", "locked", "written"}, op : PgOp, g : Nat, seq : Nat,
                attempt : Nat, lastSeq : Nat, changed : SUBSET Tables]
NoTransaction == [pc |-> "idle", op |-> "none", g |-> 0, seq |-> 0,
                  attempt |-> 0, lastSeq |-> 0, changed |-> {}]

PgStoreTypeOK ==
  /\ tx \in [PgClients -> Transaction]
  /\ pgBegun \in 0..MaxPgTx

PgStoreInit ==
  /\ tx = [c \in PgClients |-> NoTransaction]
  /\ pgBegun = 0

-----------------------------------------------------------------------------
(* Mutant: saveCheckpoint reads the row without FOR UPDATE.                *)
LocksJobButSave(op) == op \notin {"release", "save"}

(* readRow(client, jobId, true): all of them but releaseLease.             *)
LocksJob(op) == op # "release"

Writes(op) ==
  CASE op = "status" -> {"jobs"}
    [] op \in {"close", "acquire"} -> {"jobs", "job_leases"}
    [] op \in {"renew", "release"} -> {"job_leases"}
    [] op \in {"append", "appendUnfenced"} -> {"jobs", "job_events"}
    [] op = "save" -> {"job_checkpoints"}

(* The rows whose locks a connection holds.                                *)
Locked(c) ==
  (IF tx[c].pc \in {"locked", "written"} /\ LocksJob(tx[c].op) THEN {"jobs"} ELSE {})
  \cup (IF tx[c].pc = "written" THEN Writes(tx[c].op) ELSE {})

Free(c, rows) == \A d \in PgClients \ {c} : Locked(d) \cap rows = {}

PgStep(c, pc) == tx' = [tx EXCEPT ![c].pc = pc] /\ UNCHANGED <<storeVars, pgBegun>>

(* BEGIN ISOLATION LEVEL SERIALIZABLE.                                     *)
Begin(c, op, g, seq) ==
  /\ tx[c].pc = "idle" /\ pgBegun < MaxPgTx
  /\ op = "acquire" => rec.attempt < MaxPgAttempt
  /\ tx' = [tx EXCEPT ![c] = [pc |-> "begun", op |-> op, g |-> g, seq |-> seq,
              attempt |-> rec.attempt, lastSeq |-> Len(log), changed |-> {}]]
  /\ pgBegun' = pgBegun + 1
  /\ UNCHANGED storeVars

(* readRow: waits for the row's lock.  Whoever finds the row changed since *)
(* its snapshot cannot serialize and takes RollBack.                       *)
ReadRow(c) ==
  /\ tx[c].pc = "begun"
  /\ LocksJob(tx[c].op) => Free(c, {"jobs"}) /\ "jobs" \notin tx[c].changed
  /\ PgStep(c, "locked")

(* What each method checks, on the rows its snapshot shows.  The lease row *)
(* is read from the committed state: a transaction that acts on it also    *)
(* writes it, and is refused if it has changed.                            *)
UpdateAccepts(t) == t.attempt = t.g
AppendAccepts(t) == t.op = "append" => t.attempt = t.g
SaveAccepts(t) == t.attempt = t.g /\ t.seq <= t.lastSeq

PgAccepts(t) ==
  /\ t.op \in {"status", "close"} => UpdateAccepts(t)
  /\ t.op = "acquire" => ~LeaseHeld
  /\ t.op = "renew" => Renewable(t.g)
  /\ AppendAccepts(t)
  /\ t.op = "save" => SaveAccepts(t)

(* The writes wait for their rows.                                         *)
PgWrite(c) ==
  /\ tx[c].pc = "locked"
  /\ PgAccepts(tx[c])
  /\ Free(c, Writes(tx[c].op)) /\ Writes(tx[c].op) \cap tx[c].changed = {}
  /\ PgStep(c, "written")

(* The rows as the transaction leaves them.                                *)
UpdatedRow(t) == IF t.op = "status" THEN WithStatus("running") ELSE WithStatusNoLease("suspended")

AcquiredRow(t) == [rec EXCEPT !.attempt = t.attempt + 1,
                              !.lease = [token |-> t.attempt + 1, live |-> TRUE]]

ReleasedRow(t) == IF rec.lease.token = t.g THEN [rec EXCEPT !.lease = NoLease] ELSE rec

(* The events are inserted behind the last_seq the snapshot shows.         *)
AppendedLog(t) == SubSeq(log, 1, t.lastSeq) \o <<CHOOSE e \in Event : TRUE>>

SavedCheckpoint(t) == [attempt |-> t.g, lastEventSeq |-> t.seq, body |-> ckpt.body]

PgCommit(c) ==
  LET t == tx[c] IN
  /\ t.pc = "written"
  /\ rec' = CASE t.op \in {"status", "close"} -> UpdatedRow(t)
              [] t.op = "acquire" -> AcquiredRow(t)
              [] t.op = "release" -> ReleasedRow(t)
              [] OTHER -> rec
  /\ log' = IF t.op \in {"append", "appendUnfenced"} THEN AppendedLog(t) ELSE log
  /\ ckpt' = IF t.op = "save" THEN SavedCheckpoint(t) ELSE ckpt
  /\ tx' = [d \in PgClients |->
             IF d = c THEN NoTransaction
             ELSE IF tx[d].pc = "idle" THEN tx[d]
             ELSE [tx[d] EXCEPT !.changed = @ \cup Writes(t.op)]]
  /\ UNCHANGED pgBegun

(* A check fails, the transaction cannot serialize, the process dies or    *)
(* the connection is lost.                                                 *)
RollBack(c) ==
  /\ tx[c].pc # "idle"
  /\ tx' = [tx EXCEPT ![c] = NoTransaction]
  /\ UNCHANGED <<storeVars, pgBegun>>

(* A lease being renewed counts as renewed: whoever would look at its      *)
(* expiry waits for the renewal's lock.                                    *)
PgLeaseExpires ==
  /\ \A c \in PgClients : ~(tx[c].pc = "written" /\ tx[c].op = "renew")
  /\ LeaseExpires
  /\ UNCHANGED <<log, ckpt, pgStoreVars>>

PgStoreNext ==
  \/ \E c \in PgClients :
       \/ \E op \in PgOp \ {"none"}, g \in 0..rec.attempt, seq \in 0..Len(log) :
            /\ op # "save" => seq = 0
            /\ op \in {"acquire", "appendUnfenced"} => g = 0
            /\ op \in {"append", "appendUnfenced"} => Len(log) < MaxEvents
            /\ op \in {"renew", "release", "save"} => g > 0
            /\ Begin(c, op, g, seq)
       \/ ReadRow(c) \/ PgWrite(c) \/ PgCommit(c) \/ RollBack(c)
  \/ PgLeaseExpires

-----------------------------------------------------------------------------
(* The dispatcher.  Each of its transactions writes or locks every row it  *)
(* decides on, so it is one step; a token is named by the generation it    *)
(* was drawn with.                                                         *)
PgRow == [token : Nat, live : BOOLEAN]
NoPgRow == [token |-> 0, live |-> FALSE]

PgDispatchTypeOK ==
  /\ pgJob \in [queued : BOOLEAN, attempt : 0..MaxPgAttempt]
  /\ pgLease \in PgRow
  /\ pgClaim \in [token : Nat, live : BOOLEAN, acknowledged : BOOLEAN]
  /\ pgHeld \in [PgWorkers -> [token : Nat, renewals : 0..1]]

PgDispatchInit ==
  /\ pgJob = [queued |-> TRUE, attempt |-> 0]
  /\ pgLease = NoPgRow
  /\ pgClaim = [token |-> 0, live |-> FALSE, acknowledged |-> FALSE]
  /\ pgHeld = [w \in PgWorkers |-> [token |-> 0, renewals |-> 0]]

(* enqueue looks the job up and changes nothing: no action.                *)

(* claim: any queued job, whoever holds it; the status stays queued, and   *)
(* lease and claim rows are overwritten.                                   *)
PgClaimJob(w) ==
  LET g == pgJob.attempt + 1 IN
  /\ pgJob.queued /\ g <= MaxPgAttempt
  /\ pgJob' = [pgJob EXCEPT !.attempt = g]
  /\ pgLease' = [token |-> g, live |-> TRUE]
  /\ pgClaim' = [token |-> g, live |-> TRUE, acknowledged |-> FALSE]
  /\ pgHeld' = [pgHeld EXCEPT ![w] = [token |-> g, renewals |-> 0]]

OwnClaim(w) == pgHeld[w].token # 0 /\ pgClaim.token = pgHeld[w].token

PgAcknowledge(w) ==
  /\ OwnClaim(w)
  /\ pgClaim' = [pgClaim EXCEPT !.acknowledged = TRUE]
  /\ UNCHANGED <<pgJob, pgLease, pgHeld>>

MayBeat(w) == OwnClaim(w) /\ pgClaim.live

(* heartbeat extends the claim, and the lease if it is this token's; only  *)
(* both together are answered "renewed".                                   *)
PgHeartbeat(w) ==
  /\ MayBeat(w)
  /\ pgLease' = IF pgLease.token = pgHeld[w].token THEN [pgLease EXCEPT !.live = TRUE] ELSE pgLease
  /\ pgHeld' = IF pgLease.token = pgClaim.token
               THEN [pgHeld EXCEPT ![w].renewals = 1 - @] ELSE pgHeld
  /\ UNCHANGED <<pgJob, pgClaim>>

(* release deletes the rows that carry this token.                         *)
PgRelease(w) ==
  /\ pgHeld[w].token # 0
  /\ pgClaim' = IF OwnClaim(w) THEN [token |-> 0, live |-> FALSE, acknowledged |-> FALSE] ELSE pgClaim
  /\ pgLease' = IF pgLease.token = pgHeld[w].token THEN NoPgRow ELSE pgLease
  /\ pgHeld' = [pgHeld EXCEPT ![w] = [token |-> 0, renewals |-> 0]]
  /\ UNCHANGED pgJob

(* What happens to the rows elsewhere: time passes; the runner closes the  *)
(* job or its lease through the store.                                     *)
PgRowsChange ==
  \/ pgClaim.live /\ pgClaim' = [pgClaim EXCEPT !.live = FALSE] /\ UNCHANGED <<pgJob, pgLease>>
  \/ pgLease.live /\ pgLease' = [pgLease EXCEPT !.live = FALSE] /\ UNCHANGED <<pgJob, pgClaim>>
  \/ pgJob' = [pgJob EXCEPT !.queued = ~@] /\ pgLease' = NoPgRow /\ UNCHANGED pgClaim

PgDispatchNext ==
  \/ \E w \in PgWorkers : PgClaimJob(w) \/ PgAcknowledge(w) \/ PgHeartbeat(w) \/ PgRelease(w)
  \/ PgRowsChange /\ UNCHANGED pgHeld

(* The two share no statement: the dispatcher's columns are its own here.  *)
PgNext ==
  \/ PgStoreNext /\ UNCHANGED pgDispatchVars
  \/ PgDispatchNext /\ UNCHANGED <<storeVars, pgStoreVars>>

PgSpec ==
  /\ StoreInit /\ PgStoreInit /\ PgDispatchInit
  /\ [][PgNext]_<<storeVars, pgStoreVars, pgDispatchVars>>

-----------------------------------------------------------------------------
(* Every COMMIT is one step of the single-connection store, taken at that  *)
(* moment: concurrent transactions of several processes give no client     *)
(* more than SqlJobStore's BEGIN IMMEDIATE does ("same behavioral contract *)
(* as SqlJobStore").  The row lock on the job is what it rests on.         *)
PgImplementsStore == [][StoreNext]_storeVars

(* A worker is told that its claim was renewed.                             *)
Renewed(w) ==
  /\ pgHeld'[w].token = pgHeld[w].token
  /\ pgHeld'[w].renewals # pgHeld[w].renewals

(* A worker is told its claim was renewed only while no later claim has    *)
(* been given out, and the lease row is then still its own: of workers     *)
(* that claimed the same queued job in turn, the last one alone keeps it   *)
(* (heartbeat's token check, the two updates together).                    *)
OnlyNewestRenewed ==
  \A w \in PgWorkers :
    Renewed(w) => pgHeld[w].token = pgJob.attempt /\ pgLease'.live

RenewedIsNewest == [][OnlyNewestRenewed]_pgDispatchVars

(* PostgreSQL in place of SQLite: the store implements the same            *)
(* specification, and the dispatcher renews the newest claim only          *)
(* (pg-store.ts, pg-dispatcher.ts).                                        *)
PgServes ==
  /\ PgImplementsStore
  /\ RenewedIsNewest
=============================================================================
