----------------------------- MODULE Ownership ------------------------------
(***************************************************************************)
(* What durable ownership of a job promises, without saying how (the       *)
(* contract of packages/vaulltcore-runner/src/distributed.ts and of        *)
(* ExecutionActorController in contracts.ts): generations are granted one  *)
(* at a time and only while nobody holds the job, and the committed        *)
(* progress of the job is advanced by the newest generation only, always   *)
(* forwards.                                                               *)
(***************************************************************************)
EXTENDS Integers

VARIABLES
  generation,   \* the newest ownership generation ever granted
  holder,       \* the generation whose lease is live, 0 when none is
  committed     \* who wrote the committed state, and up to which event

ownershipVars == <<generation, holder, committed>>

OwnershipInit ==
  /\ generation = 0
  /\ holder = 0
  /\ committed = [by |-> 0, upto |-> 0]

Grant ==
  /\ holder = 0
  /\ generation' = generation + 1
  /\ holder' = generation + 1
  /\ UNCHANGED committed

(* Released, expired, or taken away by a supervisor.                       *)
Vacate ==
  /\ holder # 0
  /\ holder' = 0
  /\ UNCHANGED <<generation, committed>>

Advance ==
  /\ generation > 0
  /\ committed'.by = generation
  /\ committed'.upto > committed.upto
  /\ UNCHANGED <<generation, holder>>

OwnershipNext == Grant \/ Vacate \/ Advance

OwnershipSpec == OwnershipInit /\ [][OwnershipNext]_ownershipVars
=============================================================================
