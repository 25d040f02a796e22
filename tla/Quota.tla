------------------------------- MODULE Quota --------------------------------
(***************************************************************************)
(* Capacity reservations: packages/vaulltcore-quota/src/store.ts.          *)
(*                                                                         *)
(* A request key owns at most one row (UNIQUE(tenant_id, request_key)), so *)
(* the table is a function of the key.  Every method is one transaction    *)
(* (SqlStoreBase.atomic): a thrown QuotaError rolls all of it back, the    *)
(* 'rejected' row it had just inserted and the rolled period included, so  *)
(* a rejected call changes nothing.  Time is two kinds of bit: a           *)
(* reservation's TTL has lapsed, a scope's period has elapsed.             *)
(***************************************************************************)
EXTENDS Integers, FiniteSets

CONSTANTS
  Scopes,          \* (tenant, org, project)
  Keys,            \* request keys
  Limits,          \* values of maxConcurrentJobs the policies give
  Ceilings,        \* values an operator gives setGlobalCapacity
  JobsPerPeriod,
  NoRow,           \* no reservation under this key
  MaxVersion       \* bound on a row's version

ASSUME QuotaAssumption ==
  /\ Limits \subseteq Nat \ {0}
  /\ Ceilings \subseteq Nat
  /\ JobsPerPeriod \in Nat
  /\ MaxVersion \in Nat
  /\ IsFiniteSet(Keys)

VARIABLES
  res,       \* quota_reservations
  inUse,     \* quota_counters.in_use
  period,    \* usage_periods
  global,    \* quota_global_capacity
  limits     \* quota_limits.max_concurrent_jobs, 0 before the first setLimits

quotaVars == <<res, inUse, period, global, limits>>

ReservationStates ==
  {"pending", "active", "settled", "released", "expired", "rejected"}

Reservation ==
  [state : ReservationStates, scope : Scopes, version : Nat,
   job : Nat, lapsed : BOOLEAN]

ASSUME NoRowAssumption == NoRow \notin Reservation

QuotaTypeOK ==
  /\ res \in [Keys -> Reservation \cup {NoRow}]
  /\ inUse \in [Scopes -> Nat]
  /\ period \in [Scopes -> [count : Nat, elapsed : BOOLEAN]]
  /\ global \in [max : Nat, inUse : Nat]
  /\ limits \in [Scopes -> Nat]

QuotaInit ==
  /\ res = [k \in Keys |-> NoRow]
  /\ inUse = [s \in Scopes |-> 0]
  /\ period = [s \in Scopes |-> [count |-> 0, elapsed |-> FALSE]]
  /\ global = [max |-> 0, inUse |-> 0]
  /\ limits = [s \in Scopes |-> 0]

Active(k) == res[k] # NoRow /\ res[k].state = "active"
ActiveIn(s) == {k \in Keys : Active(k) /\ res[k].scope = s}
AllActive == {k \in Keys : Active(k)}

(* Mutant: the in_use > 0 condition is dropped.                            *)
DecrementedUnguarded(count, n) == count - n

(* SET in_use = in_use - 1 ... AND in_use > 0, n times.                    *)
Decremented(count, n) == IF count > n THEN count - n ELSE 0

-----------------------------------------------------------------------------
SetLimits(s, max) ==
  /\ limits' = [limits EXCEPT ![s] = max]
  /\ UNCHANGED <<res, inUse, period, global>>

(* The count compared is the one read before the window was rolled.        *)
PeriodFull(s) == period[s].count >= JobsPerPeriod

(* No ceiling is configured while max is 0.                                *)
GlobalFull == global.max > 0 /\ global.inUse >= global.max

Rejected(s, max) == PeriodFull(s) \/ inUse[s] >= max \/ GlobalFull

NewReservation(s) ==
  [state |-> "active", scope |-> s, version |-> 1,
   job |-> 0, lapsed |-> FALSE]

(* A key seen before returns its row, whatever state that is in.           *)
Replayed(k) == res[k] # NoRow

ReserveNew(s, k, max) ==
  /\ ~Replayed(k)
  /\ ~Rejected(s, max)
  /\ inUse' = [inUse EXCEPT ![s] = @ + 1]
  /\ global' = IF global.max > 0 THEN [global EXCEPT !.inUse = @ + 1]
                                 ELSE global
  /\ res' = [res EXCEPT ![k] = NewReservation(s)]
  /\ period' = [period EXCEPT ![s] =
       [count |-> (IF @.elapsed THEN 0 ELSE @.count) + 1, elapsed |-> FALSE]]
  /\ UNCHANGED limits

(* Only a row without a job is linked.                                     *)
AttachJob(k, job) ==
  /\ res[k] # NoRow
  /\ res' = [res EXCEPT ![k].job = IF @ = 0 THEN job ELSE @]
  /\ UNCHANGED <<inUse, period, global, limits>>

(* Mutant: an expired row is ended a second time.                          *)
MayEndExpired(k, version) ==
  res[k] # NoRow /\ res[k].state \in {"active", "expired"}
    /\ res[k].version = version

(* Fenced by the version the caller read; settled and released rows are    *)
(* returned as they are, other ended rows are an error.                    *)
MayEnd(k, version) == Active(k) /\ res[k].version = version

(* Mutant: only the scope's slot is given back.                            *)
EndScopeOnly(k, version, state) ==
  /\ MayEnd(k, version)
  /\ res' = [res EXCEPT ![k].state = state, ![k].version = @ + 1]
  /\ inUse' = [inUse EXCEPT ![res[k].scope] = Decremented(@, 1)]
  /\ UNCHANGED <<period, limits, global>>

End(k, version, state) ==
  /\ MayEnd(k, version)
  /\ res' = [res EXCEPT ![k].state = state, ![k].version = @ + 1]
  /\ inUse' = [inUse EXCEPT ![res[k].scope] = Decremented(@, 1)]
  /\ global' = [global EXCEPT !.inUse = Decremented(@, 1)]
  /\ UNCHANGED <<period, limits>>

Settle(k, version) == End(k, version, "settled")
Release(k, version) == End(k, version, "released")

Renew(k, version) ==
  /\ MayEnd(k, version)
  /\ version < MaxVersion
  /\ res' = [res EXCEPT ![k].lapsed = FALSE, ![k].version = @ + 1]
  /\ UNCHANGED <<inUse, period, global, limits>>

(* Mutant: only reservations that have a job are swept.                    *)
ExpiredLinked == {k \in AllActive : res[k].lapsed /\ res[k].job # 0}

ExpiredActive == {k \in AllActive : res[k].lapsed}

ReapExpired ==
  /\ ExpiredActive # {}
  /\ res' = [k \in Keys |->
       IF k \in ExpiredActive
       THEN [res[k] EXCEPT !.state = "expired", !.version = @ + 1]
       ELSE res[k]]
  /\ inUse' = [s \in Scopes |->
       Decremented(inUse[s], Cardinality(ExpiredActive \cap ActiveIn(s)))]
  /\ global' = [global EXCEPT !.inUse =
       Decremented(@, Cardinality(ExpiredActive))]
  /\ UNCHANGED <<period, limits>>

SetGlobalCapacity(max) ==
  /\ global' = [global EXCEPT !.max = max]
  /\ UNCHANGED <<res, inUse, period, limits>>

(* The clock passes a reservation's expires_at, or a period's end.         *)
Lapse(k) ==
  /\ Active(k)
  /\ ~res[k].lapsed
  /\ res' = [res EXCEPT ![k].lapsed = TRUE]
  /\ UNCHANGED <<inUse, period, global, limits>>

PeriodElapses(s) ==
  /\ ~period[s].elapsed
  /\ period' = [period EXCEPT ![s].elapsed = TRUE]
  /\ UNCHANGED <<res, inUse, global, limits>>

QuotaNext ==
  \/ \E s \in Scopes, m \in Limits : SetLimits(s, m)
  \/ \E s \in Scopes, k \in Keys, m \in Limits : ReserveNew(s, k, m)
  \/ \E k \in Keys : AttachJob(k, 1)
  \/ \E k \in Keys, v \in 1..MaxVersion : Settle(k, v) \/ Release(k, v)
  \/ \E k \in Keys, v \in 1..MaxVersion : Renew(k, v)
  \/ ReapExpired
  \/ \E k \in Keys : Lapse(k)
  \/ \E m \in Ceilings : SetGlobalCapacity(m)
  \/ \E s \in Scopes : PeriodElapses(s)

QuotaSpec == QuotaInit /\ [][QuotaNext]_quotaVars

-----------------------------------------------------------------------------
(* The counter reserve() compares with the limit is the number of active   *)
(* reservations of the scope: no order of settlements, releases, stale     *)
(* retries of either, renewals and reaper passes frees a slot twice or     *)
(* forgets one (store.ts:271, 368, 395, 421).                              *)
CapacityCounted ==
  \A s \in Scopes : inUse[s] = Cardinality(ActiveIn(s))

(* The global counter never exceeds the active reservations, so capacity   *)
(* that nobody holds is never withheld from every tenant, whatever ceiling *)
(* was configured when a reservation was made (store.ts:289, 369, 422).    *)
GlobalNotLeaked == global.inUse <= Cardinality(AllActive)

(* Both counters that reserve() trusts fit what is held (store.ts:271,     *)
(* 289).                                                                   *)
CountersFit ==
  /\ CapacityCounted
  /\ GlobalNotLeaked

(* What no operation may do to a row.                                      *)
RowKeepsEnd(k) ==
  res[k] # NoRow =>
    /\ res'[k] # NoRow
    /\ res'[k].scope = res[k].scope
    /\ ~Active(k) => /\ res'[k].state = res[k].state
                     /\ res'[k].version = res[k].version
    /\ res'[k].state # res[k].state => res'[k].version > res[k].version

(* A reservation that has ended stays ended in the same way, and every     *)
(* change of state takes a new version, so a caller that decided on an     *)
(* older one is fenced (store.ts:357, 386, 442).                           *)
EndedForGood == [][\A k \in Keys : RowKeepsEnd(k)]_quotaVars
=============================================================================
