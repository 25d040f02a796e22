--------------------------- MODULE JobPlaneProofs ---------------------------
(***************************************************************************)
(* Reservations and admissions, for every set of keys, scopes, limits and  *)
(* callers, and any number of crashes; the path of a request that leads to *)
(* them; the books of what the jobs used; and the job plane as a whole.    *)
(*                                                                         *)
(* QuotaInv carries the counters: they are compared with the cardinality   *)
(* of what is active, so every operation is shown to move both by the same *)
(* amount.  AdmissionInv says who may write a key: one call works on it    *)
(* while its slot is pending (Owned, OneOwner), the job such a call has    *)
(* made is made from its own request (MadeFromRequest), and a reservation  *)
(* is linked to no other job than that one (LinkedToOwn).                  *)
(***************************************************************************)
EXTENDS MCJobPlane, JobStoreProofs, FiniteSetTheorems, WellFoundedInduction

(* The inductive invariant of the reservations: their types, and every     *)
(* counter the number of rows that hold capacity.                          *)
QuotaInv == QuotaTypeOK /\ CountersFit

(* Every operation of the quota store, whoever calls it: the one that      *)
(* links a job, and the others.                                            *)
UnlinkedStep ==
  \/ \E s \in Scopes, m \in Limits : SetLimits(s, m)
  \/ \E s \in Scopes, k \in Keys, m \in Limits : ReserveNew(s, k, m)
  \/ \E k \in Keys, v \in Nat : Settle(k, v) \/ Release(k, v)
  \/ \E k \in Keys, v \in Nat : Renew(k, v)
  \/ ReapExpired
  \/ \E k \in Keys : Lapse(k)
  \/ \E m \in Ceilings : SetGlobalCapacity(m)
  \/ \E s \in Scopes : PeriodElapses(s)

(* A step of the quota store: one that leaves the job links alone, or the  *)
(* attachment of a job to a reservation.                                   *)
QuotaStep == UnlinkedStep \/ \E k \in Keys, j \in Nat : AttachJob(k, j)

(* The sets of rows that hold capacity are finite, so that they can be     *)
(* counted.                                                                *)
LEMMA ActiveFinite ==
  /\ IsFiniteSet(AllActive) /\ Cardinality(AllActive) \in Nat
  /\ \A s : IsFiniteSet(ActiveIn(s)) /\ Cardinality(ActiveIn(s)) \in Nat
<1>1. AllActive \in SUBSET Keys /\ \A s : ActiveIn(s) \in SUBSET Keys
  BY DEF AllActive, ActiveIn
<1> QED
  BY <1>1, QuotaAssumption, FS_Subset, FS_CardinalityType

(* The counters stand while no reservation starts or stops being active.   *)
LEMMA CountersUnmoved ==
  ASSUME CountersFit, inUse' = inUse, global'.inUse = global.inUse,
         \A k \in Keys : /\ Active(k)' <=> Active(k)
                         /\ Active(k) => res'[k].scope = res[k].scope
  PROVE  CountersFit'
<1>1. AllActive' = AllActive /\ \A s : ActiveIn(s)' = ActiveIn(s)
  BY DEF AllActive, ActiveIn
<1> QED
  BY <1>1 DEF CountersFit, CapacityCounted, GlobalNotLeaked

(* The counters after the reservations of `over` end together.             *)
LEMMA CountersAfterEnd ==
  ASSUME QuotaTypeOK, CountersFit, NEW over \in SUBSET AllActive,
         \A k \in Keys : /\ Active(k)' <=> Active(k) /\ k \notin over
                         /\ Active(k) => res'[k].scope = res[k].scope,
         \A s \in Scopes :
           inUse'[s] = Decremented(inUse[s], Cardinality(over \cap ActiveIn(s))),
         global'.inUse = Decremented(global.inUse, Cardinality(over))
  PROVE  CountersFit'
<1>1. AllActive' = AllActive \ over /\ \A s : ActiveIn(s)' = ActiveIn(s) \ over
  BY DEF AllActive, ActiveIn
<1>2. IsFiniteSet(over) /\ Cardinality(over) \in Nat /\ AllActive \cap over = over
      /\ Cardinality(over) <= Cardinality(AllActive)
  BY ActiveFinite, FS_Subset, FS_CardinalityType
<1>3. \A s : /\ Cardinality(ActiveIn(s) \ over) =
                  Cardinality(ActiveIn(s)) - Cardinality(over \cap ActiveIn(s))
             /\ Cardinality(over \cap ActiveIn(s)) \in Nat
             /\ Cardinality(over \cap ActiveIn(s)) <= Cardinality(ActiveIn(s))
  <2> TAKE s
  <2>1. over \cap ActiveIn(s) = ActiveIn(s) \cap over
    OBVIOUS
  <2>2. IsFiniteSet(ActiveIn(s))
    BY ActiveFinite
  <2>3. Cardinality(ActiveIn(s) \ over)
          = Cardinality(ActiveIn(s)) - Cardinality(ActiveIn(s) \cap over)
    BY <2>2, FS_Difference
  <2>4. IsFiniteSet(ActiveIn(s) \cap over)
        /\ Cardinality(ActiveIn(s) \cap over) <= Cardinality(ActiveIn(s))
    BY <2>2, FS_Intersection
  <2>5. Cardinality(ActiveIn(s) \cap over) \in Nat
    BY <2>4, FS_CardinalityType
  <2> QED
    BY <2>1, <2>3, <2>4, <2>5
<1>4. Cardinality(AllActive \ over) = Cardinality(AllActive) - Cardinality(over)
  BY <1>2, ActiveFinite, FS_Difference
<1>5. CapacityCounted'
  <2> SUFFICES ASSUME NEW s \in Scopes PROVE inUse'[s] = Cardinality(ActiveIn(s))'
    BY DEF CapacityCounted
  <2>1. inUse[s] = Cardinality(ActiveIn(s)) /\ Cardinality(ActiveIn(s)) \in Nat
    BY ActiveFinite DEF CountersFit, CapacityCounted
  <2>2. inUse'[s] = inUse[s] - Cardinality(over \cap ActiveIn(s))
    BY <1>3, <2>1 DEF Decremented
  <2> QED
    BY <1>1, <1>3, <2>1, <2>2
<1>6. GlobalNotLeaked'
  <2>1. global.inUse \in Nat /\ global.inUse <= Cardinality(AllActive)
    BY DEF QuotaTypeOK, CountersFit, GlobalNotLeaked
  <2> QED
    BY <1>1, <1>2, <1>4, <2>1, ActiveFinite DEF GlobalNotLeaked, Decremented
<1> QED
  BY <1>5, <1>6 DEF CountersFit

(* What the UPDATE statements make of a row.                               *)
LEMMA RowValues ==
  ASSUME NEW r \in Reservation
  PROVE  /\ r.scope \in Scopes /\ r.version \in Nat /\ r.job \in Nat
         /\ \A st \in ReservationStates :
              [r EXCEPT !.state = st, !.version = r.version + 1] \in Reservation
         /\ [r EXCEPT !.lapsed = FALSE, !.version = r.version + 1] \in Reservation
         /\ [r EXCEPT !.lapsed = TRUE] \in Reservation
         /\ \A j \in Nat : [r EXCEPT !.job = j] \in Reservation
<1>1. r.scope \in Scopes /\ r.version \in Nat /\ r.job \in Nat /\ r.version + 1 \in Nat
  BY DEF Reservation
<1>2. ASSUME NEW st \in ReservationStates
      PROVE  [r EXCEPT !.state = st, !.version = r.version + 1] \in Reservation
  BY <1>1 DEF Reservation
<1>3. [r EXCEPT !.lapsed = FALSE, !.version = r.version + 1] \in Reservation
      /\ [r EXCEPT !.lapsed = TRUE] \in Reservation
  BY <1>1 DEF Reservation
<1>4. \A j \in Nat : [r EXCEPT !.job = j] \in Reservation
  BY DEF Reservation
<1> QED
  BY <1>1, <1>2, <1>3, <1>4

(* A row whose deadline moves keeps the rest.                              *)
LEMMA RowMoves ==
  ASSUME NEW r \in Reservation
  PROVE  /\ [r EXCEPT !.lapsed = TRUE] # NoRow
         /\ [r EXCEPT !.lapsed = TRUE].state = r.state
         /\ [r EXCEPT !.lapsed = TRUE].scope = r.scope
         /\ [r EXCEPT !.lapsed = TRUE].job = r.job
         /\ [r EXCEPT !.lapsed = FALSE, !.version = r.version + 1] # NoRow
         /\ [r EXCEPT !.lapsed = FALSE, !.version = r.version + 1].state = r.state
         /\ [r EXCEPT !.lapsed = FALSE, !.version = r.version + 1].scope = r.scope
         /\ [r EXCEPT !.lapsed = FALSE, !.version = r.version + 1].job = r.job
<1>1. /\ [r EXCEPT !.lapsed = TRUE] # NoRow
      /\ [r EXCEPT !.lapsed = FALSE, !.version = r.version + 1] # NoRow
  BY RowValues, NoRowAssumption
<1> QED
  BY <1>1 DEF Reservation

(* With no reservation every counter is zero and fits.                     *)
LEMMA QuotaInitInv == QuotaInit => QuotaInv
<1> SUFFICES ASSUME QuotaInit PROVE QuotaInv
  OBVIOUS
<1>1. QuotaTypeOK
  <2>1. period \in [Scopes -> [count : Nat, elapsed : BOOLEAN]]
    BY DEF QuotaInit
  <2> QED
    BY <2>1 DEF QuotaInit, QuotaTypeOK
<1>2. AllActive = {} /\ \A s : ActiveIn(s) = {}
  BY DEF QuotaInit, AllActive, ActiveIn, Active
<1>3. CountersFit
  <2>1. Cardinality(AllActive) = 0 /\ \A s : Cardinality(ActiveIn(s)) = 0
    BY <1>2, FS_EmptySet
  <2> QED
    BY <2>1 DEF QuotaInit, CountersFit, CapacityCounted, GlobalNotLeaked
<1> QED
  BY <1>1, <1>3 DEF QuotaInv

(* Rows and counters keep their types.                                     *)
LEMMA QuotaStepTypes == QuotaTypeOK /\ QuotaStep => QuotaTypeOK'
<1> SUFFICES ASSUME QuotaTypeOK, QuotaStep PROVE QuotaTypeOK'
  OBVIOUS
<1> USE QuotaAssumption DEF QuotaTypeOK
<1>1. ASSUME NEW s \in Scopes, NEW m \in Limits, SetLimits(s, m) PROVE QuotaTypeOK'
  BY <1>1 DEF SetLimits
<1>2. ASSUME NEW s \in Scopes, NEW k \in Keys, NEW m \in Limits, ReserveNew(s, k, m)
      PROVE  QuotaTypeOK'
  <2>1. NewReservation(s) \in Reservation
    BY DEF NewReservation, Reservation, ReservationStates
  <2>2. res' \in [Keys -> Reservation \cup {NoRow}] /\ inUse' \in [Scopes -> Nat]
    BY <1>2, <2>1 DEF ReserveNew
  <2>3. global' \in [max : Nat, inUse : Nat] /\ limits' = limits
    BY <1>2 DEF ReserveNew
  <2>4. period' \in [Scopes -> [count : Nat, elapsed : BOOLEAN]]
    <3>1. (IF period[s].elapsed THEN 0 ELSE period[s].count) + 1 \in Nat
      OBVIOUS
    <3> QED
      BY <1>2, <3>1 DEF ReserveNew
  <2> QED
    BY <2>2, <2>3, <2>4
<1>3. ASSUME NEW k \in Keys, NEW j \in Nat, AttachJob(k, j) PROVE QuotaTypeOK'
  <2>1. res[k] \in Reservation
    BY <1>3 DEF AttachJob
  <2>2. [res[k] EXCEPT !.job = IF @ = 0 THEN j ELSE @] \in Reservation
    BY <2>1, RowValues
  <2> QED
    BY <1>3, <2>2 DEF AttachJob
<1>4. ASSUME NEW k \in Keys, NEW v \in Nat, Settle(k, v) \/ Release(k, v)
      PROVE  QuotaTypeOK'
  <2>1. PICK st \in {"settled", "released"} : End(k, v, st)
    BY <1>4 DEF Settle, Release
  <2>2. res[k] \in Reservation
    BY <2>1 DEF End, MayEnd, Active
  <2>3. [res[k] EXCEPT !.state = st, !.version = @ + 1] \in Reservation
        /\ res[k].scope \in Scopes
    BY <2>2, RowValues DEF ReservationStates
  <2>4. \A n \in Nat : Decremented(n, 1) \in Nat
    BY DEF Decremented
  <2>5. res' \in [Keys -> Reservation \cup {NoRow}]
    BY <2>1, <2>3 DEF End
  <2>6. inUse' \in [Scopes -> Nat] /\ global' \in [max : Nat, inUse : Nat]
    BY <2>1, <2>3, <2>4 DEF End
  <2> QED
    BY <2>1, <2>5, <2>6 DEF End
<1>5. ASSUME NEW k \in Keys, NEW v \in Nat, Renew(k, v) PROVE QuotaTypeOK'
  <2>1. [res[k] EXCEPT !.lapsed = FALSE, !.version = @ + 1] \in Reservation
    BY <1>5, RowValues DEF Renew, MayEnd, Active
  <2> QED
    BY <1>5, <2>1 DEF Renew
<1>6. CASE ReapExpired
  <2>1. \A k \in ExpiredActive :
          [res[k] EXCEPT !.state = "expired", !.version = @ + 1] \in Reservation
    BY RowValues DEF ExpiredActive, AllActive, Active, ReservationStates
  <2>2. IsFiniteSet(ExpiredActive) /\ Cardinality(ExpiredActive) \in Nat
    <3>1. ExpiredActive \in SUBSET AllActive
      BY DEF ExpiredActive
    <3> QED
      BY <3>1, ActiveFinite, FS_Subset, FS_CardinalityType
  <2>3. \A s : Cardinality(ExpiredActive \cap ActiveIn(s)) \in Nat
    BY <2>2, FS_Intersection, FS_CardinalityType
  <2>4. \A n, c \in Nat : Decremented(n, c) \in Nat
    BY DEF Decremented
  <2>5. res' \in [Keys -> Reservation \cup {NoRow}]
    BY <1>6, <2>1 DEF ReapExpired
  <2>6. inUse' \in [Scopes -> Nat] /\ global' \in [max : Nat, inUse : Nat]
    BY <1>6, <2>2, <2>3, <2>4 DEF ReapExpired
  <2> QED
    BY <1>6, <2>5, <2>6 DEF ReapExpired
<1>7. ASSUME NEW k \in Keys, Lapse(k) PROVE QuotaTypeOK'
  <2>1. [res[k] EXCEPT !.lapsed = TRUE] \in Reservation
    BY <1>7, RowValues DEF Lapse, Active
  <2> QED
    BY <1>7, <2>1 DEF Lapse
<1>8. ASSUME NEW m \in Ceilings, SetGlobalCapacity(m) PROVE QuotaTypeOK'
  BY <1>8 DEF SetGlobalCapacity
<1>9. ASSUME NEW s \in Scopes, PeriodElapses(s) PROVE QuotaTypeOK'
  BY <1>9 DEF PeriodElapses
<1> QED
  BY <1>1, <1>2, <1>3, <1>4, <1>5, <1>6, <1>7, <1>8, <1>9 DEF QuotaStep, UnlinkedStep

(* What a step does to a row's link, unless it is attachJob.                *)
LinkKept(k) ==
  IF res[k] = NoRow THEN res'[k] = NoRow \/ res'[k].job = 0
  ELSE res'[k] # NoRow /\ res'[k].job = res[k].job

(* A step that attaches no job keeps every ended row ended and every link  *)
(* as it was.                                                              *)
LEMMA RowsAfterUnlinked ==
  ASSUME QuotaTypeOK, UnlinkedStep, NEW k \in Keys
  PROVE  RowKeepsEnd(k) /\ LinkKept(k)
<1> USE NoRowAssumption DEF RowKeepsEnd, LinkKept
<1>1. ASSUME UNCHANGED res PROVE RowKeepsEnd(k) /\ LinkKept(k)
  BY <1>1
<1>2. ASSUME NEW s \in Scopes, NEW i \in Keys, NEW m \in Limits, ReserveNew(s, i, m)
      PROVE  RowKeepsEnd(k) /\ LinkKept(k)
  BY <1>2 DEF QuotaTypeOK, ReserveNew, Replayed, NewReservation
<1>3. ASSUME NEW i \in Keys, NEW v \in Nat, Settle(i, v) \/ Release(i, v)
      PROVE  RowKeepsEnd(k) /\ LinkKept(k)
  <2>1. PICK st \in {"settled", "released"} : End(i, v, st)
    BY <1>3 DEF Settle, Release
  <2>2. Active(i) /\ res[i] \in Reservation
        /\ res' = [res EXCEPT ![i] = [res[i] EXCEPT !.state = st, !.version = @ + 1]]
    BY <2>1 DEF End, MayEnd, Active, QuotaTypeOK
  <2>3. CASE k = i
    <3>1. res'[k] = [res[k] EXCEPT !.state = st, !.version = @ + 1]
      BY <2>2, <2>3 DEF QuotaTypeOK
    <3>2. st \in ReservationStates /\ res[k] \in Reservation
      BY <2>2, <2>3 DEF ReservationStates
    <3>3. /\ res'[k] # NoRow /\ res'[k].scope = res[k].scope
          /\ res'[k].job = res[k].job /\ res'[k].version > res[k].version
      <4>0. res'[k] \in Reservation
        <5>1. [res[k] EXCEPT !.state = st, !.version = @ + 1] \in Reservation
          BY <3>2, RowValues
        <5> QED
          BY <3>1, <5>1
      <4>1. /\ res'[k] # NoRow /\ res'[k].scope = res[k].scope
            /\ res'[k].job = res[k].job /\ res'[k].version = res[k].version + 1
        BY <3>1, <3>2, <4>0, NoRowAssumption DEF Reservation
      <4>2. res[k].version \in Nat
        BY <3>2, RowValues
      <4> QED
        BY <4>1, <4>2
    <3> QED
      BY <2>2, <2>3, <3>3 DEF Active
  <2> QED
    BY <2>2, <2>3 DEF QuotaTypeOK
<1>4. ASSUME NEW i \in Keys, NEW v \in Nat, Renew(i, v) PROVE RowKeepsEnd(k) /\ LinkKept(k)
  <2>1. Active(i) /\ res[i] \in Reservation
        /\ res' = [res EXCEPT ![i] = [res[i] EXCEPT !.lapsed = FALSE, !.version = @ + 1]]
    BY <1>4 DEF Renew, MayEnd, Active, QuotaTypeOK
  <2>2. CASE k = i
    <3>1. res'[k] = [res[k] EXCEPT !.lapsed = FALSE, !.version = @ + 1]
      BY <2>1, <2>2 DEF QuotaTypeOK
    <3> QED
      BY <2>1, <2>2, <3>1, RowMoves, ZenonT(40) DEF Active
  <2> QED
    BY <2>1, <2>2 DEF QuotaTypeOK
<1>5. CASE ReapExpired
  <2>1. res' = [i \in Keys |-> IF i \in ExpiredActive
                               THEN [res[i] EXCEPT !.state = "expired", !.version = @ + 1]
                               ELSE res[i]]
    BY <1>5 DEF ReapExpired
  <2>2. CASE k \in ExpiredActive
    <3>1. Active(k) /\ res[k] \in Reservation
      BY <2>2 DEF ExpiredActive, AllActive, Active, QuotaTypeOK
    <3>2. res'[k] = [res[k] EXCEPT !.state = "expired", !.version = @ + 1]
      BY <2>1, <2>2
    <3>3. "expired" \in ReservationStates
      BY DEF ReservationStates
    <3>4. /\ res'[k] # NoRow /\ res'[k].scope = res[k].scope
          /\ res'[k].job = res[k].job /\ res'[k].version > res[k].version
      <4>0. res'[k] \in Reservation
        BY <3>1, <3>2, <3>3, RowValues
      <4>1. /\ res'[k] # NoRow /\ res'[k].scope = res[k].scope
            /\ res'[k].job = res[k].job /\ res'[k].version = res[k].version + 1
        BY <3>1, <3>2, <3>3, <4>0, NoRowAssumption DEF Reservation
      <4>2. res[k].version \in Nat
        BY <3>1, RowValues
      <4> QED
        BY <4>1, <4>2
    <3> QED
      BY <3>1, <3>4 DEF Active
  <2>3. CASE k \notin ExpiredActive
    BY <2>1, <2>3
  <2> QED
    BY <2>2, <2>3
<1>6. ASSUME NEW i \in Keys, Lapse(i) PROVE RowKeepsEnd(k) /\ LinkKept(k)
  <2>1. Active(i) /\ res[i] \in Reservation
        /\ res' = [res EXCEPT ![i] = [res[i] EXCEPT !.lapsed = TRUE]]
    BY <1>6 DEF Lapse, Active, QuotaTypeOK
  <2>2. CASE k = i
    <3>1. res'[k] = [res[k] EXCEPT !.lapsed = TRUE]
      BY <2>1, <2>2 DEF QuotaTypeOK
    <3> QED
      BY <2>1, <2>2, <3>1, RowMoves, ZenonT(40) DEF Active
  <2> QED
    BY <2>1, <2>2 DEF QuotaTypeOK
<1> QED
  BY <1>1, <1>2, <1>3, <1>4, <1>5, <1>6
  DEF UnlinkedStep, SetLimits, SetGlobalCapacity, PeriodElapses

(* attachJob changes a row's link, if it has none, and nothing else.       *)
LEMMA RowsAfterLink ==
  ASSUME QuotaTypeOK, NEW i \in Keys, NEW j \in Nat, AttachJob(i, j), NEW k \in Keys
  PROVE  /\ RowKeepsEnd(k)
         /\ Active(k)' <=> Active(k)
         /\ res'[k] = NoRow <=> res[k] = NoRow
         /\ k # i => res'[k] = res[k]
         /\ k = i => res'[k].job = IF res[k].job = 0 THEN j ELSE res[k].job
<1>1. res[i] \in Reservation /\ res[i] # NoRow
      /\ res' = [res EXCEPT ![i] =
                   [res[i] EXCEPT !.job = IF res[i].job = 0 THEN j ELSE res[i].job]]
  BY DEF AttachJob, QuotaTypeOK
<1>2. [res[i] EXCEPT !.job = IF res[i].job = 0 THEN j ELSE res[i].job] \in Reservation
  BY <1>1, RowValues
<1> QED
  BY <1>1, <1>2, NoRowAssumption DEF QuotaTypeOK, Reservation, Active, RowKeepsEnd

(* Every operation moves the counters with what is active.                 *)
LEMMA QuotaStepInv == QuotaInv /\ [QuotaStep]_quotaVars => QuotaInv'
<1> SUFFICES ASSUME QuotaInv, [QuotaStep]_quotaVars PROVE QuotaInv'
  OBVIOUS
<1>t. QuotaTypeOK /\ CountersFit
  BY DEF QuotaInv
<1>1. QuotaTypeOK'
  BY <1>t, QuotaStepTypes DEF quotaVars, QuotaTypeOK
<1>2. ASSUME NEW s \in Scopes, NEW k \in Keys, NEW m \in Limits, ReserveNew(s, k, m)
      PROVE  CountersFit'
  <2>1. res' = [res EXCEPT ![k] = NewReservation(s)] /\ res[k] = NoRow
        /\ NewReservation(s) # NoRow
    <3>1. NewReservation(s) \in Reservation
      BY DEF NewReservation, Reservation, ReservationStates
    <3> QED
      BY <1>2, <3>1, NoRowAssumption DEF ReserveNew, Replayed
  <2>2. AllActive' = AllActive \cup {k} /\ k \notin AllActive
    BY <1>t, <2>1 DEF QuotaTypeOK, AllActive, Active, NewReservation
  <2>3. ActiveIn(s)' = ActiveIn(s) \cup {k} /\ k \notin ActiveIn(s)
    BY <1>t, <2>1 DEF QuotaTypeOK, ActiveIn, Active, NewReservation
  <2>4. \A t \in Scopes : t # s => ActiveIn(t)' = ActiveIn(t)
    BY <1>t, <2>1 DEF QuotaTypeOK, ActiveIn, Active, NewReservation
  <2>5. Cardinality(AllActive)' = Cardinality(AllActive) + 1
        /\ Cardinality(ActiveIn(s))' = Cardinality(ActiveIn(s)) + 1
    BY <2>2, <2>3, ActiveFinite, FS_AddElement
  <2>6. \A t \in Scopes : inUse'[t] = IF t = s THEN inUse[t] + 1 ELSE inUse[t]
    BY <1>2, <1>t DEF ReserveNew, QuotaTypeOK
  <2>7. CapacityCounted'
    BY <2>4, <2>5, <2>6, <1>t DEF CountersFit, CapacityCounted
  <2>8. global'.inUse \in {global.inUse, global.inUse + 1} /\ global.inUse \in Nat
    BY <1>2, <1>t DEF ReserveNew, QuotaTypeOK
  <2>9. GlobalNotLeaked'
    BY <2>5, <2>8, <1>t, ActiveFinite DEF CountersFit, GlobalNotLeaked
  <2> QED
    BY <2>7, <2>9 DEF CountersFit
<1>3. ASSUME NEW k \in Keys, NEW v \in Nat, Settle(k, v) \/ Release(k, v)
      PROVE  CountersFit'
  <2>1. PICK st \in {"settled", "released"} : End(k, v, st)
    BY <1>3 DEF Settle, Release
  <2>2. Active(k) /\ res[k] \in Reservation
        /\ res' = [res EXCEPT ![k] = [res[k] EXCEPT !.state = st, !.version = @ + 1]]
    BY <2>1, <1>t DEF End, MayEnd, Active, QuotaTypeOK
  <2>3. [res[k] EXCEPT !.state = st, !.version = @ + 1] \in Reservation
        /\ res[k].scope \in Scopes
    BY <2>2, RowValues DEF ReservationStates
  <2>4. \A i \in Keys : /\ Active(i)' <=> Active(i) /\ i \notin {k}
                        /\ Active(i) => res'[i].scope = res[i].scope
    BY <2>2, <2>3, <1>t DEF Active, QuotaTypeOK, Reservation
  <2>5. {k} \in SUBSET AllActive /\ Cardinality({k}) = 1 /\ Cardinality({}) = 0
    BY <2>2, FS_Singleton, FS_EmptySet DEF AllActive
  <2>6. \A s \in Scopes :
          inUse'[s] = Decremented(inUse[s], Cardinality({k} \cap ActiveIn(s)))
    <3> SUFFICES ASSUME NEW s \in Scopes
                 PROVE  inUse'[s] = Decremented(inUse[s], Cardinality({k} \cap ActiveIn(s)))
      OBVIOUS
    <3>1. CASE s = res[k].scope
      <4>1. {k} \cap ActiveIn(s) = {k}
        BY <2>2, <3>1 DEF ActiveIn
      <4> QED
        BY <2>1, <2>3, <2>5, <3>1, <4>1, <1>t DEF End, QuotaTypeOK
    <3>2. CASE s # res[k].scope
      <4>1. {k} \cap ActiveIn(s) = {}
        BY <3>2 DEF ActiveIn
      <4>2. inUse'[s] = inUse[s] /\ inUse[s] \in Nat
        BY <2>1, <2>3, <3>2, <1>t DEF End, QuotaTypeOK
      <4>3. Cardinality({k} \cap ActiveIn(s)) = 0
        BY <2>5, <4>1
      <4> QED
        BY <4>2, <4>3 DEF Decremented
    <3> QED
      BY <3>1, <3>2
  <2>7. global'.inUse = Decremented(global.inUse, Cardinality({k}))
    BY <2>1, <2>5, <1>t DEF End, QuotaTypeOK
  <2> QED
    BY <2>4, <2>5, <2>6, <2>7, <1>t, CountersAfterEnd
<1>4. ASSUME ReapExpired PROVE CountersFit'
  <2> DEFINE over == ExpiredActive
  <2>1. over \in SUBSET AllActive
    BY DEF ExpiredActive
  <2>2. \A i \in Keys : /\ Active(i)' <=> Active(i) /\ i \notin over
                        /\ Active(i) => res'[i].scope = res[i].scope
    <3> SUFFICES ASSUME NEW i \in Keys
                 PROVE  /\ Active(i)' <=> Active(i) /\ i \notin over
                        /\ Active(i) => res'[i].scope = res[i].scope
      OBVIOUS
    <3>1. CASE i \in over
      <4>1. res[i] \in Reservation /\ Active(i)
            /\ res'[i] = [res[i] EXCEPT !.state = "expired", !.version = @ + 1]
        BY <1>4, <3>1, <1>t DEF ReapExpired, ExpiredActive, AllActive, Active, QuotaTypeOK
      <4> QED
        BY <3>1, <4>1 DEF Active, Reservation
    <3>2. CASE i \notin over
      BY <1>4, <3>2 DEF ReapExpired, Active
    <3> QED
      BY <3>1, <3>2
  <2>3. \A s \in Scopes :
          inUse'[s] = Decremented(inUse[s], Cardinality(over \cap ActiveIn(s)))
    BY <1>4 DEF ReapExpired
  <2>4. global'.inUse = Decremented(global.inUse, Cardinality(over))
    BY <1>4, <1>t DEF ReapExpired, QuotaTypeOK
  <2> HIDE DEF over
  <2> QED
    BY <2>1, <2>2, <2>3, <2>4, <1>t, CountersAfterEnd
<1>5. ASSUME NEW k \in Keys, NEW v \in Nat, Renew(k, v) \/ Lapse(k)
      PROVE  CountersFit'
  <2>1. /\ res[k] \in Reservation /\ Active(k)
        /\ UNCHANGED <<inUse, global>>
        /\ \/ res' = [res EXCEPT ![k] = [res[k] EXCEPT !.lapsed = FALSE, !.version = @ + 1]]
           \/ res' = [res EXCEPT ![k] = [res[k] EXCEPT !.lapsed = TRUE]]
    BY <1>5, <1>t DEF Renew, Lapse, MayEnd, Active, QuotaTypeOK
  <2>2. /\ \/ res'[k] = [res[k] EXCEPT !.lapsed = FALSE, !.version = @ + 1]
           \/ res'[k] = [res[k] EXCEPT !.lapsed = TRUE]
        /\ \A i \in Keys : i # k => res'[i] = res[i]
    BY <2>1, <1>t DEF QuotaTypeOK
  <2>3. \A i \in Keys : /\ Active(i)' <=> Active(i)
                        /\ Active(i) => res'[i].scope = res[i].scope
    <3>1. res'[k] # NoRow /\ res'[k].state = res[k].state /\ res'[k].scope = res[k].scope
      BY <2>1, <2>2, RowMoves
    <3> QED
      BY <2>1, <2>2, <3>1 DEF Active
  <2> QED
    BY <2>1, <2>3, <1>t, CountersUnmoved
<1>6. ASSUME NEW k \in Keys, NEW j \in Nat, AttachJob(k, j) PROVE CountersFit'
  <2>1. \A i \in Keys : /\ Active(i)' <=> Active(i)
                        /\ Active(i) => res'[i].scope = res[i].scope
    BY <1>6, <1>t, RowsAfterLink DEF RowKeepsEnd, Active
  <2> QED
    BY <1>6, <2>1, <1>t, CountersUnmoved DEF AttachJob
<1>7. ASSUME \/ \E s \in Scopes, m \in Limits : SetLimits(s, m)
             \/ \E m \in Ceilings : SetGlobalCapacity(m)
             \/ \E s \in Scopes : PeriodElapses(s)
             \/ UNCHANGED quotaVars
      PROVE  CountersFit'
  <2>1. UNCHANGED <<res, inUse>> /\ global'.inUse = global.inUse
    BY <1>7, <1>t DEF SetLimits, SetGlobalCapacity, PeriodElapses, quotaVars, QuotaTypeOK
  <2>2. \A i \in Keys : /\ Active(i)' <=> Active(i)
                        /\ Active(i) => res'[i].scope = res[i].scope
    BY <2>1 DEF Active
  <2> QED
    BY <2>1, <2>2, <1>t, CountersUnmoved
<1>8. CountersFit'
  <2>1. \A k \in Keys : Lapse(k) => CountersFit'
    BY <1>5
  <2> QED
    BY <1>2, <1>3, <1>4, <1>5, <1>6, <1>7, <2>1 DEF QuotaStep, UnlinkedStep
<1> QED
  BY <1>1, <1>8 DEF QuotaInv

(* The quota store's next-state relation is made of such steps.            *)
LEMMA QuotaNextIsStep == QuotaNext => QuotaStep
  BY DEF QuotaNext, QuotaStep, UnlinkedStep

(* The counters that reserve() compares with the limits are right for      *)
(* every order of reservations, settlements, releases, renewals and reaper *)
(* passes (quota/store.ts reserve, settle, release, reapExpired).          *)
THEOREM CountersRight == QuotaSpec => []CountersFit
<1>1. QuotaInv => CountersFit
  BY DEF QuotaInv
<1>2. QuotaInv /\ [QuotaNext]_quotaVars => QuotaInv'
  BY QuotaStepInv, QuotaNextIsStep
<1> QED
  BY <1>1, <1>2, QuotaInitInv, PTL DEF QuotaSpec

-----------------------------------------------------------------------------
(* The calls of admit().                                                   *)

(* What an admission request under way remembers between its calls.        *)
Call == [pc : AdmissionPc, key : Keys \cup {NoRow}, fp : Fingerprints \cup {<<>>},
         max : Nat, version : Nat, job : Nat]

(* The types of the pipeline's state, with the parts of a call that are    *)
(* set at each point of it.                                                *)
CallsTyped ==
  /\ adm \in [Admitters -> Call]
  /\ \A a \in Admitters :
       /\ adm[a].pc # "idle" => adm[a].key \in Keys /\ adm[a].fp \in Fingerprints
       /\ adm[a].pc \in {"limits", "reserve"} => adm[a].max \in Limits
       /\ adm[a].job \in 0..Len(jobs)
  /\ slot \in [Keys -> Slot]
  /\ jobs \in Seq(AdmittedJob)
  /\ answers \subseteq Keys \X Fingerprints \X Nat
  /\ misread \subseteq Keys
  /\ ended \subseteq 1..Len(jobs)

(* A call past its claim works on the key's slot: a pending one, or a      *)
(* completed one whose job it failed to read.                              *)
Working(a) == adm[a].pc \notin {"idle", "claim"}

(* Only a completed slot's job is ever misread.                            *)
MisreadDone == \A k \in misread : slot[k].state = "completed"

(* A call at work has the slot of its key recorded with its own            *)
(* fingerprint, and holds it pending unless the key was misread.           *)
Owned ==
  \A a \in Admitters : Working(a) =>
    /\ slot[adm[a].key].fp = adm[a].fp
    /\ slot[adm[a].key].state = "pending" \/ adm[a].key \in misread

(* Two calls are never at work on one key that was not misread.            *)
OneOwner ==
  \A a, b \in Admitters :
    Working(a) /\ Working(b) /\ adm[a].key = adm[b].key => a = b \/ adm[a].key \in misread

(* The job made under a key is made from the request that holds the slot.  *)
MadeFromRequest ==
  /\ \A a \in Admitters : adm[a].pc \in {"attach", "complete"} =>
       /\ adm[a].job \in 1..Len(jobs)
       /\ jobs[adm[a].job] = [key |-> adm[a].key, fp |-> adm[a].fp]
  /\ \A k \in Keys : slot[k].state = "completed" =>
       /\ slot[k].job \in 1..Len(jobs)
       /\ jobs[slot[k].job] = [key |-> k, fp |-> slot[k].fp]

(* A reservation is linked to no job before its key's one owner links the  *)
(* job he made, which is the job the key is completed with.                *)
Unlinked(k) == res[k] = NoRow \/ res[k].job = 0

(* The reservation of key k carries job j.                                 *)
LinkedTo(k, j) == res[k] # NoRow /\ res[k].job = j

(* Unless the key was misread, its reservation carries a job exactly from  *)
(* the attachment on, and it is the job the slot is completed with.        *)
LinkedToOwn ==
  /\ \A k \in Keys :
       /\ slot[k].state \in {"free", "failed_retriable", "failed_terminal"} => Unlinked(k)
       /\ slot[k].state = "completed" => LinkedTo(k, slot[k].job) \/ k \in misread
  /\ \A a \in Admitters : Working(a) =>
       \/ adm[a].key \in misread
       \/ IF adm[a].pc = "complete" THEN LinkedTo(adm[a].key, adm[a].job)
                                    ELSE Unlinked(adm[a].key)

(* Who was answered was told of a job made from the slot's request, and,   *)
(* unless the key was misread, of the job the slot still names.            *)
AnsweredAsDone ==
  \A x \in answers : /\ slot[x[1]].state = "completed"
                     /\ slot[x[1]].fp = x[2]
                     /\ x[3] \in 1..Len(jobs)
                     /\ jobs[x[3]].key = x[1] /\ jobs[x[3]].fp = x[2]
                     /\ slot[x[1]].job = x[3] \/ x[1] \in misread

(* The inductive invariant of the calls.                                   *)
CallsInv ==
  /\ CallsTyped /\ MisreadDone /\ Owned /\ OneOwner
  /\ MadeFromRequest /\ LinkedToOwn /\ AnsweredAsDone

(* The inductive invariant of the whole pipeline.                          *)
AdmissionInv == QuotaInv /\ CallsInv

(* Answers given from completed slots agree with each other and with the   *)
(* requests.                                                               *)
LEMMA CallsInvAgree == CallsInv => AnswersAgree
<1> SUFFICES ASSUME CallsInv PROVE AnswersAgree
  OBVIOUS
<1>1. ASSUME NEW x \in answers, NEW y \in answers, x[1] = y[1] PROVE Agree(x, y)
  BY <1>1 DEF CallsInv, AnsweredAsDone, Agree
<1>2. ASSUME NEW x \in answers PROVE jobs[x[3]].key = x[1] /\ jobs[x[3]].fp = x[2]
  BY DEF CallsInv, AnsweredAsDone
<1> QED
  BY <1>1, <1>2 DEF AnswersAgree

(* The pipeline starts with every slot free, no job and no answer.         *)
LEMMA CallsInitInv == AdmissionInit => AdmissionInv
<1> SUFFICES ASSUME AdmissionInit PROVE AdmissionInv
  OBVIOUS
<1>1. QuotaInv
  BY QuotaInitInv DEF AdmissionInit
<1>2. Idle \in Call /\ FreeSlot \in Slot /\ Idle.pc = "idle" /\ Idle.job = 0
  BY DEF Idle, Call, AdmissionPc, FreeSlot, Slot, SlotStates
<1>3. CallsTyped
  BY <1>2 DEF AdmissionInit, CallsTyped
<1>4. MisreadDone /\ Owned /\ OneOwner /\ MadeFromRequest /\ AnsweredAsDone
  BY <1>2 DEF AdmissionInit, MisreadDone, Owned, OneOwner, MadeFromRequest, AnsweredAsDone,
              Working, FreeSlot
<1>5. LinkedToOwn
  BY <1>2 DEF AdmissionInit, QuotaInit, LinkedToOwn, Unlinked, LinkedTo, Working, FreeSlot
<1> QED
  BY <1>1, <1>3, <1>4, <1>5 DEF AdmissionInv, CallsInv

-----------------------------------------------------------------------------
(* A call that starts, returns, dies, or moves on within its own work      *)
(* before the link, while quota operations may run.                        *)
LEMMA MoveKeepsCalls ==
  ASSUME CallsInv, NEW a \in Admitters, NEW c \in Call,
         adm' = [adm EXCEPT ![a] = c],
         c.pc # "idle" => c.key \in Keys /\ c.fp \in Fingerprints,
         c.pc \in {"limits", "reserve"} => c.max \in Limits,
         c.job \in 0..Len(jobs),
         \/ c.pc \in {"idle", "claim"}
         \/ /\ Working(a) /\ adm[a].pc # "complete"
            /\ c.pc \notin {"attach", "complete"}
            /\ c.key = adm[a].key /\ c.fp = adm[a].fp,
         UNCHANGED <<slot, jobs, answers, misread, ended>>,
         \A k \in Keys : LinkKept(k)
  PROVE  CallsInv'
<1>1. \A b \in Admitters : b # a => adm'[b] = adm[b]
  BY DEF CallsInv, CallsTyped
<1>2. adm'[a] = c
  BY DEF CallsInv, CallsTyped
<1>3. CallsTyped'
  BY <1>1, <1>2 DEF CallsInv, CallsTyped
<1>4. MisreadDone' /\ Owned' /\ OneOwner'
  BY <1>1, <1>2 DEF CallsInv, MisreadDone, Owned, OneOwner, Working
<1>5. MadeFromRequest' /\ AnsweredAsDone'
  BY <1>1, <1>2 DEF CallsInv, MadeFromRequest, AnsweredAsDone
<1>6. \A k \in Keys : /\ Unlinked(k) => Unlinked(k)'
                      /\ \A j : LinkedTo(k, j) => LinkedTo(k, j)'
  BY DEF LinkKept, Unlinked, LinkedTo
<1>7. LinkedToOwn'
  <2>1. ASSUME NEW k \in Keys
        PROVE  /\ slot'[k].state \in {"free", "failed_retriable", "failed_terminal"}
                     => Unlinked(k)'
               /\ slot'[k].state = "completed"
                    => LinkedTo(k, slot[k].job)' \/ k \in misread'
    BY <1>6, <2>1 DEF CallsInv, LinkedToOwn
  <2>2. ASSUME NEW b \in Admitters, Working(b)', adm'[b].key \notin misread'
        PROVE  IF adm'[b].pc = "complete" THEN LinkedTo(adm[b].key, adm[b].job)'
                                          ELSE Unlinked(adm[b].key)'
    <3>1. Working(b) /\ adm'[b].key = adm[b].key /\ adm[b].key \in Keys
      BY <1>1, <1>2, <2>2 DEF Working, CallsInv, CallsTyped
    <3>2. CASE b = a
      BY <1>2, <1>6, <2>2, <3>1, <3>2 DEF Working, CallsInv, LinkedToOwn, Unlinked
    <3>3. CASE b # a
      BY <1>1, <1>6, <2>2, <3>1, <3>3 DEF CallsInv, LinkedToOwn, Unlinked, LinkedTo
    <3> QED
      BY <3>2, <3>3
  <2> QED
    BY <2>1, <2>2 DEF LinkedToOwn, Unlinked, LinkedTo
<1> QED
  BY <1>3, <1>4, <1>5, <1>7 DEF CallsInv

(* A replay that fails to read the job of a completed slot goes on beside  *)
(* the slot, which its fail() does not move.                               *)
LEMMA MisreadKeepsCalls ==
  ASSUME CallsInv, NEW a \in Admitters, AdmissionAt(a, "claim"),
         ReplaySlot(KeyOf(a), adm[a].fp), Fail(KeyOf(a), "failed_retriable"),
         misread' = misread \cup {KeyOf(a)}, AdmissionGoto(a, "policy"),
         UNCHANGED <<res, jobs, answers, ended>>
  PROVE  CallsInv'
<1> DEFINE k == adm[a].key
<1>1. /\ k \in Keys /\ adm[a].fp \in Fingerprints /\ UNCHANGED slot
      /\ slot[k].state = "completed" /\ slot[k].fp = adm[a].fp
      /\ misread' = misread \cup {k}
  BY DEF CallsInv, CallsTyped, AdmissionAt, ReplaySlot, Fail, KeyOf
<1>2. /\ \A b \in Admitters : b # a => adm'[b] = adm[b]
      /\ adm'[a].pc = "policy" /\ adm'[a].key = k /\ adm'[a].fp = adm[a].fp
      /\ adm'[a].job = adm[a].job
      /\ adm' \in [Admitters -> Call]
  BY ZenonT(40) DEF CallsInv, CallsTyped, AdmissionGoto, Call, AdmissionPc
<1> HIDE DEF k
<1>3. CallsTyped'
  BY <1>1, <1>2 DEF CallsInv, CallsTyped
<1>4. MisreadDone' /\ Owned' /\ OneOwner'
  BY <1>1, <1>2 DEF CallsInv, MisreadDone, Owned, OneOwner, Working
<1>5. MadeFromRequest' /\ AnsweredAsDone'
  BY <1>1, <1>2 DEF CallsInv, MadeFromRequest, AnsweredAsDone
<1>6. LinkedToOwn'
  BY <1>1, <1>2 DEF CallsInv, LinkedToOwn, Unlinked, LinkedTo, Working
<1> QED
  BY <1>3, <1>4, <1>5, <1>6 DEF CallsInv

(* claim() takes a slot nobody works on: a pending one is not reclaimed.   *)
LEMMA TakeKeepsCalls ==
  ASSUME CallsInv, NEW a \in Admitters, AdmissionAt(a, "claim"),
         Reclaimable(KeyOf(a)), ClaimSlot(KeyOf(a), adm[a].fp), AdmissionGoto(a, "policy"),
         UNCHANGED <<res, jobs, answers, misread, ended>>
  PROVE  CallsInv'
<1> DEFINE k == adm[a].key
<1>1. /\ k \in Keys /\ adm[a].fp \in Fingerprints
      /\ slot[k].state \notin {"pending", "completed"} /\ k \notin misread
  BY DEF CallsInv, CallsTyped, MisreadDone, AdmissionAt, Reclaimable, KeyOf
<1>2. /\ slot'[k].state = "pending" /\ slot'[k].fp = adm[a].fp
      /\ \A i \in Keys : i # k => slot'[i] = slot[i]
      /\ slot' \in [Keys -> Slot]
  BY <1>1 DEF CallsInv, CallsTyped, ClaimSlot, KeyOf, Slot, SlotStates
<1>3. /\ \A b \in Admitters : b # a => adm'[b] = adm[b]
      /\ adm'[a].pc = "policy" /\ adm'[a].key = k /\ adm'[a].fp = adm[a].fp
      /\ adm'[a].job = adm[a].job
      /\ adm' \in [Admitters -> Call]
  BY ZenonT(40) DEF CallsInv, CallsTyped, AdmissionGoto, Call, AdmissionPc
<1>4. \A b \in Admitters : b # a /\ Working(b)' => Working(b) /\ adm[b].key # k
                                                /\ adm[b].key \in Keys
  BY <1>1, <1>3 DEF CallsInv, CallsTyped, Owned, Working
<1> HIDE DEF k
<1>5. CallsTyped'
  BY <1>1, <1>2, <1>3 DEF CallsInv, CallsTyped
<1>m. MisreadDone'
  BY <1>1, <1>2 DEF CallsInv, CallsTyped, MisreadDone
<1>6. Owned' /\ OneOwner'
  BY <1>1, <1>2, <1>3, <1>4 DEF CallsInv, Owned, OneOwner
<1>7. MadeFromRequest'
  BY <1>1, <1>2, <1>3 DEF CallsInv, MadeFromRequest
<1>a. AnsweredAsDone'
  <2>1. \A x \in answers : x[1] \in Keys /\ x[1] # k
    BY <1>1 DEF CallsInv, CallsTyped, AnsweredAsDone
  <2> QED
    BY <1>2, <2>1 DEF CallsInv, AnsweredAsDone
<1>8. LinkedToOwn'
  <2>1. Unlinked(k)
    BY <1>1 DEF CallsInv, CallsTyped, Slot, SlotStates, LinkedToOwn
  <2> QED
    BY <1>1, <1>2, <1>3, <1>4, <2>1 DEF CallsInv, LinkedToOwn, Unlinked, LinkedTo
<1> QED
  BY <1>5, <1>m, <1>6, <1>7, <1>8, <1>a DEF CallsInv

(* fail() by the owner: nobody was answered under a pending slot.          *)
LEMMA FailKeepsCalls ==
  ASSUME CallsInv, NEW a \in Admitters, Working(a), adm[a].pc # "complete",
         NEW st \in {"failed_retriable", "failed_terminal"},
         slot[KeyOf(a)].state = "pending",
         Fail(KeyOf(a), st), AdmissionReturn(a), UNCHANGED <<res, jobs, answers, misread, ended>>
  PROVE  CallsInv'
<1> DEFINE k == adm[a].key
<1>1. k \in Keys /\ slot[k].state = "pending" /\ k \notin misread
  BY DEF CallsInv, CallsTyped, MisreadDone, KeyOf, Working
<1>2. /\ slot'[k].state = st
      /\ \A i \in Keys : i # k => slot'[i] = slot[i]
      /\ slot' \in [Keys -> Slot]
  BY <1>1 DEF CallsInv, CallsTyped, Fail, KeyOf, Slot, SlotStates
<1>3. /\ \A b \in Admitters : b # a => adm'[b] = adm[b]
      /\ adm'[a] = Idle /\ Idle.pc = "idle" /\ Idle.job = 0
      /\ adm' \in [Admitters -> Call]
  <2>1. Idle \in Call /\ Idle.pc = "idle" /\ Idle.job = 0
    BY DEF Idle, Call, AdmissionPc
  <2> QED
    BY <2>1 DEF CallsInv, CallsTyped, AdmissionReturn
<1>4. \A b \in Admitters : Working(b)' => b # a /\ Working(b) /\ adm[b].key # k
                                       /\ adm[b].key \in Keys
  BY <1>1, <1>3 DEF CallsInv, CallsTyped, OneOwner, Working
<1>5. Unlinked(k)
  BY <1>1 DEF CallsInv, LinkedToOwn
<1> HIDE DEF k
<1>6. CallsTyped'
  BY <1>1, <1>2, <1>3 DEF CallsInv, CallsTyped
<1>m. MisreadDone'
  BY <1>1, <1>2 DEF CallsInv, CallsTyped, MisreadDone
<1>7. Owned' /\ OneOwner'
  BY <1>1, <1>2, <1>3, <1>4 DEF CallsInv, Owned, OneOwner
<1>8. MadeFromRequest'
  BY <1>1, <1>2, <1>3 DEF CallsInv, MadeFromRequest
<1>a. AnsweredAsDone'
  <2>1. \A x \in answers : x[1] \in Keys /\ x[1] # k
    BY <1>1 DEF CallsInv, CallsTyped, AnsweredAsDone
  <2> QED
    BY <1>2, <2>1 DEF CallsInv, AnsweredAsDone
<1>9. LinkedToOwn'
  BY <1>1, <1>2, <1>3, <1>4, <1>5 DEF CallsInv, LinkedToOwn, Unlinked, LinkedTo
<1> QED
  BY <1>6, <1>m, <1>7, <1>8, <1>9, <1>a DEF CallsInv

(* createJob: the new record is the last one, the others stay.             *)
LEMMA MakeKeepsCalls ==
  ASSUME CallsInv, NEW a \in Admitters, adm[a].pc = "create",
         jobs' = Append(jobs, [key |-> KeyOf(a), fp |-> adm[a].fp]),
         \/ adm' = [adm EXCEPT ![a].pc = "attach", ![a].job = Len(jobs')]
         \/ AdmissionGoto(a, "release"),
         UNCHANGED <<res, slot, answers, misread, ended>>
  PROVE  CallsInv'
<1> DEFINE k == adm[a].key
           made == [key |-> k, fp |-> adm[a].fp]
<1>1. k \in Keys /\ adm[a].fp \in Fingerprints /\ made \in AdmittedJob /\ Working(a)
  BY DEF CallsInv, CallsTyped, AdmittedJob, Working
<1>2. /\ jobs' \in Seq(AdmittedJob) /\ Len(jobs') = Len(jobs) + 1 /\ Len(jobs) \in Nat
      /\ jobs'[Len(jobs) + 1] = made
      /\ \A j \in 1..Len(jobs) : jobs'[j] = jobs[j]
  BY <1>1 DEF CallsInv, CallsTyped, KeyOf
<1>3. /\ \A b \in Admitters : b # a => adm'[b] = adm[b]
      /\ adm'[a].key = k /\ adm'[a].fp = adm[a].fp
      /\ \/ adm'[a].pc = "attach" /\ adm'[a].job = Len(jobs) + 1
         \/ adm'[a].pc = "release" /\ adm'[a].job = adm[a].job
      /\ adm' \in [Admitters -> Call]
  <2>1. adm \in [Admitters -> Call] /\ {"attach", "release"} \subseteq AdmissionPc
        /\ Len(jobs') \in Nat
    BY <1>2 DEF CallsInv, CallsTyped, AdmissionPc
  <2>2. CASE adm' = [adm EXCEPT ![a].pc = "attach", ![a].job = Len(jobs')]
    <3> DEFINE c == [adm[a] EXCEPT !.pc = "attach", !.job = Len(jobs) + 1]
    <3>1. adm' = [adm EXCEPT ![a] = c]
      BY <1>2, <2>2
    <3>2. adm[a] \in Call /\ Len(jobs) + 1 \in Nat
      BY <1>2, <2>1
    <3>3. /\ c \in Call /\ c.pc = "attach" /\ c.job = Len(jobs) + 1
          /\ c.key = adm[a].key /\ c.fp = adm[a].fp
      BY <2>1, <3>2 DEF Call
    <3> HIDE DEF c
    <3> QED
      BY <2>1, <3>1, <3>3
  <2>3. CASE AdmissionGoto(a, "release")
    BY <2>1, <2>3 DEF AdmissionGoto, Call
  <2> QED
    BY <2>2, <2>3
<1> HIDE DEF k, made
<1>4. CallsTyped'
  BY <1>1, <1>2, <1>3, SMTT(20) DEF CallsInv, CallsTyped
<1>5. MisreadDone' /\ Owned' /\ OneOwner'
  BY <1>1, <1>3 DEF CallsInv, MisreadDone, Owned, OneOwner, Working, k
<1>a. AnsweredAsDone'
  BY <1>2 DEF CallsInv, AnsweredAsDone
<1>6. MadeFromRequest'
  <2>1. ASSUME NEW b \in Admitters, adm'[b].pc \in {"attach", "complete"}
        PROVE  /\ adm'[b].job \in 1..Len(jobs')
               /\ jobs'[adm'[b].job] = [key |-> adm'[b].key, fp |-> adm'[b].fp]
    <3>1. CASE b = a
      BY <1>2, <1>3, <2>1, <3>1 DEF made
    <3>2. CASE b # a
      <4>1. adm[b].job \in 1..Len(jobs) /\ adm'[b] = adm[b]
            /\ jobs[adm[b].job] = [key |-> adm[b].key, fp |-> adm[b].fp]
        BY <1>3, <2>1, <3>2 DEF CallsInv, MadeFromRequest
      <4> QED
        BY <1>2, <4>1
    <3> QED
      BY <3>1, <3>2
  <2>2. ASSUME NEW i \in Keys, slot'[i].state = "completed"
        PROVE  /\ slot'[i].job \in 1..Len(jobs')
               /\ jobs'[slot'[i].job] = [key |-> i, fp |-> slot'[i].fp]
    <3>1. slot[i].job \in 1..Len(jobs) /\ jobs[slot[i].job] = [key |-> i, fp |-> slot[i].fp]
      BY <2>2 DEF CallsInv, MadeFromRequest
    <3> QED
      BY <1>2, <3>1
  <2> QED
    BY <2>1, <2>2 DEF MadeFromRequest
<1>7. LinkedToOwn'
  BY <1>1, <1>3 DEF CallsInv, LinkedToOwn, Unlinked, LinkedTo, Working, k
<1> QED
  BY <1>4, <1>5, <1>6, <1>7, <1>a DEF CallsInv

(* attachJob: unless the key was misread the row had no job, and has this  *)
(* one now.                                                                *)
LEMMA LinkKeepsCalls ==
  ASSUME QuotaTypeOK, CallsInv, NEW a \in Admitters, adm[a].pc = "attach",
         AdmissionGoto(a, "complete"), AttachJob(KeyOf(a), adm[a].job),
         UNCHANGED <<slot, jobs, answers, misread, ended>>
  PROVE  CallsInv'
<1> DEFINE k == adm[a].key
<1>1. /\ k \in Keys /\ Working(a) /\ (slot[k].state = "pending" \/ k \in misread)
      /\ adm[a].job \in Nat /\ adm[a].job # 0
  <2>1. Working(a)
    BY DEF Working
  <2>2. k \in Keys /\ (slot[k].state = "pending" \/ k \in misread)
    BY <2>1 DEF CallsInv, CallsTyped, Owned, Working
  <2>3. adm[a].job \in 1..Len(jobs)
    BY DEF CallsInv, MadeFromRequest
  <2>4. Len(jobs) \in Nat
    BY DEF CallsInv, CallsTyped
  <2> QED
    BY <2>1, <2>2, <2>3, <2>4
<1>2. /\ k \in misread \/ (res'[k] # NoRow /\ res'[k].job = adm[a].job)
      /\ \A i \in Keys : i # k => res'[i] = res[i]
  <2>1. AttachJob(k, adm[a].job) /\ res[k] # NoRow /\ (Unlinked(k) \/ k \in misread)
    BY <1>1 DEF AttachJob, KeyOf, CallsInv, LinkedToOwn
  <2>2. /\ res'[k] # NoRow
        /\ res'[k].job = IF res[k].job = 0 THEN adm[a].job ELSE res[k].job
        /\ \A i \in Keys : i # k => res'[i] = res[i]
    BY <1>1, <2>1, RowsAfterLink
  <2> QED
    BY <2>1, <2>2 DEF Unlinked
<1>3. /\ \A b \in Admitters : b # a => adm'[b] = adm[b]
      /\ adm'[a].key = k /\ adm'[a].fp = adm[a].fp
      /\ adm'[a].pc = "complete" /\ adm'[a].job = adm[a].job
      /\ adm' \in [Admitters -> Call]
  BY ZenonT(40) DEF CallsInv, CallsTyped, AdmissionGoto, Call, AdmissionPc
<1>4. \A b \in Admitters : b # a /\ Working(b)
        => adm[b].key \in Keys /\ (adm[b].key # k \/ k \in misread)
  BY <1>1 DEF CallsInv, CallsTyped, OneOwner, Working
<1>5. CallsTyped'
  BY <1>1, <1>3 DEF CallsInv, CallsTyped
<1>6. MisreadDone' /\ Owned' /\ OneOwner' /\ AnsweredAsDone'
  BY <1>1, <1>3 DEF CallsInv, MisreadDone, Owned, OneOwner, AnsweredAsDone, Working
<1>7. MadeFromRequest'
  BY <1>3 DEF CallsInv, MadeFromRequest
<1>d. k \in misread => slot[k].state = "completed"
  BY DEF CallsInv, MisreadDone
<1>8. LinkedToOwn'
  <2> HIDE DEF k
  <2>1. ASSUME NEW i \in Keys
        PROVE  /\ slot'[i].state \in {"free", "failed_retriable", "failed_terminal"}
                    => Unlinked(i)'
               /\ slot'[i].state = "completed"
                    => LinkedTo(i, slot[i].job)' \/ i \in misread'
    BY <1>1, <1>2, <1>d DEF CallsInv, LinkedToOwn, Unlinked, LinkedTo
  <2>2. ASSUME NEW b \in Admitters, Working(b)', adm'[b].key \notin misread'
        PROVE  IF adm'[b].pc = "complete" THEN LinkedTo(adm[b].key, adm[b].job)'
                                          ELSE Unlinked(adm[b].key)'
    <3>1. CASE b = a
      BY <1>2, <1>3, <2>2, <3>1 DEF LinkedTo
    <3>2. CASE b # a
      <4>1. /\ Working(b) /\ adm'[b] = adm[b] /\ adm[b].key # k /\ adm[b].key \in Keys
            /\ adm[b].key \notin misread
        BY <1>3, <1>4, <2>2, <3>2 DEF Working
      <4> QED
        BY <1>2, <4>1 DEF CallsInv, LinkedToOwn, Unlinked, LinkedTo
    <3> QED
      BY <3>1, <3>2
  <2> QED
    BY <2>1, <2>2 DEF LinkedToOwn, Unlinked, LinkedTo
<1> QED
  BY <1>5, <1>6, <1>7, <1>8 DEF CallsInv

(* complete() by a call, which answers with the job it made: the owner's   *)
(* slot was pending, a misread one stays completed.                        *)
LEMMA CompleteKeepsCalls ==
  ASSUME CallsInv, NEW a \in Admitters, Complete(a)
  PROVE  CallsInv'
<1> DEFINE k == adm[a].key
<1>1. /\ k \in Keys /\ Working(a) /\ adm[a].pc = "complete" /\ adm[a].job \in Nat
      /\ \/ slot[k].state = "pending" /\ k \notin misread
         \/ slot[k].state = "completed" /\ k \in misread
      /\ slot[k].fp = adm[a].fp /\ adm[a].fp \in Fingerprints
  BY DEF Complete, AdmissionAt, CallsInv, CallsTyped, MisreadDone, Owned, Working,
         MadeFromRequest
<1>2. /\ slot'[k].state = "completed" /\ slot'[k].fp = adm[a].fp /\ slot'[k].job = adm[a].job
      /\ \A i \in Keys : i # k => slot'[i] = slot[i]
      /\ slot' \in [Keys -> Slot]
  BY <1>1, ZenonT(40) DEF CallsInv, CallsTyped, Complete, CompleteSlot, KeyOf, Slot, SlotStates
<1>3. /\ \A b \in Admitters : b # a => adm'[b] = adm[b]
      /\ adm'[a] = Idle /\ Idle.pc = "idle" /\ Idle.job = 0
      /\ adm' \in [Admitters -> Call]
  <2>1. Idle \in Call /\ Idle.pc = "idle" /\ Idle.job = 0
    BY DEF Idle, Call, AdmissionPc
  <2> QED
    BY <2>1 DEF CallsInv, CallsTyped, Complete, AdmissionReturn
<1>4. /\ UNCHANGED <<res, jobs, misread, ended>>
      /\ answers' = answers \cup {<<k, adm[a].fp, adm[a].job>>}
  BY DEF Complete, quotaVars, KeyOf
<1>5. \A b \in Admitters : Working(b)' =>
        b # a /\ Working(b) /\ adm[b].key \in Keys /\ (adm[b].key # k \/ k \in misread)
  BY <1>1, <1>3 DEF CallsInv, CallsTyped, OneOwner, Working
<1>6. LinkedTo(k, adm[a].job) \/ k \in misread
  BY <1>1 DEF CallsInv, LinkedToOwn
<1>7. /\ adm[a].job \in 1..Len(jobs)
      /\ jobs[adm[a].job] = [key |-> k, fp |-> adm[a].fp]
  BY <1>1 DEF CallsInv, MadeFromRequest
<1> HIDE DEF k
<1>8. CallsTyped'
  BY <1>1, <1>2, <1>3, <1>4, SMTT(20) DEF CallsInv, CallsTyped
<1>m. MisreadDone'
  BY <1>1, <1>2, <1>4 DEF CallsInv, CallsTyped, MisreadDone
<1>9. Owned' /\ OneOwner'
  BY <1>1, <1>2, <1>3, <1>4, <1>5 DEF CallsInv, Owned, OneOwner
<1>10. MadeFromRequest'
  BY <1>1, <1>2, <1>3, <1>4, <1>7, SMTT(20) DEF CallsInv, MadeFromRequest
<1>11. LinkedToOwn'
  BY <1>1, <1>2, <1>3, <1>4, <1>5, <1>6 DEF CallsInv, LinkedToOwn, Unlinked, LinkedTo
<1>12. AnsweredAsDone'
  <2>1. ASSUME NEW x \in answers
        PROVE  /\ slot'[x[1]].state = "completed" /\ slot'[x[1]].fp = x[2]
               /\ slot'[x[1]].job = x[3] \/ x[1] \in misread
    <3>1. /\ x[1] \in Keys /\ slot[x[1]].state = "completed" /\ slot[x[1]].fp = x[2]
          /\ slot[x[1]].job = x[3] \/ x[1] \in misread
      BY DEF CallsInv, CallsTyped, AnsweredAsDone
    <3> QED
      BY <1>1, <1>2, <3>1
  <2>2. \A x \in answers :
          x[3] \in 1..Len(jobs) /\ jobs[x[3]].key = x[1] /\ jobs[x[3]].fp = x[2]
    BY DEF CallsInv, AnsweredAsDone
  <2>3. jobs[adm[a].job].key = k /\ jobs[adm[a].job].fp = adm[a].fp
    BY <1>7
  <2> QED
    BY <1>2, <1>4, <1>7, <2>1, <2>2, <2>3 DEF AnsweredAsDone
<1> QED
  BY <1>8, <1>m, <1>9, <1>10, <1>11, <1>12 DEF CallsInv

(* A retry under a completed slot is told what the slot says.              *)
LEMMA ReplayKeepsCalls ==
  ASSUME CallsInv, NEW a \in Admitters, AdmissionAt(a, "claim"),
         ReplaySlot(KeyOf(a), adm[a].fp), AdmissionReturn(a),
         answers' = answers \cup {<<KeyOf(a), adm[a].fp, slot[KeyOf(a)].job>>},
         UNCHANGED <<res, slot, jobs, misread, ended>>
  PROVE  CallsInv'
<1> DEFINE k == adm[a].key
<1>1. /\ k \in Keys /\ adm[a].fp \in Fingerprints /\ ~Working(a)
      /\ slot[k].state = "completed" /\ slot[k].fp = adm[a].fp /\ slot[k].job \in Nat
  BY DEF AdmissionAt, ReplaySlot, KeyOf, CallsInv, CallsTyped, Working, Slot
<1>2. /\ \A b \in Admitters : b # a => adm'[b] = adm[b]
      /\ adm'[a] = Idle /\ Idle.pc = "idle" /\ Idle.job = 0
      /\ adm' \in [Admitters -> Call]
  <2>1. Idle \in Call /\ Idle.pc = "idle" /\ Idle.job = 0
    BY DEF Idle, Call, AdmissionPc
  <2> QED
    BY <2>1 DEF CallsInv, CallsTyped, AdmissionReturn
<1>3. CallsTyped'
  BY <1>1, <1>2 DEF CallsInv, CallsTyped, KeyOf
<1>4. MisreadDone' /\ Owned' /\ OneOwner' /\ MadeFromRequest'
  BY <1>2 DEF CallsInv, MisreadDone, Owned, OneOwner, MadeFromRequest, Working
<1>5. LinkedToOwn'
  BY <1>2 DEF CallsInv, LinkedToOwn, Unlinked, LinkedTo, Working
<1>6. AnsweredAsDone'
  <2>1. slot[k].job \in 1..Len(jobs) /\ jobs[slot[k].job] = [key |-> k, fp |-> adm[a].fp]
    BY <1>1 DEF CallsInv, MadeFromRequest
  <2>2. jobs[slot[k].job].key = k /\ jobs[slot[k].job].fp = adm[a].fp
    BY <2>1
  <2> QED
    BY <1>1, <2>1, <2>2 DEF CallsInv, AnsweredAsDone, KeyOf
<1> QED
  BY <1>3, <1>4, <1>5, <1>6 DEF CallsInv

(* Operations on the quota store and ends of jobs leave the calls alone.   *)
LEMMA OutsideKeepsCalls ==
  ASSUME CallsInv, UNCHANGED <<slot, adm, jobs, answers, misread>>,
         ended' \subseteq 1..Len(jobs), \A k \in Keys : LinkKept(k)
  PROVE  CallsInv'
<1>1. /\ CallsTyped' /\ MisreadDone' /\ Owned' /\ OneOwner'
      /\ MadeFromRequest' /\ AnsweredAsDone'
  BY DEF CallsInv, CallsTyped, MisreadDone, Owned, OneOwner, MadeFromRequest, AnsweredAsDone,
         Working
<1>2. \A k \in Keys : /\ Unlinked(k) => Unlinked(k)'
                      /\ \A j : LinkedTo(k, j) => LinkedTo(k, j)'
  BY DEF LinkKept, Unlinked, LinkedTo
<1>3. \A a \in Admitters : Working(a) => adm[a].key \in Keys
  BY DEF CallsInv, CallsTyped, Working
<1>4. LinkedToOwn'
  BY <1>2, <1>3 DEF CallsInv, LinkedToOwn, Working, Unlinked, LinkedTo
<1> QED
  BY <1>1, <1>4 DEF CallsInv

(* What a call becomes when it moves on, and when it returns.              *)
LEMMA CallValues ==
  ASSUME CallsInv, NEW a \in Admitters
  PROVE  /\ \A pc \in AdmissionPc :
              /\ [adm[a] EXCEPT !.pc = pc] \in Call
              /\ [adm[a] EXCEPT !.pc = pc].pc = pc
              /\ [adm[a] EXCEPT !.pc = pc].key = adm[a].key
              /\ [adm[a] EXCEPT !.pc = pc].fp = adm[a].fp
              /\ [adm[a] EXCEPT !.pc = pc].max = adm[a].max
              /\ [adm[a] EXCEPT !.pc = pc].job = adm[a].job
         /\ Idle \in Call /\ Idle.pc = "idle" /\ Idle.job = 0
         /\ 0 \in 0..Len(jobs)
<1>1. adm[a] \in Call
  BY DEF CallsInv, CallsTyped
<1>2. ASSUME NEW pc \in AdmissionPc
      PROVE  /\ [adm[a] EXCEPT !.pc = pc] \in Call
             /\ [adm[a] EXCEPT !.pc = pc].pc = pc
             /\ [adm[a] EXCEPT !.pc = pc].key = adm[a].key
             /\ [adm[a] EXCEPT !.pc = pc].fp = adm[a].fp
             /\ [adm[a] EXCEPT !.pc = pc].max = adm[a].max
             /\ [adm[a] EXCEPT !.pc = pc].job = adm[a].job
  BY <1>1 DEF Call
<1>3. Idle \in Call /\ Idle.pc = "idle" /\ Idle.job = 0
  BY DEF Idle, Call, AdmissionPc
<1>4. 0 \in 0..Len(jobs)
  BY DEF CallsInv, CallsTyped
<1> QED
  BY <1>2, <1>3, <1>4

(* AdmissionReturn and AdmissionGoto, where they are a plain move.         *)
LEMMA ReturnKeepsCalls ==
  ASSUME CallsInv, NEW a \in Admitters, AdmissionReturn(a),
         UNCHANGED <<res, slot, jobs, answers, misread, ended>>
  PROVE  CallsInv'
<1>1. /\ Idle \in Call /\ Idle.pc = "idle" /\ Idle.job \in 0..Len(jobs)
      /\ adm' = [adm EXCEPT ![a] = Idle]
  BY CallValues DEF AdmissionReturn
<1>2. \A k \in Keys : LinkKept(k)
  BY DEF LinkKept
<1> QED
  BY <1>1, <1>2, MoveKeepsCalls

(* A step that only moves a call at work to its next point keeps the       *)
(* invariant of the calls.                                                 *)
LEMMA GotoKeepsCalls ==
  ASSUME CallsInv, NEW a \in Admitters, NEW pc \in AdmissionPc, AdmissionGoto(a, pc),
         Working(a), adm[a].pc # "complete",
         pc \notin {"idle", "claim", "attach", "complete"},
         pc \in {"limits", "reserve"} => adm[a].max \in Limits,
         UNCHANGED <<slot, jobs, answers, misread, ended>>, \A k \in Keys : LinkKept(k)
  PROVE  CallsInv'
<1> DEFINE c == [adm[a] EXCEPT !.pc = pc]
<1>1. /\ c \in Call /\ c.pc = pc /\ c.key = adm[a].key /\ c.fp = adm[a].fp
      /\ c.max = adm[a].max /\ c.job = adm[a].job
  BY CallValues
<1>2. adm[a].key \in Keys /\ adm[a].fp \in Fingerprints /\ adm[a].job \in 0..Len(jobs)
  BY DEF CallsInv, CallsTyped, Working
<1>3. adm' = [adm EXCEPT ![a] = c]
  BY DEF AdmissionGoto
<1> HIDE DEF c
<1> QED
  BY <1>1, <1>2, <1>3, MoveKeepsCalls

-----------------------------------------------------------------------------
(* The steps of a call, with what each does to the quota store.            *)
LEMMA CallStep ==
  ASSUME QuotaTypeOK, CallsInv, NEW a \in Admitters, AdmitterStep(a)
  PROVE  CallsInv' /\ [QuotaStep]_quotaVars
<1>k. adm[a].pc # "idle" => adm[a].key \in Keys /\ adm[a].fp \in Fingerprints
                            /\ ScopeOf(a) \in Scopes
  <2>1. \A fp \in Fingerprints : fp[1] \in Scopes
    BY AdmissionAssumption DEF Fingerprints, Fingerprint
  <2> QED
    BY <2>1 DEF CallsInv, CallsTyped, ScopeOf
<1>u. ASSUME UNCHANGED res PROVE \A k \in Keys : LinkKept(k)
  BY <1>u DEF LinkKept
<1>1. CASE Claim(a)
  <2>1. UNCHANGED quotaVars /\ UNCHANGED <<res, jobs, ended>> /\ AdmissionAt(a, "claim")
    BY <1>1 DEF Claim, quotaVars
  <2>2. CASE Reclaimable(KeyOf(a)) /\ ClaimSlot(KeyOf(a), adm[a].fp)
             /\ AdmissionGoto(a, "policy") /\ UNCHANGED <<answers, misread>>
    BY <2>1, <2>2, TakeKeepsCalls
  <2>3. CASE ReplaySlot(KeyOf(a), adm[a].fp) /\ AdmissionReturn(a) /\ UNCHANGED <<slot, misread>>
             /\ answers' = answers \cup {<<KeyOf(a), adm[a].fp, slot[KeyOf(a)].job>>}
    BY <2>1, <2>3, ReplayKeepsCalls
  <2>4. CASE AdmissionReturn(a) /\ UNCHANGED <<slot, answers, misread>>
    BY <2>1, <2>4, ReturnKeepsCalls
  <2>5. CASE ReplaySlot(KeyOf(a), adm[a].fp) /\ Fail(KeyOf(a), "failed_retriable")
             /\ misread' = misread \cup {KeyOf(a)} /\ AdmissionGoto(a, "policy")
             /\ UNCHANGED answers
    BY <2>1, <2>5, MisreadKeepsCalls
  <2> QED
    BY <1>1, <2>2, <2>3, <2>4, <2>5 DEF Claim
<1>2. CASE EvaluatePolicy(a)
  <2>1. /\ UNCHANGED quotaVars /\ UNCHANGED <<res, slot, jobs, answers, misread, ended>>
        /\ adm[a].pc = "policy" /\ Working(a)
    BY <1>2 DEF EvaluatePolicy, quotaVars, AdmissionAt, Working
  <2>2. CASE AdmissionGoto(a, "deny")
    BY <1>u, <2>1, <2>2, GotoKeepsCalls DEF AdmissionPc
  <2>3. ASSUME NEW max \in Limits, adm' = [adm EXCEPT ![a].pc = "limits", ![a].max = max]
        PROVE  CallsInv'
    <3> DEFINE c == [adm[a] EXCEPT !.pc = "limits", !.max = max]
    <3>1. adm[a] \in Call /\ max \in Nat /\ adm[a].job \in 0..Len(jobs)
      BY QuotaAssumption DEF CallsInv, CallsTyped
    <3>2. /\ c \in Call /\ c.pc = "limits" /\ c.max = max /\ c.key = adm[a].key
          /\ c.fp = adm[a].fp /\ c.job = adm[a].job
      BY <3>1 DEF Call, AdmissionPc
    <3>3. adm' = [adm EXCEPT ![a] = c]
      BY <2>3
    <3> HIDE DEF c
    <3> QED
      BY <1>k, <1>u, <2>1, <3>1, <3>2, <3>3, MoveKeepsCalls
  <2> QED
    BY <1>2, <2>1, <2>2, <2>3 DEF EvaluatePolicy
<1>3. CASE Deny(a) \/ QuotaRejected(a) \/ JobCreationFailed(a)
  <2>1. /\ UNCHANGED quotaVars /\ UNCHANGED <<res, jobs, answers, misread, ended>>
        /\ adm[a].pc \in {"deny", "noQuota", "failed"} /\ AdmissionReturn(a)
        /\ \E st \in {"failed_retriable", "failed_terminal"} : Fail(KeyOf(a), st)
    BY <1>3 DEF Deny, QuotaRejected, JobCreationFailed, quotaVars, AdmissionAt
  <2>2. Working(a) /\ adm[a].pc # "complete"
    BY <2>1 DEF Working
  <2>3. CASE slot[KeyOf(a)].state = "pending"
    BY <2>1, <2>2, <2>3, FailKeepsCalls
  <2>4. CASE slot[KeyOf(a)].state # "pending"
    <3>1. slot[KeyOf(a)].state = "completed"
      BY <2>2, <2>4 DEF CallsInv, CallsTyped, MisreadDone, Owned, KeyOf
    <3>2. UNCHANGED slot
      BY <2>1, <3>1 DEF Fail
    <3> QED
      BY <2>1, <3>2, ReturnKeepsCalls
  <2> QED
    BY <2>1, <2>3, <2>4
<1>4. CASE PublishLimits(a)
  <2>1. /\ SetLimits(ScopeOf(a), adm[a].max) /\ AdmissionGoto(a, "reserve")
        /\ UNCHANGED <<res, slot, jobs, answers, misread, ended>>
        /\ adm[a].pc = "limits" /\ Working(a) /\ adm[a].max \in Limits
    BY <1>4 DEF PublishLimits, SetLimits, AdmissionAt, Working, CallsInv, CallsTyped
  <2>2. CallsInv'
    BY <1>u, <2>1, GotoKeepsCalls DEF AdmissionPc
  <2>3. QuotaStep
    BY <1>k, <2>1 DEF QuotaStep, UnlinkedStep
  <2> QED
    BY <2>2, <2>3
<1>5. CASE Reserve(a)
  <2>1. /\ adm[a].pc = "reserve" /\ Working(a) /\ adm[a].max \in Limits
        /\ UNCHANGED <<slot, jobs, answers, misread, ended>>
    BY <1>5 DEF Reserve, AdmissionAt, Working, CallsInv, CallsTyped
  <2>2. ASSUME NEW v \in Nat, adm' = [adm EXCEPT ![a].pc = "create", ![a].version = v],
               \A k \in Keys : LinkKept(k)
        PROVE  CallsInv'
    <3> DEFINE c == [adm[a] EXCEPT !.pc = "create", !.version = v]
    <3>1. adm[a] \in Call /\ adm[a].job \in 0..Len(jobs)
      BY DEF CallsInv, CallsTyped
    <3>2. /\ c \in Call /\ c.pc = "create" /\ c.key = adm[a].key
          /\ c.fp = adm[a].fp /\ c.job = adm[a].job
      BY <3>1 DEF Call, AdmissionPc
    <3>3. adm' = [adm EXCEPT ![a] = c]
      BY <2>2
    <3> HIDE DEF c
    <3> QED
      BY <1>k, <2>1, <2>2, <3>1, <3>2, <3>3, MoveKeepsCalls
  <2>3. CASE /\ Replayed(KeyOf(a)) /\ UNCHANGED quotaVars
             /\ adm' = [adm EXCEPT ![a].pc = "create", ![a].version = res[KeyOf(a)].version]
    <3>1. res[KeyOf(a)].version \in Nat
      BY <1>k, <2>1, <2>3, RowValues DEF Replayed, KeyOf, QuotaTypeOK
    <3> QED
      BY <1>u, <2>2, <2>3, <3>1 DEF quotaVars
  <2>4. CASE /\ ReserveNew(ScopeOf(a), KeyOf(a), adm[a].max)
             /\ adm' = [adm EXCEPT ![a].pc = "create", ![a].version = 1]
    <3>1. UnlinkedStep
      BY <1>k, <2>1, <2>4 DEF UnlinkedStep, KeyOf
    <3> QED
      BY <2>2, <2>4, <3>1, RowsAfterUnlinked DEF QuotaStep
  <2>5. CASE AdmissionGoto(a, "noQuota") /\ UNCHANGED quotaVars
    BY <1>u, <2>1, <2>5, GotoKeepsCalls DEF quotaVars, AdmissionPc
  <2> QED
    BY <1>5, <2>3, <2>4, <2>5 DEF Reserve
<1>6. CASE CreateJob(a)
  <2>1. /\ adm[a].pc = "create" /\ Working(a) /\ UNCHANGED quotaVars
        /\ UNCHANGED <<res, slot, answers, misread, ended>>
    BY <1>6 DEF CreateJob, AdmissionAt, Working, quotaVars
  <2>2. CASE AdmissionGoto(a, "release") /\ UNCHANGED jobs
    BY <1>u, <2>1, <2>2, GotoKeepsCalls DEF AdmissionPc
  <2>3. CASE /\ jobs' = Append(jobs, [key |-> KeyOf(a), fp |-> adm[a].fp])
             /\ \/ adm' = [adm EXCEPT ![a].pc = "attach", ![a].job = Len(jobs')]
                \/ AdmissionGoto(a, "release")
    BY <2>1, <2>3, MakeKeepsCalls
  <2> QED
    BY <1>6, <2>1, <2>2, <2>3 DEF CreateJob
<1>7. CASE Compensate(a)
  <2>1. /\ adm[a].pc = "release" /\ Working(a) /\ AdmissionGoto(a, "failed")
        /\ UNCHANGED <<slot, jobs, answers, misread, ended>>
        /\ Release(KeyOf(a), adm[a].version) \/ UNCHANGED quotaVars
    BY <1>7 DEF Compensate, AdmissionAt, Working
  <2>2. KeyOf(a) \in Keys /\ adm[a].version \in Nat
    BY <1>k, <2>1 DEF KeyOf, CallsInv, CallsTyped, Call
  <2>3. UnlinkedStep \/ UNCHANGED quotaVars
    BY <2>1, <2>2 DEF UnlinkedStep
  <2>4. \A k \in Keys : LinkKept(k)
    BY <1>u, <2>3, RowsAfterUnlinked DEF quotaVars
  <2> QED
    BY <2>1, <2>3, <2>4, GotoKeepsCalls DEF QuotaStep, AdmissionPc
<1>8. CASE LinkJob(a)
  <2>1. /\ adm[a].pc = "attach" /\ AdmissionGoto(a, "complete")
        /\ AttachJob(KeyOf(a), adm[a].job) /\ UNCHANGED <<slot, jobs, answers, misread, ended>>
    BY <1>8 DEF LinkJob, AdmissionAt
  <2>2. KeyOf(a) \in Keys /\ adm[a].job \in Nat
    BY <1>k, <2>1 DEF KeyOf, CallsInv, CallsTyped, Call
  <2> QED
    BY <2>1, <2>2, LinkKeepsCalls DEF QuotaStep
<1>9. CASE Complete(a)
  BY <1>9, CompleteKeepsCalls DEF Complete
<1> QED
  BY <1>1, <1>2, <1>3, <1>4, <1>5, <1>6, <1>7, <1>8, <1>9 DEF AdmitterStep

(* Every step keeps the invariant, and is a step of the quota store as     *)
(* seen there.                                                             *)
LEMMA AdmissionStepInv ==
  AdmissionInv /\ [AdmissionNext]_admissionVars => AdmissionInv' /\ [QuotaStep]_quotaVars
<1> SUFFICES ASSUME AdmissionInv, [AdmissionNext]_admissionVars
             PROVE  AdmissionInv' /\ [QuotaStep]_quotaVars
  OBVIOUS
<1>t. QuotaInv /\ QuotaTypeOK /\ CallsInv
  BY DEF AdmissionInv, QuotaInv
<1> SUFFICES CallsInv' /\ [QuotaStep]_quotaVars
  BY <1>t, QuotaStepInv DEF AdmissionInv
<1>u. ASSUME UNCHANGED quotaVars PROVE \A k \in Keys : LinkKept(k)
  BY <1>u DEF LinkKept, quotaVars
<1>1. ASSUME NEW a \in Admitters, NEW r \in Requests, Admit(a, r)
      PROVE  CallsInv' /\ [QuotaStep]_quotaVars
  <2> DEFINE c == [Idle EXCEPT !.pc = "claim", !.key = r.key, !.fp = Fingerprint(r)]
  <2>1. /\ adm' = [adm EXCEPT ![a] = c] /\ UNCHANGED quotaVars
        /\ UNCHANGED <<slot, jobs, answers, misread, ended>>
    BY <1>1 DEF Admit
  <2>2. r.key \in Keys /\ Fingerprint(r) \in Fingerprints
    BY AdmissionAssumption DEF Fingerprints
  <2>3. /\ c \in Call /\ c.pc = "claim" /\ c.key \in Keys /\ c.fp \in Fingerprints
        /\ c.job = 0
    BY <2>2 DEF Idle, Call, AdmissionPc
  <2>4. 0 \in 0..Len(jobs)
    BY <1>t, CallValues
  <2> HIDE DEF c
  <2> QED
    BY <1>t, <1>u, <2>1, <2>3, <2>4, MoveKeepsCalls
<1>2. ASSUME NEW a \in Admitters, AdmitterStep(a)
      PROVE  CallsInv' /\ [QuotaStep]_quotaVars
  BY <1>t, <1>2, CallStep
<1>3. ASSUME NEW a \in Admitters, AdmitterCrash(a)
      PROVE  CallsInv' /\ [QuotaStep]_quotaVars
  BY <1>t, <1>3, ReturnKeepsCalls DEF AdmitterCrash, quotaVars
<1>4. ASSUME NEW j \in 1..MaxJobs, AdmittedJobEnds(j)
      PROVE  CallsInv' /\ [QuotaStep]_quotaVars
  <2>1. UNCHANGED quotaVars /\ UNCHANGED <<slot, adm, jobs, answers, misread>>
        /\ ended' \subseteq 1..Len(jobs)
    BY <1>t, <1>4 DEF AdmittedJobEnds, CallsInv, CallsTyped
  <2> QED
    BY <1>t, <1>u, <2>1, OutsideKeepsCalls
<1>5. ASSUME UnlinkedStep \/ UNCHANGED quotaVars, UNCHANGED admissionOwn
      PROVE  CallsInv' /\ [QuotaStep]_quotaVars
  <2>1. \A k \in Keys : LinkKept(k)
    BY <1>t, <1>u, <1>5, RowsAfterUnlinked
  <2>2. UNCHANGED <<slot, adm, jobs, answers, misread>> /\ ended' \subseteq 1..Len(jobs)
    BY <1>t, <1>5 DEF admissionOwn, CallsInv, CallsTyped
  <2> QED
    BY <1>t, <1>5, <2>1, <2>2, OutsideKeepsCalls DEF QuotaStep
<1>6. ASSUME NEW k \in Keys, NEW v \in 1..MaxVersion,
             \/ SettleAndBill(k, v) \/ SettleAgainstActualUsage(k, v)
             \/ ReconcileReservation(k, v)
      PROVE  UnlinkedStep /\ UNCHANGED admissionOwn
  <2>1. v \in Nat
    BY QuotaAssumption
  <2> QED
    BY <1>6, <2>1 DEF SettleAndBill, SettleAgainstActualUsage, ReconcileReservation, UnlinkedStep
<1>7. ASSUME ReapExpired \/ \E k \in Keys : Lapse(k) PROVE UnlinkedStep
  BY <1>7 DEF UnlinkedStep
<1> QED
  BY <1>1, <1>2, <1>3, <1>4, <1>5, <1>6, <1>7 DEF AdmissionNext, admissionVars

(* Everyone answered under a key is told a job made from what he sent, and *)
(* one and the same job unless a replay failed to read it, for any number  *)
(* of concurrent calls, crashes and retries (admission.ts admit,           *)
(* admission-idempotency.ts claim and complete).                           *)
THEOREM AnswersAlwaysAgree == AdmissionSpec => []AnswersAgree
<1>1. AdmissionInv => AnswersAgree
  BY CallsInvAgree DEF AdmissionInv
<1>2. AdmissionInv /\ [AdmissionNext]_admissionVars => AdmissionInv'
  BY AdmissionStepInv
<1> QED
  BY <1>1, <1>2, CallsInitInv, PTL DEF AdmissionSpec

(* The same invariant holds the counters and the rows of the pipeline.     *)
THEOREM AdmissionCountersRight == AdmissionSpec => []CountersFit
<1>1. AdmissionInv => CountersFit
  BY DEF AdmissionInv, QuotaInv
<1>2. AdmissionInv /\ [AdmissionNext]_admissionVars => AdmissionInv'
  BY AdmissionStepInv
<1> QED
  BY <1>1, <1>2, CallsInitInv, PTL DEF AdmissionSpec

-----------------------------------------------------------------------------
(* A reservation that nobody settles or releases ends by its TTL only.     *)
LEMMA StaysActive ==
  ASSUME QuotaTypeOK, NEW k \in Keys, Active(k),
         \/ UNCHANGED res
         \/ \E s \in Scopes, i \in Keys, m \in Limits : ReserveNew(s, i, m)
         \/ \E i \in Keys, j \in Nat : AttachJob(i, j)
         \/ \E i \in Keys \ {k}, v \in Nat : Settle(i, v) \/ Release(i, v)
         \/ ReapExpired
         \/ \E i \in Keys : Lapse(i)
  PROVE  Active(k)' \/ res'[k].state = "expired"
<1>1. CASE UNCHANGED res
  BY <1>1 DEF Active
<1>2. ASSUME NEW s \in Scopes, NEW i \in Keys, NEW m \in Limits, ReserveNew(s, i, m)
      PROVE  Active(k)'
  BY <1>2 DEF ReserveNew, Replayed, Active, QuotaTypeOK
<1>3. ASSUME NEW i \in Keys, NEW j \in Nat, AttachJob(i, j) PROVE Active(k)'
  BY <1>3, RowsAfterLink
<1>4. ASSUME NEW i \in Keys \ {k}, NEW v \in Nat, Settle(i, v) \/ Release(i, v)
      PROVE  Active(k)'
  BY <1>4 DEF Settle, Release, End, Active, QuotaTypeOK
<1>5. CASE ReapExpired
  <2>1. CASE k \in ExpiredActive
    <3>1. res'[k] = [res[k] EXCEPT !.state = "expired", !.version = @ + 1]
          /\ res[k] \in Reservation
      BY <1>5, <2>1 DEF ReapExpired, Active, QuotaTypeOK
    <3> QED
      BY <3>1 DEF Reservation
  <2>2. CASE k \notin ExpiredActive
    BY <1>5, <2>2 DEF ReapExpired, Active
  <2> QED
    BY <2>1, <2>2
<1>6. ASSUME NEW i \in Keys, Lapse(i) PROVE Active(k)'
  <2>1. /\ \A h \in Keys : h # i => res'[h] = res[h]
        /\ res'[i] = [res[i] EXCEPT !.lapsed = TRUE] /\ res[i] \in Reservation
    BY <1>6 DEF Lapse, Active, QuotaTypeOK
  <2>2. res'[i] # NoRow /\ res'[i].state = res[i].state
    BY <2>1, RowMoves
  <2> QED
    BY <2>1, <2>2 DEF Active
<1> QED
  BY <1>1, <1>2, <1>3, <1>4, <1>5, <1>6

(* Settled or released, an active reservation ends as such.                *)
LEMMA EndedAs ==
  ASSUME QuotaTypeOK, NEW k \in Keys, Active(k), NEW v
  PROVE  /\ Settle(k, v) => Active(k)' \/ res'[k].state = "settled"
         /\ Release(k, v) => Active(k)' \/ res'[k].state = "released"
<1> QED
  BY DEF Settle, Release, End, Active, QuotaTypeOK, Reservation

(* No step but a settlement takes the reservation from under a job that    *)
(* still runs, its key read well.                                          *)
LEMMA RunningKept ==
  AdmissionInv /\ [AdmissionNext]_admissionVars
    => [\A k \in Keys : RunningKeeps(k)]_admissionVars
<1> SUFFICES ASSUME AdmissionInv, [AdmissionNext]_admissionVars, NEW h \in Keys,
                    Active(h), res[h].job \in 1..Len(jobs), res[h].job \notin ended
             PROVE  \/ Active(h)'
                    \/ res'[h].state \in {"expired", "settled"}
                    \/ res'[h].state = "released" /\ h \in misread
  BY DEF RunningKeeps
<1>t. QuotaTypeOK /\ CallsInv
  BY DEF AdmissionInv, QuotaInv
<1>l. ~Unlinked(h)
  <2>1. res[h].job # 0
    BY DEF CallsInv, CallsTyped
  <2> QED
    BY <2>1 DEF Unlinked, Active
<1>1. CASE UNCHANGED res
  BY <1>1, <1>t, StaysActive
<1>2. ASSUME NEW a \in Admitters, Reserve(a) \/ LinkJob(a)
      PROVE  Active(h)' \/ res'[h].state = "expired"
  <2>1. adm[a].key \in Keys /\ adm[a].fp \in Fingerprints /\ adm[a].job \in Nat
        /\ (adm[a].pc = "reserve" => adm[a].max \in Limits)
    BY <1>2, <1>t DEF Reserve, LinkJob, AdmissionAt, CallsInv, CallsTyped, Call
  <2>2. ScopeOf(a) \in Scopes
    BY <2>1, AdmissionAssumption DEF Fingerprints, Fingerprint, ScopeOf
  <2>3. \/ UNCHANGED res
        \/ \E s \in Scopes, i \in Keys, m \in Limits : ReserveNew(s, i, m)
        \/ \E i \in Keys, j \in Nat : AttachJob(i, j)
    BY <1>2, <2>1, <2>2 DEF Reserve, LinkJob, AdmissionAt, KeyOf, quotaVars
  <2> QED
    BY <1>t, <2>3, StaysActive
<1>3. ASSUME NEW a \in Admitters, Compensate(a)
      PROVE  \/ Active(h)'
             \/ res'[h].state = "expired"
             \/ res'[h].state = "released" /\ h \in misread
  <2>1. /\ Working(a) /\ adm[a].key \in Keys /\ adm[a].version \in Nat
        /\ adm[a].pc # "complete"
    BY <1>3, <1>t DEF Compensate, AdmissionAt, Working, CallsInv, CallsTyped, Call
  <2>2. CASE adm[a].key = h
    <3>1. h \in misread
      BY <1>t, <1>l, <2>1, <2>2 DEF CallsInv, LinkedToOwn
    <3>2. UNCHANGED res \/ Release(h, adm[a].version)
      BY <1>3, <2>2 DEF Compensate, KeyOf, quotaVars
    <3>3. CASE Release(h, adm[a].version)
      BY <1>t, <3>1, <3>3, EndedAs
    <3> QED
      BY <1>t, <3>2, <3>3, StaysActive
  <2>3. CASE adm[a].key # h
    <3>1. \/ UNCHANGED res
          \/ \E i \in Keys \ {h}, v \in Nat : Settle(i, v) \/ Release(i, v)
      BY <1>3, <2>1, <2>3 DEF Compensate, KeyOf, quotaVars
    <3> QED
      BY <1>t, <3>1, StaysActive
  <2> QED
    BY <2>2, <2>3
<1>4. ASSUME NEW k \in Keys, NEW v \in 1..MaxVersion,
             \/ SettleAndBill(k, v) \/ SettleAgainstActualUsage(k, v)
             \/ ReconcileReservation(k, v)
      PROVE  Active(h)' \/ res'[h].state \in {"expired", "settled"}
  <2>1. v \in Nat
    BY QuotaAssumption
  <2>2. CASE k = h
    <3>1. ~ReconcileReservation(k, v)
      BY <2>2 DEF ReconcileReservation
    <3>2. Settle(h, v)
      BY <1>4, <2>2, <3>1 DEF SettleAndBill, SettleAgainstActualUsage
    <3> QED
      BY <1>t, <2>1, <3>2, EndedAs
  <2>3. CASE k # h
    <3>1. \E i \in Keys \ {h}, u \in Nat : Settle(i, u) \/ Release(i, u)
      BY <1>4, <2>1, <2>3 DEF SettleAndBill, SettleAgainstActualUsage, ReconcileReservation
    <3> QED
      BY <1>t, <3>1, StaysActive
  <2> QED
    BY <2>2, <2>3
<1>5. CASE ReapExpired \/ \E k \in Keys : Lapse(k)
  BY <1>5, <1>t, StaysActive
<1>6. ASSUME NEW a \in Admitters, AdmitterStep(a)
      PROVE  UNCHANGED res \/ Reserve(a) \/ LinkJob(a) \/ Compensate(a)
  BY <1>6
  DEF AdmitterStep, Claim, EvaluatePolicy, Deny, PublishLimits, SetLimits, QuotaRejected,
      CreateJob, JobCreationFailed, Complete, quotaVars
<1>7. ASSUME \/ \E a \in Admitters, r \in Requests : Admit(a, r)
             \/ \E a \in Admitters : AdmitterCrash(a)
             \/ \E j \in 1..MaxJobs : AdmittedJobEnds(j)
             \/ UNCHANGED admissionVars
      PROVE  UNCHANGED res
  BY <1>7 DEF Admit, AdmitterCrash, AdmittedJobEnds, admissionVars, quotaVars
<1> QED
  BY <1>1, <1>2, <1>3, <1>4, <1>5, <1>6, <1>7 DEF AdmissionNext

(* A reservation that was released or committed stays so.                  *)
LEMMA RowsKeepEnd ==
  QuotaTypeOK /\ [QuotaStep]_quotaVars => [\A k \in Keys : RowKeepsEnd(k)]_quotaVars
<1> SUFFICES ASSUME QuotaTypeOK, QuotaStep, NEW k \in Keys PROVE RowKeepsEnd(k)
  OBVIOUS
<1> QED
  BY RowsAfterUnlinked, RowsAfterLink DEF QuotaStep

(* A job that runs keeps its reservation from every release, unless a      *)
(* replay failed to read the job, and once ended no reservation is         *)
(* revived, whoever retries what with a stale version (admission.ts,       *)
(* reconcile/service.ts, quota/store.ts).                                  *)
THEOREM ReservationsAlwaysStand == AdmissionSpec => ReservationsStand
<1>1. AdmissionInv /\ [AdmissionNext]_admissionVars => AdmissionInv'
  BY AdmissionStepInv
<1>2. AdmissionInv /\ [AdmissionNext]_admissionVars
        => [\A k \in Keys : RowKeepsEnd(k)]_quotaVars
  BY AdmissionStepInv, RowsKeepEnd DEF AdmissionInv, QuotaInv
<1>3. AdmissionSpec => EndedForGood
  BY <1>1, <1>2, CallsInitInv, PTL DEF AdmissionSpec, EndedForGood
<1>4. AdmissionSpec => RunningKeepsReservation
  BY <1>1, RunningKept, CallsInitInv, PTL DEF AdmissionSpec, RunningKeepsReservation
<1> QED
  BY <1>3, <1>4 DEF ReservationsStand

-----------------------------------------------------------------------------
(***************************************************************************)
(* The path of a request, for every set of callers, requests, policies and *)
(* handlers in flight.                                                     *)
(*                                                                         *)
(* Handlers await between their reads while the directory and the policy   *)
(* change.  What a handler has read stays true because rows of the         *)
(* directory are added and never moved, and a replaced policy keeps its    *)
(* tools (Grown, GrownKeeps): so HttpCallFits, which says what a handler   *)
(* has behind it at each await, is kept by everyone else's steps.          *)
(***************************************************************************)
(* A handler: what it has read and what it answered.                       *)
HttpCall ==
  [pc : CallPc, req : HttpRequests \cup {Nobody}, project : Projects \cup {Nobody}, scope : SUBSET Projects,
   policy : Nat, status : Nat, handled : BOOLEAN, jobs : SUBSET Nat]

(* A job record, as it is made.                                            *)
HttpJob ==
  [tenant : HttpTenants, org : Orgs, project : Projects, by : HttpCallers, tools : SUBSET Tools,
   asked : SUBSET Tools, policy : Nat]

(* A project of caller w's own organization and tenant that was granted to *)
(* w and that w's key reaches.                                             *)
OwnProject(w, p) ==
  /\ projectOf[p] = w.org /\ orgOf[w.org] = w.tenant
  /\ <<w, p>> \in grants
  /\ w.keyScope = {} \/ p \in w.keyScope

(* Between arriving and being answered.                                    *)
UnderWay(h) == h.pc \notin {"idle", "answered"}

(* What handler h has behind it at each of its awaits.                     *)
HttpCallFits(h) ==
  /\ UnderWay(h) => h.req \in HttpRequests
  /\ UnderWay(h) \/ (h.pc = "answered" /\ h.handled) => ~CsrfDenied(h.req)
  /\ UnderWay(h) /\ h.pc # "authenticate" => h.req.who \in HttpCallers /\ h.project \in Projects
  /\ h.pc = "authorize" => h.scope \subseteq GrantsOf(h.req.who)
  /\ h.pc \in {"policy", "create"} => OwnProject(h.req.who, h.project)
  /\ h.pc = "create" => h.policy \in 0..Len(policies) /\ h.req.tools \subseteq ToolsOf(h.policy)
  /\ h.pc = "answered" => \A j \in h.jobs : j \in DOMAIN admitted /\ admitted[j].tenant = h.req.who.tenant

(* A job in its creator's project, with the tools of one policy.           *)
AdmittedFits(a) ==
  /\ a.by \in HttpCallers /\ a.tenant = a.by.tenant /\ a.org = a.by.org
  /\ a.project \in Projects /\ OwnProject(a.by, a.project)
  /\ a.policy \in 0..Len(policies) /\ a.tools = ToolsOf(a.policy)
  /\ a.asked \subseteq a.tools

(* The inductive invariant of the request path.                            *)
ControlPlaneInv ==
  /\ orgOf \in [Orgs -> HttpTenants \cup {Nobody}]
  /\ projectOf \in [Projects -> Orgs \cup {Nobody}]
  /\ policies \in Seq(PolicyRecord)
  /\ admitted \in Seq(HttpJob)
  /\ call \in [HttpCalls -> HttpCall]
  /\ \A c \in HttpCalls : HttpCallFits(call[c])
  /\ \A j \in DOMAIN admitted : AdmittedFits(admitted[j])

-----------------------------------------------------------------------------
(* The idle handler, and what a handler's row has.                         *)
LEMMA IdleHandler == NoCall \in HttpCall /\ NoCall.jobs = {} /\ NoCall.pc = "idle"
BY DEF NoCall, HttpCall, CallPc

(* The tools of a policy are tools, and policy 0 allows none.              *)
LEMMA PolicyTools ==
  ASSUME policies \in Seq(PolicyRecord)
  PROVE  /\ Len(policies) \in Nat /\ DOMAIN policies = 1..Len(policies)
         /\ \A i \in 0..Len(policies) : ToolsOf(i) \subseteq Tools
         /\ ActivePolicy \in 0..Len(policies)
<1>1. Len(policies) \in Nat /\ DOMAIN policies = 1..Len(policies) OBVIOUS
<1>2. \A i \in 1..Len(policies) : policies[i] \in PolicyRecord OBVIOUS
<1>3. \A i \in 0..Len(policies) : ToolsOf(i) \subseteq Tools
  <2>1. SUFFICES ASSUME NEW i \in 0..Len(policies) PROVE ToolsOf(i) \subseteq Tools OBVIOUS
  <2>2. CASE i = 0 BY <2>2 DEF ToolsOf
  <2>3. CASE i # 0
    <3>1. i \in 1..Len(policies) BY <1>1, <2>3
    <3>2. policies[i].tools \subseteq Tools BY <1>2, <3>1 DEF PolicyRecord
    <3>. QED BY <2>3, <3>2 DEF ToolsOf
  <2>. QED BY <2>2, <2>3
<1>. DEFINE on == {i \in DOMAIN policies : policies[i].active}
            one == CHOOSE i \in on : TRUE
<1>4. ActivePolicy = IF on = {} THEN 0 ELSE one BY DEF ActivePolicy
<1>5. on \subseteq 1..Len(policies) BY <1>1
<1>6. on # {} => one \in on
  <2>. HIDE DEF on
  <2>1. on # {} => \E i : i \in on OBVIOUS
  <2>. QED BY <2>1, Zenon DEF one
<1>7. ActivePolicy \in 0..Len(policies)
  <2>. HIDE DEF on, one
  <2>. QED BY <1>1, <1>4, <1>5, <1>6
<1>. QED BY <1>1, <1>3, <1>7

(* Rows of the directory are added and never moved, and a policy keeps its *)
(* tools.                                                                  *)
Grown ==
  /\ originsKnown' = originsKnown
  /\ orgOf' \in [Orgs -> HttpTenants \cup {Nobody}] /\ projectOf' \in [Projects -> Orgs \cup {Nobody}]
  /\ policies' \in Seq(PolicyRecord) /\ admitted' \in Seq(HttpJob)
  /\ \A o \in Orgs : orgOf[o] # Nobody => orgOf'[o] = orgOf[o]
  /\ \A p \in Projects : projectOf[p] # Nobody => projectOf'[p] = projectOf[p]
  /\ grants \subseteq grants'
  /\ Len(policies') >= Len(policies) /\ \A i \in 1..Len(policies) : policies'[i].tools = policies[i].tools
  /\ \A j \in DOMAIN admitted : j \in DOMAIN admitted' /\ admitted'[j] = admitted[j]

(* What grows takes nothing from a handler or a job.                       *)
LEMMA GrownKeeps ==
  ASSUME ControlPlaneInv, Grown
  PROVE  /\ \A h \in HttpCall : HttpCallFits(h) => HttpCallFits(h)'
         /\ \A a \in HttpJob : AdmittedFits(a) => AdmittedFits(a)'
<1>1. \A w \in HttpCallers : w.tenant \in HttpTenants /\ w.org \in Orgs /\ w.tenant # Nobody /\ w.org # Nobody
  BY ControlPlaneAssumption
<1>2. \A w \in HttpCallers, p \in Projects : OwnProject(w, p) => OwnProject(w, p)'
  BY <1>1 DEF Grown, OwnProject
<1>3. /\ Len(policies) \in Nat /\ Len(policies') \in Nat
      /\ 0..Len(policies) \subseteq 0..Len(policies')
      /\ \A i \in 0..Len(policies) : ToolsOf(i)' = ToolsOf(i)
  <2>1. Len(policies) \in Nat /\ Len(policies') \in Nat /\ Len(policies') >= Len(policies)
    BY DEF ControlPlaneInv, Grown
  <2>2. \A i \in 0..Len(policies) : i = 0 \/ i \in 1..Len(policies) BY <2>1
  <2>. QED BY <2>1, <2>2 DEF Grown, ToolsOf
<1>4. ASSUME NEW h \in HttpCall, HttpCallFits(h) PROVE HttpCallFits(h)'
  <2>1. CsrfDenied(h.req)' = CsrfDenied(h.req) BY DEF Grown, CsrfDenied, Trusted
  <2>2. GrantsOf(h.req.who) \subseteq GrantsOf(h.req.who)' BY DEF Grown, GrantsOf
  <2>3. h.pc \in {"policy", "create"} => OwnProject(h.req.who, h.project)'
    BY <1>2, <1>4 DEF HttpCallFits, UnderWay
  <2>4. h.pc = "create" => h.policy \in 0..Len(policies') /\ h.req.tools \subseteq ToolsOf(h.policy)'
    BY <1>3, <1>4 DEF HttpCallFits
  <2>5. h.pc = "answered" => \A j \in h.jobs : j \in DOMAIN admitted' /\ admitted'[j].tenant = h.req.who.tenant
    BY <1>4 DEF HttpCallFits, Grown
  <2>. QED BY <1>4, <2>1, <2>2, <2>3, <2>4, <2>5 DEF HttpCallFits, UnderWay
<1>5. ASSUME NEW a \in HttpJob, AdmittedFits(a) PROVE AdmittedFits(a)'
  BY <1>2, <1>3, <1>5 DEF AdmittedFits
<1>. QED BY <1>4, <1>5

(* What extends the directory or replaces the policy keeps the invariant.  *)
LEMMA GrownStep ==
  ASSUME ControlPlaneInv, Grown, UNCHANGED <<admitted, call>>
  PROVE  ControlPlaneInv'
<1>1. \A c \in HttpCalls : call[c] \in HttpCall BY DEF ControlPlaneInv
<1>2. \A j \in DOMAIN admitted : admitted[j] \in HttpJob BY DEF ControlPlaneInv
<1>3. \A c \in HttpCalls : HttpCallFits(call[c])' BY <1>1, GrownKeeps DEF ControlPlaneInv, HttpCallFits
<1>4. \A j \in DOMAIN admitted : AdmittedFits(admitted[j])' BY <1>2, GrownKeeps DEF ControlPlaneInv, AdmittedFits
<1>. QED BY <1>3, <1>4 DEF ControlPlaneInv, Grown

(* A handler that becomes h changes nothing for the others.                *)
LEMMA HandlerStep ==
  ASSUME ControlPlaneInv, NEW c \in HttpCalls, NEW h \in HttpCall, HttpCallFits(h),
         call' = [call EXCEPT ![c] = h], UNCHANGED <<directoryVars, policies, admitted>>
  PROVE  ControlPlaneInv'
<1>1. call' \in [HttpCalls -> HttpCall] /\ \A d \in HttpCalls : call'[d] = IF d = c THEN h ELSE call[d]
  BY DEF ControlPlaneInv
<1>2. UNCHANGED <<originsKnown, orgOf, projectOf, grants, policies, admitted>> BY DEF directoryVars
<1>3. Grown BY <1>2 DEF Grown, ControlPlaneInv
<1>4. HttpCallFits(h)' BY <1>3, GrownKeeps
<1>5. ASSUME NEW d \in HttpCalls PROVE HttpCallFits(call[d])'
  <2>. DEFINE q == call[d]
  <2>1. PICK was \in HttpCall : was = call[d] BY DEF ControlPlaneInv
  <2>2. HttpCallFits(was)' BY <1>3, <2>1, GrownKeeps DEF ControlPlaneInv
  <2>3. call'[d] = h \/ call'[d] = was BY <1>1, <2>1
  <2>. QED BY <1>4, <2>2, <2>3 DEF HttpCallFits
<1>6. \A j \in DOMAIN admitted : AdmittedFits(admitted[j])'
  BY <1>2 DEF ControlPlaneInv, AdmittedFits, OwnProject, ToolsOf
<1>. QED BY <1>1, <1>2, <1>5, <1>6 DEF ControlPlaneInv

(* An answer: what was refused or touched no job fits as it is.            *)
LEMMA Answered ==
  ASSUME ControlPlaneInv, NEW c \in HttpCalls, UnderWay(call[c]), NEW status \in Nat, NEW handled \in BOOLEAN,
         NEW shown \in SUBSET Nat, Answer(c, status, handled, shown)
  PROVE  \E h \in HttpCall :
           /\ call' = [call EXCEPT ![c] = h]
           /\ h.pc = "answered" /\ h.req = call[c].req /\ h.jobs = shown
           /\ (\A j \in shown : j \in DOMAIN admitted /\ admitted[j].tenant = call[c].req.who.tenant) => HttpCallFits(h)
<1>. DEFINE h == [call[c] EXCEPT !.pc = "answered", !.status = status, !.handled = handled, !.jobs = shown]
<1>1. call[c] \in HttpCall /\ HttpCallFits(call[c]) BY DEF ControlPlaneInv
<1>2. h \in HttpCall /\ h.pc = "answered" /\ h.req = call[c].req /\ h.jobs = shown
  <2>1. "answered" \in CallPc BY DEF CallPc
  <2>. QED BY <1>1, <2>1 DEF HttpCall
<1>3. call' = [call EXCEPT ![c] = h] BY <1>1 DEF Answer, ControlPlaneInv
<1>4. ~CsrfDenied(call[c].req) BY <1>1 DEF HttpCallFits
<1>. HIDE DEF h
<1>5. (\A j \in shown : j \in DOMAIN admitted /\ admitted[j].tenant = call[c].req.who.tenant) => HttpCallFits(h)
  BY <1>2, <1>4 DEF HttpCallFits, UnderWay
<1>. QED BY <1>2, <1>3, <1>5

(* The step that answers keeps the invariant, if it names jobs of the      *)
(* caller's tenant only.                                                   *)
LEMMA AnswerStep ==
  ASSUME ControlPlaneInv, NEW c \in HttpCalls, UnderWay(call[c]), NEW status \in Nat, NEW handled \in BOOLEAN,
         NEW shown \in SUBSET Nat, Answer(c, status, handled, shown),
         \A j \in shown : j \in DOMAIN admitted /\ admitted[j].tenant = call[c].req.who.tenant,
         Fixed
  PROVE  ControlPlaneInv'
<1>1. PICK h \in HttpCall : call' = [call EXCEPT ![c] = h] /\ HttpCallFits(h) BY Answered
<1>. QED BY <1>1, HandlerStep DEF Fixed

(* A handler that goes on to pc fits there if its row says so.             *)
LEMMA GoStep ==
  ASSUME ControlPlaneInv, NEW c \in HttpCalls, NEW pc \in CallPc, Go(c, pc),
         HttpCallFits([call[c] EXCEPT !.pc = pc]), Fixed
  PROVE  ControlPlaneInv'
<1>. DEFINE h == [call[c] EXCEPT !.pc = pc]
<1>1. call[c] \in HttpCall /\ call' = [call EXCEPT ![c] = h] BY DEF Go, ControlPlaneInv
<1>2. h \in HttpCall BY <1>1 DEF HttpCall
<1>. QED BY <1>1, <1>2, HandlerStep DEF Fixed

-----------------------------------------------------------------------------
(* An organization is added.                                               *)
LEMMA CreateOrganizationKeeps ==
  ASSUME ControlPlaneInv, NEW t \in HttpTenants, NEW o \in Orgs, CreateOrganization(t, o)
  PROVE  ControlPlaneInv'
<1>1. Grown BY DEF CreateOrganization, ControlPlaneInv, Grown
<1>2. UNCHANGED <<admitted, call>> BY DEF CreateOrganization
<1>. QED BY <1>1, <1>2, GrownStep

(* A project is added.                                                     *)
LEMMA CreateProjectKeeps ==
  ASSUME ControlPlaneInv, NEW t \in HttpTenants, NEW o \in Orgs, NEW p \in Projects, CreateProject(t, o, p)
  PROVE  ControlPlaneInv'
<1>1. Grown BY DEF CreateProject, ControlPlaneInv, Grown
<1>2. UNCHANGED <<admitted, call>> BY DEF CreateProject
<1>. QED BY <1>1, <1>2, GrownStep

(* A project is granted.                                                   *)
LEMMA GrantProjectKeeps ==
  ASSUME ControlPlaneInv, NEW w \in HttpCallers, NEW p \in Projects, GrantProject(w, p)
  PROVE  ControlPlaneInv'
<1>1. Grown BY DEF GrantProject, ControlPlaneInv, Grown
<1>2. UNCHANGED <<admitted, call>> BY DEF GrantProject
<1>. QED BY <1>1, <1>2, GrownStep

(* The policy is replaced: the older ones keep their tools.                *)
LEMMA CreatePolicyKeeps ==
  ASSUME ControlPlaneInv, NEW tools \in SUBSET Tools, CreatePolicy(tools)
  PROVE  ControlPlaneInv'
<1>. DEFINE n == Len(policies)
            older == [i \in DOMAIN policies |-> [policies[i] EXCEPT !.active = FALSE]]
            new == [tools |-> tools, active |-> TRUE]
<1>1. policies \in Seq(PolicyRecord) /\ n \in Nat /\ DOMAIN policies = 1..n BY DEF ControlPlaneInv
<1>2. \A i \in 1..n : policies[i] \in PolicyRecord BY <1>1
<1>3. \A i \in 1..n : older[i] \in PolicyRecord /\ older[i].tools = policies[i].tools
  BY <1>1, <1>2 DEF PolicyRecord
<1>4. DOMAIN older = 1..n BY <1>1
<1>5. new \in PolicyRecord BY DEF PolicyRecord
<1>6. policies' = Append(older, new) BY DEF CreatePolicy
<1>. HIDE DEF older, new, n
<1>7. older \in Seq(PolicyRecord) /\ Len(older) = n
  <2>1. older = [i \in 1..n |-> older[i]] BY <1>1 DEF older
  <2>2. older \in [1..n -> PolicyRecord] BY <1>3, <2>1
  <2>3. older \in Seq(PolicyRecord) BY <1>1, <2>2
  <2>. QED BY <1>1, <1>4, <2>3
<1>8. policies' \in Seq(PolicyRecord) /\ Len(policies') = n + 1 /\ \A i \in 1..n : policies'[i] = older[i]
  BY <1>1, <1>5, <1>6, <1>7
<1>9. Grown
  <2>1. UNCHANGED <<originsKnown, orgOf, projectOf, grants, admitted>> BY DEF CreatePolicy, directoryVars
  <2>2. Len(policies') >= n /\ \A i \in 1..n : policies'[i].tools = policies[i].tools BY <1>1, <1>3, <1>8
  <2>. QED BY <1>8, <2>1, <2>2 DEF ControlPlaneInv, Grown, n
<1>10. UNCHANGED <<admitted, call>> BY DEF CreatePolicy
<1>. QED BY <1>9, <1>10, GrownStep

(* A request arrives: what is not refused has passed both origin checks.   *)
LEMMA ArriveKeeps ==
  ASSUME ControlPlaneInv, NEW c \in HttpCalls, NEW q \in HttpRequests, Arrive(c, q)
  PROVE  ControlPlaneInv'
<1>. DEFINE base == NoCall
            become(pc, status, handled) ==
              [base EXCEPT !.pc = pc, !.req = q, !.status = status, !.handled = handled]
<1>1. base \in HttpCall /\ base.jobs = {} BY IdleHandler
<1>2. ASSUME NEW pc \in {"answered", "authenticate"}, NEW status \in Nat, NEW handled \in BOOLEAN,
             call' = [call EXCEPT ![c] = become(pc, status, handled)],
             pc = "authenticate" => ~CsrfDenied(q), handled => q.path \in Public
      PROVE  ControlPlaneInv'
  <2>. HIDE DEF base
  <2>1. pc \in CallPc BY DEF CallPc
  <2>. DEFINE h == become(pc, status, handled)
  <2>2. h \in HttpCall /\ h.pc = pc /\ h.req = q /\ h.handled = handled /\ h.jobs = {}
    BY <1>1, <2>1 DEF HttpCall
  <2>. HIDE DEF h
  <2>3. q.path \in Public => ~CsrfDenied(q) BY DEF Public, CsrfDenied
  <2>4. HttpCallFits(h) BY <1>2, <2>2, <2>3 DEF HttpCallFits, UnderWay
  <2>5. call' = [call EXCEPT ![c] = h] BY <1>2 DEF h
  <2>. QED BY <2>2, <2>4, <2>5, HandlerStep DEF Arrive
<1>. DEFINE refused == NotAllowed(q) \/ (~Preflight(q) /\ CsrfDenied(q))
<1>3. \/ refused /\ call' = [call EXCEPT ![c] = become("answered", 403, FALSE)]
      \/ Preflight(q) /\ call' = [call EXCEPT ![c] = become("answered", 204, FALSE)]
      \/ q.path \in Public /\ call' = [call EXCEPT ![c] = become("answered", 200, TRUE)]
      \/ ~refused /\ ~Preflight(q) /\ call' = [call EXCEPT ![c] = become("authenticate", 0, FALSE)]
  BY Zenon DEF Arrive
<1>. HIDE DEF become
<1>4. CASE call' = [call EXCEPT ![c] = become("answered", 403, FALSE)]
  BY <1>2, <1>4, 403 \in Nat, "answered" \in {"answered", "authenticate"}, "answered" # "authenticate"
<1>5. CASE call' = [call EXCEPT ![c] = become("answered", 204, FALSE)] BY <1>2, <1>5
<1>6. CASE q.path \in Public /\ call' = [call EXCEPT ![c] = become("answered", 200, TRUE)] BY <1>2, <1>6
<1>7. CASE ~refused /\ ~Preflight(q) /\ call' = [call EXCEPT ![c] = become("authenticate", 0, FALSE)]
  BY <1>2, <1>7
<1>. QED BY <1>3, <1>4, <1>5, <1>6, <1>7

(* A handler's row is a handler's, and its request one that came.          *)
LEMMA HandlerRow ==
  ASSUME ControlPlaneInv, NEW c \in HttpCalls
  PROVE  /\ call[c] \in HttpCall /\ HttpCallFits(call[c])
         /\ UnderWay(call[c]) => Req(c) \in HttpRequests /\ Req(c).tools \subseteq Tools
         /\ ListJobsByTenant(Req(c).who.tenant) \in SUBSET Nat
         /\ \A j \in ListJobsByTenant(Req(c).who.tenant) :
              j \in DOMAIN admitted /\ admitted[j].tenant = call[c].req.who.tenant
<1>1. call[c] \in HttpCall /\ HttpCallFits(call[c]) BY DEF ControlPlaneInv
<1>2. UnderWay(call[c]) => Req(c) \in HttpRequests /\ Req(c).tools \subseteq Tools
  BY <1>1, ControlPlaneAssumption DEF HttpCallFits, Req
<1>3. DOMAIN admitted \subseteq Nat BY DEF ControlPlaneInv
<1>4. ListJobsByTenant(Req(c).who.tenant) \in SUBSET Nat BY <1>3 DEF ListJobsByTenant
<1>. QED BY <1>1, <1>2, <1>4 DEF ListJobsByTenant, Req

(* The routes that answer without touching a job, or with jobs of the      *)
(* caller's tenant.                                                        *)
LEMMA RoutesKeep ==
  ASSUME ControlPlaneInv, NEW c \in HttpCalls,
         \/ IdentityRoute(c) \/ CallbackRoute(c) \/ LayerRoute(c) \/ UnknownRoute(c) \/ JobRoute(c)
         \/ ListJobs(c) \/ TenantRoute(c) \/ OrgRoute(c) \/ GcRoute(c)
  PROVE  ControlPlaneInv'
<1>. DEFINE mine == ListJobsByTenant(Req(c).who.tenant)
            codes == {200, 401, 403, 404}
<1>1. UnderWay(call[c])
  BY DEF IdentityRoute, CallbackRoute, LayerRoute, UnknownRoute, JobRoute, ListJobs, TenantRoute, OrgRoute,
         GcRoute, CallAt, UnderWay
<1>2. mine \in SUBSET Nat /\ \A j \in mine : j \in DOMAIN admitted /\ admitted[j].tenant = call[c].req.who.tenant
  BY HandlerRow
<1>3. Fixed
  BY DEF IdentityRoute, CallbackRoute, LayerRoute, UnknownRoute, JobRoute, ListJobs, TenantRoute, OrgRoute, GcRoute
<1>4. \E status \in codes, handled \in BOOLEAN, shown \in SUBSET mine :
         Answer(c, status, handled, shown)
  <2>0. /\ {} \in SUBSET mine /\ mine \in SUBSET mine
        /\ 200 \in codes /\ 401 \in codes /\ 403 \in codes /\ 404 \in codes
        /\ TRUE \in BOOLEAN /\ FALSE \in BOOLEAN
    OBVIOUS
  <2>. HIDE DEF mine, codes
  <2>1. CASE IdentityRoute(c) BY <2>0, <2>1 DEF IdentityRoute
  <2>2. CASE CallbackRoute(c) BY <2>0, <2>2 DEF CallbackRoute
  <2>3. CASE LayerRoute(c) BY <2>0, <2>3 DEF LayerRoute
  <2>4. CASE UnknownRoute(c) BY <2>0, <2>4 DEF UnknownRoute
  <2>5. CASE JobRoute(c)
    <3>1. Scoped(Req(c)) => {Req(c).job} \in SUBSET mine BY DEF Scoped, mine, ListJobsByTenant
    <3>. QED BY <2>0, <2>5, <3>1 DEF JobRoute
  <2>6. CASE ListJobs(c) BY <2>0, <2>6 DEF ListJobs, mine
  <2>7. CASE TenantRoute(c) BY <2>0, <2>7 DEF TenantRoute, mine
  <2>8. CASE OrgRoute(c)
    <3>1. {j \in mine : admitted[j].org = Req(c).org} \in SUBSET mine OBVIOUS
    <3>. QED BY <2>0, <2>8, <3>1 DEF OrgRoute, mine
  <2>9. CASE GcRoute(c) BY <2>0, <2>9 DEF GcRoute
  <2>. QED BY <2>1, <2>2, <2>3, <2>4, <2>5, <2>6, <2>7, <2>8, <2>9
<1>5. PICK status \in codes, handled \in BOOLEAN, shown \in SUBSET mine :
         Answer(c, status, handled, shown)
  BY <1>4
<1>. HIDE DEF mine
<1>6. status \in Nat /\ shown \in SUBSET Nat BY <1>2
<1>7. \A j \in shown : j \in DOMAIN admitted /\ admitted[j].tenant = call[c].req.who.tenant BY <1>2
<1>. QED BY <1>1, <1>3, <1>5, <1>6, <1>7, AnswerStep

(* A principal with a project goes on to the routes.                       *)
LEMMA AuthenticateKeeps ==
  ASSUME ControlPlaneInv, NEW c \in HttpCalls, Authenticate(c)
  PROVE  ControlPlaneInv'
<1>1. call[c].pc = "authenticate" /\ UnderWay(call[c]) /\ Fixed BY DEF Authenticate, CallAt, UnderWay
<1>2. call[c] \in HttpCall /\ HttpCallFits(call[c]) BY HandlerRow
<1>3. ASSUME NEW status \in Nat, Answer(c, status, FALSE, {}) PROVE ControlPlaneInv'
  <2>1. FALSE \in BOOLEAN /\ {} \in SUBSET Nat OBVIOUS
  <2>2. \A j \in {} : j \in DOMAIN admitted /\ admitted[j].tenant = call[c].req.who.tenant OBVIOUS
  <2>. QED BY <1>1, <1>3, <2>1, <2>2, AnswerStep
<1>. DEFINE q == Req(c)
<1>4. CASE q.who = Nobody
  <2>1. Answer(c, 401, FALSE, {}) BY <1>4 DEF Authenticate
  <2>. QED BY <1>3, 401 \in Nat, <2>1
<1>5. CASE q.who # Nobody
  <2>1. PICK p \in ProjectChoices(q.who) :
          IF p = Nobody THEN Answer(c, 404, FALSE, {})
          ELSE call' = [call EXCEPT ![c].pc = "route", ![c].project = p]
    BY <1>5 DEF Authenticate
  <2>2. CASE p = Nobody
    <3>1. Answer(c, 404, FALSE, {}) BY <2>1, <2>2
    <3>. QED BY <1>3, 404 \in Nat, <3>1
  <2>3. CASE p # Nobody
    <3>. DEFINE h == [call[c] EXCEPT !.pc = "route", !.project = p]
    <3>1. call' = [call EXCEPT ![c] = h] BY <2>1, <2>3 DEF ControlPlaneInv
    <3>2. p \in Projects BY <2>3 DEF ProjectChoices, GrantsOf
    <3>3. q.who \in HttpCallers
      <4>1. q \in HttpRequests BY <1>1, <1>2 DEF HttpCallFits, Req
      <4>. QED BY <1>5, <4>1, ControlPlaneAssumption
    <3>4. h \in HttpCall /\ h.pc = "route" /\ h.project = p /\ h.req = q BY <1>2, <3>2 DEF HttpCall, CallPc, Req
    <3>5. q = call[c].req BY DEF Req
    <3>. HIDE DEF h, q
    <3>6. HttpCallFits(h) BY <1>1, <1>2, <3>2, <3>3, <3>4, <3>5 DEF HttpCallFits, UnderWay
    <3>. QED BY <1>1, <3>1, <3>4, <3>6, HandlerStep DEF Fixed
  <2>. QED BY <2>2, <2>3
<1>. QED BY <1>4, <1>5

(* The steps of createJob before the job is made.                          *)
LEMMA CreateStepsKeep ==
  ASSUME ControlPlaneInv, NEW c \in HttpCalls,
         BeginCreate(c) \/ ResolvePrincipal(c) \/ AuthorizeScope(c) \/ EvaluateRequest(c)
  PROVE  ControlPlaneInv'
<1>1. UnderWay(call[c]) /\ Fixed
  BY DEF BeginCreate, ResolvePrincipal, AuthorizeScope, EvaluateRequest, CallAt, UnderWay
<1>2. call[c] \in HttpCall /\ HttpCallFits(call[c]) BY HandlerRow
<1>3. ASSUME NEW status \in Nat, Answer(c, status, FALSE, {}) PROVE ControlPlaneInv'
  <2>1. FALSE \in BOOLEAN /\ {} \in SUBSET Nat OBVIOUS
  <2>2. \A j \in {} : j \in DOMAIN admitted /\ admitted[j].tenant = call[c].req.who.tenant OBVIOUS
  <2>. QED BY <1>1, <1>3, <2>1, <2>2, AnswerStep
<1>4. ASSUME NEW h \in HttpCall, HttpCallFits(h), call' = [call EXCEPT ![c] = h] PROVE ControlPlaneInv'
  BY <1>1, <1>4, HandlerStep DEF Fixed
<1>5. CASE BeginCreate(c)
  <2>1. CASE Answer(c, 400, FALSE, {}) BY <1>3, <2>1, 400 \in Nat
  <2>2. CASE Go(c, "resolve")
    <3>. DEFINE h == [call[c] EXCEPT !.pc = "resolve"]
    <3>1. call' = [call EXCEPT ![c] = h] BY <2>2 DEF Go, ControlPlaneInv
    <3>2. h \in HttpCall /\ h.pc = "resolve" /\ h.req = call[c].req /\ h.project = call[c].project
      BY <1>2 DEF HttpCall, CallPc
    <3>3. call[c].pc = "route" BY <1>5 DEF BeginCreate, CallAt
    <3>. HIDE DEF h
    <3>4. HttpCallFits(h) BY <1>2, <3>2, <3>3 DEF HttpCallFits, UnderWay
    <3>. QED BY <1>4, <3>1, <3>2, <3>4
  <2>. QED BY <1>5, <2>1, <2>2 DEF BeginCreate
<1>6. CASE ResolvePrincipal(c)
  <2>1. CASE Req(c).who.kind = "session"
    <3>1. Answer(c, 401, FALSE, {}) BY <1>6, <2>1 DEF ResolvePrincipal
    <3>. QED BY <1>3, 401 \in Nat, <3>1
  <2>2. CASE Req(c).who.kind # "session"
    <3>. DEFINE scope == GrantsOf(Req(c).who)
                h == [call[c] EXCEPT !.pc = "authorize", !.scope = scope]
    <3>1. call' = [call EXCEPT ![c] = h] BY <1>6, <2>2 DEF ResolvePrincipal, ControlPlaneInv
    <3>2. scope \in SUBSET Projects BY DEF GrantsOf
    <3>3. h \in HttpCall /\ h.pc = "authorize" /\ h.req = call[c].req /\ h.project = call[c].project
          /\ h.scope = GrantsOf(h.req.who)
      BY <1>2, <3>2 DEF HttpCall, CallPc, Req
    <3>4. call[c].pc = "resolve" BY <1>6 DEF ResolvePrincipal, CallAt
    <3>. HIDE DEF h
    <3>5. HttpCallFits(h) BY <1>2, <3>3, <3>4 DEF HttpCallFits, UnderWay
    <3>. QED BY <1>4, <3>1, <3>3, <3>5
  <2>. QED BY <2>1, <2>2
<1>7. CASE AuthorizeScope(c)
  <2>. DEFINE w == Req(c).who
              may == MayActIn(w.tenant, w, call[c].scope, call[c].project)
  <2>1. CASE ~may
    <3>1. Answer(c, 403, FALSE, {}) BY <1>7, <2>1 DEF AuthorizeScope
    <3>. QED BY <1>3, 403 \in Nat, <3>1
  <2>2. CASE may
    <3>. DEFINE h == [call[c] EXCEPT !.pc = "policy"]
    <3>1. call' = [call EXCEPT ![c] = h] BY <1>7, <2>2 DEF AuthorizeScope, Go, ControlPlaneInv
    <3>2. h \in HttpCall /\ h.pc = "policy" /\ h.req = call[c].req /\ h.project = call[c].project
      BY <1>2 DEF HttpCall, CallPc
    <3>3. call[c].pc = "authorize" BY <1>7 DEF AuthorizeScope, CallAt
    <3>4. OwnProject(h.req.who, h.project)
      <4>1. call[c].project \in GrantsOf(w) BY <1>2, <2>2, <3>3 DEF HttpCallFits, MayActIn, Req
      <4>2. OwnProject(w, call[c].project)
        BY <2>2, <4>1 DEF MayActIn, GetOrganization, GetProject, GrantsOf, OwnProject
      <4>. QED BY <3>2, <4>2 DEF Req
    <3>. HIDE DEF h
    <3>5. HttpCallFits(h) BY <1>2, <3>2, <3>3, <3>4 DEF HttpCallFits, UnderWay
    <3>. QED BY <1>4, <3>1, <3>2, <3>5
  <2>. QED BY <2>1, <2>2
<1>8. CASE EvaluateRequest(c)
  <2>1. CASE DenyRequest(c)
    <3>1. Answer(c, 403, FALSE, {}) BY <2>1 DEF DenyRequest
    <3>. QED BY <1>3, 403 \in Nat, <3>1
  <2>2. CASE Permits(Req(c).tools, ToolsOf(ActivePolicy)) /\ Allow(c)
    <3>. DEFINE active == ActivePolicy
                h == [call[c] EXCEPT !.pc = "create", !.policy = active]
    <3>1. call' = [call EXCEPT ![c] = h] BY <2>2 DEF Allow, ControlPlaneInv
    <3>2. Len(policies) \in Nat /\ active \in 0..Len(policies) BY PolicyTools DEF ControlPlaneInv
    <3>3. Req(c).tools \subseteq ToolsOf(active) BY <2>2 DEF Permits
    <3>. HIDE DEF active
    <3>4. active \in Nat BY <3>2
    <3>5. h \in HttpCall /\ h.pc = "create" /\ h.req = call[c].req /\ h.project = call[c].project
          /\ h.policy = active
      BY <1>2, <3>4 DEF HttpCall, CallPc
    <3>6. call[c].pc = "policy" BY <1>8 DEF EvaluateRequest, CallAt
    <3>. HIDE DEF h
    <3>7. HttpCallFits(h) BY <1>2, <3>2, <3>3, <3>5, <3>6 DEF HttpCallFits, UnderWay, Req
    <3>. QED BY <1>4, <3>1, <3>5, <3>7
  <2>. QED BY <1>8, <2>1, <2>2 DEF EvaluateRequest
<1>. QED BY <1>5, <1>6, <1>7, <1>8

(* A job is made where its creator may act, with the tools decided on.     *)
LEMMA CreateAdmittedKeeps ==
  ASSUME ControlPlaneInv, NEW c \in HttpCalls, CreateAdmitted(c)
  PROVE  ControlPlaneInv'
<1>. DEFINE w == Req(c).who
            tools == Pinned(call[c].policy)
            job == [tenant |-> w.tenant, org |-> w.org, project |-> call[c].project, by |-> w,
                    tools |-> tools, asked |-> Req(c).tools, policy |-> call[c].policy]
            n == Len(admitted) + 1
<1>1. call[c].pc = "create" /\ UnderWay(call[c]) BY DEF CreateAdmitted, CallAt, UnderWay
<1>2. call[c] \in HttpCall /\ HttpCallFits(call[c]) /\ Req(c) \in HttpRequests /\ Req(c).tools \subseteq Tools
  BY <1>1, HandlerRow
<1>3. w \in HttpCallers /\ call[c].project \in Projects BY <1>1, <1>2 DEF HttpCallFits, Req
<1>4. w.tenant \in HttpTenants /\ w.org \in Orgs BY <1>3, ControlPlaneAssumption
<1>5. call[c].policy \in 0..Len(policies) /\ Req(c).tools \subseteq tools
  BY <1>1, <1>2 DEF HttpCallFits, Req, Pinned
<1>6. tools \subseteq Tools /\ call[c].policy \in Nat BY <1>5, PolicyTools DEF Pinned, ControlPlaneInv
<1>7. OwnProject(w, call[c].project) BY <1>1, <1>2 DEF HttpCallFits, Req
<1>8. admitted' = Append(admitted, job) BY DEF CreateAdmitted
<1>9. UNCHANGED <<originsKnown, orgOf, projectOf, grants, policies>> BY DEF CreateAdmitted, directoryVars
<1>10. PICK a \in HttpJob : /\ a = job /\ a.by = w /\ a.tenant = w.tenant /\ a.org = w.org
                            /\ a.project = call[c].project
                            /\ a.policy = call[c].policy /\ a.tools = tools /\ a.asked = Req(c).tools
  <2>. HIDE DEF w, tools
  <2>1. job \in HttpJob BY <1>2, <1>3, <1>4, <1>6 DEF HttpJob
  <2>. QED BY <2>1
<1>11. AdmittedFits(a)
  BY <1>3, <1>5, <1>7, <1>10 DEF AdmittedFits, Pinned
<1>. HIDE DEF job
<1>12. /\ admitted' \in Seq(HttpJob) /\ Len(admitted) \in Nat /\ n \in Nat
       /\ DOMAIN admitted = 1..Len(admitted) /\ DOMAIN admitted' = 1..n
       /\ admitted'[n] = a /\ \A j \in DOMAIN admitted : admitted'[j] = admitted[j]
  BY <1>8, <1>10 DEF ControlPlaneInv
<1>13. Grown BY <1>9, <1>12 DEF Grown, ControlPlaneInv
<1>14. PICK h \in HttpCall : /\ call' = [call EXCEPT ![c] = h] /\ h.pc = "answered"
                             /\ h.req = call[c].req /\ h.jobs = {n} /\ ~CsrfDenied(h.req)
  <2>1. PICK status \in Nat, handled \in BOOLEAN, shown \in SUBSET Nat :
          shown = {n} /\ Answer(c, status, handled, shown)
    <3>1. 201 \in Nat /\ TRUE \in BOOLEAN /\ {n} \in SUBSET Nat BY <1>12
    <3>2. Answer(c, 201, TRUE, {n}) BY DEF CreateAdmitted
    <3>. HIDE DEF n
    <3>. QED BY <3>1, <3>2, Zenon
  <2>2. PICK h \in HttpCall : /\ call' = [call EXCEPT ![c] = h]
                              /\ h.pc = "answered" /\ h.req = call[c].req /\ h.jobs = shown
    BY <1>1, <2>1, Answered
  <2>3. ~CsrfDenied(call[c].req) BY <1>1, <1>2 DEF HttpCallFits
  <2>. QED BY <2>1, <2>2, <2>3
<1>15. call' \in [HttpCalls -> HttpCall] /\ \A d \in HttpCalls : call'[d] = IF d = c THEN h ELSE call[d]
  BY <1>14 DEF ControlPlaneInv
<1>16. \A d \in HttpCalls : HttpCallFits(call[d])'
  <2>1. SUFFICES ASSUME NEW d \in HttpCalls PROVE HttpCallFits(call[d])' OBVIOUS
  <2>2. CASE d = c
    <3>1. call'[d] = h BY <1>15, <2>2
    <3>2. n \in DOMAIN admitted' /\ admitted'[n].tenant = h.req.who.tenant
      BY <1>10, <1>12, <1>14 DEF Req
    <3>3. ~CsrfDenied(h.req)' BY <1>9, <1>14 DEF CsrfDenied, Trusted
    <3>. HIDE DEF n
    <3>. QED BY <1>14, <3>1, <3>2, <3>3 DEF HttpCallFits, UnderWay
  <2>3. CASE d # c
    <3>1. PICK was \in HttpCall : was = call[d] BY DEF ControlPlaneInv
    <3>2. HttpCallFits(was)' BY <1>13, <3>1, GrownKeeps DEF ControlPlaneInv
    <3>3. call'[d] = was BY <1>15, <2>3, <3>1
    <3>. QED BY <3>2, <3>3 DEF HttpCallFits
  <2>. QED BY <2>2, <2>3
<1>17. \A j \in DOMAIN admitted' : AdmittedFits(admitted[j])'
  <2>1. SUFFICES ASSUME NEW j \in 1..n PROVE AdmittedFits(admitted[j])' BY <1>12
  <2>2. CASE j = n
    <3>1. AdmittedFits(a)' BY <1>11, <1>13, GrownKeeps
    <3>2. admitted'[j] = a BY <1>12, <2>2
    <3>. QED BY <3>1, <3>2 DEF AdmittedFits
  <2>3. CASE j # n
    <3>1. j \in DOMAIN admitted BY <1>12, <2>3
    <3>2. PICK was \in HttpJob : was = admitted[j] BY <3>1 DEF ControlPlaneInv
    <3>3. AdmittedFits(was)' BY <1>13, <3>1, <3>2, GrownKeeps DEF ControlPlaneInv
    <3>4. admitted'[j] = was BY <1>12, <3>1, <3>2
    <3>. QED BY <3>3, <3>4 DEF AdmittedFits
  <2>. QED BY <2>2, <2>3
<1>. QED BY <1>9, <1>12, <1>15, <1>16, <1>17 DEF ControlPlaneInv

-----------------------------------------------------------------------------
(* An empty directory.                                                     *)
LEMMA ControlPlaneStarts == ControlPlaneInit => ControlPlaneInv
<1>. SUFFICES ASSUME ControlPlaneInit PROVE ControlPlaneInv OBVIOUS
<1>1. call \in [HttpCalls -> HttpCall] /\ \A c \in HttpCalls : call[c] = NoCall
  BY IdleHandler DEF ControlPlaneInit
<1>2. HttpCallFits(NoCall) BY IdleHandler DEF HttpCallFits, UnderWay
<1>3. \A c \in HttpCalls : HttpCallFits(call[c]) BY <1>1, <1>2
<1>4. orgOf \in [Orgs -> HttpTenants \cup {Nobody}] /\ projectOf \in [Projects -> Orgs \cup {Nobody}]
  BY DEF ControlPlaneInit
<1>5. policies \in Seq(PolicyRecord) /\ admitted \in Seq(HttpJob) /\ DOMAIN admitted = {}
  BY DEF ControlPlaneInit
<1>. QED BY <1>1, <1>3, <1>4, <1>5 DEF ControlPlaneInv

(* Every step of a handler or of the directory keeps the invariant.        *)
LEMMA ControlPlaneStepKeeps == ControlPlaneInv /\ [ControlPlaneNext]_httpVars => ControlPlaneInv'
<1>. SUFFICES ASSUME ControlPlaneInv, [ControlPlaneNext]_httpVars PROVE ControlPlaneInv' OBVIOUS
<1>1. ASSUME NEW t \in HttpTenants, NEW o \in Orgs,
             CreateOrganization(t, o) \/ \E p \in Projects : CreateProject(t, o, p)
      PROVE  ControlPlaneInv'
  BY <1>1, CreateOrganizationKeeps, CreateProjectKeeps
<1>2. ASSUME NEW w \in HttpCallers, NEW p \in Projects, GrantProject(w, p) PROVE ControlPlaneInv'
  BY <1>2, GrantProjectKeeps
<1>3. ASSUME NEW tools \in SUBSET Tools, CreatePolicy(tools) PROVE ControlPlaneInv' BY <1>3, CreatePolicyKeeps
<1>4. ASSUME NEW c \in HttpCalls, NEW q \in HttpRequests, Arrive(c, q) PROVE ControlPlaneInv'
  BY <1>4, ArriveKeeps
<1>5. ASSUME NEW c \in HttpCalls,
             \/ IdentityRoute(c) \/ CallbackRoute(c) \/ LayerRoute(c) \/ UnknownRoute(c) \/ JobRoute(c)
             \/ ListJobs(c) \/ TenantRoute(c) \/ OrgRoute(c) \/ GcRoute(c)
      PROVE  ControlPlaneInv'
  BY <1>5, RoutesKeep
<1>6. ASSUME NEW c \in HttpCalls, Authenticate(c) PROVE ControlPlaneInv' BY <1>6, AuthenticateKeeps
<1>7. ASSUME NEW c \in HttpCalls,
             BeginCreate(c) \/ ResolvePrincipal(c) \/ AuthorizeScope(c) \/ EvaluateRequest(c)
      PROVE  ControlPlaneInv'
  BY <1>7, CreateStepsKeep
<1>8. ASSUME NEW c \in HttpCalls, CreateAdmitted(c) PROVE ControlPlaneInv' BY <1>8, CreateAdmittedKeeps
<1>9. CASE UNCHANGED httpVars
  <2>1. UNCHANGED <<originsKnown, orgOf, projectOf, grants, policies, admitted, call>> BY <1>9 DEF httpVars
  <2>2. Grown /\ UNCHANGED <<admitted, call>> BY <2>1 DEF Grown, ControlPlaneInv
  <2>. QED BY <2>2, GrownStep
<1>10. CASE ControlPlaneNext
  BY <1>1, <1>2, <1>3, <1>4, <1>5, <1>6, <1>7, <1>8, <1>10 DEF ControlPlaneNext
<1>. QED BY <1>9, <1>10

(* The invariant gives the four promises of the request path.              *)
LEMMA ControlPlaneInvSafe ==
  ControlPlaneInv => JobsStayInTenant /\ UntrustedOriginUnhandled /\ AdmittedInOwnProject /\ ToolsOfOnePolicy
<1>. SUFFICES ASSUME ControlPlaneInv
              PROVE  JobsStayInTenant /\ UntrustedOriginUnhandled /\ AdmittedInOwnProject /\ ToolsOfOnePolicy
  OBVIOUS
<1>1. \A c \in HttpCalls : HttpCallFits(call[c]) BY DEF ControlPlaneInv
<1>2. \A j \in DOMAIN admitted : AdmittedFits(admitted[j]) BY DEF ControlPlaneInv
<1>3. JobsStayInTenant BY <1>1 DEF HttpCallFits, JobsStayInTenant, CallAt, Req
<1>4. UntrustedOriginUnhandled BY <1>1 DEF HttpCallFits, UntrustedOriginUnhandled, CallAt, Req, CsrfDenied
<1>5. AdmittedInOwnProject BY <1>2 DEF AdmittedFits, AdmittedInOwnProject, OwnProject
<1>6. ToolsOfOnePolicy BY <1>2 DEF AdmittedFits, ToolsOfOnePolicy
<1>. QED BY <1>3, <1>4, <1>5, <1>6

-----------------------------------------------------------------------------
(* What handler h has behind it.                                           *)
PostFits(h) ==
  /\ h.pc \in {"create", "fulfill", "answered"} => h.body \in Bodies
  /\ h.pc \in {"fulfill", "answered"} => h.job \in DOMAIN created /\ created[h.job] = h.body

(* The slot's job was created from the body of its hash.                   *)
SlotFits == idemSlot.job # 0 => idemSlot.job \in DOMAIN created /\ created[idemSlot.job] = idemSlot.hash

(* The inductive invariant of POST /jobs over the SQL registry.            *)
JobRequestsInv ==
  /\ idemSlot \in IdemSlot
  /\ created \in Seq(Bodies)
  /\ post \in [Posts -> Post]
  /\ SlotFits
  /\ \A p \in Posts : PostFits(post[p])

(* A handler that becomes h, while the slot and the jobs stand or grow.    *)
LEMMA PostStep ==
  ASSUME JobRequestsInv, NEW p \in Posts, NEW h \in Post, PostFits(h)', post' = [post EXCEPT ![p] = h],
         idemSlot' \in IdemSlot, created' \in Seq(Bodies), SlotFits',
         \A j \in DOMAIN created : j \in DOMAIN created' /\ created'[j] = created[j]
  PROVE  JobRequestsInv'
<1>1. post' \in [Posts -> Post] /\ \A o \in Posts : post'[o] = IF o = p THEN h ELSE post[o]
  BY DEF JobRequestsInv
<1>2. ASSUME NEW o \in Posts PROVE PostFits(post[o])'
  BY <1>1 DEF PostFits, JobRequestsInv
<1>. QED BY <1>1, <1>2 DEF JobRequestsInv

(* The steps of one handler keep the invariant.                            *)
LEMMA PostSteps ==
  ASSUME JobRequestsInv, NEW p \in Posts,
         \/ \E body \in Bodies : ClaimKey(p, body)
         \/ CreateJobFor(p) \/ CreateJobFails(p) \/ DeleteKey(p) \/ FulfillKey(p)
  PROVE  JobRequestsInv'
<1>. DEFINE stays == \A j \in DOMAIN created : j \in DOMAIN created' /\ created'[j] = created[j]
<1>1. post[p] \in Post /\ PostFits(post[p]) /\ idemSlot \in IdemSlot /\ created \in Seq(Bodies)
      /\ post \in [Posts -> Post] /\ SlotFits
  BY DEF JobRequestsInv
<1>2. created' = created => stays /\ created' \in Seq(Bodies) BY <1>1
<1>3. CASE \E body \in Bodies : ClaimKey(p, body)
  <2>1. PICK body \in Bodies : ClaimKey(p, body) BY <1>3
  <2>2. created' = created BY <2>1 DEF ClaimKey
  <2>3. CASE KeyConflict(body) /\ post' = [post EXCEPT ![p].pc = "refused", ![p].body = body] /\ UNCHANGED idemSlot
    <3>. DEFINE h == [post[p] EXCEPT !.pc = "refused", !.body = body]
    <3>1. post' = [post EXCEPT ![p] = h] BY <1>1, <2>3
    <3>row. h \in Post /\ h.pc = "refused" BY <1>1 DEF Post
    <3>. HIDE DEF h
    <3>2. PICK r \in Post : r = h /\ r.pc = "refused" BY <3>row
    <3>3. PostFits(r)' BY <3>2 DEF PostFits
    <3>4. SlotFits' BY <1>1, <2>2, <2>3 DEF SlotFits
    <3>. QED BY <1>1, <1>2, <2>2, <2>3, <3>1, <3>2, <3>3, <3>4, PostStep
  <2>4. CASE /\ ~KeyConflict(body) /\ idemSlot.job # 0 /\ UNCHANGED idemSlot
             /\ post' = [post EXCEPT ![p] = [pc |-> "answered", body |-> body, job |-> idemSlot.job]]
    <3>. DEFINE h == [pc |-> "answered", body |-> body, job |-> idemSlot.job]
    <3>1. post' = [post EXCEPT ![p] = h] BY <2>4
    <3>row. h \in Post /\ h.body = body /\ h.job = idemSlot.job BY <1>1 DEF Post, IdemSlot
    <3>. HIDE DEF h
    <3>2. PICK r \in Post : r = h /\ r.body = body /\ r.job = idemSlot.job BY <3>row
    <3>3. idemSlot.job \in DOMAIN created /\ created[idemSlot.job] = idemSlot.hash BY <1>1, <2>4 DEF SlotFits
    <3>4. idemSlot.hash \in Bodies BY <1>1, <3>3
    <3>5. idemSlot.hash = body BY <2>4, <3>4, JobRequestsAssumption DEF KeyConflict
    <3>6. PostFits(r)' BY <2>2, <3>2, <3>3, <3>5 DEF PostFits
    <3>7. SlotFits' BY <1>1, <2>2, <2>4 DEF SlotFits
    <3>. QED BY <1>1, <1>2, <2>2, <2>4, <3>1, <3>2, <3>6, <3>7, PostStep
  <2>5. CASE /\ ~KeyConflict(body) /\ idemSlot.job = 0
             /\ post' = [post EXCEPT ![p].pc = "create", ![p].body = body]
             /\ idemSlot' = [idemSlot EXCEPT !.hash = body]
    <3>. DEFINE h == [post[p] EXCEPT !.pc = "create", !.body = body]
    <3>1. post' = [post EXCEPT ![p] = h] BY <1>1, <2>5
    <3>row. h \in Post /\ h.pc = "create" /\ h.body = body BY <1>1 DEF Post
    <3>. HIDE DEF h
    <3>2. PICK r \in Post : r = h /\ r.pc = "create" /\ r.body = body BY <3>row
    <3>3. PostFits(r)' BY <3>2 DEF PostFits
    <3>4. idemSlot' \in IdemSlot /\ idemSlot'.job = 0 BY <1>1, <2>5 DEF IdemSlot
    <3>5. SlotFits' BY <3>4 DEF SlotFits
    <3>. QED BY <1>2, <2>2, <3>1, <3>2, <3>3, <3>4, <3>5, PostStep
  <2>. QED BY <2>1, <2>3, <2>4, <2>5 DEF ClaimKey
<1>4. CASE CreateJobFor(p)
  <2>. DEFINE n == Len(created) + 1
              body == post[p].body
              h == [post[p] EXCEPT !.pc = "fulfill", !.job = n]
  <2>1. body \in Bodies /\ n \in Nat BY <1>1, <1>4 DEF CreateJobFor, PostFits
  <2>2. post' = [post EXCEPT ![p] = h] BY <1>1, <1>4 DEF CreateJobFor
  <2>3. created' = Append(created, body) BY <1>4 DEF CreateJobFor
  <2>. HIDE DEF body
  <2>4. created' \in Seq(Bodies) /\ n \in DOMAIN created' /\ created'[n] = body /\ stays
    BY <1>1, <2>1, <2>3
  <2>row. h \in Post /\ h.pc = "fulfill" /\ h.body = body /\ h.job = n
    <3>. HIDE DEF n
    <3>. QED BY <1>1, <2>1 DEF Post, body
  <2>. HIDE DEF h
  <2>5. PICK r \in Post : r = h /\ r.pc = "fulfill" /\ r.body = body /\ r.job = n BY <2>row
  <2>9. PICK m \in Nat, b \in Bodies : m = n /\ b = body BY <2>1
  <2>6. PostFits(r)' BY <2>4, <2>5, <2>9 DEF PostFits
  <2>7. idemSlot' = idemSlot BY <1>4 DEF CreateJobFor
  <2>8. SlotFits' BY <1>1, <2>4, <2>7 DEF SlotFits
  <2>. QED BY <1>1, <2>2, <2>4, <2>5, <2>6, <2>7, <2>8, PostStep
<1>5. CASE CreateJobFails(p)
  <2>. DEFINE h == [post[p] EXCEPT !.pc = "undo"]
  <2>1. post' = [post EXCEPT ![p] = h] BY <1>1, <1>5 DEF CreateJobFails
  <2>row. h \in Post /\ h.pc = "undo" BY <1>1 DEF Post
  <2>. HIDE DEF h
  <2>2. PICK r \in Post : r = h /\ r.pc = "undo" BY <2>row
  <2>3. PostFits(r)' BY <2>2 DEF PostFits
  <2>4. created' = created /\ idemSlot' = idemSlot BY <1>5 DEF CreateJobFails
  <2>5. SlotFits' BY <1>1, <2>4 DEF SlotFits
  <2>. QED BY <1>1, <1>2, <2>1, <2>2, <2>3, <2>4, <2>5, PostStep
<1>6. CASE DeleteKey(p)
  <2>. DEFINE h == [post[p] EXCEPT !.pc = "refused"]
  <2>1. post' = [post EXCEPT ![p] = h] BY <1>1, <1>6 DEF DeleteKey
  <2>row. h \in Post /\ h.pc = "refused" BY <1>1 DEF Post
  <2>. HIDE DEF h
  <2>2. PICK r \in Post : r = h /\ r.pc = "refused" BY <2>row
  <2>3. PostFits(r)' BY <2>2 DEF PostFits
  <2>4. created' = created /\ idemSlot' = NoSlot BY <1>6 DEF DeleteKey
  <2>5. idemSlot' \in IdemSlot /\ SlotFits' BY <2>4 DEF SlotFits, NoSlot, IdemSlot
  <2>. QED BY <1>2, <2>1, <2>2, <2>3, <2>4, <2>5, PostStep
<1>7. CASE FulfillKey(p)
  <2>. DEFINE h == [post[p] EXCEPT !.pc = "answered"]
  <2>1. post' = [post EXCEPT ![p] = h] BY <1>1, <1>7 DEF FulfillKey
  <2>row. h \in Post /\ h.pc = "answered" /\ h.body = post[p].body /\ h.job = post[p].job BY <1>1 DEF Post
  <2>. HIDE DEF h
  <2>2. PICK r \in Post : r = h /\ r.pc = "answered" /\ r.body = post[p].body /\ r.job = post[p].job BY <2>row
  <2>3. /\ created' = created
        /\ idemSlot' = IF OwnSlot(p) THEN [idemSlot EXCEPT !.job = post[p].job] ELSE idemSlot
        /\ post[p].pc = "fulfill"
    BY <1>7 DEF FulfillKey
  <2>4. post[p].body \in Bodies /\ post[p].job \in DOMAIN created /\ created[post[p].job] = post[p].body
        /\ post[p].job \in Nat
    BY <1>1, <2>3 DEF PostFits, Post
  <2>5. PostFits(r)' BY <2>2, <2>3, <2>4 DEF PostFits
  <2>6. idemSlot' \in IdemSlot /\ SlotFits'
    <3>1. CASE OwnSlot(p)
      <4>1. idemSlot' \in IdemSlot /\ idemSlot'.job = post[p].job /\ idemSlot'.hash = post[p].body
        BY <1>1, <2>3, <2>4, <3>1 DEF IdemSlot, OwnSlot
      <4>. QED BY <2>3, <2>4, <4>1 DEF SlotFits
    <3>2. CASE ~OwnSlot(p) BY <1>1, <2>3, <3>2 DEF SlotFits
    <3>. QED BY <3>1, <3>2
  <2>. QED BY <1>2, <2>1, <2>2, <2>3, <2>5, <2>6, PostStep
<1>. QED BY <1>3, <1>4, <1>5, <1>6, <1>7

(* Every step of the registry and its handlers keeps the invariant.        *)
LEMMA JobRequestsStepKeeps == JobRequestsInv /\ [JobRequestsNext]_postVars => JobRequestsInv'
<1>. SUFFICES ASSUME JobRequestsInv, [JobRequestsNext]_postVars PROVE JobRequestsInv' OBVIOUS
<1>1. CASE ProcessDies
  <2>1. UNCHANGED <<idemSlot, created>> BY <1>1 DEF ProcessDies
  <2>2. ASSUME NEW p \in Posts PROVE post'[p] \in Post /\ PostFits(post[p])'
    <3>1. post[p] \in Post BY DEF JobRequestsInv
    <3>2. post'[p] = post[p] \/ post'[p] = [post[p] EXCEPT !.pc = "dead"] BY <1>1 DEF ProcessDies
    <3>. QED BY <2>1, <3>1, <3>2 DEF JobRequestsInv, PostFits, Post
  <2>3. post' \in [Posts -> Post]
    <3>1. post' = [p \in Posts |-> post'[p]] BY <1>1 DEF ProcessDies
    <3>. QED BY <2>2, <3>1
  <2>. QED BY <2>1, <2>2, <2>3 DEF JobRequestsInv, SlotFits
<1>2. CASE UNCHANGED postVars
  <2>1. UNCHANGED <<idemSlot, created, post>> BY <1>2 DEF postVars
  <2>. QED BY <2>1 DEF JobRequestsInv, SlotFits, PostFits
<1>3. CASE JobRequestsNext
  <2>1. CASE ~ProcessDies
    <3>1. PICK p \in Posts : \/ \E body \in Bodies : ClaimKey(p, body)
                             \/ CreateJobFor(p) \/ CreateJobFails(p) \/ DeleteKey(p) \/ FulfillKey(p)
      BY <1>3, <2>1 DEF JobRequestsNext
    <3>. QED BY <3>1, PostSteps
  <2>. QED BY <1>1, <2>1
<1>. QED BY <1>2, <1>3

(* An empty registry; and the answers fit the bodies.                      *)
LEMMA JobRequestsStarts == JobRequestsInit => JobRequestsInv
BY DEF JobRequestsInit, JobRequestsInv, NoSlot, IdemSlot, Post, SlotFits, PostFits

(* What a handler has behind it gives what its client is answered.         *)
LEMMA JobRequestsInvSafe == JobRequestsInv => AnswerMatchesBody
BY DEF JobRequestsInv, PostFits, AnswerMatchesBody

-----------------------------------------------------------------------------
(***************************************************************************)
(* The whole of what the control plane keeps of jobs: its requests are     *)
(* answered as proved of the parts that answer them.                       *)
(***************************************************************************)
(* A step of the whole is one of the POST handlers, or leaves them alone.  *)
LEMMA PostsPart ==
  ASSUME [JobPlaneNext]_<<focus, storeSide, moneySide, requestSide>>
  PROVE  [JobRequestsNext]_postVars
BY DEF JobPlaneNext, StoreSideNext, MoneySideNext, RequestSideNext, storeSide, moneySide, requestSide

(* A step of the whole is one of the request path, or leaves it alone.     *)
LEMMA HttpPart ==
  ASSUME [JobPlaneNext]_<<focus, storeSide, moneySide, requestSide>>
  PROVE  [ControlPlaneNext]_httpVars
BY DEF JobPlaneNext, StoreSideNext, MoneySideNext, RequestSideNext, storeSide, moneySide, requestSide

(* At each of its awaits a request has behind it what the rows promise it: *)
(* a checked origin, a project of its own, the tools of the policy it was  *)
(* decided under, a job made from its body (server.ts, idempotency.ts).    *)
THEOREM RequestsKept == JobPlaneSpec => [](ControlPlaneInv /\ JobRequestsInv)
<1>1. JobPlaneInit => ControlPlaneInv /\ JobRequestsInv
  BY ControlPlaneStarts, JobRequestsStarts DEF JobPlaneInit
<1>2. /\ ControlPlaneInv /\ JobRequestsInv
      /\ [JobPlaneNext]_<<focus, storeSide, moneySide, requestSide>>
      => (ControlPlaneInv /\ JobRequestsInv)'
  BY PostsPart, HttpPart, ControlPlaneStepKeeps, JobRequestsStepKeeps
<1> QED
  BY <1>1, <1>2, PTL DEF JobPlaneSpec

(* Nothing the control plane answers or admits crosses a tenant, an origin *)
(* or a policy, and no body is answered with another's job, for any        *)
(* callers, requests and handlers in flight, however the directory and the *)
(* policy change between their awaits (server.ts, admission.ts).           *)
THEOREM RequestsAlwaysSafe == JobPlaneSpec => []RequestsSafe
<1>1. ControlPlaneInv /\ JobRequestsInv => RequestsSafe
  BY ControlPlaneInvSafe, JobRequestsInvSafe DEF RequestsSafe
<1> QED
  BY <1>1, RequestsKept, PTL

-----------------------------------------------------------------------------
(***************************************************************************)
(* The books are right for any number of jobs, overlapping reconciliation  *)
(* runs, price changes and clients of the ledger.                          *)
(*                                                                         *)
(* One charge per usage event: a settlement inserts its entry only while   *)
(* the event is not settled, and then, by the invariant, no entry has the  *)
(* event's key (ChargedRight), so that the conflict clause cannot keep an  *)
(* older one with another amount.                                          *)
(*                                                                         *)
(* Completion: a call has behind it, at each of its awaits, what its run   *)
(* began with (ScanCovers).  Events already listed are recorded, one that  *)
(* is neither listed any more nor in hand is dealt with, and no other run, *)
(* crash or price change ever takes usage or an outcome back (Forward).    *)
(***************************************************************************)
(* The committed events of all jobs.                                       *)
Logs == [JobSet -> Seq(MeteredTypes)]

(* A reconcile() call.  Without one nothing was read from the logs.        *)
RecCall ==
  [pc : RecPc, run : Nat, next : Nat \ {0}, from : Logs \cup {<<>>},
   todo : SUBSET UsageIds, cur : SUBSET UsageIds, mark : 0..MaxLog]

(* A row of reconciliation_runs.                                           *)
RunRow == [status : RunStates, finished : Nat, watermark : 0..MaxLog]

(* The types of the tables and of the calls.                               *)
BooksTyped ==
  /\ eventLog \in Logs /\ \A j \in JobSet : Len(eventLog[j]) <= MaxLog
  /\ usage \subseteq UsageIds
  /\ settlement \in [UsageIds -> [state : SettlementStates, amount : Nat]]
  /\ ledger \subseteq LedgerEntry
  /\ pricing \in 0..MaxPricing
  /\ gaps \in [GapKinds \X UsageIds -> GapStates]
  /\ runs \in Seq(RunRow)
  /\ recon \in [Reconcilers -> RecCall]

(* The charges of one usage event, without counting them.                  *)
ChargedRight(u) ==
  /\ \A e, f \in ledger : e.key = SettleKey(u) /\ f.key = SettleKey(u) => e = f
  /\ settlement[u].state = "settled" <=> \E e \in ledger : e.key = SettleKey(u)
  /\ \A e \in ledger : e.key = SettleKey(u) =>
       e.account = AccountOf[u[1]] /\ e.amount = settlement[u].amount

(* The usage that job j had when the call began.                           *)
Begun(q, j) == EventsToUsage(j, q.from[j])

(* A usage event a completed run may leave behind it.                      *)
DealtWith(u) == u \in usage /\ settlement[u].state \notin {"none", "pending"}

(* The job a call is at.                                                   *)
JobAt(q) == BilledJobs[q.next]

(* What a call has behind it at each of its awaits.                        *)
ScanCovers(q) ==
  /\ q.run \in 1..Len(runs) /\ q.from \in Logs
  /\ \A j \in JobSet : Begun(q, j) \subseteq EventsToUsage(j, eventLog[j])
  /\ \A i \in 1..Len(BilledJobs) : i < q.next =>
       \A u \in Begun(q, BilledJobs[i]) : DealtWith(u)
  /\ q.pc \in {"record", "list", "look", "settle"} => q.next <= Len(BilledJobs)
  /\ q.pc = "list" => Begun(q, JobAt(q)) \subseteq usage
  /\ q.pc \in {"look", "settle"} =>
       \A u \in Begun(q, JobAt(q)) :
         u \in usage /\ (u \in q.todo \cup q.cur \/ DealtWith(u))
  /\ q.pc = "complete" => q.next > Len(BilledJobs) \/ q.next > MaxScan

(* The events a call has listed are recorded, and it settles one at a time. *)
CallInHand(q) ==
  /\ q.todo \subseteq usage /\ q.cur \subseteq usage
  /\ IF q.pc = "settle" THEN \E u \in q.cur : q.cur = {u} ELSE q.cur = {}
  /\ q.pc # "idle" => ScanCovers(q)

(* The inductive invariant.                                                *)
BooksInv ==
  /\ BooksTyped
  /\ \A u \in UsageIds : ChargedRight(u)
  /\ CorrectsOwnAccount
  /\ \A r \in Reconcilers : CallInHand(recon[r])

-----------------------------------------------------------------------------
(* The operators of the model.                                             *)

(* Every billed job has an account.                                        *)
LEMMA JobsHaveAccounts ==
  /\ Len(BilledJobs) \in Nat
  /\ \A i \in 1..Len(BilledJobs) : BilledJobs[i] \in JobSet
  /\ \A j \in JobSet : AccountOf[j] \in Accounts
<1>1. BilledJobs \in Seq(DOMAIN AccountOf)
  BY AccountingAssumption
<1>2. \A i \in 1..Len(BilledJobs) : BilledJobs[i] \in DOMAIN AccountOf
  BY <1>1
<1>3. \A j \in JobSet : j \in DOMAIN AccountOf
  BY <1>2 DEF JobSet
<1> QED
  BY <1>1, <1>3 DEF JobSet, Accounts

(* A nonempty set of natural numbers has a smallest one.                   *)
LEMMA LeastNat ==
  ASSUME NEW T, T \subseteq Nat, T # {}
  PROVE  \E x \in T : \A y \in T : x <= y
<1>1. PICK x \in T : \A y \in T : ~(<<y, x>> \in OpToRel(<, Nat))
  BY NatLessThanWellFounded, WFMin
<1>2. ASSUME NEW y \in T PROVE x <= y
  <2>1. y \in Nat /\ x \in Nat
    OBVIOUS
  <2>2. y < x => <<y, x>> \in OpToRel(<, Nat)
    BY <2>1 DEF OpToRel
  <2>3. ~(y < x)
    BY <1>1, <2>2, Zenon
  <2> QED
    BY <2>1, <2>3
<1> QED
  BY <1>2

(* A finite nonempty set of natural numbers has a largest one: otherwise   *)
(* take one of the smallest size that has none, and leave out a member.    *)
LEMMA LargestOfFinite ==
  ASSUME NEW S, S \subseteq Nat, S # {}, IsFiniteSet(S)
  PROVE  Max(S) \in S
<1> DEFINE Topped(A) == \E x \in A : \A y \in A : x >= y
           Bad == {A \in SUBSET Nat : IsFiniteSet(A) /\ A # {} /\ ~Topped(A)}
           Sizes == {Cardinality(A) : A \in Bad}
<1>1. ASSUME Bad # {} PROVE FALSE
  <2>1. Sizes \subseteq Nat /\ Sizes # {}
    BY <1>1, FS_CardinalityType
  <2>2. PICK n \in Sizes : \A m \in Sizes : n <= m
    BY <2>1, LeastNat
  <2>3. PICK A \in Bad : n = Cardinality(A)
    BY <2>2
  <2>4. PICK x \in A : TRUE
    BY <2>3
  <2> DEFINE B == A \ {x}
  <2>5. IsFiniteSet(B) /\ Cardinality(B) = n - 1 /\ n \in Nat
    BY <2>1, <2>2, <2>3, <2>4, FS_RemoveElement
  <2>6. B \notin Bad
    <3>1. B \in Bad => Cardinality(B) \in Sizes
      <4> HIDE DEF Bad, B
      <4> QED
        OBVIOUS
    <3>2. ~(n <= n - 1)
      BY <2>5
    <3> QED
      BY <2>2, <2>5, <3>1, <3>2, Zenon
  <2>7. CASE B = {}
    <3>1. A = {x} /\ x \in Nat
      BY <2>3, <2>4, <2>7
    <3> QED
      BY <2>3, <3>1
  <2>8. CASE B # {}
    <3>1. PICK b \in B : \A y \in B : b >= y
      BY <2>3, <2>5, <2>6, <2>8
    <3>2. A \subseteq Nat /\ x \in Nat /\ b \in Nat /\ b \in A
      BY <2>3, <2>4, <3>1
    <3>3. (\A y \in A : b >= y) \/ (\A y \in A : x >= y)
      BY <3>1, <3>2
    <3> QED
      BY <2>3, <2>4, <3>2, <3>3
  <2> QED
    BY <2>7, <2>8
<1>2. Topped(S)
  BY <1>1
<1> QED
  BY <1>2 DEF Max

(* The stamp of a finished run is a number.                                *)
LEMMA StampIsNat ==
  ASSUME runs \in Seq(RunRow)
  PROVE  FinishStamp \in Nat
<1> DEFINE D == 1..Len(runs)
           f == [i \in D |-> runs[i].finished]
           T == {runs[i].finished : i \in D}
<1>1. IsFiniteSet(D)
  BY FS_Interval
<1>2. \A i \in D : runs[i].finished \in Nat
  <2>1. \A i \in D : runs[i] \in RunRow
    OBVIOUS
  <2> QED
    BY <2>1 DEF RunRow
<1>3. T = {f[i] : i \in D}
  OBVIOUS
<1>4. IsFiniteSet({f[i] : i \in D})
  <2> HIDE DEF D
  <2>1. f \in Surjection(D, {f[i] : i \in D})
    BY DEF Surjection
  <2> QED
    BY <1>1, <2>1, FS_Surjection
<1>5. IsFiniteSet(T \cup {0}) /\ {0} \cup T = T \cup {0}
  BY <1>3, <1>4, FS_AddElement
<1>6. Max({0} \cup T) \in {0} \cup T
  <2>1. {0} \cup T \subseteq Nat /\ {0} \cup T # {}
    BY <1>2
  <2> QED
    BY <1>5, <2>1, LargestOfFinite
<1>7. Max({0} \cup T) \in Nat
  BY <1>2, <1>6
<1> QED
  BY <1>7 DEF FinishStamp

(* A table of runs stays one when a row is written.                        *)
LEMMA RowReplaced ==
  ASSUME NEW s \in Seq(RunRow), NEW n \in 1..Len(s), NEW row \in RunRow
  PROVE  [s EXCEPT ![n] = row] \in Seq(RunRow) /\ Len([s EXCEPT ![n] = row]) = Len(s)
  OBVIOUS

(* The watermark a run starts with is one of the rows' or 0.               *)
LEMMA SeedTyped ==
  ASSUME NEW rows \in Seq(RunRow)
  PROVE  SeedMark(rows) \in 0..MaxLog
<1> DEFINE done == {i \in 1..Len(rows) : rows[i].status \in {"completed", "interrupted"}}
           newest == {i \in done : \A k \in done : rows[k].finished <= rows[i].finished}
<1>1. MaxLog \in Nat
  BY AccountingAssumption
<1>2. newest \subseteq 1..Len(rows) /\ IsFiniteSet(newest)
  BY FS_Interval, FS_Subset
<1>3. newest # {} => Max(newest) \in 1..Len(rows)
  <2> HIDE DEF newest
  <2>1. newest \subseteq Nat
    BY <1>2
  <2> QED
    BY <1>2, <2>1, LargestOfFinite
<1>4. newest # {} => rows[Max(newest)].watermark \in 0..MaxLog
  <2>1. newest # {} => rows[Max(newest)] \in RunRow
    <3> HIDE DEF newest
    <3> QED
      BY <1>3
  <2> HIDE DEF newest
  <2> QED
    BY <2>1 DEF RunRow
<1> QED
  BY <1>1, <1>4 DEF SeedMark

(* More events, more usage.                                                *)
LEMMA UsageGrows ==
  ASSUME NEW j, NEW s \in Seq(MeteredTypes), NEW t
  PROVE  EventsToUsage(j, s) \subseteq EventsToUsage(j, Append(s, t))
<1>1. Len(s) \in Nat /\ Len(Append(s, t)) = Len(s) + 1
  OBVIOUS
<1>2. ASSUME NEW u \in EventsToUsage(j, s) PROVE u \in EventsToUsage(j, Append(s, t))
  <2>1. u \in UsageIds /\ u[3] \in 1..MaxLog /\ u[3] <= Len(s) /\ u[1] = j
    BY <1>2 DEF EventsToUsage, UsageIds
  <2>2. u[3] \in 1..Len(s)
    BY <2>1, AccountingAssumption
  <2>3. Append(s, t)[u[3]] = s[u[3]]
    BY <2>2
  <2> QED
    BY <1>1, <1>2, <2>1, <2>2, <2>3 DEF EventsToUsage
<1> QED
  BY <1>2

-----------------------------------------------------------------------------
(* What no step takes back: recorded usage, outcomes, committed events and *)
(* run rows.                                                               *)
Outcomes ==
  \A u \in UsageIds :
    /\ settlement[u].state \in {"settled", "non_billable"} => settlement'[u] = settlement[u]
    /\ settlement[u].state \notin {"none", "pending"} =>
         settlement'[u].state \notin {"none", "pending"}

(* The tables only grow.                                                   *)
Forward ==
  /\ ledger \subseteq ledger' /\ usage \subseteq usage' /\ Outcomes
  /\ \A j \in JobSet : EventsToUsage(j, eventLog[j]) \subseteq EventsToUsage(j, eventLog'[j])
  /\ Len(runs) <= Len(runs')

(* The ledger by itself.                                                   *)
LedgerOk ==
  /\ settlement \in [UsageIds -> [state : SettlementStates, amount : Nat]]
  /\ ledger \subseteq LedgerEntry
  /\ pricing \in 0..MaxPricing
  /\ \A u \in UsageIds : ChargedRight(u)
  /\ CorrectsOwnAccount

(* A call that stands still is overtaken by nothing it relies on.          *)
LEMMA StandingCall ==
  ASSUME BooksTyped, Forward, (Len(runs) \in Nat)', NEW r \in Reconcilers, recon'[r] = recon[r],
         CallInHand(recon[r])
  PROVE  CallInHand(recon[r])'
<1>1. \A u : DealtWith(u) => DealtWith(u)'
  BY DEF DealtWith, Forward, Outcomes, BooksTyped
<1>2. usage \subseteq usage' /\ Len(runs) <= Len(runs') /\ Len(runs) \in Nat
  BY DEF Forward, BooksTyped
<1>3. \A j \in JobSet : EventsToUsage(j, eventLog[j]) \subseteq EventsToUsage(j, eventLog'[j])
  BY DEF Forward
<1>4. \A j : Begun(recon[r], j)' = Begun(recon[r], j)
  BY DEF Begun
<1>5. JobAt(recon[r])' = JobAt(recon[r])
  BY DEF JobAt
<1>6. ASSUME ScanCovers(recon[r]) PROVE ScanCovers(recon[r])'
  <2>1. recon'[r].run \in 1..Len(runs') /\ recon'[r].from \in Logs
    BY <1>2, <1>6 DEF ScanCovers
  <2>2. \A j \in JobSet : Begun(recon[r], j)' \subseteq EventsToUsage(j, eventLog'[j])
    BY <1>3, <1>4, <1>6 DEF ScanCovers
  <2>3. \A i \in 1..Len(BilledJobs) : i < recon'[r].next =>
          \A u \in Begun(recon[r], BilledJobs[i])' : DealtWith(u)'
    BY <1>1, <1>4, <1>6 DEF ScanCovers
  <2>4. recon'[r].pc = "list" => Begun(recon[r], JobAt(recon[r]))' \subseteq usage'
    BY <1>2, <1>4, <1>5, <1>6 DEF ScanCovers
  <2>5. recon'[r].pc \in {"look", "settle"} =>
          \A u \in Begun(recon[r], JobAt(recon[r]))' :
            u \in usage' /\ (u \in recon'[r].todo \cup recon'[r].cur \/ DealtWith(u)')
    BY <1>1, <1>2, <1>4, <1>5, <1>6 DEF ScanCovers
  <2>6. /\ recon'[r].pc \in {"record", "list", "look", "settle"} =>
             recon'[r].next <= Len(BilledJobs)
        /\ recon'[r].pc = "complete" =>
             recon'[r].next > Len(BilledJobs) \/ recon'[r].next > MaxScan
    BY <1>6 DEF ScanCovers
  <2> QED
    BY <2>1, <2>2, <2>3, <2>4, <2>5, <2>6 DEF ScanCovers
<1> QED
  BY <1>2, <1>6 DEF CallInHand

(* An entry of a client is nobody's settlement, and a correction names an  *)
(* entry of its own account, which the inserted one is not.                *)
LEMMA ClientEntry ==
  ASSUME LedgerOk, NEW entry \in LedgerEntry, NEW k \in ClientKeys,
         entry.key = <<k, "client">>, InsertEntry(entry),
         entry.original => \E o \in ledger : o.account = entry.account,
         UNCHANGED <<settlement, pricing>>
  PROVE  LedgerOk' /\ ledger \subseteq ledger'
<1>1. ledger' = ledger \/ (ledger' = ledger \cup {entry}
                           /\ ~\E e \in ledger : e.account = entry.account /\ e.key = entry.key)
  BY DEF InsertEntry
<1>2. \A u : entry.key # SettleKey(u)
  BY DEF SettleKey
<1>3. ASSUME NEW u \in UsageIds PROVE ChargedRight(u)'
  <2>1. ChargedRight(u)
    BY DEF LedgerOk
  <2>2. \A e \in ledger' : e.key = SettleKey(u) <=> e \in ledger /\ e.key = SettleKey(u)
    BY <1>1, <1>2
  <2>3. SettleKey(u)' = SettleKey(u)
    BY DEF SettleKey
  <2> QED
    BY <1>1, <2>1, <2>2, <2>3 DEF ChargedRight
<1>4. CorrectsOwnAccount'
  BY <1>1 DEF CorrectsOwnAccount, LedgerOk
<1> QED
  BY <1>1, <1>3, <1>4 DEF LedgerOk

(* settleUsage charges an event once, at the price of that moment, and     *)
(* leaves no event it looked at without an outcome.                        *)
LEMMA SettlementKept ==
  ASSUME LedgerOk, NEW u \in UsageIds, NEW b \in BOOLEAN, SettleUsage(u, b),
         UNCHANGED pricing
  PROVE  /\ LedgerOk' /\ ledger \subseteq ledger' /\ Outcomes
         /\ settlement'[u].state \notin {"none", "pending"}
<1>0. /\ settlement \in [UsageIds -> [state : SettlementStates, amount : Nat]]
      /\ ledger \subseteq LedgerEntry /\ \A v \in UsageIds : ChargedRight(v)
      /\ CorrectsOwnAccount /\ pricing \in 0..MaxPricing
  BY DEF LedgerOk
<1>1. CASE Final(u) /\ UNCHANGED <<settlement, ledger>>
  <2>1. \A v \in UsageIds : ChargedRight(v)'
    BY <1>0, <1>1 DEF ChargedRight, SettleKey
  <2>2. CorrectsOwnAccount'
    BY <1>0, <1>1 DEF CorrectsOwnAccount
  <2> QED
    BY <1>0, <1>1, <2>1, <2>2 DEF LedgerOk, Outcomes, Final
<1>2. ASSUME NEW out \in {"non_billable", "unresolved"}, ~Final(u), UNCHANGED ledger,
             settlement' = [settlement EXCEPT ![u].state = out]
      PROVE  /\ LedgerOk' /\ ledger \subseteq ledger' /\ Outcomes
             /\ settlement'[u].state \notin {"none", "pending"}
  <2>1. settlement' \in [UsageIds -> [state : SettlementStates, amount : Nat]]
    BY <1>0, <1>2 DEF SettlementStates
  <2>2. settlement'[u].state = out /\ \A v \in UsageIds \ {u} : settlement'[v] = settlement[v]
    BY <1>0, <1>2
  <2>3. settlement[u].state # "settled" /\ out # "settled"
    BY <1>2 DEF Final
  <2>4. ASSUME NEW v \in UsageIds PROVE ChargedRight(v)'
    <3>1. ChargedRight(v)
      BY <1>0
    <3>2. CASE v = u
      BY <1>2, <2>2, <2>3, <3>1, <3>2 DEF ChargedRight, SettleKey
    <3>3. CASE v # u
      BY <1>2, <2>2, <3>1, <3>3 DEF ChargedRight, SettleKey
    <3> QED
      BY <3>2, <3>3
  <2>5. CorrectsOwnAccount'
    BY <1>0, <1>2 DEF CorrectsOwnAccount
  <2>6. Outcomes
    BY <1>2, <2>2 DEF Outcomes, Final
  <2> QED
    BY <1>0, <1>2, <2>1, <2>2, <2>4, <2>5, <2>6 DEF LedgerOk
<1>3. CASE /\ ~Final(u) /\ pricing # 0
           /\ InsertEntry([key |-> SettleKey(u), account |-> AccountOf[u[1]],
                     type |-> "charge", amount |-> pricing,
                     original |-> FALSE])
           /\ settlement' = [settlement EXCEPT ![u] =
                [state |-> "settled", amount |-> EntryOf(u).amount]]
  <2> DEFINE entry == [key |-> SettleKey(u), account |-> AccountOf[u[1]],
                       type |-> "charge", amount |-> pricing, original |-> FALSE]
  <2>0. /\ entry.key = SettleKey(u) /\ entry.account = AccountOf[u[1]]
        /\ entry.amount = pricing /\ entry.original = FALSE
    OBVIOUS
  <2>1. entry \in LedgerEntry
    <3>1. u[1] \in JobSet
      BY DEF UsageIds
    <3>2. AccountOf[u[1]] \in Accounts
      BY <3>1, JobsHaveAccounts
    <3>3. SettleKey(u) \in UsageIds \X {"settle"}
      BY DEF SettleKey
    <3>4. pricing \in Int
      BY <1>0
    <3> QED
      BY <3>2, <3>3, <3>4 DEF LedgerEntry
  <2>2. \A e \in ledger : e.key # SettleKey(u)
    <3>1. ChargedRight(u) /\ settlement[u].state # "settled"
      BY <1>0, <1>3 DEF Final
    <3> QED
      BY <3>1 DEF ChargedRight
  <2>3. ledger' = ledger \cup {entry}
    BY <1>3, <2>2 DEF InsertEntry
  <2> HIDE DEF entry
  <2>4. EntryOf(u) = entry
    BY <2>0, <2>2, <2>3 DEF EntryOf
  <2>5. /\ settlement' \in [UsageIds -> [state : SettlementStates, amount : Nat]]
        /\ settlement'[u].state = "settled" /\ settlement'[u].amount = pricing
        /\ \A v \in UsageIds \ {u} : settlement'[v] = settlement[v]
    <3>1. settlement' = [settlement EXCEPT ![u] = [state |-> "settled", amount |-> pricing]]
      BY <1>3, <2>0, <2>4
    <3>2. pricing \in Nat
      BY <1>0, AccountingAssumption
    <3> QED
      BY <1>0, <3>1, <3>2 DEF SettlementStates
  <2>6. ASSUME NEW v \in UsageIds PROVE ChargedRight(v)'
    <3>1. CASE v = u
      <4>1. \A e \in ledger' : e.key = SettleKey(u) <=> e = entry
        BY <2>0, <2>2, <2>3
      <4>2. entry \in ledger'
        BY <2>3
      <4>3. SettleKey(u)' = SettleKey(u)
        BY DEF SettleKey
      <4> QED
        BY <2>0, <2>5, <3>1, <4>1, <4>2, <4>3 DEF ChargedRight
    <3>2. CASE v # u
      <4>1. SettleKey(v) # SettleKey(u)
        BY <3>2 DEF SettleKey
      <4>2. \A e \in ledger' : e.key = SettleKey(v) <=> e \in ledger /\ e.key = SettleKey(v)
        BY <2>0, <2>3, <4>1
      <4>3. SettleKey(v)' = SettleKey(v)
        BY DEF SettleKey
      <4>4. ChargedRight(v) /\ settlement'[v] = settlement[v]
        BY <1>0, <2>5, <3>2
      <4> QED
        BY <2>3, <4>2, <4>3, <4>4 DEF ChargedRight
    <3> QED
      BY <3>1, <3>2
  <2>7. CorrectsOwnAccount'
    BY <1>0, <2>0, <2>3 DEF CorrectsOwnAccount
  <2>8. Outcomes
    BY <1>3, <2>5 DEF Outcomes, Final
  <2> QED
    BY <1>0, <2>1, <2>3, <2>5, <2>6, <2>7, <2>8 DEF LedgerOk
<1> QED
  BY <1>1, <1>2, <1>3 DEF SettleUsage

(* The tables outside the ledger.                                          *)
TablesOk ==
  /\ eventLog \in Logs /\ \A j \in JobSet : Len(eventLog[j]) <= MaxLog
  /\ usage \subseteq UsageIds
  /\ gaps \in [GapKinds \X UsageIds -> GapStates]
  /\ runs \in Seq(RunRow)

(* The invariant by its parts.                                             *)
LEMMA BooksParts ==
  BooksInv <=> /\ LedgerOk /\ TablesOk /\ recon \in [Reconcilers -> RecCall]
               /\ \A r \in Reconcilers : CallInHand(recon[r])
  BY DEF BooksInv, BooksTyped, LedgerOk, TablesOk

(* The same after a step.                                                  *)
LEMMA BooksPartsNext ==
  ASSUME LedgerOk', TablesOk', (recon \in [Reconcilers -> RecCall])',
         \A r \in Reconcilers : CallInHand(recon[r])'
  PROVE  BooksInv'
  BY DEF BooksInv, BooksTyped, LedgerOk, TablesOk

(* Opening gaps keeps their table.                                         *)
LEMMA GapsTyped ==
  ASSUME TablesOk, NEW kind, NEW refs
  PROVE  WithGaps(kind, refs) \in [GapKinds \X UsageIds -> GapStates]
  BY DEF TablesOk, WithGaps, GapStates

(* A step that changes the tables under the calls, and no call.            *)
LEMMA TablesStep ==
  ASSUME BooksInv, Forward, LedgerOk', TablesOk', UNCHANGED recon
  PROVE  BooksInv'
<1>1. BooksTyped /\ \A r \in Reconcilers : CallInHand(recon[r])
  BY DEF BooksInv
<1>2. (Len(runs) \in Nat)'
  BY DEF TablesOk
<1>3. \A r \in Reconcilers : CallInHand(recon[r])'
  BY <1>1, <1>2, StandingCall
<1> QED
  BY <1>1, <1>3, BooksPartsNext DEF BooksTyped

(* A step of one call.                                                     *)
LEMMA BooksCallStep ==
  ASSUME BooksInv, Forward, LedgerOk', TablesOk', NEW r \in Reconcilers, NEW q \in RecCall,
         recon' = [recon EXCEPT ![r] = q], CallInHand(recon[r])'
  PROVE  BooksInv'
<1>1. BooksTyped /\ \A s \in Reconcilers : CallInHand(recon[s])
  BY DEF BooksInv
<1>2. (Len(runs) \in Nat)'
  BY DEF TablesOk
<1>3. recon \in [Reconcilers -> RecCall]
  BY <1>1 DEF BooksTyped
<1>4. recon' \in [Reconcilers -> RecCall] /\ \A s \in Reconcilers : s # r => recon'[s] = recon[s]
  BY <1>3
<1>5. ASSUME NEW s \in Reconcilers, s # r PROVE CallInHand(recon[s])'
  BY <1>1, <1>2, <1>4, <1>5, StandingCall
<1>6. \A s \in Reconcilers : CallInHand(recon[s])'
  BY <1>5
<1> QED
  BY <1>4, <1>6, BooksPartsNext

(* Nothing is lost where nothing changes.                                  *)
LEMMA StandingForward ==
  ASSUME TablesOk, UNCHANGED <<settlement, ledger, usage, eventLog, runs>>
  PROVE  Forward
  BY DEF Forward, Outcomes, TablesOk

(* The same for the ledger and the tables.                                 *)
LEMMA StandingLedger ==
  ASSUME LedgerOk, UNCHANGED <<settlement, ledger, pricing>>
  PROVE  LedgerOk'
<1>1. \A u \in UsageIds : ChargedRight(u)'
  BY DEF LedgerOk, ChargedRight, SettleKey
<1>2. CorrectsOwnAccount'
  BY DEF LedgerOk, CorrectsOwnAccount
<1> QED
  BY <1>1, <1>2 DEF LedgerOk

-----------------------------------------------------------------------------
(* The invariant holds when nothing was metered or charged.                *)
LEMMA BooksInitInv == AccountingInit => BooksInv
<1> SUFFICES ASSUME AccountingInit PROVE BooksInv
  OBVIOUS
<1>1. MaxLog \in Nat /\ MaxPricing \in Nat
  BY AccountingAssumption
<1>2. IdleRec \in RecCall
  BY <1>1 DEF IdleRec, RecCall, RecPc
<1>3. LedgerOk
  BY <1>1 DEF AccountingInit, LedgerOk, ChargedRight, CorrectsOwnAccount, SettlementStates
<1>4. TablesOk
  <2>1. \A j \in JobSet : eventLog[j] = <<>>
    BY DEF AccountingInit
  <2>2. eventLog \in Logs /\ \A j \in JobSet : Len(eventLog[j]) <= MaxLog
    BY <1>1, <2>1 DEF AccountingInit, Logs
  <2> QED
    BY <2>2 DEF AccountingInit, TablesOk, GapStates
<1>5. \A r \in Reconcilers : recon[r] = IdleRec
  BY DEF AccountingInit
<1>6. CallInHand(IdleRec)
  BY DEF CallInHand, IdleRec
<1>7. recon \in [Reconcilers -> RecCall]
  BY <1>2 DEF AccountingInit
<1> QED
  BY <1>3, <1>4, <1>5, <1>6, <1>7, BooksParts

(* Clients of the ledger.                                                  *)
LEMMA ClientsKeep ==
  ASSUME BooksInv, LedgerNext
  PROVE  BooksInv' /\ Forward
<1>0. LedgerOk /\ TablesOk
  BY BooksParts
<1>1. PICK k \in ClientKeys, a \in Accounts :
        Charge(k, a) \/ Adjust(k, a) \/ \E e \in ledger : RecordAdjustment(k, a, e)
  BY DEF LedgerNext
<1>2. UNCHANGED <<eventLog, usage, settlement, pricing, gaps, runs, recon>>
  BY <1>1 DEF Charge, Adjust, RecordAdjustment
<1>3. pricing \in Int
  BY <1>0 DEF LedgerOk
<1>4. PICK entry \in LedgerEntry :
        /\ entry.key = <<k, "client">> /\ InsertEntry(entry)
        /\ entry.original => \E o \in ledger : o.account = entry.account
  <2> DEFINE Made(type, amount, original) ==
        [key |-> <<k, "client">>, account |-> a, type |-> type, amount |-> amount,
         original |-> original]
  <2>0. ASSUME NEW type \in {"charge", "adjustment"}, NEW amount \in Int,
               NEW original \in BOOLEAN
        PROVE  /\ Made(type, amount, original) \in LedgerEntry
               /\ Made(type, amount, original).key = <<k, "client">>
               /\ Made(type, amount, original).account = a
               /\ Made(type, amount, original).original = original
    BY DEF LedgerEntry
  <2>1. CASE Charge(k, a)
    <3>1. InsertEntry(Made("charge", pricing, FALSE))
      BY <2>1 DEF Charge
    <3> HIDE DEF Made
    <3> QED
      BY <1>3, <2>0, <3>1
  <2>2. CASE Adjust(k, a)
    <3> DEFINE entry == Made("adjustment", -1, FALSE)
    <3>1. InsertEntry(entry)
      BY <2>2 DEF Adjust
    <3>2. /\ entry \in LedgerEntry /\ entry.key = <<k, "client">>
          /\ entry.original = FALSE
      BY DEF LedgerEntry
    <3> HIDE DEF entry
    <3> QED
      BY <3>1, <3>2
  <2>3. ASSUME NEW e \in ledger, RecordAdjustment(k, a, e)
        PROVE  \E entry \in LedgerEntry :
                 /\ entry.key = <<k, "client">> /\ InsertEntry(entry)
                 /\ entry.original => \E o \in ledger : o.account = entry.account
    <3> DEFINE entry == Made("adjustment", -1, TRUE)
    <3>1. InsertEntry(entry) /\ e.account = a
      BY <2>3 DEF RecordAdjustment, Findable
    <3>2. /\ entry \in LedgerEntry /\ entry.key = <<k, "client">>
          /\ entry.account = a
      BY DEF LedgerEntry
    <3> HIDE DEF entry
    <3> QED
      BY <2>3, <3>1, <3>2
  <2> QED
    BY <1>1, <2>1, <2>2, <2>3
<1>5. LedgerOk' /\ ledger \subseteq ledger'
  BY <1>0, <1>2, <1>4, ClientEntry
<1>6. Forward
  BY <1>0, <1>2, <1>5 DEF Forward, Outcomes, TablesOk
<1>7. TablesOk'
  BY <1>0, <1>2 DEF TablesOk
<1> QED
  BY <1>2, <1>5, <1>6, <1>7, TablesStep

(* A job commits an event.                                                 *)
LEMMA ChargesCommitKeeps ==
  ASSUME BooksInv, NEW j \in JobSet, NEW t \in MeteredTypes, CommitEvent(j, t)
  PROVE  BooksInv' /\ Forward
<1>0. LedgerOk /\ TablesOk
  BY BooksParts
<1>1. /\ UNCHANGED <<usage, settlement, ledger, pricing, gaps, runs, recon>>
      /\ eventLog' = [eventLog EXCEPT ![j] = Append(@, t)]
      /\ Len(eventLog[j]) < MaxLog
  BY DEF CommitEvent
<1>2. eventLog \in [JobSet -> Seq(MeteredTypes)] /\ eventLog[j] \in Seq(MeteredTypes)
  BY <1>0 DEF TablesOk, Logs
<1>3. /\ eventLog'[j] = Append(eventLog[j], t)
      /\ \A i \in JobSet : i # j => eventLog'[i] = eventLog[i]
      /\ eventLog' \in [JobSet -> Seq(MeteredTypes)]
  BY <1>1, <1>2
<1>4. \A i \in JobSet : EventsToUsage(i, eventLog[i]) \subseteq EventsToUsage(i, eventLog'[i])
  BY <1>2, <1>3, UsageGrows
<1>5. Len(eventLog'[j]) <= MaxLog
  BY <1>1, <1>2, <1>3, AccountingAssumption
<1>6. TablesOk'
  <2>1. \A i \in JobSet : Len(eventLog[i]) <= MaxLog
    BY <1>0 DEF TablesOk
  <2>2. ASSUME NEW i \in JobSet PROVE Len(eventLog'[i]) <= MaxLog
    BY <1>3, <1>5, <2>1
  <2> QED
    BY <1>0, <1>1, <1>3, <2>2 DEF TablesOk, Logs
<1>7. Forward
  <2>1. ledger \subseteq ledger' /\ usage \subseteq usage' /\ Outcomes
    BY <1>1 DEF Outcomes
  <2>2. Len(runs) <= Len(runs')
    BY <1>0, <1>1 DEF TablesOk
  <2> QED
    BY <1>4, <2>1, <2>2, Zenon DEF Forward
<1> QED
  BY <1>0, <1>1, <1>6, <1>7, TablesStep, StandingLedger

(* A new price leaves everything that was charged alone.                   *)
LEMMA PricingKeeps ==
  ASSUME BooksInv, CreatePricingVersion
  PROVE  BooksInv' /\ Forward
<1>0. LedgerOk /\ TablesOk
  BY BooksParts
<1>1. pricing' \in 0..MaxPricing
  BY <1>0, AccountingAssumption DEF CreatePricingVersion, LedgerOk
<1>2. UNCHANGED <<eventLog, usage, settlement, ledger, gaps, runs, recon>>
  BY DEF CreatePricingVersion
<1>3. LedgerOk'
  <2>1. \A u \in UsageIds : ChargedRight(u)'
    BY <1>0, <1>2 DEF LedgerOk, ChargedRight, SettleKey
  <2>2. CorrectsOwnAccount'
    BY <1>0, <1>2 DEF LedgerOk, CorrectsOwnAccount
  <2> QED
    BY <1>0, <1>1, <1>2, <2>1, <2>2 DEF LedgerOk
<1>4. TablesOk' /\ Forward
  BY <1>0, <1>2, StandingForward DEF TablesOk
<1> QED
  BY <1>2, <1>3, <1>4, TablesStep

(* Direct calls of settleUsage and of markUsageUnresolved.                 *)
LEMMA DirectKeeps ==
  ASSUME BooksInv, NEW u \in UsageIds, MarkUsageUnresolved(u) \/ SettleFree(u)
  PROVE  BooksInv' /\ Forward
<1>0. LedgerOk /\ TablesOk
  BY BooksParts
<1>1. UNCHANGED <<eventLog, usage, pricing, gaps, runs, recon>>
  BY DEF MarkUsageUnresolved, SettleFree
<1>2. LedgerOk' /\ ledger \subseteq ledger' /\ Outcomes
  <2>1. CASE SettleFree(u)
    BY <1>0, <1>1, <2>1, SettlementKept DEF SettleFree
  <2>2. CASE MarkUsageUnresolved(u)
    <3>1. settlement \in [UsageIds -> [state : SettlementStates, amount : Nat]]
      BY <1>0 DEF LedgerOk
    <3>2. /\ settlement' = [settlement EXCEPT ![u].state = "unresolved"]
          /\ settlement[u].state \notin {"none", "settled", "non_billable"}
          /\ UNCHANGED ledger
      BY <2>2 DEF MarkUsageUnresolved
    <3>3. /\ settlement' \in [UsageIds -> [state : SettlementStates, amount : Nat]]
          /\ settlement'[u].state = "unresolved"
          /\ settlement'[u].amount = settlement[u].amount
          /\ \A v \in UsageIds \ {u} : settlement'[v] = settlement[v]
      BY <3>1, <3>2 DEF SettlementStates
    <3>4. ASSUME NEW v \in UsageIds PROVE ChargedRight(v)'
      <4>1. ChargedRight(v)
        BY <1>0 DEF LedgerOk
      <4>2. CASE v = u
        BY <3>2, <3>3, <4>1, <4>2 DEF ChargedRight, SettleKey
      <4>3. CASE v # u
        BY <3>2, <3>3, <4>1, <4>3 DEF ChargedRight, SettleKey
      <4> QED
        BY <4>2, <4>3
    <3>5. CorrectsOwnAccount'
      BY <1>0, <3>2 DEF CorrectsOwnAccount, LedgerOk
    <3>6. Outcomes
      BY <3>2, <3>3 DEF Outcomes
    <3> QED
      BY <1>0, <1>1, <3>2, <3>3, <3>4, <3>5, <3>6 DEF LedgerOk
  <2> QED
    BY <2>1, <2>2
<1>3. TablesOk' /\ Forward
  BY <1>0, <1>1, <1>2 DEF TablesOk, Forward
<1> QED
  BY <1>1, <1>2, <1>3, TablesStep

-----------------------------------------------------------------------------
(* A reconcile() call.                                                     *)

(* What a step finds.                                                      *)
LEMMA CallFacts ==
  ASSUME BooksInv, NEW r \in Reconcilers
  PROVE  /\ LedgerOk /\ TablesOk /\ recon[r] \in RecCall /\ CallInHand(recon[r])
         /\ DOMAIN recon = Reconcilers
         /\ recon[r].pc # "idle" => ScanCovers(recon[r])
<1>1. /\ LedgerOk /\ TablesOk /\ recon \in [Reconcilers -> RecCall]
      /\ CallInHand(recon[r])
  BY BooksParts
<1> QED
  BY <1>1 DEF CallInHand

(* A call that ends or dies leaves nothing in hand.                        *)
LEMMA IdleCall ==
  ASSUME recon \in [Reconcilers -> RecCall], NEW r \in Reconcilers,
         recon' = [recon EXCEPT ![r] = IdleRec]
  PROVE  IdleRec \in RecCall /\ CallInHand(recon[r])'
<1>1. recon'[r] = IdleRec
  OBVIOUS
<1>2. IdleRec \in RecCall
  BY AccountingAssumption DEF IdleRec, RecCall, RecPc
<1>3. /\ IdleRec.pc = "idle" /\ IdleRec.todo = {} /\ IdleRec.cur = {}
  BY DEF IdleRec
<1> QED
  BY <1>1, <1>2, <1>3 DEF CallInHand

(* Finishing a run's row keeps the table of runs.                          *)
LEMMA FinishedRow ==
  ASSUME BooksInv, NEW r \in Reconcilers, NEW status \in RunStates, recon[r].pc # "idle",
         Finish(r, status)
  PROVE  runs' \in Seq(RunRow) /\ Len(runs') = Len(runs)
<1>1. runs \in Seq(RunRow) /\ recon[r].mark \in 0..MaxLog /\ recon[r].run \in 1..Len(runs)
  BY CallFacts DEF TablesOk, RecCall, ScanCovers
<1>2. FinishStamp \in Nat
  BY <1>1, StampIsNat
<1> DEFINE n == recon[r].run
           mark == IF recon[r].mark > runs[n].watermark THEN recon[r].mark ELSE runs[n].watermark
           row == [runs[n] EXCEPT !.status = status, !.finished = FinishStamp, !.watermark = mark]
<1>3. runs[n] \in RunRow
  BY <1>1
<1>4. row \in RunRow
  BY <1>1, <1>2, <1>3 DEF RunRow
<1>5. runs' = [runs EXCEPT ![n] = row]
  BY <1>1, <1>3 DEF Finish, RunRow
<1> HIDE DEF row, n
<1>6. n \in 1..Len(runs)
  BY <1>1 DEF n
<1> QED
  BY <1>1, <1>4, <1>5, <1>6

(* A run completes, fails or dies.                                         *)
LEMMA EndKeeps ==
  ASSUME BooksInv, NEW r \in Reconcilers,
         CompleteReconcile(r) \/ FailReconcile(r) \/ ReconcilerCrash(r)
  PROVE  BooksInv' /\ Forward
<1>0. LedgerOk /\ TablesOk /\ recon \in [Reconcilers -> RecCall]
  BY BooksParts
<1>1. /\ recon[r].pc # "idle" /\ recon' = [recon EXCEPT ![r] = IdleRec]
      /\ UNCHANGED <<eventLog, usage, settlement, ledger, pricing, gaps>>
  BY DEF CompleteReconcile, FailReconcile, ReconcilerCrash, Finish, RecAt
<1>2. runs' \in Seq(RunRow) /\ Len(runs') = Len(runs)
  <2>1. CASE ReconcilerCrash(r)
    BY <1>0, <2>1 DEF ReconcilerCrash, TablesOk
  <2>2. CASE CompleteReconcile(r) \/ FailReconcile(r)
    <3>1. PICK status \in RunStates : Finish(r, status)
      BY <2>2 DEF CompleteReconcile, FailReconcile, RunStates
    <3> QED
      BY <1>1, <3>1, FinishedRow
  <2> QED
    BY <2>1, <2>2
<1>3. TablesOk'
  BY <1>0, <1>1, <1>2 DEF TablesOk
<1>4. Forward
  <2>1. ledger \subseteq ledger' /\ usage \subseteq usage' /\ Outcomes /\ eventLog' = eventLog
    BY <1>1 DEF Outcomes
  <2>2. Len(runs) <= Len(runs')
    BY <1>0, <1>2 DEF TablesOk
  <2> QED
    BY <2>1, <2>2 DEF Forward
<1>5. IdleRec \in RecCall /\ CallInHand(recon[r])'
  BY <1>0, <1>1, IdleCall
<1> QED
  BY <1>0, <1>1, <1>3, <1>4, <1>5, BooksCallStep, StandingLedger

(* beginRun interrupts what still runs and starts from the first job.      *)
LEMMA ReconcileBeginKeeps ==
  ASSUME BooksInv, NEW r \in Reconcilers, BeginRun(r)
  PROVE  BooksInv' /\ Forward
<1>0. LedgerOk /\ TablesOk /\ recon \in [Reconcilers -> RecCall]
  BY BooksParts
<1> DEFINE interrupted ==
             [i \in 1..Len(runs) |->
                IF runs[i].status = "running"
                THEN [runs[i] EXCEPT !.status = "interrupted", !.finished = FinishStamp]
                ELSE runs[i]]
           row == [status |-> "running", finished |-> 0, watermark |-> SeedMark(interrupted)]
           q == [IdleRec EXCEPT !.pc = "next", !.run = Len(runs) + 1,
                                !.from = eventLog, !.mark = SeedMark(interrupted)]
<1>1. /\ UNCHANGED <<eventLog, usage, settlement, ledger, pricing, gaps>>
      /\ runs' = Append(interrupted, row)
      /\ recon' = [recon EXCEPT ![r] = q]
  BY DEF BeginRun
<1>2. runs \in Seq(RunRow) /\ Len(runs) \in Nat
  BY <1>0 DEF TablesOk
<1>3. interrupted \in Seq(RunRow) /\ Len(interrupted) = Len(runs)
  <2>1. FinishStamp \in Nat
    BY <1>2, StampIsNat
  <2>2. ASSUME NEW i \in 1..Len(runs) PROVE interrupted[i] \in RunRow
    <3>1. runs[i] \in RunRow
      BY <1>2, <2>2
    <3> QED
      BY <2>1, <3>1 DEF RunRow, RunStates
  <2>3. DOMAIN interrupted = 1..Len(runs)
    OBVIOUS
  <2>4. interrupted = [i \in 1..Len(runs) |-> interrupted[i]]
    OBVIOUS
  <2> HIDE DEF interrupted
  <2> QED
    BY <1>2, <2>2, <2>3, <2>4
<1>4. SeedMark(interrupted) \in 0..MaxLog
  <2> HIDE DEF interrupted
  <2> QED
    BY <1>3, SeedTyped
<1> HIDE DEF interrupted
<1>5. row \in RunRow
  BY <1>4 DEF RunRow, RunStates
<1>6. /\ q \in RecCall /\ q.pc = "next" /\ q.run = Len(runs) + 1 /\ q.next = 1
      /\ q.from = eventLog /\ q.todo = {} /\ q.cur = {}
  <2> DEFINE m == SeedMark(interrupted)
             n == Len(runs) + 1
  <2>1. q = [pc |-> "next", run |-> n, next |-> 1, from |-> eventLog,
             todo |-> {}, cur |-> {}, mark |-> m]
    <3> HIDE DEF m, n
    <3>1. q = [IdleRec EXCEPT !.pc = "next", !.run = n, !.from = eventLog, !.mark = m]
      BY DEF m, n
    <3> HIDE DEF q
    <3> QED
      BY <3>1 DEF IdleRec
  <2>2. n \in Nat /\ m \in 0..MaxLog /\ eventLog \in Logs
    BY <1>0, <1>2, <1>4 DEF TablesOk
  <2> HIDE DEF m, n, q
  <2>3. q \in RecCall
    BY <2>1, <2>2 DEF RecCall, RecPc
  <2>4. /\ q.pc = "next" /\ q.run = n /\ q.next = 1
        /\ q.from = eventLog /\ q.todo = {} /\ q.cur = {}
    BY <2>1
  <2> QED
    BY <2>3, <2>4 DEF n
<1> HIDE DEF row, q
<1>7. runs' \in Seq(RunRow) /\ Len(runs') = Len(runs) + 1
  BY <1>1, <1>3, <1>5
<1>8. TablesOk'
  BY <1>0, <1>1, <1>7 DEF TablesOk
<1>9. Forward
  <2>1. ledger \subseteq ledger' /\ usage \subseteq usage' /\ Outcomes /\ eventLog' = eventLog
    BY <1>1 DEF Outcomes
  <2>2. Len(runs) <= Len(runs')
    BY <1>2, <1>7
  <2> QED
    BY <2>1, <2>2 DEF Forward
<1>10. CallInHand(recon[r])'
  <2>1. recon'[r] = q
    BY <1>0, <1>1
  <2>2. \A j \in JobSet : Begun(recon[r], j)' = EventsToUsage(j, eventLog'[j])
    BY <1>1, <1>6, <2>1 DEF Begun
  <2>3. recon'[r].run \in 1..Len(runs') /\ recon'[r].from \in Logs
    BY <1>0, <1>2, <1>6, <1>7, <2>1 DEF TablesOk
  <2>4. ScanCovers(recon[r])'
    BY <1>6, <2>1, <2>2, <2>3 DEF ScanCovers
  <2> QED
    BY <1>6, <2>1, <2>4 DEF CallInHand
<1> QED
  BY <1>0, <1>1, <1>6, <1>8, <1>9, <1>10, BooksCallStep, StandingLedger

(* The job a scanning call is at is one of the billed jobs.                *)
LEMMA JobAtHand ==
  ASSUME BooksInv, NEW r \in Reconcilers, recon[r].pc \in {"record", "list", "look", "settle"}
  PROVE  /\ recon[r].next \in 1..Len(BilledJobs) /\ JobAt(recon[r]) \in JobSet
         /\ CurrentJob(r) = JobAt(recon[r])
<1>1. recon[r].next \in Nat \ {0} /\ recon[r].next <= Len(BilledJobs)
  BY CallFacts DEF RecCall, ScanCovers
<1> QED
  BY <1>1, JobsHaveAccounts DEF JobAt, CurrentJob

(* The loop over the jobs goes on or ends.                                 *)
LEMMA NextJobKeeps ==
  ASSUME BooksInv, NEW r \in Reconcilers, NextJob(r)
  PROVE  BooksInv' /\ Forward
<1>0. LedgerOk /\ TablesOk /\ recon \in [Reconcilers -> RecCall]
  BY BooksParts
<1> DEFINE pc == IF ScanOver(r) THEN "complete" ELSE "record"
           q == [recon[r] EXCEPT !.pc = pc]
<1>1. /\ UNCHANGED <<eventLog, usage, settlement, ledger, pricing, gaps, runs>>
      /\ recon' = [recon EXCEPT ![r] = q] /\ recon[r].pc = "next"
  BY <1>0 DEF NextJob, RecGoto, RecAt
<1>2. recon[r] \in RecCall /\ CallInHand(recon[r]) /\ ScanCovers(recon[r])
  BY <1>1, CallFacts
<1>3. /\ q \in RecCall /\ q.pc \in {"complete", "record"}
      /\ q.run = recon[r].run /\ q.next = recon[r].next /\ q.from = recon[r].from
      /\ q.todo = recon[r].todo /\ q.cur = recon[r].cur
      /\ q.pc = "complete" => q.next > Len(BilledJobs) \/ q.next > MaxScan
      /\ q.pc = "record" => q.next <= Len(BilledJobs)
  <2>1. q \in RecCall
    BY <1>2 DEF RecCall, RecPc
  <2>2. /\ q.run = recon[r].run /\ q.next = recon[r].next /\ q.from = recon[r].from
        /\ q.todo = recon[r].todo /\ q.cur = recon[r].cur /\ q.pc = pc
    BY <1>2 DEF RecCall
  <2>3. recon[r].next \in Nat
    BY <1>2 DEF RecCall
  <2> HIDE DEF q
  <2> QED
    BY <2>1, <2>2, <2>3, JobsHaveAccounts DEF ScanOver
<1> HIDE DEF q
<1>4. TablesOk' /\ Forward
  BY <1>0, <1>1, StandingForward DEF TablesOk
<1>5. CallInHand(recon[r])'
  <2>1. recon'[r] = q
    BY <1>0, <1>1
  <2>2. \A j : Begun(recon[r], j)' = Begun(recon[r], j)
    BY <1>3, <2>1 DEF Begun
  <2>3. \A u : DealtWith(u)' = DealtWith(u)
    BY <1>1 DEF DealtWith
  <2>4. ScanCovers(recon[r])'
    BY <1>1, <1>2, <1>3, <2>1, <2>2, <2>3 DEF ScanCovers
  <2> QED
    BY <1>1, <1>2, <1>3, <2>1, <2>4 DEF CallInHand
<1> QED
  BY <1>0, <1>1, <1>3, <1>4, <1>5, BooksCallStep, StandingLedger

(* recordBatch records what the job has committed by now, which includes   *)
(* what it had committed when the run began.                               *)
LEMMA RecordKeeps ==
  ASSUME BooksInv, NEW r \in Reconcilers, RecordBatch(r)
  PROVE  BooksInv' /\ Forward
<1>0. LedgerOk /\ TablesOk /\ recon \in [Reconcilers -> RecCall]
  BY BooksParts
<1> DEFINE j == CurrentJob(r)
           found == EventsToUsage(j, eventLog[j])
           mark == IF Len(eventLog[j]) > recon[r].mark THEN Len(eventLog[j]) ELSE recon[r].mark
           q == [recon[r] EXCEPT !.pc = "list", !.mark = mark]
<1>1. /\ UNCHANGED <<eventLog, settlement, ledger, pricing, runs>>
      /\ usage' = usage \cup found
      /\ gaps' = WithGaps("duplicate_candidate", usage \cap found)
      /\ recon[r].pc = "record"
  BY DEF RecordBatch, RecAt
<1>2. recon' = [recon EXCEPT ![r] = q]
  BY <1>0 DEF RecordBatch
<1>3. recon[r] \in RecCall /\ CallInHand(recon[r]) /\ ScanCovers(recon[r])
  BY <1>1, CallFacts
<1>4. recon[r].next \in 1..Len(BilledJobs) /\ j \in JobSet /\ j = JobAt(recon[r])
  BY <1>1, JobAtHand
<1>5. found \subseteq UsageIds
  BY DEF EventsToUsage
<1>6. mark \in 0..MaxLog
  <2>1. eventLog[j] \in Seq(MeteredTypes) /\ Len(eventLog[j]) <= MaxLog
    BY <1>0, <1>4 DEF TablesOk, Logs
  <2>2. recon[r].mark \in 0..MaxLog
    BY <1>3 DEF RecCall
  <2> QED
    BY <2>1, <2>2, AccountingAssumption
<1> HIDE DEF mark
<1>7. /\ q \in RecCall /\ q.pc = "list"
      /\ q.run = recon[r].run /\ q.next = recon[r].next /\ q.from = recon[r].from
      /\ q.todo = recon[r].todo /\ q.cur = recon[r].cur
  BY <1>3, <1>6 DEF RecCall, RecPc
<1> HIDE DEF q
<1>8. TablesOk'
  BY <1>0, <1>1, <1>5, GapsTyped DEF TablesOk
<1>9. Forward
  BY <1>0, <1>1 DEF Forward, Outcomes, TablesOk
<1>10. CallInHand(recon[r])'
  <2>1. recon'[r] = q
    BY <1>0, <1>2
  <2>2. \A i : Begun(recon[r], i)' = Begun(recon[r], i)
    BY <1>7, <2>1 DEF Begun
  <2>3. \A u : DealtWith(u) => DealtWith(u)'
    BY <1>1 DEF DealtWith
  <2>4. JobAt(recon[r])' = j
    BY <1>4, <1>7, <2>1 DEF JobAt
  <2>5. Begun(recon[r], j) \subseteq usage'
    BY <1>1, <1>3, <1>4 DEF ScanCovers
  <2>6. ScanCovers(recon[r])'
    BY <1>1, <1>3, <1>4, <1>7, <2>1, <2>2, <2>3, <2>4, <2>5 DEF ScanCovers
  <2> QED
    BY <1>1, <1>3, <1>7, <2>1, <2>6 DEF CallInHand
<1> QED
  BY <1>0, <1>1, <1>2, <1>7, <1>8, <1>9, <1>10, BooksCallStep, StandingLedger

(* The call lists the usage of its job, recorded by whomever.              *)
LEMMA ListKeeps ==
  ASSUME BooksInv, NEW r \in Reconcilers, ListUsage(r)
  PROVE  BooksInv' /\ Forward
<1>0. LedgerOk /\ TablesOk /\ recon \in [Reconcilers -> RecCall]
  BY BooksParts
<1> DEFINE j == CurrentJob(r)
           todo == {u \in usage : u[1] = j}
           q == [recon[r] EXCEPT !.pc = "look", !.todo = todo]
<1>1. /\ UNCHANGED <<eventLog, usage, settlement, ledger, pricing, gaps, runs>>
      /\ recon[r].pc = "list"
  BY DEF ListUsage, RecAt
<1>2. recon' = [recon EXCEPT ![r] = q]
  BY <1>0 DEF ListUsage
<1>3. recon[r] \in RecCall /\ CallInHand(recon[r]) /\ ScanCovers(recon[r])
  BY <1>1, CallFacts
<1>4. recon[r].next \in 1..Len(BilledJobs) /\ j \in JobSet /\ j = JobAt(recon[r])
  BY <1>1, JobAtHand
<1>5. todo \subseteq usage /\ todo \subseteq UsageIds
  BY <1>0 DEF TablesOk
<1>6. \A u \in Begun(recon[r], j) : u \in todo
  <2>1. Begun(recon[r], j) \subseteq usage
    BY <1>1, <1>3, <1>4 DEF ScanCovers
  <2>2. \A u \in Begun(recon[r], j) : u[1] = j
    BY DEF Begun, EventsToUsage
  <2> QED
    BY <2>1, <2>2
<1> HIDE DEF todo
<1>7. /\ q \in RecCall /\ q.pc = "look"
      /\ q.run = recon[r].run /\ q.next = recon[r].next /\ q.from = recon[r].from
      /\ q.todo = todo /\ q.cur = recon[r].cur
  BY <1>3, <1>5 DEF RecCall, RecPc
<1> HIDE DEF q
<1>8. TablesOk' /\ Forward
  BY <1>0, <1>1, StandingForward DEF TablesOk
<1>9. CallInHand(recon[r])'
  <2>1. recon'[r] = q
    BY <1>0, <1>2
  <2>2. \A i : Begun(recon[r], i)' = Begun(recon[r], i)
    BY <1>7, <2>1 DEF Begun
  <2>3. \A u : DealtWith(u)' = DealtWith(u)
    BY <1>1 DEF DealtWith
  <2>4. JobAt(recon[r])' = j
    BY <1>4, <1>7, <2>1 DEF JobAt
  <2>5. ScanCovers(recon[r])'
    BY <1>1, <1>3, <1>4, <1>5, <1>6, <1>7, <2>1, <2>2, <2>3, <2>4 DEF ScanCovers
  <2> QED
    BY <1>1, <1>3, <1>5, <1>7, <2>1, <2>5 DEF CallInHand
<1> QED
  BY <1>0, <1>1, <1>2, <1>7, <1>8, <1>9, BooksCallStep, StandingLedger

(* The job is done: everything listed was looked at, so all it had when    *)
(* the run began is dealt with, and the scan goes on.                      *)
LEMMA JobDoneKeeps ==
  ASSUME BooksInv, NEW r \in Reconcilers, LookAt(r), recon[r].todo = {},
         recon' = [recon EXCEPT ![r].pc = "next", ![r].next = @ + 1],
         runs' = [runs EXCEPT ![recon[r].run].watermark =
                    IF recon[r].mark > @ THEN recon[r].mark ELSE @],
         UNCHANGED gaps
  PROVE  BooksInv' /\ Forward
<1>0. LedgerOk /\ TablesOk /\ recon \in [Reconcilers -> RecCall]
  BY BooksParts
<1> DEFINE q == [recon[r] EXCEPT !.pc = "next", !.next = recon[r].next + 1]
           n == recon[r].run
           mark == IF recon[r].mark > runs[n].watermark THEN recon[r].mark ELSE runs[n].watermark
           row == [runs[n] EXCEPT !.watermark = mark]
<1>1. UNCHANGED <<eventLog, usage, settlement, ledger, pricing, gaps>> /\ recon[r].pc = "look"
  BY DEF LookAt, RecAt
<1>2. recon' = [recon EXCEPT ![r] = q]
  BY <1>0
<1>3. recon[r] \in RecCall /\ CallInHand(recon[r]) /\ ScanCovers(recon[r])
  BY <1>1, CallFacts
<1>4. recon[r].next \in 1..Len(BilledJobs) /\ JobAt(recon[r]) \in JobSet
  BY <1>1, JobAtHand
<1>5. runs' \in Seq(RunRow) /\ Len(runs') = Len(runs)
  <2>1. runs \in Seq(RunRow) /\ recon[r].mark \in 0..MaxLog /\ n \in 1..Len(runs)
    BY <1>0, <1>3 DEF TablesOk, RecCall, ScanCovers
  <2>2. runs[n] \in RunRow
    BY <2>1
  <2>3. row \in RunRow
    BY <2>1, <2>2 DEF RunRow
  <2>4. runs' = [runs EXCEPT ![n] = row]
    BY <2>1, <2>2 DEF RunRow
  <2>5. /\ [runs EXCEPT ![n] = row] \in Seq(RunRow)
        /\ Len([runs EXCEPT ![n] = row]) = Len(runs)
    <3> HIDE DEF row, n
    <3> QED
      BY <2>1, <2>3, RowReplaced
  <2> HIDE DEF row, n
  <2> QED
    BY <2>4, <2>5, Zenon
<1>6. /\ q \in RecCall /\ q.pc = "next"
      /\ q.run = recon[r].run /\ q.next = recon[r].next + 1 /\ q.from = recon[r].from
      /\ q.todo = {} /\ q.cur = recon[r].cur
  <2> DEFINE m == recon[r].next + 1
  <2>1. m \in Nat \ {0}
    BY <1>3 DEF RecCall
  <2>2. q = [recon[r] EXCEPT !.pc = "next", !.next = m]
    OBVIOUS
  <2> HIDE DEF q, m
  <2>3. /\ q \in RecCall /\ q.pc = "next"
        /\ q.run = recon[r].run /\ q.next = m /\ q.from = recon[r].from
        /\ q.todo = {} /\ q.cur = recon[r].cur
    BY <1>3, <2>1, <2>2 DEF RecCall, RecPc
  <2> QED
    BY <2>3 DEF m
<1> HIDE DEF q
<1>7. TablesOk'
  BY <1>0, <1>1, <1>5 DEF TablesOk
<1>8. Forward
  <2>1. ledger \subseteq ledger' /\ usage \subseteq usage' /\ Outcomes /\ eventLog' = eventLog
    BY <1>1 DEF Outcomes
  <2>2. Len(runs) <= Len(runs')
    BY <1>0, <1>5 DEF TablesOk
  <2> QED
    BY <2>1, <2>2 DEF Forward
<1>9. CallInHand(recon[r])'
  <2>1. recon'[r] = q
    BY <1>0, <1>2
  <2>2. \A i : Begun(recon[r], i)' = Begun(recon[r], i)
    BY <1>6, <2>1 DEF Begun
  <2>3. \A u : DealtWith(u)' = DealtWith(u)
    BY <1>1 DEF DealtWith
  <2>4. recon[r].cur = {}
    BY <1>1, <1>3 DEF CallInHand
  <2>5. ASSUME NEW i \in 1..Len(BilledJobs), i < recon[r].next + 1
        PROVE  \A u \in Begun(recon[r], BilledJobs[i]) : DealtWith(u)
    <3>1. CASE i = recon[r].next
      BY <1>1, <1>3, <2>4, <3>1 DEF ScanCovers, JobAt
    <3>2. CASE i < recon[r].next
      BY <1>3, <3>2 DEF ScanCovers
    <3> QED
      BY <1>4, <2>5, <3>1, <3>2
  <2>6. ScanCovers(recon[r])'
    <3>1. recon'[r].run \in 1..Len(runs')
      BY <1>3, <1>5, <1>6, <2>1 DEF ScanCovers
    <3>2. \A j \in JobSet : Begun(recon[r], j)' \subseteq EventsToUsage(j, eventLog'[j])
      BY <1>1, <1>3, <2>2 DEF ScanCovers
    <3> QED
      BY <1>3, <1>6, <2>1, <2>2, <2>3, <2>5, <3>1, <3>2 DEF ScanCovers
  <2> QED
    BY <1>6, <2>1, <2>4, <2>6 DEF CallInHand
<1> QED
  BY <1>0, <1>1, <1>2, <1>6, <1>7, <1>8, <1>9, BooksCallStep, StandingLedger

(* The call looks at one listed event: it takes it up or finds it dealt    *)
(* with.                                                                   *)
LEMMA LookKeeps ==
  ASSUME BooksInv, NEW r \in Reconcilers, LookAt(r)
  PROVE  BooksInv' /\ Forward
<1>0. LedgerOk /\ TablesOk /\ recon \in [Reconcilers -> RecCall]
  BY BooksParts
<1>1. UNCHANGED <<eventLog, usage, settlement, ledger, pricing>> /\ recon[r].pc = "look"
  BY DEF LookAt, RecAt
<1>2. recon[r] \in RecCall /\ CallInHand(recon[r]) /\ ScanCovers(recon[r])
  BY <1>1, CallFacts
<1>3. CASE /\ recon[r].todo = {}
           /\ recon' = [recon EXCEPT ![r].pc = "next", ![r].next = @ + 1]
           /\ runs' = [runs EXCEPT ![recon[r].run].watermark =
                IF recon[r].mark > @ THEN recon[r].mark ELSE @]
           /\ UNCHANGED gaps
  BY <1>3, JobDoneKeeps
<1>4. ASSUME NEW u \in recon[r].todo,
             recon' = [recon EXCEPT ![r].todo = @ \ {u},
               ![r].cur = IF NeedsSettling(u) THEN {u} ELSE {},
               ![r].pc = IF NeedsSettling(u) THEN "settle" ELSE "look"],
             gaps' = IF settlement[u].state = "none"
                     THEN WithGaps("unpriced_usage", {u}) ELSE gaps,
             UNCHANGED runs
      PROVE  BooksInv' /\ Forward
  <2> DEFINE cur == IF NeedsSettling(u) THEN {u} ELSE {}
             pc == IF NeedsSettling(u) THEN "settle" ELSE "look"
             q == [recon[r] EXCEPT !.todo = recon[r].todo \ {u}, !.cur = cur, !.pc = pc]
  <2>1. recon' = [recon EXCEPT ![r] = q]
    BY <1>0, <1>4
  <2>2. u \in usage /\ u \in UsageIds /\ recon[r].todo \subseteq usage /\ recon[r].cur = {}
    BY <1>0, <1>1, <1>2, <1>4 DEF CallInHand, TablesOk
  <2>3. cur \subseteq {u} /\ pc \in {"settle", "look"} /\ (pc = "settle" <=> cur = {u})
        /\ (pc = "look" <=> cur = {})
    OBVIOUS
  <2>4. u \in cur \/ DealtWith(u)
    BY <1>0, <2>2 DEF DealtWith, NeedsSettling
  <2> HIDE DEF cur, pc
  <2>5. /\ q \in RecCall /\ q.pc = pc
        /\ q.run = recon[r].run /\ q.next = recon[r].next /\ q.from = recon[r].from
        /\ q.todo = recon[r].todo \ {u} /\ q.cur = cur
    BY <1>2, <2>2, <2>3 DEF RecCall, RecPc
  <2> HIDE DEF q
  <2>6. TablesOk'
    BY <1>0, <1>1, <1>4, GapsTyped DEF TablesOk
  <2>7. Forward
    BY <1>0, <1>1, <1>4, StandingForward
  <2>8. CallInHand(recon[r])'
    <3>1. recon'[r] = q
      BY <1>0, <2>1
    <3>2. \A i : Begun(recon[r], i)' = Begun(recon[r], i)
      BY <2>5, <3>1 DEF Begun
    <3>3. \A v : DealtWith(v)' = DealtWith(v)
      BY <1>1 DEF DealtWith
    <3>4. JobAt(recon[r])' = JobAt(recon[r])
      BY <2>5, <3>1 DEF JobAt
    <3>5. \A v \in Begun(recon[r], JobAt(recon[r])) :
            v \in usage /\ (v \in q.todo \cup q.cur \/ DealtWith(v))
      BY <1>1, <1>2, <2>2, <2>4, <2>5 DEF ScanCovers
    <3>6. ScanCovers(recon[r])'
      BY <1>1, <1>2, <1>4, <2>3, <2>5, <3>1, <3>2, <3>3, <3>4, <3>5 DEF ScanCovers
    <3>7. IF q.pc = "settle" THEN \E v \in q.cur : q.cur = {v} ELSE q.cur = {}
      BY <2>3, <2>5
    <3> QED
      BY <1>1, <2>2, <2>3, <2>5, <3>1, <3>6, <3>7 DEF CallInHand
  <2> QED
    BY <1>0, <1>1, <2>1, <2>5, <2>6, <2>7, <2>8, BooksCallStep, StandingLedger
<1> QED
  BY <1>3, <1>4 DEF LookAt

(* Repairing an event gives it an outcome.                                 *)
LEMMA RepairKeeps ==
  ASSUME BooksInv, NEW r \in Reconcilers, Repair(r)
  PROVE  BooksInv' /\ Forward
<1>0. LedgerOk /\ TablesOk /\ recon \in [Reconcilers -> RecCall]
  BY BooksParts
<1>1. UNCHANGED <<eventLog, usage, pricing, runs>> /\ recon[r].pc = "settle"
  BY DEF Repair, RecAt
<1>2. recon[r] \in RecCall /\ CallInHand(recon[r]) /\ ScanCovers(recon[r])
  BY <1>1, CallFacts
<1>3. PICK u \in recon[r].cur :
        /\ SettleUsage(u, TRUE)
        /\ gaps' = [gaps EXCEPT ![<<"unpriced_usage", u>>] =
             CASE settlement'[u].state = "unresolved" /\ @ # "none" -> "unresolved"
               [] settlement'[u].state = "settled" /\ @ = "open" -> "repaired"
               [] OTHER -> @]
        /\ recon' = [recon EXCEPT ![r].pc = "look", ![r].cur = {}]
  BY DEF Repair
<1>4. recon[r].cur = {u} /\ u \in usage /\ u \in UsageIds
  BY <1>0, <1>1, <1>2 DEF CallInHand, TablesOk
<1>5. /\ LedgerOk' /\ ledger \subseteq ledger' /\ Outcomes
      /\ settlement'[u].state \notin {"none", "pending"}
  BY <1>0, <1>1, <1>3, <1>4, SettlementKept
<1>6. gaps' \in [GapKinds \X UsageIds -> GapStates]
  <2> DEFINE g == <<"unpriced_usage", u>>
             out == CASE settlement'[u].state = "unresolved" /\ gaps[g] # "none" -> "unresolved"
                      [] settlement'[u].state = "settled" /\ gaps[g] = "open" -> "repaired"
                      [] OTHER -> gaps[g]
  <2>1. gaps \in [GapKinds \X UsageIds -> GapStates] /\ g \in GapKinds \X UsageIds
    BY <1>0, <1>4 DEF TablesOk, GapKinds
  <2>2. out \in GapStates
    BY <2>1 DEF GapStates
  <2>3. gaps' = [gaps EXCEPT ![g] = out]
    BY <1>3, <2>1
  <2> HIDE DEF out, g
  <2> QED
    BY <2>1, <2>2, <2>3
<1> DEFINE q == [recon[r] EXCEPT !.pc = "look", !.cur = {}]
<1>7. recon' = [recon EXCEPT ![r] = q]
  BY <1>0, <1>3
<1>8. /\ q \in RecCall /\ q.pc = "look"
      /\ q.run = recon[r].run /\ q.next = recon[r].next /\ q.from = recon[r].from
      /\ q.todo = recon[r].todo /\ q.cur = {}
  BY <1>2 DEF RecCall, RecPc
<1> HIDE DEF q
<1>9. TablesOk'
  BY <1>0, <1>1, <1>6 DEF TablesOk
<1>10. Forward
  <2>1. usage \subseteq usage' /\ Len(runs) <= Len(runs') /\ eventLog' = eventLog
    BY <1>0, <1>1 DEF TablesOk
  <2> QED
    BY <1>5, <2>1 DEF Forward
<1>11. CallInHand(recon[r])'
  <2>1. recon'[r] = q
    BY <1>0, <1>7
  <2>2. \A i : Begun(recon[r], i)' = Begun(recon[r], i)
    BY <1>8, <2>1 DEF Begun
  <2>3. \A v : DealtWith(v) => DealtWith(v)'
    BY <1>0, <1>1, <1>5 DEF DealtWith, Outcomes, TablesOk
  <2>4. JobAt(recon[r])' = JobAt(recon[r])
    BY <1>8, <2>1 DEF JobAt
  <2>5. DealtWith(u)'
    BY <1>1, <1>4, <1>5 DEF DealtWith
  <2>6. \A v \in Begun(recon[r], JobAt(recon[r])) :
          v \in usage /\ (v \in recon[r].todo \/ v = u \/ DealtWith(v))
    BY <1>1, <1>2, <1>4 DEF ScanCovers
  <2>7. ScanCovers(recon[r])'
    BY <1>1, <1>2, <1>8, <2>1, <2>2, <2>3, <2>4, <2>5, <2>6 DEF ScanCovers
  <2> QED
    BY <1>1, <1>2, <1>8, <2>1, <2>7 DEF CallInHand
<1> QED
  BY <1>5, <1>7, <1>8, <1>9, <1>10, <1>11, BooksCallStep

-----------------------------------------------------------------------------
(* Every step keeps the invariant and takes nothing back.                  *)
LEMMA BooksStepInv ==
  BooksInv /\ [AccountingNext]_accountingVars => BooksInv' /\ Forward
<1> SUFFICES ASSUME BooksInv, [AccountingNext]_accountingVars
             PROVE  BooksInv' /\ Forward
  OBVIOUS
<1>1. CASE LedgerNext
  BY <1>1, ClientsKeep
<1>2. CASE CreatePricingVersion
  BY <1>2, PricingKeeps
<1>3. ASSUME NEW j \in JobSet, NEW t \in MeteredTypes, CommitEvent(j, t)
      PROVE  BooksInv' /\ Forward
  BY <1>3, ChargesCommitKeeps
<1>4. ASSUME NEW u \in UsageIds, MarkUsageUnresolved(u) \/ SettleFree(u)
      PROVE  BooksInv' /\ Forward
  BY <1>4, DirectKeeps
<1>5. ASSUME NEW r \in Reconcilers, ReconcileStep(r)
      PROVE  BooksInv' /\ Forward
  BY <1>5, ReconcileBeginKeeps, NextJobKeeps, RecordKeeps, ListKeeps, LookKeeps, RepairKeeps, EndKeeps
  DEF ReconcileStep
<1>6. CASE UNCHANGED accountingVars
  <2>1. LedgerOk /\ TablesOk
    BY BooksParts
  <2>2. UNCHANGED <<eventLog, usage, settlement, ledger, pricing, gaps, runs, recon>>
    BY <1>6 DEF accountingVars
  <2>3. LedgerOk' /\ Forward
    BY <2>1, <2>2, StandingForward, StandingLedger
  <2>4. TablesOk'
    BY <2>1, <2>2 DEF TablesOk
  <2> QED
    BY <2>2, <2>3, <2>4, TablesStep
<1> QED
  BY <1>1, <1>2, <1>3, <1>4, <1>5, <1>6 DEF AccountingNext, SettlementNext

(* The invariant has the types in it.                                      *)
LEMMA BooksInvTyped == BooksInv => AccountingTypeOK
<1> SUFFICES ASSUME BooksInv PROVE AccountingTypeOK
  OBVIOUS
<1>1. LedgerOk /\ TablesOk
  BY BooksParts
<1>2. ASSUME NEW i \in 1..Len(runs)
      PROVE  runs[i].status \in RunStates /\ runs[i].watermark \in 0..MaxLog
  <2>1. runs[i] \in RunRow
    BY <1>1 DEF TablesOk
  <2> QED
    BY <2>1 DEF RunRow
<1>3. ASSUME NEW r \in Reconcilers PROVE recon[r].pc \in RecPc /\ recon[r].todo \subseteq usage
  <2>1. recon[r] \in RecCall /\ CallInHand(recon[r])
    BY CallFacts
  <2> QED
    BY <2>1 DEF RecCall, CallInHand
<1>4. \A u \in UsageIds : settlement[u].state \in SettlementStates
  BY <1>1 DEF LedgerOk
<1> QED
  BY <1>1, <1>2, <1>3, <1>4 DEF LedgerOk, TablesOk, AccountingTypeOK

(* The tables and the calls keep their types under every interleaving of   *)
(* runs, settlements and clients (billing/store.ts, metering/store.ts,     *)
(* reconcile/store.ts).                                                    *)
THEOREM AccountingTypeCorrect == AccountingSpec => []AccountingTypeOK
  BY BooksInvTyped, BooksInitInv, BooksStepInv, PTL DEF AccountingSpec

(* The invariant gives one charge per settled event.                       *)
LEMMA BooksInvRight == BooksInv => LedgerRight
<1> SUFFICES ASSUME BooksInv PROVE LedgerRight
  OBVIOUS
<1>1. ASSUME NEW u \in UsageIds
      PROVE  LET charges == {e \in ledger : e.key = SettleKey(u)} IN
               /\ Cardinality(charges) <= 1
               /\ settlement[u].state = "settled" <=> charges # {}
               /\ \A e \in charges : /\ e.account = AccountOf[u[1]]
                                     /\ e.amount = settlement[u].amount
  <2> DEFINE charges == {e \in ledger : e.key = SettleKey(u)}
  <2>1. ChargedRight(u)
    BY DEF BooksInv
  <2>2. \A e \in charges : charges = {e}
    BY <2>1 DEF ChargedRight
  <2>3. Cardinality(charges) <= 1
    <3> HIDE DEF charges
    <3>1. CASE charges = {}
      BY <3>1, FS_EmptySet
    <3>2. CASE charges # {}
      <4>1. PICK e \in charges : charges = {e}
        BY <2>2, <3>2
      <4>2. Cardinality({e}) = 1
        BY FS_Singleton
      <4> QED
        BY <4>1, <4>2
    <3> QED
      BY <3>1, <3>2
  <2> QED
    BY <2>1, <2>3 DEF ChargedRight
<1> QED
  BY <1>1 DEF LedgerRight, OneChargePerUsage, BooksInv

(* A usage event has one charge exactly when it is settled, in its job's   *)
(* account and of the amount the settlement states, and corrections stay   *)
(* in their account, however many runs, crashes, price changes and direct  *)
(* calls overlap (billing/store.ts settleUsage, recordAdjustment).         *)
THEOREM LedgerAlwaysRight == AccountingSpec => []LedgerRight
  BY BooksInvRight, BooksInitInv, BooksStepInv, PTL DEF AccountingSpec

(* What a completing run leaves behind it.                                 *)
LEMMA CompletionCovers ==
  ASSUME BooksInv, NEW r \in Reconcilers, CompleteReconcile(r),
         NEW i \in 1..Len(BilledJobs), i <= MaxScan,
         NEW u \in EventsToUsage(BilledJobs[i], recon[r].from[BilledJobs[i]])
  PROVE  u \in usage /\ ~(settlement[u].state \in {"none", "pending"})
<1>1. recon[r].pc = "complete"
  BY DEF CompleteReconcile, RecAt
<1>2. recon[r] \in RecCall /\ ScanCovers(recon[r])
  BY <1>1, CallFacts
<1>3. i < recon[r].next
  BY <1>1, <1>2, JobsHaveAccounts, AccountingAssumption DEF ScanCovers, RecCall
<1>4. DealtWith(u)
  BY <1>2, <1>3 DEF ScanCovers, Begun
<1> QED
  BY <1>4 DEF DealtWith

(* What was charged or found free stays so at any later price, and a run   *)
(* completes only over usage that is recorded and has an outcome, for any  *)
(* number of jobs and overlapping runs (billing/store.ts settleUsage,      *)
(* reconcile/service.ts reconcile).                                        *)
THEOREM BooksStayClosed == AccountingSpec => BooksClosed
<1> DEFINE Kept ==
             /\ ledger \subseteq ledger'
             /\ \A u \in UsageIds :
                  settlement[u].state \in {"settled", "non_billable"} =>
                    settlement'[u] = settlement[u]
           Covered ==
             \A r \in Reconcilers :
               CompleteReconcile(r) =>
                 \A i \in 1..Len(BilledJobs) : i <= MaxScan =>
                   \A u \in EventsToUsage(BilledJobs[i], recon[r].from[BilledJobs[i]]) :
                     u \in usage /\ ~(settlement[u].state \in {"none", "pending"})
<1>1. BooksInv /\ [AccountingNext]_accountingVars => [Kept]_accountingVars
  BY BooksStepInv DEF Forward, Outcomes
<1>2. BooksInv => Covered
  BY CompletionCovers
<1>3. AccountingSpec => [][Kept]_accountingVars /\ [][Covered]_accountingVars
  <2> HIDE DEF Kept, Covered
  <2> QED
    BY <1>1, <1>2, BooksInitInv, BooksStepInv, PTL DEF AccountingSpec
<1> QED
  BY <1>3 DEF BooksClosed, ChargedForGood, CompletedRunSettles

-----------------------------------------------------------------------------
(***************************************************************************)
(* The whole of JobPlaneSpec.  The job rows are written through one        *)
(* connection or by open transactions, the reservations by the quota store *)
(* alone or by admissions, never by both in one behaviour: so the rows'    *)
(* invariants hold in each, and what a transaction or an admission relies  *)
(* on holds where it runs and vacuously where nothing of it has begun.     *)
(***************************************************************************)
(* No transaction of PgJobStore was begun.                                 *)
NoneBegun == \A c \in PgClients : tx[c] = NoTransaction

(* No admission was asked for.                                             *)
NoneAsked ==
  /\ slot = [k \in Keys |-> FreeSlot] /\ adm = [a \in Admitters |-> Idle]
  /\ jobs = <<>> /\ answers = {} /\ misread = {} /\ ended = {}

(* What the types of the request side need besides its invariant: one      *)
(* policy is active at a time.                                             *)
OneActive == \A i, j \in DOMAIN policies : policies[i].active /\ policies[j].active => i = j
RequestCounters ==
  /\ postFaults \in 0..MaxPostFaults
  /\ httpCount \in 0..MaxHttp
  /\ grants \subseteq HttpCallers \X Projects
  /\ OneActive

(* The inductive invariant of the whole.                                   *)
StoreSideInv == PgInv /\ (focus = "pgstore" \/ NoneBegun)
MoneySideInv ==
  /\ QuotaInv /\ BooksInv
  /\ IF focus = "quota" THEN NoneAsked ELSE CallsInv
RequestSideInv == ControlPlaneInv /\ JobRequestsInv /\ RequestCounters
JobPlaneInv == StoreSideInv /\ MoneySideInv /\ RequestSideInv

(* A transaction that was not begun knows nothing.                         *)
LEMMA IdleTransaction == NoTransaction \in Transaction /\ NoTransaction.pc = "idle"
  BY DEF NoTransaction, Transaction, PgOp

(* The rows change through one connection while none was begun elsewhere.  *)
LEMMA StoreAlone ==
  ASSUME PgStoreInv, NoneBegun, StoreNext, UNCHANGED pgStoreVars
  PROVE  PgStoreInv' /\ NoneBegun'
<1>1. tx' = tx /\ pgBegun' = pgBegun /\ \A c \in PgClients : tx[c].pc = "idle"
  BY IdleTransaction DEF pgStoreVars, NoneBegun
<1>2. StoreInv'
  BY StoreStepInv DEF PgStoreInv
<1>3. PgStoreTypeOK' /\ LocksDisjoint'
  BY <1>1 DEF PgStoreInv, PgStoreTypeOK, LocksDisjoint, Locked
<1>4. ASSUME NEW c \in PgClients
      PROVE SnapshotHolds(c)' /\ LockKeepsRow(c)' /\ CallStands(c)' /\ ChecksHold(c)'
  BY <1>1 DEF SnapshotHolds, LockKeepsRow, CallStands, ChecksHold
<1> QED
  BY <1>1, <1>2, <1>3, <1>4 DEF PgStoreInv, NoneBegun

(* Every step keeps the invariant of the store side, is a step of the      *)
(* store or leaves its rows alone, and renews the newest claim only.       *)
LEMMA StoreSideKeeps ==
  ASSUME StoreSideInv, [JobPlaneNext]_<<focus, storeSide, moneySide, requestSide>>
  PROVE  /\ StoreSideInv'
         /\ [StoreNext]_storeVars /\ [OnlyNewestRenewed]_pgDispatchVars
<1>1. CASE focus = "store" /\ StoreNext /\ UNCHANGED <<focus, pgStoreVars, pgDispatchVars>>
  <2>1. PgStoreInv' /\ NoneBegun'
    BY <1>1, StoreAlone DEF StoreSideInv, PgInv
  <2>2. DispatchInv'
    BY <1>1, PgHalfStutters DEF StoreSideInv, PgInv
  <2> QED
    BY <1>1, <2>1, <2>2 DEF StoreSideInv, PgInv
<1>2. CASE focus = "pgstore" /\ PgStoreNext /\ UNCHANGED <<focus, pgDispatchVars>>
  <2>1. PgNext
    BY <1>2 DEF PgNext
  <2> QED
    BY <1>2, <2>1, PgStepInv DEF StoreSideInv
<1>3. ASSUME \/ PgDispatchNext /\ UNCHANGED <<focus, storeVars, pgStoreVars>>
             \/ UNCHANGED <<focus, storeVars, pgStoreVars, pgDispatchVars>>
      PROVE  StoreSideInv' /\ [StoreNext]_storeVars /\ [OnlyNewestRenewed]_pgDispatchVars
  <2>1. [PgNext]_<<storeVars, pgStoreVars, pgDispatchVars>>
    BY <1>3 DEF PgNext
  <2>2. PgInv' /\ [StoreNext]_storeVars /\ [OnlyNewestRenewed]_pgDispatchVars
    BY <2>1, PgStepInv DEF StoreSideInv
  <2>3. tx' = tx /\ focus' = focus
    BY <1>3 DEF pgStoreVars
  <2> QED
    BY <2>2, <2>3 DEF StoreSideInv, NoneBegun
<1>4. \/ focus = "store" /\ StoreNext /\ UNCHANGED <<focus, pgStoreVars, pgDispatchVars>>
      \/ focus = "pgstore" /\ PgStoreNext /\ UNCHANGED <<focus, pgDispatchVars>>
      \/ PgDispatchNext /\ UNCHANGED <<focus, storeVars, pgStoreVars>>
      \/ UNCHANGED <<focus, storeVars, pgStoreVars, pgDispatchVars>>
  BY DEF JobPlaneNext, StoreSideNext, MoneySideNext, RequestSideNext, storeSide
<1> QED
  BY <1>1, <1>2, <1>3, <1>4

(* Every step keeps the invariant of the money side, takes no charge and   *)
(* no outcome back, revives no reservation and releases none under a       *)
(* running job.                                                                    *)
LEMMA MoneySideKeeps ==
  ASSUME MoneySideInv, [JobPlaneNext]_<<focus, storeSide, moneySide, requestSide>>
  PROVE  /\ MoneySideInv' /\ Forward
         /\ [\A k \in Keys : RowKeepsEnd(k)]_quotaVars
         /\ [\A k \in Keys : RunningKeeps(k)]_admissionVars
<1>1. focus' = focus /\ [AccountingNext]_accountingVars
  BY DEF JobPlaneNext, StoreSideNext, MoneySideNext, RequestSideNext, moneySide, AccountingNext
<1>2. BooksInv' /\ Forward
  BY <1>1, BooksStepInv DEF MoneySideInv
<1>3. CASE focus = "quota"
  <2>1. [QuotaNext]_quotaVars /\ UNCHANGED admissionOwn
    BY <1>3 DEF JobPlaneNext, StoreSideNext, MoneySideNext, RequestSideNext, moneySide, admissionVars
  <2>2. [QuotaStep]_quotaVars
    BY <2>1, QuotaNextIsStep
  <2>3. QuotaInv' /\ [\A k \in Keys : RowKeepsEnd(k)]_quotaVars
    BY <2>2, QuotaStepInv, RowsKeepEnd DEF MoneySideInv, QuotaInv
  <2>4. NoneAsked' /\ jobs = <<>>
    BY <1>3, <2>1 DEF MoneySideInv, NoneAsked, admissionOwn
  <2>5. \A k \in Keys : RunningKeeps(k)
    BY <2>4 DEF RunningKeeps
  <2> QED
    BY <1>1, <1>2, <1>3, <2>3, <2>4, <2>5 DEF MoneySideInv
<1>4. CASE focus # "quota"
  <2>1. AdmissionInv
    BY <1>4 DEF MoneySideInv, AdmissionInv
  <2>2. [AdmissionNext]_admissionVars
    BY <1>4 DEF JobPlaneNext, StoreSideNext, MoneySideNext, RequestSideNext, moneySide
  <2>3. AdmissionInv' /\ [QuotaStep]_quotaVars
    BY <2>1, <2>2, AdmissionStepInv
  <2>4. [\A k \in Keys : RowKeepsEnd(k)]_quotaVars
    BY <2>3, RowsKeepEnd DEF MoneySideInv, QuotaInv
  <2>5. [\A k \in Keys : RunningKeeps(k)]_admissionVars
    BY <2>1, <2>2, RunningKept
  <2> QED
    BY <1>1, <1>2, <1>4, <2>3, <2>4, <2>5 DEF MoneySideInv, AdmissionInv
<1> QED
  BY <1>3, <1>4

(* What a step of the request path may do to what is counted and granted.  *)
LEMMA HttpMoves ==
  ASSUME [ControlPlaneNext]_httpVars
  PROVE  /\ httpCount' = httpCount \/ (httpCount < MaxHttp /\ httpCount' = httpCount + 1)
         /\ grants' = grants \/ \E w \in HttpCallers, p \in Projects : grants' = grants \cup {<<w, p>>}
         /\ policies' = policies \/ \E tools \in SUBSET Tools : CreatePolicy(tools)
<1> DEFINE Moves ==
             /\ httpCount' = httpCount \/ (httpCount < MaxHttp /\ httpCount' = httpCount + 1)
             /\ grants' = grants \/ \E w \in HttpCallers, p \in Projects : grants' = grants \cup {<<w, p>>}
             /\ policies' = policies \/ \E tools \in SUBSET Tools : CreatePolicy(tools)
<1>1. ASSUME NEW t \in HttpTenants, NEW o \in Orgs,
             CreateOrganization(t, o) \/ \E p \in Projects : CreateProject(t, o, p)
      PROVE  Moves
  BY <1>1 DEF CreateOrganization, CreateProject
<1>2. ASSUME NEW w \in HttpCallers, NEW p \in Projects, GrantProject(w, p) PROVE Moves
  BY <1>2 DEF GrantProject
<1>3. ASSUME NEW tools \in SUBSET Tools, CreatePolicy(tools) PROVE Moves
  <2>1. UNCHANGED <<grants, httpCount>>
    BY <1>3 DEF CreatePolicy, directoryVars
  <2> QED
    BY <1>3, <2>1
<1>4. ASSUME NEW c \in HttpCalls, NEW q \in HttpRequests, Arrive(c, q) PROVE Moves
  BY <1>4 DEF Arrive, directoryVars
<1>5. ASSUME NEW c \in HttpCalls,
             \/ IdentityRoute(c) \/ CallbackRoute(c) \/ Authenticate(c)
             \/ LayerRoute(c) \/ UnknownRoute(c)
             \/ JobRoute(c) \/ ListJobs(c) \/ TenantRoute(c) \/ OrgRoute(c) \/ GcRoute(c)
             \/ BeginCreate(c) \/ ResolvePrincipal(c) \/ AuthorizeScope(c)
             \/ EvaluateRequest(c) \/ CreateAdmitted(c)
      PROVE  Moves
  <2>1. UNCHANGED <<directoryVars, policies, httpCount>>
    BY <1>5 DEF IdentityRoute, CallbackRoute, Authenticate, LayerRoute, UnknownRoute, JobRoute, ListJobs,
                TenantRoute, OrgRoute, GcRoute, BeginCreate, ResolvePrincipal, AuthorizeScope,
                EvaluateRequest, CreateAdmitted, Fixed
  <2> QED
    BY <2>1 DEF directoryVars
<1>6. CASE UNCHANGED httpVars
  BY <1>6 DEF httpVars
<1>7. CASE ControlPlaneNext
  BY <1>1, <1>2, <1>3, <1>4, <1>5, <1>7 DEF ControlPlaneNext
<1> QED
  BY <1>6, <1>7

(* The new policy is the one that is active.                               *)
LEMMA OneStaysActive ==
  ASSUME ControlPlaneInv, OneActive, policies' = policies \/ \E tools \in SUBSET Tools : CreatePolicy(tools)
  PROVE  OneActive'
<1>1. CASE policies' = policies
  BY <1>1 DEF OneActive
<1>2. ASSUME NEW tools \in SUBSET Tools, CreatePolicy(tools) PROVE OneActive'
  <2> DEFINE n == Len(policies)
             older == [i \in DOMAIN policies |-> [policies[i] EXCEPT !.active = FALSE]]
             new == [tools |-> tools, active |-> TRUE]
  <2>1. policies \in Seq(PolicyRecord) /\ n \in Nat /\ DOMAIN policies = 1..n
    BY DEF ControlPlaneInv
  <2>2. \A i \in 1..n : older[i] \in PolicyRecord /\ older[i].active = FALSE
    <3> SUFFICES ASSUME NEW i \in 1..n PROVE older[i] \in PolicyRecord /\ older[i].active = FALSE
      OBVIOUS
    <3>1. policies[i] \in PolicyRecord /\ older[i] = [policies[i] EXCEPT !.active = FALSE]
      BY <2>1
    <3> HIDE DEF older
    <3> QED
      BY <3>1 DEF PolicyRecord
  <2>3. older \in Seq(PolicyRecord) /\ Len(older) = n
    <3>1. older = [i \in 1..n |-> older[i]]
      BY <2>1
    <3> HIDE DEF older
    <3>2. older \in [1..n -> PolicyRecord]
      BY <2>2, <3>1
    <3> QED
      BY <2>1, <3>1, <3>2
  <2>4. policies' = Append(older, new)
    BY <1>2 DEF CreatePolicy
  <2> HIDE DEF older, new, n
  <2>5. DOMAIN policies' = 1..(n + 1) /\ \A i \in 1..n : policies'[i] = older[i]
    BY <2>1, <2>3, <2>4
  <2>6. \A i \in DOMAIN policies' : policies'[i].active => i = n + 1
    BY <2>1, <2>2, <2>5
  <2> QED
    BY <2>6 DEF OneActive
<1> QED
  BY <1>1, <1>2

(* A step of the POST handlers counts its faults up to the bound.          *)
LEMMA PostMoves ==
  ASSUME [JobRequestsNext]_postVars
  PROVE  postFaults' = postFaults \/ (postFaults < MaxPostFaults /\ postFaults' = postFaults + 1)
<1>1. CASE UNCHANGED postVars
  BY <1>1 DEF postVars
<1>2. CASE JobRequestsNext
  BY <1>2 DEF JobRequestsNext, ClaimKey, CreateJobFor, CreateJobFails, DeleteKey, FulfillKey, ProcessDies
<1> QED
  BY <1>1, <1>2

(* Every step keeps the invariant of the request side.                     *)
LEMMA RequestSideKeeps ==
  ASSUME RequestSideInv, [JobPlaneNext]_<<focus, storeSide, moneySide, requestSide>>
  PROVE  RequestSideInv'
<1>1. [JobRequestsNext]_postVars /\ [ControlPlaneNext]_httpVars
  BY PostsPart, HttpPart
<1>2. ControlPlaneInv' /\ JobRequestsInv'
  BY <1>1, ControlPlaneStepKeeps, JobRequestsStepKeeps DEF RequestSideInv
<1>3. postFaults' \in 0..MaxPostFaults
  BY <1>1, PostMoves, JobRequestsAssumption DEF RequestSideInv, RequestCounters
<1>4. httpCount' \in 0..MaxHttp
  BY <1>1, HttpMoves, ControlPlaneAssumption DEF RequestSideInv, RequestCounters
<1>5. grants' \subseteq HttpCallers \X Projects
  BY <1>1, HttpMoves DEF RequestSideInv, RequestCounters
<1>6. OneActive'
  BY <1>1, HttpMoves, OneStaysActive DEF RequestSideInv, RequestCounters
<1> QED
  BY <1>2, <1>3, <1>4, <1>5, <1>6 DEF RequestSideInv, RequestCounters

(* It holds at the start.                                                  *)
LEMMA JobPlaneStarts == JobPlaneInit => JobPlaneInv
<1> SUFFICES ASSUME JobPlaneInit PROVE JobPlaneInv
  OBVIOUS
<1>1. StoreSideInv
  <2>1. PgInv
    BY PgInitInv DEF JobPlaneInit
  <2>2. NoneBegun
    BY DEF JobPlaneInit, PgStoreInit, NoneBegun
  <2> QED
    BY <2>1, <2>2 DEF StoreSideInv
<1>2. MoneySideInv
  <2>1. QuotaInv /\ CallsInv
    BY CallsInitInv DEF JobPlaneInit, AdmissionInv
  <2>2. NoneAsked
    BY DEF JobPlaneInit, AdmissionInit, NoneAsked
  <2> QED
    BY <2>1, <2>2, BooksInitInv DEF JobPlaneInit, MoneySideInv
<1>3. RequestSideInv
  <2>1. ControlPlaneInv /\ JobRequestsInv
    BY ControlPlaneStarts, JobRequestsStarts DEF JobPlaneInit
  <2>2. RequestCounters
    BY JobRequestsAssumption, ControlPlaneAssumption
    DEF JobPlaneInit, JobRequestsInit, ControlPlaneInit, RequestCounters, OneActive
  <2> QED
    BY <2>1, <2>2 DEF RequestSideInv
<1> QED
  BY <1>1, <1>2, <1>3 DEF JobPlaneInv

(* Every step keeps it.                                                    *)
LEMMA JobPlaneStepKeeps ==
  JobPlaneInv /\ [JobPlaneNext]_<<focus, storeSide, moneySide, requestSide>> => JobPlaneInv'
  BY StoreSideKeeps, MoneySideKeeps, RequestSideKeeps DEF JobPlaneInv

(* What admissions and reservations are, whoever moves them.               *)
LEMMA AdmissionTyped == MoneySideInv => AdmissionTypeOK /\ CountersFit /\ AnswersAgree
<1> SUFFICES ASSUME MoneySideInv PROVE AdmissionTypeOK /\ CountersFit /\ AnswersAgree
  OBVIOUS
<1>1. QuotaTypeOK /\ CountersFit
  BY DEF MoneySideInv, QuotaInv
<1>2. CASE focus = "quota"
  <2>1. NoneAsked
    BY <1>2 DEF MoneySideInv
  <2>2. /\ Idle.pc = "idle" /\ Idle.job = 0 /\ Idle.pc \in AdmissionPc /\ FreeSlot \in Slot
        /\ Len(jobs) = 0
    BY <2>1 DEF NoneAsked, Idle, AdmissionPc, FreeSlot, Slot, SlotStates
  <2>3. \A a \in Admitters : adm[a] = Idle
    BY <2>1 DEF NoneAsked
  <2>4. slot \in [Keys -> Slot] /\ answers = {} /\ misread = {} /\ ended = {}
    BY <2>1, <2>2 DEF NoneAsked
  <2> QED
    BY <1>1, <2>2, <2>3, <2>4 DEF AdmissionTypeOK, AnswersAgree
<1>3. CASE focus # "quota"
  <2>1. CallsInv /\ CallsTyped
    BY <1>3 DEF MoneySideInv, CallsInv
  <2>2. \A a \in Admitters : adm[a].pc \in AdmissionPc
    BY <2>1 DEF CallsTyped, Call
  <2>3. \A j \in 1..Len(jobs) : jobs[j] \in AdmittedJob
    BY <2>1 DEF CallsTyped
  <2> QED
    BY <1>1, <2>1, <2>2, <2>3, CallsInvAgree DEF AdmissionTypeOK, CallsTyped
<1> QED
  BY <1>1, <1>2, <1>3

(* The types of the request side.                                          *)
LEMMA RequestsTyped == RequestSideInv => JobRequestsTypeOK /\ ControlPlaneTypeOK
<1> SUFFICES ASSUME RequestSideInv PROVE JobRequestsTypeOK /\ ControlPlaneTypeOK
  OBVIOUS
<1>1. ControlPlaneInv /\ JobRequestsInv /\ RequestCounters
  BY DEF RequestSideInv
<1>2. JobRequestsTypeOK
  <2>1. idemSlot.hash = NoBody => idemSlot.job = 0
    <3>1. \A j \in DOMAIN created : created[j] \in Bodies
      BY <1>1 DEF JobRequestsInv
    <3> QED
      BY <1>1, <3>1, JobRequestsAssumption DEF JobRequestsInv, SlotFits
  <2> QED
    BY <1>1, <2>1 DEF JobRequestsInv, RequestCounters, JobRequestsTypeOK
<1>3. ControlPlaneTypeOK
  <2>1. \A j \in DOMAIN admitted : admitted[j].tools \subseteq Tools
    <3>1. \A j \in DOMAIN admitted : admitted[j] \in HttpJob
      BY <1>1 DEF ControlPlaneInv
    <3> QED
      BY <3>1 DEF HttpJob
  <2>2. \A c \in HttpCalls : call[c].pc \in CallPc /\ call[c].scope \subseteq Projects
    BY <1>1 DEF ControlPlaneInv, HttpCall
  <2>3. Cardinality({i \in DOMAIN policies : policies[i].active}) <= 1
    <3> DEFINE on == {i \in DOMAIN policies : policies[i].active}
    <3>1. \A i, j \in on : i = j
      BY <1>1, Zenon DEF RequestCounters, OneActive
    <3>2. Cardinality(on) <= 1
      <4> HIDE DEF on
      <4>1. CASE on = {}
        BY <4>1, FS_EmptySet
      <4>2. CASE on # {}
        <5>1. PICK i \in on : on = {i}
          BY <3>1, <4>2
        <5>2. Cardinality({i}) = 1
          BY FS_Singleton
        <5> QED
          BY <5>1, <5>2
      <4> QED
        BY <4>1, <4>2
    <3> QED
      BY <3>2
  <2> QED
    BY <1>1, <2>1, <2>2, <2>3 DEF ControlPlaneInv, RequestCounters, ControlPlaneTypeOK
<1> QED
  BY <1>2, <1>3

(* Every row and every call of what the control plane keeps of jobs has    *)
(* its type in every state, at most one admission policy is active, and a  *)
(* key without a body has no job (sql-store.ts, pg-store.ts, admission.ts, *)
(* quota, billing, registries.ts, server.ts).                              *)
THEOREM JobPlaneTyped == JobPlaneSpec => []JobPlaneTypeOK
<1>1. JobPlaneInv => JobPlaneTypeOK
  <2> SUFFICES ASSUME JobPlaneInv PROVE JobPlaneTypeOK
    OBVIOUS
  <2>1. StoreTypeOK /\ PgStoreTypeOK /\ PgDispatchTypeOK
    BY DEF JobPlaneInv, StoreSideInv, PgInv, PgStoreInv, StoreInv, DispatchInv
  <2>2. AdmissionTypeOK /\ AccountingTypeOK
    BY AdmissionTyped, BooksInvTyped DEF JobPlaneInv, MoneySideInv
  <2>3. JobRequestsTypeOK /\ ControlPlaneTypeOK
    BY RequestsTyped DEF JobPlaneInv
  <2> QED
    BY <2>1, <2>2, <2>3 DEF JobPlaneTypeOK
<1> QED
  BY <1>1, JobPlaneStarts, JobPlaneStepKeeps, PTL DEF JobPlaneSpec

(* The invariants of the run JobPlane, in every behaviour of the whole:    *)
(* the lease is the newest generation's, the checkpoint behind the log,    *)
(* the counters what is reserved, the answers of a key one job (or jobs of *)
(* one request, where it was misread), the ledger one charge per settled   *)
(* event.                                                                  *)
THEOREM JobPlaneAlwaysSafe ==
  JobPlaneSpec => [](LeaseIsCurrent /\ CheckpointBehindLog /\ CountersFit /\ AnswersAgree /\ LedgerRight)
<1>1. JobPlaneInv
        => LeaseIsCurrent /\ CheckpointBehindLog /\ CountersFit /\ AnswersAgree /\ LedgerRight
  <2> SUFFICES ASSUME JobPlaneInv
               PROVE  LeaseIsCurrent /\ CheckpointBehindLog /\ CountersFit /\ AnswersAgree /\ LedgerRight
    OBVIOUS
  <2>1. LeaseIsCurrent /\ CheckpointBehindLog
    BY DEF JobPlaneInv, StoreSideInv, PgInv, PgStoreInv, StoreInv
  <2> QED
    BY <2>1, AdmissionTyped, BooksInvRight DEF JobPlaneInv, MoneySideInv
<1> QED
  BY <1>1, JobPlaneStarts, JobPlaneStepKeeps, PTL DEF JobPlaneSpec

(* Its action properties: history, reservations, charges and outcomes are  *)
(* never taken back, whichever part moves, every COMMIT of the Postgres    *)
(* store is a step of the store, and only the newest claim is renewed.     *)
THEOREM JobPlaneForward ==
  JobPlaneSpec => StoreOnlyForward /\ PgServes /\ ReservationsStand /\ BooksClosed
<1> DEFINE Next == [JobPlaneNext]_<<focus, storeSide, moneySide, requestSide>>
           Kept ==
             /\ ledger \subseteq ledger'
             /\ \A u \in UsageIds :
                  settlement[u].state \in {"settled", "non_billable"} =>
                    settlement'[u] = settlement[u]
           Covered ==
             \A r \in Reconcilers :
               CompleteReconcile(r) =>
                 \A i \in 1..Len(BilledJobs) : i <= MaxScan =>
                   \A u \in EventsToUsage(BilledJobs[i], recon[r].from[BilledJobs[i]]) :
                     u \in usage /\ ~(settlement[u].state \in {"none", "pending"})
           Stands == \A k \in Keys : RowKeepsEnd(k)
           Running == \A k \in Keys : RunningKeeps(k)
<1>1. JobPlaneInv /\ Next
        => [StoreNext]_storeVars /\ [StoreForward]_storeVars /\ [OnlyNewestRenewed]_pgDispatchVars
  <2> SUFFICES ASSUME JobPlaneInv, Next
               PROVE  [StoreNext]_storeVars /\ [StoreForward]_storeVars /\ [OnlyNewestRenewed]_pgDispatchVars
    OBVIOUS
  <2>1. [StoreNext]_storeVars /\ [OnlyNewestRenewed]_pgDispatchVars
    BY StoreSideKeeps DEF JobPlaneInv
  <2>2. StoreInv
    BY DEF JobPlaneInv, StoreSideInv, PgInv, PgStoreInv
  <2> QED
    BY <2>1, <2>2, StoreStepInv
<1>2. JobPlaneInv /\ Next => [Kept]_accountingVars
  BY MoneySideKeeps DEF JobPlaneInv, Forward, Outcomes
<1>3. JobPlaneInv => Covered
  BY CompletionCovers DEF JobPlaneInv, MoneySideInv
<1>4. JobPlaneInv /\ Next => [Stands]_quotaVars /\ [Running]_admissionVars
  BY MoneySideKeeps DEF JobPlaneInv
<1>5. JobPlaneSpec => /\ [][StoreNext]_storeVars /\ [][StoreForward]_storeVars
                      /\ [][OnlyNewestRenewed]_pgDispatchVars
                      /\ [][Kept]_accountingVars /\ [][Covered]_accountingVars
                      /\ [][Stands]_quotaVars /\ [][Running]_admissionVars
  <2> HIDE DEF Kept, Covered, Stands, Running
  <2> QED
    BY <1>1, <1>2, <1>3, <1>4, JobPlaneStarts, JobPlaneStepKeeps, PTL DEF JobPlaneSpec
<1> QED
  BY <1>5 DEF StoreOnlyForward, PgServes, PgImplementsStore, RenewedIsNewest, ReservationsStand,
              EndedForGood, RunningKeepsReservation, BooksClosed, ChargedForGood, CompletedRunSettles
=============================================================================
