--------------------------- MODULE ProgressProofs ---------------------------
(***************************************************************************)
(* What those who follow and read are shown, for every length of the log,  *)
(* every number of writers, recorders and readers: the follower of a job,  *)
(* the client of an automation run's stream, the pages of the usage        *)
(* ledger.  And what a job finds in its workspace after a suspension, for  *)
(* every number of processes, captures and deaths.                         *)
(*                                                                         *)
(* The follower of a job is right because its queue and what its process   *)
(* has still to publish are, together, the rising seqs that are to come:   *)
(* what is passed over in them was never published here (Pending, Due).    *)
(* The client of a run is right because the log never has a hole: a        *)
(* writer's seq is at most one past the log (NoHole).                      *)
(* The workspace is right because a reference that is recorded, or that a  *)
(* restore has validated, names a capture nobody fills any more            *)
(* (CapturesWhole, Restoring).                                             *)
(***************************************************************************)
EXTENDS MCProgress, FiniteSetTheorems, SequenceTheorems, TLAPS, Environments, WellFoundedInduction

-----------------------------------------------------------------------------
(* The follower of a job.                                                  *)

(* A sequence of seqs that rise.                                           *)
Rising(s) == \A i, j \in DOMAIN s : i < j => s[i] < s[j]

(* What was yielded: rising, none past the last one, and with every event  *)
(* of the own process up to it.                                            *)
Shown ==
  /\ InOrderOnce
  /\ \A i \in DOMAIN follower.got : follower.got[i] <= follower.last
  /\ OnlyForeignSkipped

(* A batch read from the log goes on where the follower is.                *)
BatchFits ==
  /\ \A i \in DOMAIN follower.batch : follower.batch[i] = follower.last + i
  /\ follower.last + Len(follower.batch) <= Len(stream)
  /\ follower.pc \notin {"yield", "fill"} => follower.batch = <<>>

(* What is queued and what is to be published rise, the former first; a    *)
(* follower that has not subscribed has nothing queued.                    *)
Pending ==
  /\ Rising(follower.queue) /\ Rising(unpublished)
  /\ \A i \in DOMAIN follower.queue : follower.queue[i] \in 1..Len(stream)
  /\ \A i \in DOMAIN follower.queue, j \in DOMAIN unpublished : follower.queue[i] < unpublished[j]
  /\ follower.pc \in {"replay", "yield"} => follower.queue = <<>>

(* Event n is queued or to be published.                                   *)
Coming(n) ==
  \/ \E i \in DOMAIN follower.queue : follower.queue[i] = n
  \/ \E i \in DOMAIN unpublished : unpublished[i] = n

(* After the second read, an event of the own process that is in neither   *)
(* the batch nor the past is to come.                                      *)
Due ==
  follower.pc \in {"fill", "drain", "wait"} =>
    \A n \in 1..Len(stream) :
      stream[n].home /\ n > follower.last + Len(follower.batch) => Coming(n)

(* The inductive invariant of the follower.                                *)
StreamInv == StreamTypeOK /\ Shown /\ BatchFits /\ Pending /\ Due

(* It holds at the start.                                                  *)
LEMMA StreamStarts == StreamInit => StreamInv
<1> SUFFICES ASSUME StreamInit PROVE StreamInv
  OBVIOUS
<1> USE DEF StreamInit
<1>1. StreamTypeOK
  <2>1. stream \in Seq(JobEvent) /\ Len(stream) = 0 /\ unpublished \in Seq(1..Len(stream))
    OBVIOUS
  <2>2. follower \in Follower /\ follower.last = 0
    BY DEF Follower, FollowerSteps
  <2>3. jobEnded \in BOOLEAN
    OBVIOUS
  <2> HIDE DEF StreamInit
  <2> QED
    BY <2>1, <2>2, <2>3, StreamAssumption DEF StreamTypeOK
<1>2. Shown
  BY DEF Shown, InOrderOnce, OnlyForeignSkipped
<1>3. BatchFits /\ Pending /\ Due
  BY DEF BatchFits, Pending, Due, Rising
<1> QED
  BY <1>1, <1>2, <1>3 DEF StreamInv

(* The types, one by one.                                                  *)
LEMMA StreamTypes ==
  ASSUME StreamTypeOK
  PROVE  /\ Len(stream) \in Nat /\ DOMAIN stream = 1..Len(stream)
         /\ \A n \in 1..Len(stream) : stream[n] \in JobEvent
         /\ unpublished \in Seq(1..Len(stream)) /\ unpublished \in Seq(Nat)
         /\ follower.pc \in FollowerSteps /\ follower.last \in Nat /\ follower.last <= Len(stream)
         /\ follower.batch \in Seq(Nat) /\ follower.queue \in Seq(Nat) /\ follower.got \in Seq(Nat)
         /\ follower.aborted \in BOOLEAN
BY DEF StreamTypeOK, Follower

(* A function on 1..k is a sequence of length k.                           *)
LEMMA FunctionIsSeq ==
  ASSUME NEW T, NEW k \in Nat, NEW f \in [1..k -> T]
  PROVE  f \in Seq(T) /\ Len(f) = k /\ DOMAIN f = 1..k
OBVIOUS

(* What a log of n events has after its m-th.                              *)
LEMMA EventsAfterSeq ==
  ASSUME NEW n \in Nat, n <= Len(stream), Len(stream) \in Nat
  PROVE  /\ EventsAfter(n) \in Seq(Nat) /\ Len(EventsAfter(n)) = Len(stream) - n
         /\ \A i \in DOMAIN EventsAfter(n) : EventsAfter(n)[i] = n + i
<1> DEFINE k == Len(stream) - n
           s == EventsAfter(n)
<1>1. k \in Nat
  OBVIOUS
<1>2. s \in [1..k -> Nat] /\ \A i \in 1..k : s[i] = n + i
  BY <1>1 DEF EventsAfter
<1> HIDE DEF k, s
<1>3. s \in Seq(Nat) /\ Len(s) = k /\ DOMAIN s = 1..k
  BY <1>1, <1>2, FunctionIsSeq
<1> QED
  BY <1>2, <1>3 DEF k, s

(* A log that grows.                                                       *)
LEMMA AppendKeeps ==
  ASSUME StreamInv, NEW home \in BOOLEAN, NEW final \in BOOLEAN, AppendEvent(home, final)
  PROVE  StreamInv'
<1> DEFINE n == Len(stream)
           e == [home |-> home, final |-> final]
<1>1. n \in Nat /\ stream \in Seq(JobEvent) /\ e \in JobEvent /\ follower.last \in Nat /\ follower.last <= n
  BY StreamTypes DEF StreamInv, JobEvent, StreamTypeOK
<1>2. stream' = Append(stream, e) /\ follower' = follower /\ n < MaxStreamEvents
  BY DEF AppendEvent
<1> HIDE DEF e
<1>3. /\ stream' \in Seq(JobEvent) /\ Len(stream') = n + 1
      /\ \A i \in 1..n : stream'[i] = stream[i]
      /\ stream'[n + 1] = e
  BY <1>1, <1>2
<1>4. /\ unpublished \in Seq(1..n) /\ unpublished \in Seq(1..(n + 1))
      /\ unpublished' \in {unpublished, Append(unpublished, n + 1)}
      /\ e.home => unpublished' = Append(unpublished, n + 1)
  <2>1. unpublished \in Seq(1..n)
    BY DEF StreamInv, StreamTypeOK
  <2>2. unpublished \in Seq(1..(n + 1))
    BY <1>1, <2>1
  <2> QED
    BY <2>1, <2>2 DEF AppendEvent, e
<1>5. /\ unpublished' \in Seq(1..(n + 1))
      /\ \A i \in DOMAIN unpublished : i \in DOMAIN unpublished' /\ unpublished'[i] = unpublished[i]
      /\ \A i \in DOMAIN unpublished' : i \in DOMAIN unpublished \/ (unpublished'[i] = n + 1 /\ \A j \in DOMAIN unpublished : j < i)
      /\ e.home => \E i \in DOMAIN unpublished' : unpublished'[i] = n + 1
  <2>1. CASE unpublished' = unpublished
    <3>1. ~ e.home
      <4> SUFFICES ASSUME e.home PROVE FALSE
        OBVIOUS
      <4>1. Len(unpublished) = Len(Append(unpublished, n + 1))
        BY <1>4, <2>1
      <4> QED
        BY <1>4, <4>1
    <3> QED
      BY <1>4, <2>1, <3>1
  <2>2. CASE unpublished' = Append(unpublished, n + 1)
    BY <1>1, <1>4, <2>2
  <2> QED
    BY <1>4, <2>1, <2>2
<1>6. StreamTypeOK'
  BY <1>1, <1>2, <1>3, <1>5, StreamAssumption DEF StreamInv, StreamTypeOK, AppendEvent
<1>7. Shown'
  BY <1>1, <1>2, <1>3 DEF StreamInv, Shown, InOrderOnce, OnlyForeignSkipped
<1>8. BatchFits'
  BY <1>1, <1>2, <1>3, StreamTypes DEF StreamInv, BatchFits
<1>9. Pending'
  <2>1. Rising(unpublished')
    BY <1>1, <1>4, <1>5, SMTT(30) DEF StreamInv, Pending, Rising
  <2>2. \A i \in DOMAIN follower.queue : follower.queue[i] \in 1..(n + 1) /\ follower.queue[i] < n + 1
    BY <1>1 DEF StreamInv, Pending
  <2>3. \A i \in DOMAIN follower.queue, j \in DOMAIN unpublished' : follower.queue[i] < unpublished'[j]
    BY <1>5, <2>2 DEF StreamInv, Pending
  <2> QED
    BY <1>2, <1>3, <2>1, <2>2, <2>3 DEF StreamInv, Pending, Rising
<1>10. Due'
  <2> SUFFICES ASSUME follower.pc \in {"fill", "drain", "wait"}, NEW m \in 1..(n + 1),
                      stream'[m].home, m > follower.last + Len(follower.batch)
               PROVE  Coming(m)'
    BY <1>2, <1>3 DEF Due
  <2>1. CASE m = n + 1
    BY <1>3, <1>5, <2>1 DEF Coming
  <2>2. CASE m \in 1..n
    <3>1. Coming(m)
      BY <1>3, <2>2 DEF StreamInv, Due
    <3> QED
      BY <1>2, <1>5, <3>1 DEF Coming
  <2> QED
    BY <1>1, <2>1, <2>2
<1> QED
  BY <1>6, <1>7, <1>8, <1>9, <1>10 DEF StreamInv

(* An event handed to the subscribers: it leaves what is unpublished, and  *)
(* is queued if someone listens.                                           *)
LEMMA PublishKeeps ==
  ASSUME StreamInv, PublishEvent
  PROVE  StreamInv'
<1> DEFINE n == Len(stream)
           h == Head(unpublished)
           q == follower.queue
<1> USE DEF StreamInv
<1>1. /\ n \in Nat /\ unpublished \in Seq(1..n) /\ unpublished # <<>> /\ unpublished' = Tail(unpublished)
      /\ stream' = stream /\ jobEnded' = jobEnded
  BY StreamTypes DEF PublishEvent, StreamTypeOK
<1>2. /\ h \in 1..n /\ h = unpublished[1]
      /\ unpublished' \in Seq(1..n)
      /\ \A j \in DOMAIN unpublished' : j + 1 \in DOMAIN unpublished /\ unpublished'[j] = unpublished[j + 1]
      /\ \A j \in DOMAIN unpublished : j = 1 \/ (j - 1 \in DOMAIN unpublished' /\ unpublished'[j - 1] = unpublished[j])
  BY <1>1
<1>3. Rising(unpublished') /\ \A j \in DOMAIN unpublished' : h < unpublished'[j]
  BY <1>1, <1>2, SMTT(30) DEF Pending, Rising
<1>a. /\ follower.queue \in Seq(Nat) /\ follower.pc \in FollowerSteps /\ follower \in Follower
      /\ follower.last \in Nat
  BY StreamTypes DEF StreamTypeOK
<1>4. CASE ~Subscribed
  <2>1. follower' = follower
    BY <1>4 DEF PublishEvent
  <2>2. StreamTypeOK' /\ Shown' /\ BatchFits'
    BY <1>1, <1>2, <2>1 DEF StreamTypeOK, Shown, InOrderOnce, OnlyForeignSkipped, BatchFits
  <2>3. Pending'
    BY <1>1, <1>2, <1>3, <2>1 DEF Pending, Rising
  <2>4. Due'
    BY <1>4, <2>1 DEF Due, Subscribed
  <2> QED
    BY <2>2, <2>3, <2>4
<1>5. CASE Subscribed
  <2> DEFINE q2 == Append(q, h)
             pc2 == IF follower.pc = "wait" THEN "drain" ELSE follower.pc
  <2>1. follower' = [follower EXCEPT !.queue = q2, !.pc = pc2]
    BY <1>5 DEF PublishEvent
  <2>2. q2 \in Seq(Nat) /\ pc2 \in FollowerSteps
    BY <1>a, <1>2 DEF FollowerSteps
  <2>3. /\ Len(q2) = Len(q) + 1 /\ q2[Len(q) + 1] = h
        /\ \A i \in DOMAIN q : i \in DOMAIN q2 /\ q2[i] = q[i]
        /\ \A i \in DOMAIN q2 : i \in DOMAIN q \/ (i = Len(q) + 1 /\ q2[i] = h)
    BY <1>a, <1>2
  <2> HIDE DEF q2, pc2
  <2>4. /\ follower' \in Follower /\ follower'.queue = q2 /\ follower'.pc = pc2
        /\ follower'.batch = follower.batch /\ follower'.last = follower.last
        /\ follower'.got = follower.got
    BY <1>a, <2>1, <2>2 DEF Follower
  <2>5. StreamTypeOK'
    BY <1>1, <1>2, <2>4 DEF StreamTypeOK
  <2>6. Shown'
    BY <1>1, <2>4 DEF Shown, InOrderOnce, OnlyForeignSkipped
  <2>7. BatchFits'
    BY <1>1, <2>4 DEF BatchFits, pc2
  <2>8. Pending'
    <3>1. Rising(q2)
      <4>1. 1 \in DOMAIN unpublished
        BY <1>1
      <4>2. \A i \in DOMAIN q : q[i] < h
        BY <4>1, <1>2 DEF Pending
      <4>3. DOMAIN q = 1..Len(q) /\ Len(q) \in Nat
        BY <1>a
      <4> SUFFICES ASSUME NEW i \in DOMAIN q2, NEW j \in DOMAIN q2, i < j PROVE q2[i] < q2[j]
        BY DEF Rising
      <4>4. i \in DOMAIN q /\ q2[i] = q[i]
        <5>1. CASE i \in DOMAIN q
          BY <2>3, <5>1
        <5>2. CASE i = Len(q) + 1
          BY <2>3, <4>3, <5>2
        <5> QED
          BY <2>3, <5>1, <5>2
      <4>5. CASE j \in DOMAIN q
        BY <2>3, <4>4, <4>5 DEF Pending, Rising
      <4>6. CASE j = Len(q) + 1
        BY <2>3, <4>2, <4>4, <4>6
      <4> QED
        BY <2>3, <4>5, <4>6
    <3>2. \A i \in DOMAIN q2 : q2[i] \in 1..n
      BY <1>2, <2>3 DEF Pending
    <3>3. \A i \in DOMAIN q2, j \in DOMAIN unpublished' : q2[i] < unpublished'[j]
      BY <1>2, <1>3, <2>3 DEF Pending
    <3>4. pc2 \notin {"replay", "yield"}
      BY <1>5 DEF pc2, Subscribed
    <3> QED
      BY <1>1, <1>3, <2>4, <3>1, <3>2, <3>3, <3>4 DEF Pending
  <2>9. Due'
    <3> SUFFICES ASSUME pc2 \in {"fill", "drain", "wait"}, NEW m \in 1..n, stream[m].home,
                        m > follower.last + Len(follower.batch)
                 PROVE  Coming(m)'
      BY <1>1, <2>4 DEF Due
    <3>1. Coming(m)
      BY DEF Due, pc2
    <3>2. CASE m = h
      BY <1>a, <2>3, <2>4, <3>2 DEF Coming
    <3>3. CASE m # h
      BY <1>2, <2>3, <2>4, <3>1, <3>3 DEF Coming
    <3> QED
      BY <3>2, <3>3
  <2> QED
    BY <2>5, <2>6, <2>7, <2>8, <2>9
<1> QED
  BY <1>4, <1>5

(* The follower moves: what its new state must fit for the rest to stay.   *)
LEMMA FollowerMoves ==
  ASSUME StreamInv, NEW f \in Follower, FollowerStep(f), f.last <= Len(stream),
         Shown', BatchFits',
         f.queue = follower.queue \/ (follower.queue # <<>> /\ f.queue = Tail(follower.queue)),
         f.pc \in {"replay", "yield"} => follower.pc \in {"replay", "yield"} /\ f.queue = follower.queue,
         Due'
  PROVE  StreamInv'
<1> USE DEF StreamInv
<1>1. follower' = f /\ stream' = stream /\ unpublished' = unpublished /\ jobEnded' = jobEnded
  BY DEF FollowerStep
<1>2. StreamTypeOK'
  BY <1>1 DEF StreamTypeOK
<1>3. follower.queue \in Seq(Nat)
  BY StreamTypes
<1>4. CASE f.queue = follower.queue
  BY <1>1, <1>2, <1>4 DEF Pending, Rising
<1>5. CASE follower.queue # <<>> /\ f.queue = Tail(follower.queue)
  <2>1. \A i \in DOMAIN f.queue : i + 1 \in DOMAIN follower.queue /\ f.queue[i] = follower.queue[i + 1]
    BY <1>3, <1>5
  <2>2. Rising(f.queue)
    <3>1. \A i \in DOMAIN f.queue : i \in Nat
      BY <1>3, <1>5
    <3>2. \A i, j \in DOMAIN follower.queue : i < j => follower.queue[i] < follower.queue[j]
      BY DEF Pending, Rising
    <3> SUFFICES ASSUME NEW i \in DOMAIN f.queue, NEW j \in DOMAIN f.queue, i < j
                 PROVE  f.queue[i] < f.queue[j]
      BY DEF Rising
    <3>3. i + 1 < j + 1
      BY <3>1
    <3> QED
      BY <2>1, <3>2, <3>3
  <2>3. \A i \in DOMAIN f.queue : f.queue[i] \in 1..Len(stream)
    BY <2>1 DEF Pending
  <2>4. \A i \in DOMAIN f.queue, j \in DOMAIN unpublished : f.queue[i] < unpublished[j]
    BY <2>1 DEF Pending
  <2>5. f.pc \in {"replay", "yield"} => f.queue = <<>>
    BY DEF Pending
  <2>6. Pending'
    BY <1>1, <2>2, <2>3, <2>4, <2>5 DEF Pending, Rising
  <2> QED
    BY <1>2, <2>6
<1> QED
  BY <1>4, <1>5

(* A follower that only changes place: what it has and what is to come     *)
(* stand, and no batch is left behind.                                     *)
LEMMA PlaceKeeps ==
  ASSUME StreamInv, NEW p \in FollowerSteps, NEW a \in BOOLEAN,
         FollowerStep([follower EXCEPT !.pc = p, !.aborted = a]),
         p \in {"yield", "fill"} => follower.pc = p,
         p \notin {"yield", "fill"} => follower.batch = <<>>,
         p \in {"replay", "yield"} => follower.pc \in {"replay", "yield"},
         p \in {"fill", "drain", "wait"} => follower.pc \in {"fill", "drain", "wait"}
  PROVE  StreamInv'
<1> DEFINE f == [follower EXCEPT !.pc = p, !.aborted = a]
<1>1. /\ f \in Follower /\ f.pc = p /\ f.batch = follower.batch /\ f.queue = follower.queue
      /\ f.last = follower.last /\ f.got = follower.got
  BY DEF StreamInv, StreamTypeOK, Follower
<1>2. FollowerStep(f) /\ follower' = f /\ stream' = stream /\ unpublished' = unpublished
  BY DEF FollowerStep
<1> HIDE DEF f
<1>3. Shown'
  BY <1>1, <1>2 DEF StreamInv, Shown, InOrderOnce, OnlyForeignSkipped
<1>4. BatchFits'
  BY <1>1, <1>2 DEF StreamInv, BatchFits
<1>5. Due'
  BY <1>1, <1>2 DEF StreamInv, Due, Coming
<1>6. f.last <= Len(stream)
  BY <1>1 DEF StreamInv, StreamTypeOK
<1> QED
  BY <1>1, <1>2, <1>3, <1>4, <1>5, <1>6, FollowerMoves

(* What was in the log comes as a batch.                                   *)
LEMMA ReadKeeps ==
  ASSUME StreamInv, NEW p \in {"yield", "fill"},
         p = "yield" => follower.pc = "replay",
         p = "fill" => follower.pc = "gap",
         FollowerStep([follower EXCEPT !.pc = p, !.batch = EventsAfter(follower.last)])
  PROVE  StreamInv'
<1> DEFINE b == EventsAfter(follower.last)
           f == [follower EXCEPT !.pc = p, !.batch = b]
<1>1. /\ follower \in Follower /\ follower.last \in Nat /\ follower.last <= Len(stream) /\ Len(stream) \in Nat
  BY StreamTypes DEF StreamInv, StreamTypeOK
<1>2. /\ b \in Seq(Nat) /\ Len(b) = Len(stream) - follower.last
      /\ \A i \in DOMAIN b : b[i] = follower.last + i
  BY <1>1, EventsAfterSeq
<1> HIDE DEF b
<1>3. /\ f \in Follower /\ f.pc = p /\ f.batch = b /\ f.queue = follower.queue
      /\ f.last = follower.last /\ f.got = follower.got
  BY <1>1, <1>2 DEF Follower, FollowerSteps
<1>4. FollowerStep(f) /\ follower' = f /\ stream' = stream /\ unpublished' = unpublished
  BY DEF FollowerStep, b
<1> HIDE DEF f
<1>5. Shown'
  BY <1>3, <1>4 DEF StreamInv, Shown, InOrderOnce, OnlyForeignSkipped
<1>6. BatchFits'
  BY <1>1, <1>2, <1>3, <1>4 DEF BatchFits
<1>7. Due'
  BY <1>1, <1>2, <1>3, <1>4 DEF Due
<1> QED
  BY <1>1, <1>3, <1>4, <1>5, <1>6, <1>7, FollowerMoves

(* Event n is yielded: nothing of the own process may be between.          *)
LEMMA YieldShown ==
  ASSUME StreamInv, NEW n \in 1..Len(stream), n > follower.last, stream' = stream,
         follower'.got = Append(follower.got, n), follower'.last = n,
         \A m \in 1..Len(stream) : m > follower.last /\ m < n => ~stream[m].home
  PROVE  Shown'
<1>1. /\ follower.got \in Seq(Nat) /\ follower.last \in Nat /\ follower.last <= Len(stream)
      /\ Len(stream) \in Nat
  BY StreamTypes DEF StreamInv, StreamTypeOK
<1> DEFINE g == follower.got
           g2 == Append(g, n)
<1>2. /\ Len(g) \in Nat /\ DOMAIN g = 1..Len(g) /\ DOMAIN g2 = 1..(Len(g) + 1)
      /\ g2[Len(g) + 1] = n /\ \A i \in 1..Len(g) : g2[i] = g[i]
  BY <1>1
<1>3. \A i \in 1..Len(g) : g[i] \in Nat /\ g[i] <= follower.last /\ g[i] < n
  BY <1>1, <1>2, SMTT(30) DEF StreamInv, Shown
<1>4. \A i, j \in 1..Len(g) : i < j => g[i] < g[j]
  BY <1>2 DEF StreamInv, Shown, InOrderOnce
<1>5. \A m \in 1..follower.last : stream[m].home => \E i \in DOMAIN g : g[i] = m
  BY DEF StreamInv, Shown, OnlyForeignSkipped, ToSet
<1> HIDE DEF g, g2
<1>6. follower'.got = g2
  BY DEF g, g2
<1>7. \A i, j \in 1..(Len(g) + 1) : i < j => g2[i] < g2[j]
  <2> SUFFICES ASSUME NEW i \in 1..(Len(g) + 1), NEW j \in 1..(Len(g) + 1), i < j PROVE g2[i] < g2[j]
    OBVIOUS
  <2>1. i \in 1..Len(g)
    BY <1>2
  <2>2. CASE j \in 1..Len(g)
    BY <1>2, <1>4, <2>1, <2>2
  <2>3. CASE j = Len(g) + 1
    BY <1>2, <1>3, <2>1, <2>3
  <2> QED
    BY <1>2, <2>2, <2>3
<1>8. \A i \in 1..(Len(g) + 1) : g2[i] <= n
  <2> SUFFICES ASSUME NEW i \in 1..(Len(g) + 1) PROVE g2[i] <= n
    OBVIOUS
  <2>1. n \in Nat
    BY <1>1
  <2>2. CASE i = Len(g) + 1
    BY <1>2, <2>1, <2>2
  <2>3. CASE i \in 1..Len(g)
    BY <1>2, <1>3, <2>1, <2>3
  <2> QED
    BY <1>2, <2>2, <2>3
<1>9. \A m \in 1..n : stream[m].home => \E i \in DOMAIN g2 : g2[i] = m
  <2> SUFFICES ASSUME NEW m \in 1..n, stream[m].home PROVE \E i \in DOMAIN g2 : g2[i] = m
    OBVIOUS
  <2>1. CASE m \in 1..follower.last
    BY <1>2, <1>5, <2>1
  <2>2. CASE m = n
    BY <1>2, <2>2
  <2>3. ~(m > follower.last /\ m < n)
    BY <1>1
  <2> QED
    BY <1>1, <2>1, <2>2, <2>3
<1>10. InOrderOnce'
  BY <1>2, <1>6, <1>7 DEF InOrderOnce
<1>11. OnlyForeignSkipped'
  BY <1>6, <1>9 DEF OnlyForeignSkipped, ToSet
<1> QED
  BY <1>2, <1>6, <1>8, <1>10, <1>11 DEF Shown

(* The head of a batch is yielded.                                         *)
LEMMA YieldKeeps ==
  ASSUME StreamInv, YieldReplay \/ YieldGap
  PROVE  StreamInv'
<1> DEFINE n == Head(follower.batch)
           old == follower.batch
           b == Tail(old)
           l == follower.last
           g == Append(follower.got, n)
           f == [follower EXCEPT !.got = g, !.last = n, !.batch = b]
<1>1. /\ follower \in Follower /\ old \in Seq(Nat) /\ follower.got \in Seq(Nat)
      /\ l \in Nat /\ Len(stream) \in Nat
      /\ follower.pc \in {"yield", "fill"} /\ old # <<>>
  BY StreamTypes DEF StreamInv, StreamTypeOK, YieldReplay, YieldGap
<1>2. /\ 1 \in DOMAIN old /\ n = old[1] /\ Len(old) \in Nat /\ Len(old) >= 1
      /\ b \in Seq(Nat) /\ Len(b) = Len(old) - 1
      /\ \A i \in DOMAIN b : i \in Nat /\ i + 1 \in DOMAIN old /\ b[i] = old[i + 1]
  BY <1>1
<1>3. l + Len(old) <= Len(stream) /\ \A i \in DOMAIN old : old[i] = l + i
  BY DEF StreamInv, BatchFits
<1>4. FollowerStep(f)
  <2>1. [Yielded(follower, n) EXCEPT !.batch = Tail(@)] = f
    BY <1>1 DEF Yielded, Follower
  <2> QED
    BY <2>1 DEF YieldReplay, YieldGap
<1>5. /\ n = l + 1 /\ n \in 1..Len(stream) /\ n \in Nat /\ n > l /\ n <= Len(stream)
      /\ n + Len(b) = l + Len(old) /\ n + Len(b) <= Len(stream)
      /\ \A i \in DOMAIN b : b[i] = n + i
      /\ \A m \in 1..Len(stream) : ~(m > l /\ m < n)
  <2> HIDE DEF n, b, l, old
  <2>1. n = l + 1
    BY <1>1, <1>2, <1>3
  <2>2. \A i \in DOMAIN b : b[i] = n + i
    BY <1>1, <1>2, <1>3, <2>1
  <2> QED
    BY <1>1, <1>2, <1>3, <2>1, <2>2
<1>6. g \in Seq(Nat)
  BY <1>1, <1>5
<1> HIDE DEF n, b, g
<1>7. /\ f \in Follower /\ f.pc = follower.pc /\ f.batch = b /\ f.queue = follower.queue
      /\ f.last = n /\ f.got = g
  BY <1>1, <1>2, <1>5, <1>6 DEF Follower
<1>8. follower' = f /\ stream' = stream /\ unpublished' = unpublished
  BY <1>4 DEF FollowerStep
<1> HIDE DEF f
<1>9. Shown'
  BY <1>5, <1>7, <1>8, YieldShown DEF g
<1>10. BatchFits'
  BY <1>1, <1>5, <1>7, <1>8 DEF BatchFits
<1>11. Due'
  <2>1. \A m \in 1..Len(stream) : m > n + Len(b) => m > l + Len(old)
    BY <1>5
  <2> HIDE DEF l, old
  <2> QED
    BY <1>7, <1>8, <2>1 DEF StreamInv, Due, Coming, l, old
<1>12. f.last <= Len(stream)
  BY <1>5, <1>7
<1> QED
  BY <1>1, <1>4, <1>7, <1>9, <1>10, <1>11, <1>12, FollowerMoves

(* The head of the queue is taken, and yielded unless it was seen.         *)
LEMMA TakeKeeps ==
  ASSUME StreamInv, TakeQueued
  PROVE  StreamInv'
<1> DEFINE q == follower.queue
           n == Head(q)
           q2 == Tail(q)
           p == IF stream[n].final THEN "done" ELSE follower.pc
           g == Append(follower.got, n)
           f1 == [follower EXCEPT !.queue = q2, !.pc = p]
           f2 == [follower EXCEPT !.queue = q2, !.pc = p, !.got = g, !.last = n]
<1>1. /\ follower \in Follower /\ q \in Seq(Nat) /\ follower.got \in Seq(Nat)
      /\ follower.last \in Nat /\ Len(stream) \in Nat /\ follower.last <= Len(stream)
  BY StreamTypes DEF StreamInv, StreamTypeOK
<1>2. follower.pc = "drain" /\ q # <<>> /\ follower.batch = <<>> /\ Len(follower.batch) = 0
  BY DEF StreamInv, BatchFits, TakeQueued
<1>3. 1 \in DOMAIN q /\ n = q[1] /\ n \in 1..Len(stream)
  <2>1. 1 \in DOMAIN q /\ n = q[1]
    BY <1>1, <1>2
  <2> QED
    BY <2>1 DEF StreamInv, Pending
<1>4. /\ q2 \in Seq(Nat)
      /\ \A i \in DOMAIN q : i = 1 \/ (i - 1 \in DOMAIN q2 /\ q2[i - 1] = q[i])
  BY <1>1, <1>2, SMTT(30)
<1>5. p \in {"done", "drain"} /\ p \in FollowerSteps /\ g \in Seq(Nat)
  BY <1>1, <1>2, <1>3 DEF FollowerSteps
<1>6. [f1 EXCEPT !.got = Append(@, n), !.last = n] = f2
  BY <1>1 DEF Follower
<1>7. FollowerStep(IF Fresh(n) THEN f2 ELSE f1)
  <2>1. Yielded(f1, n) = f2
    BY <1>6 DEF Yielded
  <2> QED
    BY <2>1 DEF TakeQueued
<1>8. \A m \in 1..Len(stream) : stream[m].home /\ m > follower.last => Coming(m)
  BY <1>1, <1>2 DEF StreamInv, Due
<1>9. \A i \in DOMAIN q : n <= q[i]
  <2>1. \A i \in DOMAIN q : i \in Nat /\ q[i] \in Nat /\ (i = 1 \/ 1 < i)
    BY <1>1
  <2> QED
    BY <1>3, <2>1 DEF StreamInv, Pending, Rising
<1>10. \A i \in DOMAIN unpublished : n < unpublished[i]
  BY <1>3 DEF StreamInv, Pending
<1>11. \A m \in Nat : Coming(m) => n <= m
  BY <1>9, <1>10, <1>3 DEF Coming
<1>12. \A m \in Nat : Coming(m) /\ m # n =>
         \/ \E i \in DOMAIN q2 : q2[i] = m
         \/ \E i \in DOMAIN unpublished : unpublished[i] = m
  <2> SUFFICES ASSUME NEW m \in Nat, m # n, NEW i \in DOMAIN q, q[i] = m
               PROVE  \E k \in DOMAIN q2 : q2[k] = m
    BY DEF Coming
  <2>1. i # 1
    BY <1>3
  <2> QED
    BY <1>4, <2>1
<1>a. n \in Nat /\ follower.pc = "drain"
  BY <1>1, <1>2, <1>3
<1> HIDE DEF q, n, q2, p, g
<1>13. CASE Fresh(n)
  <2>1. /\ f2 \in Follower /\ f2.pc = p /\ f2.batch = follower.batch /\ f2.queue = q2
        /\ f2.last = n /\ f2.got = g
    BY <1>1, <1>4, <1>5, <1>a DEF Follower
  <2>2. FollowerStep(f2) /\ follower' = f2 /\ stream' = stream /\ unpublished' = unpublished
    BY <1>7, <1>13 DEF FollowerStep
  <2> HIDE DEF f2
  <2>3. n > follower.last
    BY <1>13 DEF Fresh
  <2>4. \A m \in 1..Len(stream) : m > follower.last /\ m < n => ~stream[m].home
    BY <1>1, <1>3, <1>8, <1>11
  <2>5. Shown'
    BY <1>3, <2>1, <2>2, <2>3, <2>4, YieldShown DEF g
  <2>6. BatchFits'
    BY <1>2, <1>3, <1>5, <2>1, <2>2 DEF StreamInv, BatchFits
  <2>7. Due'
    BY <1>1, <1>2, <1>3, <1>8, <1>12, <2>1, <2>2, <2>3, SMTT(30) DEF Due, Coming
  <2> QED
    BY <1>2, <1>3, <1>5, <2>1, <2>2, <2>5, <2>6, <2>7, FollowerMoves DEF q, q2
<1>14. CASE ~Fresh(n)
  <2>1. /\ f1 \in Follower /\ f1.pc = p /\ f1.batch = follower.batch /\ f1.queue = q2
        /\ f1.last = follower.last /\ f1.got = follower.got
    BY <1>1, <1>4, <1>5 DEF Follower
  <2>2. FollowerStep(f1) /\ follower' = f1 /\ stream' = stream /\ unpublished' = unpublished
    BY <1>7, <1>14 DEF FollowerStep
  <2> HIDE DEF f1
  <2>3. n <= follower.last
    BY <1>1, <1>3, <1>14 DEF Fresh
  <2>4. Shown'
    BY <2>1, <2>2 DEF StreamInv, Shown, InOrderOnce, OnlyForeignSkipped
  <2>5. BatchFits'
    BY <1>2, <1>5, <2>1, <2>2 DEF StreamInv, BatchFits
  <2>6. Due'
    BY <1>1, <1>2, <1>3, <1>8, <1>12, <2>1, <2>2, <2>3 DEF Due, Coming
  <2> QED
    BY <1>1, <1>2, <1>5, <2>1, <2>2, <2>4, <2>5, <2>6, FollowerMoves, SMTT(30) DEF q, q2
<1> QED
  BY <1>13, <1>14

(* Every step keeps the invariant.                                         *)
LEMMA StreamStepKeeps == StreamInv /\ [StreamNext]_streamVars => StreamInv'
<1> SUFFICES ASSUME StreamInv, [StreamNext]_streamVars PROVE StreamInv'
  OBVIOUS
<1>1. ASSUME NEW home \in BOOLEAN, NEW final \in BOOLEAN, AppendEvent(home, final) PROVE StreamInv'
  BY <1>1, AppendKeeps
<1>2. CASE PublishEvent
  BY <1>2, PublishKeeps
<1>3. CASE EndOfJob
  BY <1>3 DEF EndOfJob, StreamInv, StreamTypeOK, Shown, InOrderOnce, OnlyForeignSkipped, BatchFits,
              Pending, Rising, Due, Coming
<1>4. CASE ReplayLog \/ FillGap
  BY <1>4, ReadKeeps DEF ReplayLog, FillGap, Gap
<1>5. CASE YieldReplay \/ YieldGap
  BY <1>5, YieldKeeps
<1>6. CASE TakeQueued
  BY <1>6, TakeKeeps
<1>7. ASSUME NEW p \in FollowerSteps, FollowerStep([follower EXCEPT !.pc = p])
      PROVE  FollowerStep([follower EXCEPT !.pc = p, !.aborted = follower.aborted]) /\ follower.aborted \in BOOLEAN
  BY <1>7 DEF StreamInv, StreamTypeOK, Follower, FollowerStep
<1>8. follower.pc \in FollowerSteps /\ (follower.pc \notin {"yield", "fill"} => follower.batch = <<>>)
  BY DEF StreamInv, StreamTypeOK, Follower, BatchFits
<1>9. CASE Subscribe
  BY <1>7, <1>8, <1>9, PlaceKeeps DEF Subscribe, FollowerSteps
<1>10. CASE GapFilled
  BY <1>7, <1>8, <1>10, PlaceKeeps DEF GapFilled, FollowerSteps
<1>11. CASE PollRecord \/ WaitOver
  BY <1>7, <1>8, <1>11, PlaceKeeps DEF PollRecord, WaitOver, FollowerSteps
<1>12. CASE ClientCloses
  <2> DEFINE p == IF follower.pc = "wait" THEN "drain" ELSE follower.pc
  <2>1. FollowerStep([follower EXCEPT !.pc = p, !.aborted = TRUE])
    BY <1>12 DEF ClientCloses, FollowerStep, StreamInv, StreamTypeOK, Follower
  <2>2. p \in FollowerSteps
    BY <1>8 DEF FollowerSteps
  <2> QED
    BY <1>8, <2>1, <2>2, PlaceKeeps
<1>13. CASE UNCHANGED streamVars
  BY <1>13 DEF streamVars, StreamInv, StreamTypeOK, Shown, InOrderOnce, OnlyForeignSkipped, BatchFits,
               Pending, Rising, Due, Coming
<1> QED
  BY <1>1, <1>2, <1>3, <1>4, <1>5, <1>6, <1>9, <1>10, <1>11, <1>12, <1>13 DEF StreamNext, StreamSteps

-----------------------------------------------------------------------------
(* The client of an automation run's stream.                               *)

(* The log has no hole.                                                    *)
NoHole == \E k \in 0..MaxRunSeq : DOMAIN runLog = 1..k

(* A writer about to append is at most one past the log.                   *)
WriterFits(w) ==
  /\ {"pc", "plan", "seq"} \subseteq DOMAIN w
  /\ w.pc \in {"idle", "seq", "append"}
  /\ w.pc = "append" => w.seq \in Nat \ {0} /\ (w.seq = 1 \/ w.seq - 1 \in DOMAIN runLog)

(* What the log has, entry by entry.                                       *)
Entries == {<<n, runLog[n]>> : n \in DOMAIN runLog}

(* The response, as a record.                                              *)
TailTyped ==
  /\ tail \in [pc : {"closed", "replay", "poll", "list", "done"}, after : Nat, cursor : Nat,
               seen : Seq(Entries), status : DOMAIN RunTransitions, due : SUBSET DOMAIN runLog]
  /\ tail.pc = "replay" => tail.due = {}

(* The inductive invariant of the stream.                                  *)
RunStreamInv ==
  /\ runStatus \in DOMAIN RunTransitions /\ runWrites \in 0..MaxRunWrites
  /\ NoHole
  /\ runWriter = [w \in RunWriters |-> runWriter[w]]
  /\ \A w \in RunWriters : WriterFits(runWriter[w])
  /\ TailTyped
  /\ RunStreamNoGaps /\ DoneCoversLog

(* Seqs c + 1 to k, in order.                                              *)
LEMMA AscendingInterval ==
  ASSUME NEW c \in Nat, NEW k \in Nat, c <= k
  PROVE  Ascending((c + 1)..k) = [i \in 1..(k - c) |-> c + i]
<1> DEFINE S == (c + 1)..k
           rank(n) == Cardinality({m \in S : m <= n})
<1>1. Cardinality(S) = k - c
  <2>1. Cardinality((c + 1)..k) = IF c + 1 > k THEN 0 ELSE k - (c + 1) + 1
    BY FS_Interval
  <2> QED
    BY <2>1
<1>2. ASSUME NEW n \in S PROVE rank(n) = n - c
  <2>1. {m \in S : m <= n} = (c + 1)..n
    OBVIOUS
  <2>2. Cardinality((c + 1)..n) = n - c
    BY FS_Interval
  <2> QED
    BY <2>1, <2>2
<1>3. ASSUME NEW i \in 1..(k - c) PROVE (CHOOSE n \in S : rank(n) = i) = c + i
  <2> HIDE DEF rank
  <2>1. c + i \in S /\ rank(c + i) = i
    BY <1>2
  <2>2. \A n \in S : rank(n) = i => n = c + i
    BY <1>2
  <2> QED
    BY <2>1, <2>2
<1> QED
  BY <1>1, <1>3 DEF Ascending

(* What is new past a cursor: the seqs from there to the log's end.        *)
LEMMA NewInOrder ==
  ASSUME NEW c \in Nat, NEW k \in Nat, DOMAIN runLog = 1..k
  PROVE  \E m \in Nat :
           /\ m = IF c <= k THEN k - c ELSE 0
           /\ Ascending(NewEvents(c)) = [i \in 1..m |-> c + i]
<1>1. CASE c <= k
  <2>1. NewEvents(c) = (c + 1)..k
    BY DEF NewEvents
  <2> QED
    BY <1>1, <2>1, AscendingInterval, k - c \in Nat
<1>2. CASE c > k
  <2>1. NewEvents(c) = (c + 1)..c
    BY <1>2 DEF NewEvents
  <2>2. Ascending((c + 1)..c) = [i \in 1..(c - c) |-> c + i]
    BY AscendingInterval, c <= c
  <2>3. c - c = 0 /\ 0 \in Nat /\ ~(c <= k)
    BY <1>2
  <2>4. Ascending(NewEvents(c)) = [i \in 1..0 |-> c + i]
    BY <2>1, <2>2, <2>3
  <2> QED
    BY <2>3, <2>4
<1> QED
  BY <1>1, <1>2

(* The greater of a cursor and the seqs listed.                            *)
LEMMA CursorFollows ==
  ASSUME NEW c \in Nat, NEW m \in Nat
  PROVE  Max({c} \cup ToSet([i \in 1..m |-> c + i])) = c + m
<1> DEFINE S == {c} \cup ToSet([i \in 1..m |-> c + i])
<1>1. S = c..(c + m)
  <2>1. ToSet([i \in 1..m |-> c + i]) = {c + i : i \in 1..m}
    BY DEF ToSet
  <2>2. \A n \in c..(c + m) : n = c \/ \E i \in 1..m : n = c + i
    <3> SUFFICES ASSUME NEW n \in c..(c + m), n # c PROVE \E i \in 1..m : n = c + i
      OBVIOUS
    <3>1. n - c \in 1..m /\ n = c + (n - c)
      OBVIOUS
    <3> QED
      BY <3>1
  <2>3. \A i \in 1..m : c + i \in c..(c + m)
    OBVIOUS
  <2>4. c \in c..(c + m)
    OBVIOUS
  <2> QED
    BY <2>1, <2>2, <2>3, <2>4
<1>2. Max(S) = CHOOSE x \in S : \A y \in S : x >= y
  BY DEF Max
<1> HIDE DEF S
<1>3. c + m \in S /\ \A y \in S : c + m >= y
  BY <1>1
<1>4. \A x \in S : (\A y \in S : x >= y) => x = c + m
  BY <1>1, <1>3
<1>5. Max(S) = c + m
  BY <1>2, <1>3, <1>4
<1> QED
  BY <1>5 DEF S

(* What the response has after it wrote the events listed: everything from *)
(* its starting point to its cursor, and the cursor is past the log.       *)
LEMMA WrittenFits ==
  ASSUME RunStreamInv
  PROVE  \E s \in Seq(Entries), c \in Nat :
           /\ Written(tail) = [tail EXCEPT !.seen = s, !.cursor = c]
           /\ c - tail.after = Len(s)
           /\ \A n \in DOMAIN runLog : n <= c
           /\ \A n \in 1..Len(s) : /\ tail.after + n \in DOMAIN runLog /\ tail.after + n <= c
                                   /\ s[n] = <<tail.after + n, runLog[tail.after + n]>>
<1> DEFINE a == tail.after
           c == tail.cursor
           old == tail.seen
<1>1. a \in Nat /\ c \in Nat /\ old \in Seq(Entries)
  BY DEF RunStreamInv, TailTyped
<1>2. PICK k \in Nat : DOMAIN runLog = 1..k
  BY RunStreamAssumption DEF RunStreamInv, NoHole
<1>3. PICK m \in Nat : /\ m = IF c <= k THEN k - c ELSE 0
                       /\ Ascending(NewEvents(c)) = [i \in 1..m |-> c + i]
  BY <1>1, <1>2, NewInOrder
<1> DEFINE new == [i \in 1..m |-> c + i]
           add == [i \in 1..m |-> <<c + i, runLog[c + i]>>]
           s == old \o add
<1>4. /\ c - a = Len(old) /\ Len(old) \in Nat
      /\ \A n \in 1..Len(old) : /\ a + n \in DOMAIN runLog /\ a + n <= c
                                /\ old[n] = <<a + n, runLog[a + n]>>
  BY <1>1 DEF RunStreamInv, RunStreamNoGaps
<1>5. \A i \in 1..m : c + i \in DOMAIN runLog
  <2> HIDE DEF c
  <2> QED
    BY <1>1, <1>2, <1>3
<1>6. add \in Seq(Entries) /\ Len(add) = m /\ \A i \in 1..m : add[i] = <<c + i, runLog[c + i]>>
  <2>1. add \in [1..m -> Entries]
    BY <1>5 DEF Entries
  <2>2. \A i \in 1..m : add[i] = <<c + i, runLog[c + i]>>
    OBVIOUS
  <2> HIDE DEF add
  <2> QED
    BY <2>1, <2>2, FunctionIsSeq
<1>7. Written(tail) = [tail EXCEPT !.seen = s, !.cursor = c + m]
  <2>1. Len(new) = m /\ new \in Seq(Nat) /\ \A i \in 1..m : new[i] = c + i
    <3>1. new \in [1..m -> Nat] /\ \A i \in 1..m : new[i] = c + i
      BY <1>1
    <3> HIDE DEF new
    <3> QED
      BY <3>1, FunctionIsSeq
  <2>2. [i \in 1..Len(new) |-> <<new[i], runLog[new[i]]>>] = add
    BY <2>1
  <2>3. Max({c} \cup ToSet(new)) = c + m
    BY <1>1, CursorFollows
  <2>4. Ascending(NewEvents(tail.cursor)) = new
    BY <1>3
  <2> HIDE DEF new, add
  <2>5. Written(tail) = [tail EXCEPT !.seen = @ \o [i \in 1..Len(new) |-> <<new[i], runLog[new[i]]>>],
                                    !.cursor = Max({@} \cup ToSet(new))]
    BY <2>4 DEF Written
  <2> QED
    BY <2>2, <2>3, <2>5
<1> HIDE DEF a, c, old, new, add
<1>8. /\ s \in Seq(Entries) /\ Len(s) = Len(old) + m
      /\ \A n \in 1..Len(old) : s[n] = old[n]
      /\ \A i \in 1..m : s[Len(old) + i] = add[i]
  <2>1. /\ s \in Seq(Entries) /\ Len(s) = Len(old) + m
        /\ \A i \in 1..(Len(old) + m) : s[i] = IF i <= Len(old) THEN old[i] ELSE add[i - Len(old)]
    BY <1>1, <1>6, ConcatProperties
  <2>2. \A i \in 1..m : /\ Len(old) + i \in 1..(Len(old) + m) /\ ~(Len(old) + i <= Len(old))
                       /\ (Len(old) + i) - Len(old) = i
    BY <1>4
  <2>3. \A i \in 1..Len(old) : i \in 1..(Len(old) + m) /\ i <= Len(old)
    BY <1>4
  <2> HIDE DEF s
  <2> QED
    BY <2>1, <2>2, <2>3
<1> HIDE DEF s
<1>9. (c + m) - a = Len(s) /\ c + m \in Nat
  <2> DEFINE x == Len(old)
             y == Len(s)
  <2>1. x = c - a /\ y = x + m
    BY <1>4, <1>8, Zenon
  <2> HIDE DEF x, y
  <2>2. (c + m) - a = y /\ c + m \in Nat
    BY <1>1, <2>1
  <2> QED
    BY <2>2 DEF y
<1>10. \A n \in DOMAIN runLog : n <= c + m
  BY <1>1, <1>2, <1>3
<1>11. ASSUME NEW n \in 1..Len(s)
       PROVE  a + n \in DOMAIN runLog /\ a + n <= c + m /\ s[n] = <<a + n, runLog[a + n]>>
  <2>1. CASE n \in 1..Len(old)
    BY <1>1, <1>4, <1>8, <2>1
  <2>2. CASE n > Len(old)
    <3> DEFINE o == Len(old)
    <3>0. o \in Nat /\ c - a = o /\ n \in 1..(o + m) /\ n > o
      BY <1>4, <1>8, <2>2
    <3>1. n - Len(old) \in 1..m /\ n = Len(old) + (n - Len(old)) /\ a + n = c + (n - Len(old))
      <4> HIDE DEF o
      <4>1. n - o \in 1..m /\ n = o + (n - o) /\ a + n = c + (n - o)
        BY <1>1, <3>0
      <4> QED
        BY <4>1 DEF o
    <3> HIDE DEF o
    <3>2. s[n] = <<c + (n - Len(old)), runLog[c + (n - Len(old))]>>
      BY <1>6, <1>8, <3>1
    <3> QED
      BY <1>1, <1>5, <3>1, <3>2
  <2> QED
    BY <1>4, <2>1, <2>2
<1> QED
  BY <1>7, <1>8, <1>9, <1>10, <1>11 DEF a

(* It holds at the start.                                                  *)
LEMMA RunStreamStarts == RunStreamInit => RunStreamInv
<1> SUFFICES ASSUME RunStreamInit PROVE RunStreamInv
  OBVIOUS
<1>1. runStatus \in DOMAIN RunTransitions /\ runWrites \in 0..MaxRunWrites
  BY RunStreamAssumption DEF RunStreamInit, RunTransitions
<1>2. NoHole
  BY RunStreamAssumption DEF RunStreamInit, NoHole
<1>3. runWriter = [w \in RunWriters |-> runWriter[w]] /\ \A w \in RunWriters : WriterFits(runWriter[w])
  BY DEF RunStreamInit, WriterFits, IdleRunWriter
<1>4. /\ tail.pc = "closed" /\ tail.after = 0 /\ tail.cursor = 0 /\ tail.seen = <<>>
      /\ tail.status = "running" /\ tail.due = {}
  BY DEF RunStreamInit, NoTail
<1>5. TailTyped
  <2>1. <<>> \in Seq(Entries) /\ "running" \in DOMAIN RunTransitions
    BY DEF RunTransitions
  <2> QED
    BY <2>1 DEF RunStreamInit, NoTail, TailTyped
<1>6. RunStreamNoGaps /\ DoneCoversLog
  BY <1>4 DEF RunStreamNoGaps, DoneCoversLog
<1> QED
  BY <1>1, <1>2, <1>3, <1>5, <1>6 DEF RunStreamInv

(* A writer that changes, the log and the response standing.               *)
LEMMA WriterStep ==
  ASSUME RunStreamInv, NEW w \in RunWriters, NEW r, WriterFits(r),
         runWriter' = [runWriter EXCEPT ![w] = r],
         runStatus' \in DOMAIN RunTransitions, runWrites' \in 0..MaxRunWrites,
         UNCHANGED <<runLog, tail>>
  PROVE  RunStreamInv'
<1>1. \A v \in RunWriters : runWriter'[v] = IF v = w THEN r ELSE runWriter[v]
  BY DEF RunStreamInv
<1>2. runWriter' = [v \in RunWriters |-> runWriter'[v]]
  BY DEF RunStreamInv
<1>3. \A v \in RunWriters : WriterFits(runWriter[v])'
  BY <1>1 DEF RunStreamInv, WriterFits
<1>4. TailTyped' /\ NoHole' /\ RunStreamNoGaps' /\ DoneCoversLog'
  BY DEF RunStreamInv, TailTyped, Entries, NoHole, RunStreamNoGaps, DoneCoversLog
<1> QED
  BY <1>2, <1>3, <1>4 DEF RunStreamInv

(* What a writer is about to append is set to seq s.                       *)
LEMMA TakenFits ==
  ASSUME NEW r, {"pc", "plan", "seq"} \subseteq DOMAIN r, NEW s \in Nat \ {0},
         s = 1 \/ s - 1 \in DOMAIN runLog
  PROVE  WriterFits([[r EXCEPT !.pc = "append"] EXCEPT !.seq = s])
BY DEF WriterFits

(* The writers' own steps.                                                 *)
LEMMA WritersKeep ==
  ASSUME RunStreamInv, NEW w \in RunWriters,
         (\E to \in DOMAIN RunTransitions : MoveRun(w, to)) \/ ProjectStep(w) \/ TakeSeq(w)
           \/ RunWriterDies(w)
  PROVE  RunStreamInv'
<1>1. WriterFits(IdleRunWriter)
  BY DEF WriterFits, IdleRunWriter
<1>2. ASSUME NEW plan, StartWrite(w, plan), runStatus' \in DOMAIN RunTransitions, UNCHANGED <<runLog, tail>>
      PROVE  RunStreamInv'
  <2> DEFINE r == [IdleRunWriter EXCEPT !.pc = "seq", !.plan = plan]
  <2>1. WriterFits(r)
    BY DEF WriterFits, IdleRunWriter
  <2>2. runWriter' = [runWriter EXCEPT ![w] = r]
    BY <1>2 DEF StartWrite
  <2>3. runWrites' \in 0..MaxRunWrites
    <3>1. runWrites \in 0..MaxRunWrites /\ MaxRunWrites \in Nat /\ runWrites > 0 /\ runWrites' = runWrites - 1
      BY <1>2, RunStreamAssumption DEF StartWrite, RunStreamInv
    <3> QED
      BY <3>1
  <2> HIDE DEF r
  <2> QED
    BY <1>2, <2>1, <2>2, <2>3, WriterStep
<1>3. ASSUME NEW to \in DOMAIN RunTransitions, MoveRun(w, to) PROVE RunStreamInv'
  BY <1>2, <1>3 DEF MoveRun
<1>4. CASE ProjectStep(w)
  BY <1>2, <1>4 DEF ProjectStep, RunStreamInv
<1>5. CASE RunWriterDies(w)
  BY <1>1, <1>5, WriterStep DEF RunWriterDies, RunStreamInv
<1>6. CASE TakeSeq(w)
  <2>1. PICK k \in Nat : DOMAIN runLog = 1..k
    BY RunStreamAssumption DEF RunStreamInv, NoHole
  <2>2. NextSeq \in Nat \ {0} /\ (NextSeq = 1 \/ NextSeq - 1 \in DOMAIN runLog)
    <3> DEFINE m == Max({0} \cup DOMAIN runLog)
    <3>1. \E x \in {0} \cup 1..k : \A y \in {0} \cup 1..k : x >= y
      <4>1. k \in {0} \cup 1..k /\ \A y \in {0} \cup 1..k : k >= y
        OBVIOUS
      <4> QED
        BY <4>1
    <3>2. m \in {0} \cup 1..k
      BY <2>1, <3>1 DEF Max
    <3> HIDE DEF m
    <3>3. NextSeq = 1 + m
      BY DEF NextSeq, m
    <3> QED
      BY <2>1, <3>2, <3>3
  <2> DEFINE r == [[runWriter[w] EXCEPT !.pc = "append"] EXCEPT !.seq = NextSeq]
  <2>3. {"pc", "plan", "seq"} \subseteq DOMAIN runWriter[w]
    BY DEF RunStreamInv, WriterFits
  <2>4. WriterFits(r)
    BY <2>2, <2>3, TakenFits
  <2>5. runWriter' = [runWriter EXCEPT ![w] = r]
    BY <1>6 DEF TakeSeq, RunStreamInv
  <2> HIDE DEF r
  <2> QED
    BY <1>6, <2>4, <2>5, WriterStep DEF TakeSeq, RunStreamInv
<1> QED
  BY <1>3, <1>4, <1>5, <1>6

(* An event appended: the log has no hole, what it had stands, and the     *)
(* writer is one past what it appended.                                    *)
LEMMA AppendRunKeeps ==
  ASSUME RunStreamInv, NEW w \in RunWriters, AppendRunEvent(w)
  PROVE  RunStreamInv'
<1> DEFINE q == runWriter[w].seq
           e == Head(runWriter[w].plan)
<1>1. PICK k \in 0..MaxRunSeq : DOMAIN runLog = 1..k
  BY DEF RunStreamInv, NoHole
<1>2. /\ {"pc", "plan", "seq"} \subseteq DOMAIN runWriter[w]
      /\ q \in Nat \ {0} /\ (q = 1 \/ q - 1 \in DOMAIN runLog) /\ q <= MaxRunSeq
  BY DEF AppendRunEvent, RunStreamInv, WriterFits
<1>3. runLog' = WithEvent(q, e) /\ UNCHANGED <<runStatus, runWrites, tail>>
  BY DEF AppendRunEvent
<1> HIDE DEF q, e
<1>4. /\ DOMAIN runLog' = DOMAIN runLog \cup {q}
      /\ \A n \in DOMAIN runLog : runLog'[n] = runLog[n]
  BY <1>3 DEF WithEvent
<1>5. k \in Nat /\ q \in 1..(k + 1) /\ MaxRunSeq \in Nat /\ k <= MaxRunSeq
  BY <1>1, <1>2, RunStreamAssumption
<1>6. NoHole'
  <2>1. CASE q \in 1..k
    <3>1. DOMAIN runLog' = 1..k
      BY <1>1, <1>4, <2>1
    <3> QED
      BY <3>1 DEF NoHole
  <2>2. CASE q = k + 1
    <3>1. DOMAIN runLog' = 1..(k + 1)
      BY <1>1, <1>4, <1>5, <2>2
    <3>2. k + 1 \in 0..MaxRunSeq
      BY <1>2, <1>5, <2>2
    <3> QED
      BY <3>1, <3>2 DEF NoHole
  <2> QED
    BY <1>5, <2>1, <2>2
<1>7. Entries \subseteq Entries'
  BY <1>4 DEF Entries
<1>8. TailTyped'
  <2>1. tail.seen \in Seq(Entries) => tail.seen \in Seq(Entries')
    BY <1>7
  <2>2. \A s \in SUBSET DOMAIN runLog : s \in SUBSET DOMAIN runLog'
    BY <1>4
  <2> QED
    BY <1>3, <2>1, <2>2 DEF RunStreamInv, TailTyped
<1>9. RunStreamNoGaps' /\ DoneCoversLog'
  BY <1>3, <1>4 DEF RunStreamInv, RunStreamNoGaps, DoneCoversLog
<1>10. ASSUME NEW v \in RunWriters PROVE WriterFits(runWriter[v])'
  <2>1. WriterFits(runWriter[v])
    BY DEF RunStreamInv
  <2>2. CASE v # w
    <3>1. runWriter'[v] = runWriter[v]
      BY <2>2 DEF AppendRunEvent, RunStreamInv
    <3> QED
      BY <1>4, <2>1, <3>1 DEF WriterFits
  <2>3. CASE v = w
    <3> DEFINE r == runWriter[w]
               next == [r EXCEPT !.plan = Tail(r.plan), !.seq = r.seq + 1]
    <3>1. runWriter'[w] = IdleRunWriter \/ runWriter'[w] = next
      <4>1. runWriter'[w] = WritesOn(runWriter[w])
        BY DEF AppendRunEvent, RunStreamInv
      <4> QED
        BY <4>1 DEF WritesOn
    <3>2. {"pc", "plan", "seq"} \subseteq DOMAIN r /\ r.seq = q /\ r.pc \in {"idle", "seq", "append"}
      BY <1>2, <2>1, <2>3 DEF q, WriterFits
    <3> HIDE DEF r
    <3>3. {"pc", "plan", "seq"} \subseteq DOMAIN next /\ next.pc = r.pc /\ next.seq = q + 1
      BY <3>2
    <3> HIDE DEF next
    <3>4. (q + 1) - 1 \in DOMAIN runLog' /\ q + 1 \in Nat \ {0}
      BY <1>2, <1>4
    <3>5. CASE runWriter'[w] = next
      BY <2>3, <3>2, <3>3, <3>4, <3>5 DEF WriterFits
    <3>6. CASE runWriter'[w] = IdleRunWriter
      BY <2>3, <3>6 DEF WriterFits, IdleRunWriter
    <3> QED
      BY <3>1, <3>5, <3>6
  <2> QED
    BY <2>2, <2>3
<1>11. runWriter' = [v \in RunWriters |-> runWriter'[v]]
  BY DEF AppendRunEvent, RunStreamInv
<1> QED
  BY <1>3, <1>6, <1>8, <1>9, <1>10, <1>11 DEF RunStreamInv

(* The response changes, the log and its writers standing.                 *)
LEMMA TailStep ==
  ASSUME RunStreamInv, UNCHANGED <<runStatus, runLog, runWriter, runWrites>>,
         TailTyped', RunStreamNoGaps', DoneCoversLog'
  PROVE  RunStreamInv'
BY DEF RunStreamInv, NoHole, WriterFits

(* The log stands, entry by entry.                                         *)
LEMMA EntriesStand ==
  ASSUME runLog' = runLog
  PROVE  Entries' = Entries /\ DOMAIN runLog' = DOMAIN runLog
BY DEF Entries

(* Events are written out: nothing is missing between the starting point   *)
(* and the cursor, and a response that ends here has what was due.         *)
LEMMA WriteOutKeeps ==
  ASSUME RunStreamInv, NEW p \in {"poll", "done"}, tail.pc \in {"replay", "list"},
         tail' = [Written(tail) EXCEPT !.pc = p], UNCHANGED <<runStatus, runLog, runWriter, runWrites>>
  PROVE  RunStreamInv'
<1> DEFINE a == tail.after
           d == tail.due
<1>1. PICK s \in Seq(Entries), c \in Nat :
        /\ Written(tail) = [tail EXCEPT !.seen = s, !.cursor = c]
        /\ c - a = Len(s)
        /\ \A n \in DOMAIN runLog : n <= c
        /\ \A n \in 1..Len(s) : a + n \in DOMAIN runLog /\ a + n <= c /\ s[n] = <<a + n, runLog[a + n]>>
  BY WrittenFits
<1>2. tail' = [tail EXCEPT !.seen = s, !.cursor = c, !.pc = p]
  BY <1>1
<1>3. /\ TailTyped' /\ tail'.pc = p /\ tail'.after = a /\ tail'.cursor = c /\ tail'.seen = s
      /\ tail'.due = d /\ a \in Nat /\ d \subseteq DOMAIN runLog
  <2>1. /\ tail'.pc = p /\ tail'.after = a /\ tail'.cursor = c /\ tail'.seen = s /\ tail'.due = d
        /\ a \in Nat /\ d \subseteq DOMAIN runLog
    BY <1>2 DEF RunStreamInv, TailTyped
  <2>2. tail' \in [pc : {"closed", "replay", "poll", "list", "done"}, after : Nat, cursor : Nat,
                   seen : Seq(Entries), status : DOMAIN RunTransitions, due : SUBSET DOMAIN runLog]
    BY <1>2 DEF RunStreamInv, TailTyped
  <2> QED
    BY <2>1, <2>2, EntriesStand DEF TailTyped
<1>4. PICK k \in Nat : DOMAIN runLog = 1..k
  BY RunStreamAssumption DEF RunStreamInv, NoHole
<1> HIDE DEF a, d
<1>5. RunStreamNoGaps'
  <2>1. \A n \in 1..Len(s) : a + n > a
    BY <1>3
  <2> QED
    BY <1>1, <1>3, <2>1 DEF RunStreamNoGaps
<1>6. DoneCoversLog'
  <2> SUFFICES ASSUME NEW n \in d, n > a PROVE n - a \in 1..Len(s)
    BY <1>3 DEF DoneCoversLog
  <2>1. n \in 1..k /\ n <= c
    BY <1>1, <1>3, <1>4
  <2> QED
    BY <1>1, <1>3, <2>1
<1> QED
  BY <1>3, <1>5, <1>6, TailStep

(* The client's side.                                                      *)
LEMMA TailKeeps ==
  ASSUME RunStreamInv, (\E after \in AfterSeqs : OpenRunStream(after)) \/ TailSteps \/ CloseRunStream
  PROVE  RunStreamInv'
<1>1. ASSUME NEW after \in AfterSeqs, OpenRunStream(after) PROVE RunStreamInv'
  <2>1. after \in Nat
    BY RunStreamAssumption
  <2>2. UNCHANGED <<runStatus, runLog, runWriter, runWrites>>
    BY <1>1 DEF OpenRunStream
  <2>3. /\ tail' = [NoTail EXCEPT !.pc = "replay", !.after = after, !.cursor = after]
        /\ <<>> \in Seq(Entries') /\ "running" \in DOMAIN RunTransitions
    <3>1. tail' = [NoTail EXCEPT !.pc = "replay", !.after = after, !.cursor = after]
      BY <1>1 DEF OpenRunStream
    <3>2. <<>> \in Seq(Entries')
      OBVIOUS
    <3>3. "running" \in DOMAIN RunTransitions
      BY DEF RunTransitions
    <3> QED
      BY <3>1, <3>2, <3>3
  <2>4. TailTyped'
    BY <2>1, <2>3 DEF NoTail, TailTyped
  <2>5. RunStreamNoGaps' /\ DoneCoversLog'
    BY <2>1, <2>3 DEF NoTail, RunStreamNoGaps, DoneCoversLog
  <2> QED
    BY <2>2, <2>4, <2>5, TailStep
<1>2. ASSUME NEW follow \in BOOLEAN, ReplayRun(follow) PROVE RunStreamInv'
  BY <1>2, WriteOutKeeps DEF ReplayRun
<1>3. CASE ListRun
  BY <1>3, WriteOutKeeps DEF ListRun
<1>4. CASE PollRun
  <2>1. UNCHANGED <<runStatus, runLog, runWriter, runWrites>> /\ runStatus \in DOMAIN RunTransitions
    BY <1>4 DEF PollRun, RunStreamInv
  <2>2. /\ tail' = [tail EXCEPT !.pc = "list", !.status = runStatus, !.due = DOMAIN runLog]
    BY <1>4 DEF PollRun
  <2>3. /\ TailTyped' /\ tail'.pc = "list" /\ tail'.after = tail.after /\ tail'.cursor = tail.cursor
        /\ tail'.seen = tail.seen
    BY <2>1, <2>2, EntriesStand DEF RunStreamInv, TailTyped
  <2>4. RunStreamNoGaps' /\ DoneCoversLog'
    BY <2>1, <2>3 DEF RunStreamInv, RunStreamNoGaps, DoneCoversLog
  <2> QED
    BY <2>1, <2>3, <2>4, TailStep
<1>5. CASE CloseRunStream
  <2>1. UNCHANGED <<runStatus, runLog, runWriter, runWrites>> /\ tail' = [tail EXCEPT !.pc = "closed"]
    BY <1>5 DEF CloseRunStream
  <2>2. /\ TailTyped' /\ tail'.pc = "closed" /\ tail'.after = tail.after /\ tail'.cursor = tail.cursor
        /\ tail'.seen = tail.seen
    BY <2>1 DEF RunStreamInv, TailTyped, Entries
  <2>3. RunStreamNoGaps' /\ DoneCoversLog'
    BY <2>1, <2>2 DEF RunStreamInv, RunStreamNoGaps, DoneCoversLog
  <2> QED
    BY <2>1, <2>2, <2>3, TailStep
<1> QED
  BY <1>1, <1>2, <1>3, <1>4, <1>5 DEF TailSteps

(* Every step keeps the invariant.                                         *)
LEMMA RunStreamStepKeeps == RunStreamInv /\ [RunStreamNext]_runStreamVars => RunStreamInv'
<1> SUFFICES ASSUME RunStreamInv, [RunStreamNext]_runStreamVars PROVE RunStreamInv'
  OBVIOUS
<1>1. ASSUME NEW w \in RunWriters,
             (\E to \in DOMAIN RunTransitions : MoveRun(w, to)) \/ ProjectStep(w) \/ TakeSeq(w)
               \/ AppendRunEvent(w) \/ RunWriterDies(w)
      PROVE  RunStreamInv'
  BY <1>1, WritersKeep, AppendRunKeeps
<1>2. CASE (\E after \in AfterSeqs : OpenRunStream(after)) \/ TailSteps \/ CloseRunStream
  BY <1>2, TailKeeps
<1>3. CASE UNCHANGED runStreamVars
  <2>1. TailTyped' /\ RunStreamNoGaps' /\ DoneCoversLog'
    BY <1>3 DEF runStreamVars, RunStreamInv, TailTyped, Entries, RunStreamNoGaps, DoneCoversLog
  <2> QED
    BY <1>3, <2>1, TailStep DEF runStreamVars
<1> QED
  BY <1>1, <1>2, <1>3 DEF RunStreamNext

-----------------------------------------------------------------------------
(* The pages of the usage ledger.                                          *)

(* The ledger is finite; a row is its id.                                  *)
RowsFit ==
  /\ IsFiniteSet(usageRows)
  /\ \A r \in usageRows : r.id \in Nat /\ r.at \in Nat
  /\ \A r, t \in usageRows : r.id = t.id => r = t

(* Rows S in the order of their time and id; r's place in it.              *)
UpTo(S, r) == {t \in S : t = r \/ Earlier(t, r)}

(* That order is one: of two rows one is earlier, and it has no circle.    *)
LEMMA EarlierOrders ==
  ASSUME RowsFit
  PROVE  /\ \A r, t \in usageRows : r = t \/ Earlier(r, t) \/ Earlier(t, r)
         /\ \A r, t \in usageRows : Earlier(r, t) => r # t /\ ~Earlier(t, r)
         /\ \A r, t, u \in usageRows : Earlier(r, t) /\ Earlier(t, u) => Earlier(r, u)
<1>1. ASSUME NEW r \in usageRows, NEW t \in usageRows PROVE r = t \/ Earlier(r, t) \/ Earlier(t, r)
  BY DEF RowsFit, Earlier
<1>2. ASSUME NEW r \in usageRows, NEW t \in usageRows, Earlier(r, t) PROVE r # t /\ ~Earlier(t, r)
  BY <1>2 DEF RowsFit, Earlier
<1>3. ASSUME NEW r \in usageRows, NEW t \in usageRows, NEW u \in usageRows, Earlier(r, t), Earlier(t, u)
      PROVE  Earlier(r, u)
  BY <1>3 DEF RowsFit, Earlier
<1> QED
  BY <1>1, <1>2, <1>3

(* Places are numbers from 1 to the number of rows, and rise with the      *)
(* order.                                                                  *)
LEMMA PlacesRise ==
  ASSUME RowsFit, NEW S \in SUBSET usageRows
  PROVE  /\ IsFiniteSet(S) /\ Cardinality(S) \in Nat
         /\ \A r \in S : Cardinality(UpTo(S, r)) \in 1..Cardinality(S)
         /\ \A r, t \in S : Earlier(r, t) => Cardinality(UpTo(S, r)) < Cardinality(UpTo(S, t))
<1>1. IsFiniteSet(S) /\ Cardinality(S) \in Nat
  BY FS_Subset, FS_CardinalityType DEF RowsFit
<1>2. ASSUME NEW r \in S
      PROVE  IsFiniteSet(UpTo(S, r)) /\ Cardinality(UpTo(S, r)) \in 1..Cardinality(S)
  <2>1. UpTo(S, r) \subseteq S /\ r \in UpTo(S, r)
    BY DEF UpTo
  <2>2. IsFiniteSet(UpTo(S, r)) /\ Cardinality(UpTo(S, r)) <= Cardinality(S)
    BY <1>1, <2>1, FS_Subset
  <2>3. Cardinality(UpTo(S, r)) \in Nat /\ Cardinality(UpTo(S, r)) # 0
    BY <2>1, <2>2, FS_CardinalityType, FS_EmptySet
  <2> QED
    BY <1>1, <2>2, <2>3
<1>3. ASSUME NEW r \in S, NEW t \in S, Earlier(r, t)
      PROVE  Cardinality(UpTo(S, r)) < Cardinality(UpTo(S, t))
  <2>1. UpTo(S, r) \subseteq UpTo(S, t) /\ t \in UpTo(S, t) /\ t \notin UpTo(S, r)
    BY <1>3, EarlierOrders DEF UpTo
  <2>2. Cardinality(UpTo(S, r)) <= Cardinality(UpTo(S, t)) /\ Cardinality(UpTo(S, r)) # Cardinality(UpTo(S, t))
    BY <1>2, <2>1, FS_Subset
  <2> QED
    BY <1>1, <1>2, <2>2
<1> QED
  BY <1>1, <1>2, <1>3

(* Every place is some row's.                                              *)
LEMMA PlaceTaken ==
  ASSUME RowsFit, NEW S \in SUBSET usageRows, NEW i \in 1..Cardinality(S)
  PROVE  \E r \in S : Cardinality(UpTo(S, r)) = i
<1> DEFINE k == Cardinality(S)
           spot == [r \in S |-> Cardinality(UpTo(S, r))]
<1>1. IsFiniteSet(S) /\ k \in Nat /\ spot \in [S -> 1..k]
  BY PlacesRise
<1>2. \A r, t \in S : r # t => spot[r] # spot[t]
  <2> SUFFICES ASSUME NEW r \in S, NEW t \in S, r # t PROVE spot[r] # spot[t]
    OBVIOUS
  <2>1. Earlier(r, t) \/ Earlier(t, r)
    BY EarlierOrders
  <2>2. spot[r] < spot[t] \/ spot[t] < spot[r]
    BY <2>1, PlacesRise
  <2>3. spot[r] \in 1..k /\ spot[t] \in 1..k
    BY <1>1
  <2> HIDE DEF spot, k
  <2> QED
    BY <1>1, <2>2, <2>3
<1>3. IsFiniteSet(1..k) /\ Cardinality(1..k) = k
  <2> HIDE DEF k
  <2> QED
    BY <1>1, FS_Interval
<1>4. spot \in Surjection(S, 1..k)
  <2>1. spot \in Injection(S, 1..k)
    BY <1>1, <1>2 DEF Injection, IsInjective
  <2> HIDE DEF spot
  <2> QED
    BY <1>1, <1>3, <2>1, FS_Injection DEF k
<1>5. PICK r \in S : spot[r] = i
  BY <1>4 DEF Surjection
<1> QED
  BY <1>5

(* Rows in their order: each once, the earlier first.                      *)
LEMMA ByTimeSorts ==
  ASSUME RowsFit, NEW S \in SUBSET usageRows
  PROVE  /\ ByTime(S) \in Seq(S) /\ Len(ByTime(S)) = Cardinality(S) /\ Cardinality(S) \in Nat
         /\ \A i, j \in 1..Cardinality(S) : i < j => Earlier(ByTime(S)[i], ByTime(S)[j])
         /\ \A r \in S : \E i \in 1..Cardinality(S) : ByTime(S)[i] = r
<1> DEFINE k == Cardinality(S)
           rows == ByTime(S)
           spot(r) == Cardinality(UpTo(S, r))
<1>1. k \in Nat /\ \A r \in S : spot(r) \in 1..k
  BY PlacesRise
<1>2. rows = [i \in 1..k |-> CHOOSE r \in S : spot(r) = i]
  BY DEF ByTime, UpTo
<1>3. \A i \in 1..k : rows[i] \in S /\ spot(rows[i]) = i
  <2> SUFFICES ASSUME NEW i \in 1..k PROVE rows[i] \in S /\ spot(rows[i]) = i
    OBVIOUS
  <2>1. \E r \in S : spot(r) = i
    BY PlaceTaken
  <2>2. rows[i] = CHOOSE r \in S : spot(r) = i
    BY <1>2
  <2> HIDE DEF rows, spot, k
  <2> QED
    BY <2>1, <2>2
<1>4. rows \in [1..k -> S]
  BY <1>2, <1>3
<1>5. rows \in Seq(S) /\ Len(rows) = k
  <2> HIDE DEF rows, k
  <2> QED
    BY <1>1, <1>4, FunctionIsSeq
<1>6. \A r, t \in S : Earlier(r, t) => spot(r) < spot(t)
  BY PlacesRise
<1>7. \A r, t \in S : r = t \/ Earlier(r, t) \/ Earlier(t, r)
  BY EarlierOrders
<1> HIDE DEF rows, spot, k
<1>8. ASSUME NEW i \in 1..k, NEW j \in 1..k, i < j PROVE Earlier(rows[i], rows[j])
  <2>1. rows[i] \in S /\ rows[j] \in S /\ spot(rows[i]) = i /\ spot(rows[j]) = j
    BY <1>3
  <2>2. i \in Nat /\ j \in Nat /\ i # j /\ ~(j < i)
    BY <1>1, <1>8
  <2>3. rows[i] # rows[j] /\ ~Earlier(rows[j], rows[i])
    BY <1>6, <2>1, <2>2
  <2> QED
    BY <1>7, <2>1, <2>3
<1>9. ASSUME NEW r \in S PROVE \E i \in 1..k : rows[i] = r
  <2> DEFINE i == spot(r)
  <2>1. i \in 1..k
    BY <1>1
  <2>2. rows[i] \in S /\ spot(rows[i]) = i
    BY <1>3, <2>1
  <2>3. ~Earlier(rows[i], r) /\ ~Earlier(r, rows[i])
    BY <1>1, <1>6, <2>1, <2>2
  <2> QED
    BY <1>7, <2>1, <2>2, <2>3
<1> QED
  BY <1>1, <1>5, <1>8, <1>9 DEF rows, k


(* The smaller of two numbers.                                             *)
LEMMA MinOfTwo ==
  ASSUME NEW a \in Int, NEW b \in Int
  PROVE  Min({a, b}) = IF a <= b THEN a ELSE b
<1>1. CASE a <= b
  <2>1. a \in {a, b} /\ \A y \in {a, b} : a <= y
    BY <1>1
  <2>2. \A x \in {a, b} : (\A y \in {a, b} : x <= y) => x = a
    BY <1>1
  <2> QED
    BY <1>1, <2>1, <2>2 DEF Min
<1>2. CASE ~(a <= b)
  <2>1. b \in {a, b} /\ \A y \in {a, b} : b <= y
    BY <1>2
  <2>2. \A x \in {a, b} : (\A y \in {a, b} : x <= y) => x = b
    BY <1>2
  <2> QED
    BY <1>2, <2>1, <2>2 DEF Min
<1> QED
  BY <1>1, <1>2

(* The first n of a sequence.                                              *)
LEMMA FirstOf ==
  ASSUME NEW T, NEW s \in Seq(T), NEW n \in Nat, n <= Len(s)
  PROVE  /\ SubSeq(s, 1, n) \in Seq(T) /\ Len(SubSeq(s, 1, n)) = n
         /\ \A i \in 1..n : SubSeq(s, 1, n)[i] = s[i]
<1>1. \A i \in 1..n : s[i] \in T
  OBVIOUS
<1>2. /\ SubSeq(s, 1, n) \in Seq(T) /\ Len(SubSeq(s, 1, n)) = IF 1 <= n THEN n - 1 + 1 ELSE 0
      /\ \A i \in 1..(n - 1 + 1) : SubSeq(s, 1, n)[i] = s[1 + i - 1]
  BY <1>1, SubSeqProperties, 1 \in Int, n \in Int
<1>3. n - 1 + 1 = n /\ \A i \in 1..n : 1 + i - 1 = i
  OBVIOUS
<1>4. Len(SubSeq(s, 1, n)) = n
  BY <1>2, <1>3
<1> QED
  BY <1>2, <1>3, <1>4

(* The rows a page is taken from.                                          *)
Listed(f, cursor) == {r \in usageRows : MatchesUsage(r, f) /\ AfterCursor(r, cursor)}

(* A page is the first rows after its cursor; when it says there is no     *)
(* more, it has them all, and otherwise its own cursor is its last row.    *)
LEMMA PageFits ==
  ASSUME RowsFit, NEW f, NEW cursor, NEW limit \in Nat \ {0}
  PROVE  LET page == QueryEvents(f, cursor, limit) IN
         /\ page.items \in Seq(Listed(f, cursor))
         /\ \A i, j \in 1..Len(page.items) : i < j => Earlier(page.items[i], page.items[j])
         /\ \/ /\ page.next = <<>>
               /\ \A r \in Listed(f, cursor) : \E i \in 1..Len(page.items) : page.items[i] = r
            \/ \E c \in Listed(f, cursor) :
                 /\ page.next = <<c>>
                 /\ \A i \in 1..Len(page.items) : page.items[i] = c \/ Earlier(page.items[i], c)
                 /\ \A r \in Listed(f, cursor) :
                      ~Earlier(c, r) => \E i \in 1..Len(page.items) : page.items[i] = r
<1> DEFINE S == Listed(f, cursor)
           rows == ByTime(S)
           k == Len(rows)
           most == Min({limit, MaxQueryLimit})
           w == Min({k, FetchLimit(limit)})
           fetched == SubSeq(rows, 1, w)
           v == Min({Len(fetched), most})
           items == SubSeq(fetched, 1, v)
           page == QueryEvents(f, cursor, limit)
<1>1. S \in SUBSET usageRows
  BY DEF Listed
<1>2. /\ rows \in Seq(S) /\ k \in Nat
      /\ \A i, j \in 1..k : i < j => Earlier(rows[i], rows[j])
      /\ \A r \in S : \E i \in 1..k : rows[i] = r
  BY <1>1, ByTimeSorts
<1>3. most \in Nat /\ most >= 1 /\ FetchLimit(limit) = most + 1
  <2>1. MaxQueryLimit \in Nat \ {0}
    BY UsageQueryAssumption
  <2>2. most = IF limit <= MaxQueryLimit THEN limit ELSE MaxQueryLimit
    BY <2>1, MinOfTwo
  <2>3. FetchLimit(limit) = most + 1
    BY DEF FetchLimit
  <2> HIDE DEF most
  <2> QED
    BY <2>1, <2>2, <2>3
<1>4. page = [items |-> items, next |-> IF Len(fetched) > most THEN <<Last(items)>> ELSE <<>>]
  BY DEF QueryEvents, Listed
<1> HIDE DEF S, most
<1>5. w = (IF k <= most + 1 THEN k ELSE most + 1) /\ w \in Nat /\ w <= k
  <2>1. w = IF k <= most + 1 THEN k ELSE most + 1
    <3> DEFINE x == FetchLimit(limit)
    <3>1. x \in Int /\ k \in Int /\ x = most + 1
      BY <1>2, <1>3
    <3> HIDE DEF x, k
    <3>2. Min({k, x}) = IF k <= x THEN k ELSE x
      BY <3>1, MinOfTwo
    <3> QED
      BY <3>1, <3>2 DEF x
  <2> HIDE DEF w
  <2> QED
    BY <1>2, <1>3, <2>1
<1>6. fetched \in Seq(S) /\ Len(fetched) = w /\ \A i \in 1..w : fetched[i] = rows[i]
  <2> HIDE DEF w, rows
  <2> QED
    BY <1>2, <1>5, FirstOf
<1>7. v = (IF w <= most THEN w ELSE most) /\ v \in Nat /\ v <= w
  <2>1. v = IF w <= most THEN w ELSE most
    BY <1>3, <1>5, <1>6, MinOfTwo, SMTT(30)
  <2> HIDE DEF v, w
  <2> QED
    BY <1>3, <1>5, <2>1
<1>8. items \in Seq(S) /\ Len(items) = v /\ \A i \in 1..v : items[i] = fetched[i]
  <2> HIDE DEF v, fetched
  <2> QED
    BY <1>6, <1>7, FirstOf
<1> HIDE DEF rows, k, w, fetched, v, items, page
<1>9. \A i \in 1..v : items[i] = rows[i] /\ i \in 1..k
  BY <1>2, <1>5, <1>6, <1>7, <1>8
<1>10. \A i, j \in 1..Len(items) : i < j => Earlier(items[i], items[j])
  BY <1>2, <1>8, <1>9
<1>11. CASE ~(w > most)
  <2>1. page.items = items /\ page.next = <<>>
    BY <1>4, <1>6, <1>11
  <2>2. v = k
    BY <1>2, <1>3, <1>5, <1>7, <1>11
  <2>3. \A r \in S : \E i \in 1..Len(items) : items[i] = r
    BY <1>2, <1>8, <1>9, <2>2
  <2> QED
    BY <1>8, <1>10, <2>1, <2>3 DEF page, S
<1>12. CASE w > most
  <2> DEFINE c == items[v]
  <2>1. v = most /\ v \in 1..v /\ v <= k
    BY <1>2, <1>3, <1>5, <1>7, <1>12
  <2>2. page.items = items /\ page.next = <<c>> /\ c \in S
    BY <1>4, <1>6, <1>8, <1>12, <2>1 DEF Last
  <2>3. \A i \in 1..Len(items) : items[i] = c \/ Earlier(items[i], c)
    <3> SUFFICES ASSUME NEW i \in 1..v, i # v PROVE Earlier(items[i], items[v])
      BY <1>8
    <3>1. i < v
      BY <1>7
    <3> QED
      BY <1>8, <1>10, <2>1, <3>1
  <2>4. ASSUME NEW r \in S, ~Earlier(c, r) PROVE \E i \in 1..Len(items) : items[i] = r
    <3>1. PICK j \in 1..k : rows[j] = r
      BY <1>2
    <3>2. c = rows[v] /\ v \in 1..k
      BY <1>9, <2>1
    <3>3. ~(v < j)
      BY <1>2, <2>4, <3>1, <3>2
    <3>4. j \in 1..v
      BY <1>2, <1>7, <3>3
    <3> QED
      BY <1>8, <1>9, <3>1, <3>4
  <2> HIDE DEF c
  <2> QED
    BY <1>8, <1>10, <2>2, <2>3, <2>4 DEF page, S
<1> QED
  BY <1>11, <1>12

(* Row x is among those returned by reader r.                              *)
Returned(r, x) == \E i \in 1..Len(r.got) : r.got[i] = x

(* What reader r has returned is of its filter, each once and in order.    *)
ReadInOrder(r) ==
  /\ {"pc", "query", "cursor", "got", "base"} \subseteq DOMAIN r
  /\ r.got \in Seq(usageRows) /\ r.base \subseteq usageRows
  /\ \A i, j \in 1..Len(r.got) : i < j => Earlier(r.got[i], r.got[j])
  /\ \A i \in 1..Len(r.got) : MatchesUsage(r.got[i], ParseFilter(r.query))

(* Reader r's cursor is row c: nothing returned is past it, and nothing of *)
(* the filter that was there from the beginning is missing up to it.       *)
CursorAt(r, c) ==
  /\ r.cursor = <<c>>
  /\ \A i \in 1..Len(r.got) : r.got[i] = c \/ Earlier(r.got[i], c)
  /\ \A x \in r.base : MatchesUsage(x, ParseFilter(r.query)) /\ ~Earlier(c, x) => Returned(r, x)

(* Reader r may ask for a page: its first or its next.                     *)
MayRead(r) ==
  /\ QueryLimit(r.query) \in Nat \ {0}
  /\ (r.cursor = <<>> /\ r.got = <<>>) \/ \E c \in usageRows : CursorAt(r, c)

(* A reader between its pages and after the last.                          *)
ReaderFits(r) ==
  /\ ReadInOrder(r)
  /\ r.pc \in {"idle", "walking", "done", "refused"}
  /\ r.pc = "walking" => MayRead(r)
  /\ r.pc = "done" => \A x \in r.base : MatchesUsage(x, ParseFilter(r.query)) => Returned(r, x)

(* A page joined to what a reader has.                                     *)
LEMMA PageJoins ==
  ASSUME RowsFit, NEW r, ReadInOrder(r), MayRead(r)
  PROVE  LET page == QueryEvents(ParseFilter(r.query), r.cursor, QueryLimit(r.query)) IN
         \A q : q = [r EXCEPT !.got = r.got \o page.items, !.cursor = page.next,
                             !.pc = IF page.next = <<>> THEN "done" ELSE "walking"]
               => ReaderFits(q)
<1> DEFINE f == ParseFilter(r.query)
           limit == QueryLimit(r.query)
           page == QueryEvents(f, r.cursor, limit)
           items == page.items
           next == page.next
           p == IF next = <<>> THEN "done" ELSE "walking"
           old == r.got
           g == old \o items
           S == Listed(f, r.cursor)
<1> HIDE DEF page
<1> SUFFICES ASSUME NEW q, q = [r EXCEPT !.got = g, !.cursor = next, !.pc = p] PROVE ReaderFits(q)
  BY DEF page
<1>1. /\ items \in Seq(S) /\ \A i, j \in 1..Len(items) : i < j => Earlier(items[i], items[j])
      /\ \/ /\ next = <<>>
            /\ \A x \in S : \E i \in 1..Len(items) : items[i] = x
         \/ \E c \in S :
              /\ next = <<c>>
              /\ \A i \in 1..Len(items) : items[i] = c \/ Earlier(items[i], c)
              /\ \A x \in S : ~Earlier(c, x) => \E i \in 1..Len(items) : items[i] = x
  BY PageFits DEF MayRead, page
<1>2. S \subseteq usageRows /\ \A x \in S : MatchesUsage(x, f) /\ AfterCursor(x, r.cursor)
  BY DEF Listed
<1>3. /\ old \in Seq(usageRows) /\ r.base \subseteq usageRows
      /\ \A i, j \in 1..Len(old) : i < j => Earlier(old[i], old[j])
      /\ \A i \in 1..Len(old) : MatchesUsage(old[i], f)
  BY DEF ReadInOrder
<1>4. /\ {"pc", "query", "cursor", "got", "base"} \subseteq DOMAIN q
      /\ q.got = g /\ q.cursor = next /\ q.pc = p /\ q.base = r.base /\ q.query = r.query
  <2> HIDE DEF g, next, p
  <2> QED
    BY DEF ReadInOrder
<1> DEFINE n == Len(old)
           m == Len(items)
<1>5. /\ n \in Nat /\ m \in Nat /\ g \in Seq(usageRows) /\ Len(g) = n + m
      /\ \A i \in 1..n : i \in 1..(n + m) /\ g[i] = old[i]
      /\ \A i \in 1..m : n + i \in 1..(n + m) /\ g[n + i] = items[i]
      /\ \A i \in 1..(n + m) : i \in 1..n \/ \E j \in 1..m : i = n + j
  <2>1. items \in Seq(usageRows)
    BY <1>1, <1>2
  <2>2. /\ g \in Seq(usageRows) /\ Len(g) = n + m
        /\ \A i \in 1..(n + m) : g[i] = IF i <= n THEN old[i] ELSE items[i - n]
    BY <1>3, <2>1, ConcatProperties
  <2>3. n \in Nat /\ m \in Nat
    BY <1>3, <2>1
  <2> HIDE DEF g, n, m, old, items
  <2>4. \A i \in 1..m : n + i \in 1..(n + m) /\ ~(n + i <= n) /\ (n + i) - n = i
    BY <2>3
  <2>5. \A i \in 1..(n + m) : i \in 1..n \/ (i - n \in 1..m /\ i = n + (i - n))
    BY <2>3
  <2>6. \A i \in 1..n : i \in 1..(n + m) /\ i <= n
    BY <2>3
  <2> QED
    BY <2>2, <2>3, <2>4, <2>5, <2>6
<1>6. \A i \in 1..n : old[i] \in usageRows
  BY <1>3
<1>7. \A i \in 1..m : items[i] \in S
  BY <1>1
<1> HIDE DEF old, items, next, g, n, m, S, p
<1>8. ASSUME NEW c \in usageRows, CursorAt(r, c)
      PROVE  /\ \A i \in 1..n : old[i] = c \/ Earlier(old[i], c)
             /\ \A x \in r.base : MatchesUsage(x, f) /\ ~Earlier(c, x) => \E i \in 1..n : old[i] = x
             /\ \A x : AfterCursor(x, r.cursor) <=> Earlier(c, x)
  BY <1>8 DEF CursorAt, Returned, AfterCursor, old, n
<1>9. \A i \in 1..n, x \in S : Earlier(old[i], x)
  <2> SUFFICES ASSUME NEW i \in 1..n, NEW x \in S PROVE Earlier(old[i], x)
    OBVIOUS
  <2>1. CASE r.cursor = <<>> /\ r.got = <<>>
    BY <2>1 DEF n, old
  <2>2. ASSUME NEW c \in usageRows, CursorAt(r, c) PROVE Earlier(old[i], x)
    BY <1>2, <1>6, <1>8, <2>2, EarlierOrders
  <2> QED
    BY <2>1, <2>2 DEF MayRead
<1>10. \A x \in r.base : MatchesUsage(x, f) => x \in S \/ \E i \in 1..n : old[i] = x
  <2> SUFFICES ASSUME NEW x \in r.base, MatchesUsage(x, f), x \notin S PROVE \E i \in 1..n : old[i] = x
    OBVIOUS
  <2>1. ~AfterCursor(x, r.cursor)
    BY <1>3 DEF S, Listed
  <2>2. PICK c \in usageRows : CursorAt(r, c)
    BY <2>1 DEF AfterCursor, MayRead
  <2> QED
    BY <1>8, <2>1, <2>2
<1>11. ReadInOrder(q)
  <2>1. ASSUME NEW i \in 1..(n + m), NEW j \in 1..(n + m), i < j PROVE Earlier(g[i], g[j])
    <3>1. CASE j \in 1..n
      <4>1. i \in 1..n
        BY <1>5, <2>1, <3>1
      <4> QED
        BY <1>3, <1>5, <2>1, <3>1, <4>1 DEF n
    <3>2. ASSUME NEW a \in 1..m, j = n + a PROVE Earlier(g[i], g[j])
      <4>1. CASE i \in 1..n
        BY <1>5, <1>7, <1>9, <3>2, <4>1
      <4>2. ASSUME NEW b \in 1..m, i = n + b PROVE Earlier(g[i], g[j])
        <5>1. b < a
          BY <1>5, <2>1, <3>2, <4>2
        <5> QED
          BY <1>1, <1>5, <3>2, <4>2, <5>1 DEF m
      <4> QED
        BY <1>5, <4>1, <4>2
    <3> QED
      BY <1>5, <3>1, <3>2
  <2>2. ASSUME NEW i \in 1..(n + m) PROVE MatchesUsage(g[i], f)
    BY <1>2, <1>3, <1>5, <1>7 DEF n
  <2> QED
    BY <1>3, <1>4, <1>5, <2>1, <2>2 DEF ReadInOrder
<1>12. \A x : (\E i \in 1..n : old[i] = x) \/ (\E i \in 1..m : items[i] = x) => Returned(q, x)
  BY <1>4, <1>5 DEF Returned
<1>13. CASE next = <<>>
  <2>1. \A x \in r.base : MatchesUsage(x, f) => Returned(q, x)
    BY <1>1, <1>10, <1>12, <1>13 DEF m
  <2> QED
    BY <1>4, <1>11, <1>13, <2>1 DEF ReaderFits, p
<1>14. CASE next # <<>>
  <2>1. PICK c \in S :
          /\ next = <<c>>
          /\ \A i \in 1..m : items[i] = c \/ Earlier(items[i], c)
          /\ \A x \in S : ~Earlier(c, x) => \E i \in 1..m : items[i] = x
    BY <1>1, <1>14 DEF m
  <2>2. \A i \in 1..(n + m) : g[i] = c \/ Earlier(g[i], c)
    BY <1>5, <1>9, <2>1
  <2>3. \A x \in r.base : MatchesUsage(x, f) /\ ~Earlier(c, x) => Returned(q, x)
    BY <1>10, <1>12, <2>1
  <2>4. CursorAt(q, c) /\ c \in usageRows
    BY <1>2, <1>4, <1>5, <2>1, <2>2, <2>3 DEF CursorAt
  <2>5. QueryLimit(q.query) \in Nat \ {0}
    BY <1>4 DEF MayRead
  <2> QED
    BY <1>4, <1>11, <1>14, <2>4, <2>5 DEF ReaderFits, MayRead, p
<1> QED
  BY <1>13, <1>14

(* The inductive invariant of the ledger and its readers.                  *)
UsageInv ==
  /\ RowsFit
  /\ usageClock \in Nat
  /\ recording = [w \in Recorders |-> recording[w]]
  /\ \A w \in Recorders : {"pc", "input", "now"} \subseteq DOMAIN recording[w] /\ recording[w].now \in Nat
  /\ reading = [d \in UsageReaders |-> reading[d]]
  /\ \A d \in UsageReaders : ReaderFits(reading[d])

(* It holds at the start.                                                  *)
LEMMA UsageStarts == UsageQueryInit => UsageInv
<1> SUFFICES ASSUME UsageQueryInit PROVE UsageInv
  OBVIOUS
<1>1. RowsFit /\ usageClock \in Nat
  BY FS_EmptySet DEF UsageQueryInit, RowsFit
<1>2. ASSUME NEW d \in UsageReaders PROVE ReaderFits(reading[d])
  <2>1. reading[d] = IdleReader
    BY DEF UsageQueryInit
  <2>2. /\ {"pc", "query", "cursor", "got", "base"} \subseteq DOMAIN IdleReader
        /\ IdleReader.got = <<>> /\ IdleReader.base = {} /\ IdleReader.pc = "idle"
    BY DEF IdleReader
  <2>3. <<>> \in Seq(usageRows) /\ Len(<<>>) = 0
    OBVIOUS
  <2> QED
    BY <2>1, <2>2, <2>3 DEF ReaderFits, ReadInOrder
<1> QED
  BY <1>1, <1>2 DEF UsageQueryInit, UsageInv, IdleRecorder

(* What the ledger gains takes nothing from its readers.                   *)
LEMMA ReadersStand ==
  ASSUME UsageInv, RowsFit', usageRows \subseteq usageRows', reading' = reading,
         usageClock' \in Nat, recording' = [w \in Recorders |-> recording'[w]],
         \A w \in Recorders : {"pc", "input", "now"} \subseteq DOMAIN recording'[w] /\ recording'[w].now \in Nat
  PROVE  UsageInv'
<1>1. ASSUME NEW d \in UsageReaders PROVE ReaderFits(reading[d])'
  <2>1. ReaderFits(reading[d])
    BY DEF UsageInv
  <2>2. ReadInOrder(reading[d])'
    <3>1. reading[d].got \in Seq(usageRows')
      BY <2>1 DEF ReaderFits, ReadInOrder
    <3> QED
      BY <2>1, <3>1 DEF ReaderFits, ReadInOrder
  <2>3. MayRead(reading[d]) => MayRead(reading[d])'
    BY DEF MayRead, CursorAt, Returned
  <2> QED
    BY <2>1, <2>2, <2>3 DEF ReaderFits, Returned
<1> QED
  BY <1>1 DEF UsageInv

(* A recorder inserts its row, or finds the fact recorded.                 *)
LEMMA InsertKeeps ==
  ASSUME UsageInv, NEW w \in Recorders, InsertUsage(w)
  PROVE  UsageInv'
<1> DEFINE i == recording[w].input
           now == recording[w].now
<1>1. now \in Nat
  BY DEF UsageInv
<1>2. /\ recording' = [recording EXCEPT ![w] = IdleRecorder] /\ UNCHANGED <<usageClock, reading>>
      /\ \/ usageRows' = usageRows
         \/ \E id \in RowIds \ {r.id : r \in usageRows} : usageRows' = usageRows \cup {UsageRow(i, id, now)}
  BY DEF InsertUsage
<1> HIDE DEF i, now
<1>3. RowsFit' /\ usageRows \subseteq usageRows'
  <2>1. CASE usageRows' = usageRows
    BY <2>1 DEF UsageInv, RowsFit
  <2>2. ASSUME NEW id \in RowIds \ {r.id : r \in usageRows},
               usageRows' = usageRows \cup {UsageRow(i, id, now)}
        PROVE  RowsFit' /\ usageRows \subseteq usageRows'
    <3> DEFINE new == UsageRow(i, id, now)
    <3>1. new.id = id /\ new.at = now /\ id \in Nat
      BY UsageQueryAssumption DEF UsageRow, RowIds
    <3>2. \A r \in usageRows : r.id # id
      OBVIOUS
    <3> HIDE DEF new
    <3>3. usageRows' = usageRows \cup {new}
      BY <2>2 DEF new
    <3>4. IsFiniteSet(usageRows')
      BY <3>3, FS_AddElement DEF UsageInv, RowsFit
    <3>5. \A r \in usageRows' : r.id \in Nat /\ r.at \in Nat
      BY <1>1, <3>1, <3>3 DEF UsageInv, RowsFit
    <3>6. \A r, t \in usageRows' : r.id = t.id => r = t
      BY <3>1, <3>2, <3>3 DEF UsageInv, RowsFit
    <3> QED
      BY <3>3, <3>4, <3>5, <3>6 DEF RowsFit
  <2> QED
    BY <1>2, <2>1, <2>2
<1>4. recording' = [v \in Recorders |-> recording'[v]]
  BY <1>2 DEF UsageInv
<1>5. \A v \in Recorders : {"pc", "input", "now"} \subseteq DOMAIN recording'[v] /\ recording'[v].now \in Nat
  <2> SUFFICES ASSUME NEW v \in Recorders
               PROVE  {"pc", "input", "now"} \subseteq DOMAIN recording'[v] /\ recording'[v].now \in Nat
    OBVIOUS
  <2>1. recording'[v] = IF v = w THEN IdleRecorder ELSE recording[v]
    BY <1>2 DEF UsageInv
  <2> QED
    BY <2>1 DEF UsageInv, IdleRecorder
<1> QED
  BY <1>2, <1>3, <1>4, <1>5, ReadersStand DEF UsageInv

(* A reader gets a page, or is refused.                                    *)
LEMMA ReaderStep ==
  ASSUME UsageInv, NEW d \in UsageReaders, NEW r, ReaderFits(r),
         reading' = [reading EXCEPT ![d] = r], UNCHANGED <<usageRows, usageClock, recording>>
  PROVE  UsageInv'
<1>1. \A e \in UsageReaders : reading'[e] = IF e = d THEN r ELSE reading[e]
  BY DEF UsageInv
<1>2. \A e \in UsageReaders : ReaderFits(reading'[e])
  BY <1>1 DEF UsageInv
<1>3. \A e \in UsageReaders : ReaderFits(reading[e])'
  BY <1>2 DEF ReaderFits, ReadInOrder, MayRead, CursorAt, Returned
<1> QED
  BY <1>3 DEF UsageInv, RowsFit

(* The rows of one page.                                                   *)
LEMMA WithPageKeeps ==
  ASSUME UsageInv, NEW d \in UsageReaders, NEW r, ReadInOrder(r), MayRead(r), WithPage(d, r),
         UNCHANGED <<usageRows, usageClock, recording>>
  PROVE  UsageInv'
<1> DEFINE page == QueryEvents(ParseFilter(r.query), r.cursor, QueryLimit(r.query))
           q == [r EXCEPT !.got = r.got \o page.items, !.cursor = page.next,
                          !.pc = IF page.next = <<>> THEN "done" ELSE "walking"]
<1>1. ReaderFits(q)
  BY PageJoins DEF UsageInv
<1>2. reading' = [reading EXCEPT ![d] = q]
  BY DEF WithPage
<1> HIDE DEF q
<1> QED
  BY <1>1, <1>2, ReaderStep

(* A first page, a next page.                                              *)
LEMMA ReadersKeep ==
  ASSUME UsageInv, NEW d \in UsageReaders,
         GetNextPage(d) \/ \E q \in UsageQueries : GetUsage(d, q)
  PROVE  UsageInv'
<1>1. CASE GetNextPage(d)
  BY <1>1, WithPageKeeps DEF GetNextPage, UsageInv, ReaderFits
<1>2. ASSUME NEW q \in UsageQueries, GetUsage(d, q) PROVE UsageInv'
  <2> DEFINE asking == [IdleReader EXCEPT !.query = q, !.base = usageRows]
             refused == [asking EXCEPT !.pc = "refused"]
  <2>1. /\ \/ QueryAllowed(q) /\ WithPage(d, asking)
           \/ reading' = [reading EXCEPT ![d] = refused]
        /\ UNCHANGED <<usageRows, usageClock, recording>>
    BY <1>2, Zenon DEF GetUsage
  <2>2. /\ {"pc", "query", "cursor", "got", "base"} \subseteq DOMAIN asking
        /\ asking.query = q /\ asking.base = usageRows /\ asking.got = <<>> /\ asking.cursor = <<>>
        /\ {"pc", "query", "cursor", "got", "base"} \subseteq DOMAIN refused
        /\ refused.query = q /\ refused.base = usageRows /\ refused.got = <<>> /\ refused.pc = "refused"
    BY DEF IdleReader
  <2> HIDE DEF asking, refused
  <2>3. <<>> \in Seq(usageRows) /\ Len(<<>>) = 0
    OBVIOUS
  <2>4. ReadInOrder(asking) /\ ReaderFits(refused)
    BY <2>2, <2>3 DEF ReadInOrder, ReaderFits
  <2>5. CASE QueryAllowed(q) /\ WithPage(d, asking)
    <3>1. QueryLimit(q) \in Nat \ {0}
      BY <2>5, UsageQueryAssumption DEF QueryAllowed, LimitAllowed, QueryLimit
    <3>2. MayRead(asking)
      BY <2>2, <3>1 DEF MayRead
    <3> QED
      BY <2>1, <2>4, <2>5, <3>2, WithPageKeeps
  <2>6. CASE reading' = [reading EXCEPT ![d] = refused]
    BY <2>1, <2>4, <2>6, ReaderStep
  <2> QED
    BY <2>1, <2>5, <2>6
<1> QED
  BY <1>1, <1>2

(* Every step keeps the invariant.                                         *)
LEMMA UsageStepKeeps == UsageInv /\ [UsageQueryNext]_usageVars => UsageInv'
<1> SUFFICES ASSUME UsageInv, [UsageQueryNext]_usageVars PROVE UsageInv'
  OBVIOUS
<1>1. CASE UsageTick
  <2>1. /\ usageClock' = usageClock + 1 /\ usageRows' = usageRows /\ recording' = recording /\ reading' = reading
        /\ usageClock \in Nat
    BY <1>1 DEF UsageTick, UsageInv
  <2> QED
    BY <2>1, ReadersStand DEF UsageInv, RowsFit
<1>2. ASSUME NEW w \in Recorders, NEW i \in UsageInputs, StampUsage(w, i) PROVE UsageInv'
  <2> DEFINE r == [pc |-> "stamped", input |-> i, now |-> usageClock]
  <2>1. /\ recording' = [recording EXCEPT ![w] = r] /\ usageRows' = usageRows /\ reading' = reading
        /\ usageClock' = usageClock
    BY <1>2 DEF StampUsage
  <2>2. {"pc", "input", "now"} \subseteq DOMAIN r /\ r.now \in Nat
    BY DEF UsageInv
  <2> HIDE DEF r
  <2>3. /\ recording' = [v \in Recorders |-> recording'[v]]
        /\ \A v \in Recorders : recording'[v] = IF v = w THEN r ELSE recording[v]
    BY <2>1 DEF UsageInv
  <2>4. \A v \in Recorders : {"pc", "input", "now"} \subseteq DOMAIN recording'[v] /\ recording'[v].now \in Nat
    BY <2>2, <2>3 DEF UsageInv
  <2> QED
    BY <2>1, <2>3, <2>4, ReadersStand DEF UsageInv, RowsFit
<1>3. ASSUME NEW w \in Recorders, InsertUsage(w) PROVE UsageInv'
  BY <1>3, InsertKeeps
<1>4. ASSUME NEW d \in UsageReaders, GetNextPage(d) \/ \E q \in UsageQueries : GetUsage(d, q) PROVE UsageInv'
  BY <1>4, ReadersKeep
<1>5. CASE UNCHANGED usageVars
  BY <1>5, ReadersStand DEF usageVars, UsageInv, RowsFit
<1> QED
  BY <1>1, <1>2, <1>3, <1>4, <1>5 DEF UsageQueryNext

-----------------------------------------------------------------------------
(* Both kinds of followers, with everything else that moves.               *)

(* What the followers are kept by.                                         *)
FollowersInv == StreamInv /\ RunStreamInv

(* The followers' inductive invariants hold in every state, whatever else  *)
(* moves: what was yielded, queued and published of a job's log, and an    *)
(* automation run's log without a hole (runner.ts streamEvents, store.ts   *)
(* appendEvent).                                                           *)
THEOREM FollowersKept == ProgressSpec => []FollowersInv
<1>1. ProgressInit => FollowersInv
  BY StreamStarts, RunStreamStarts DEF ProgressInit, FollowersInv
<1>2. FollowersInv /\ [ProgressNext]_<<focus, gcVars, admissionVars, opsVars, schedulerVars, streamVars,
                                      runStreamVars, usageVars>>
        => FollowersInv'
  <2> SUFFICES ASSUME FollowersInv,
                      [ProgressNext]_<<focus, gcVars, admissionVars, opsVars, schedulerVars, streamVars,
                                       runStreamVars, usageVars>>
               PROVE  FollowersInv'
    OBVIOUS
  <2>1. [StreamNext]_streamVars /\ [RunStreamNext]_runStreamVars
    BY DEF ProgressNext
  <2> QED
    BY <2>1, StreamStepKeeps, RunStreamStepKeeps DEF FollowersInv
<1> QED
  BY <1>1, <1>2, PTL DEF ProgressSpec

(* Followers see all: a job's follower its process's events once and in    *)
(* order, an automation run's the log without a gap and to the end it is   *)
(* told of, for every length of the logs and every number of writers       *)
(* (runner.ts streamEvents, phase2b-routes.ts).                            *)
THEOREM FollowersAlwaysSeeAll == ProgressSpec => []FollowersSeeAll
<1>1. FollowersInv => FollowersSeeAll
  BY DEF FollowersInv, FollowersSeeAll, StreamInv, Shown, RunStreamInv
<1> QED
  BY <1>1, FollowersKept, PTL

-----------------------------------------------------------------------------
(* The readers of the usage ledger, with everything else that moves.       *)

(* The ledger is keyed by what it orders its rows by, and every reader's   *)
(* pages are, in every state and whatever is recorded between two of them, *)
(* the rows of its filter up to its cursor (metering/store.ts queryEvents).*)
THEOREM PagesKept == ProgressSpec => []UsageInv
<1>1. ProgressInit => UsageInv
  BY UsageStarts DEF ProgressInit
<1>2. UsageInv /\ [ProgressNext]_<<focus, gcVars, admissionVars, opsVars, schedulerVars, streamVars,
                                   runStreamVars, usageVars>>
        => UsageInv'
  <2> SUFFICES ASSUME UsageInv,
                      [ProgressNext]_<<focus, gcVars, admissionVars, opsVars, schedulerVars, streamVars,
                                       runStreamVars, usageVars>>
               PROVE  UsageInv'
    OBVIOUS
  <2>1. [UsageQueryNext]_usageVars
    BY DEF ProgressNext
  <2> QED
    BY <2>1, UsageStepKeeps
<1> QED
  BY <1>1, <1>2, PTL DEF ProgressSpec

(* A client that followed the cursors to the end has every row that was    *)
(* there when it began, each once and in order, and none of another        *)
(* tenant, for every page size, every number of rows and every recorder    *)
(* in between (metering/store.ts:221-229).                                 *)
THEOREM WalksAlwaysRight == ProgressSpec => [](WalkIsComplete /\ WalkInOrderOnce)
<1>1. UsageInv => WalkIsComplete /\ WalkInOrderOnce
  <2> SUFFICES ASSUME UsageInv, NEW d \in UsageReaders
               PROVE  /\ reading[d].pc = "done" =>
                           LET f == ParseFilter(reading[d].query) IN
                             /\ \A r \in reading[d].base : MatchesUsage(r, f) => r \in ToSet(reading[d].got)
                             /\ \A r \in ToSet(reading[d].got) : MatchesUsage(r, f)
                      /\ \A m, n \in 1..Len(reading[d].got) :
                           m < n => Earlier(reading[d].got[m], reading[d].got[n])
    BY DEF WalkIsComplete, WalkInOrderOnce
  <2>1. ReaderFits(reading[d])
    BY DEF UsageInv
  <2> DEFINE g == reading[d].got
  <2>2. g \in Seq(usageRows) /\ ToSet(g) = {g[i] : i \in 1..Len(g)}
    BY <2>1 DEF ReaderFits, ReadInOrder, ToSet
  <2> QED
    BY <2>1, <2>2 DEF ReaderFits, ReadInOrder, Returned
<1> QED
  BY <1>1, PagesKept, PTL

-----------------------------------------------------------------------------
(***************************************************************************)
(* The workspace of a job.  Captures of the local and the remote provider  *)
(* have numbers of their own, so what one writes no other names; in docker *)
(* a number may come again, and the mark tells.  A restore finds what its  *)
(* validation saw, for nobody fills a capture that a record names.         *)
(***************************************************************************)
Contents == [Files -> Nat]

(* A sandbox, a capture, what the record names, and the steps and fields   *)
(* of a call.                                                              *)
Box == [status : {"provisioning", "running", "suspended", "terminated", "gone"}, files : Contents]
Image == [files : Contents, whole : BOOLEAN]
Reference == [tag : 0..MaxImages, sum : Contents, steps : Nat]
EnvSteps ==
  {"idle", "create", "provision", "start", "resume", "decide", "capture", "copy", "manifest", "image",
   "imageId", "keep", "hold", "park", "acquire", "validate", "wipe", "back", "materialize", "attach", "dispose"}
EnvCall ==
  [op : {"none", "suspend", "recover", "destroy"}, pc : EnvSteps, attempt : Nat, ref : Reference,
   steps : Nat, risk : {"none", "high"},
   box : Nat, tag : 0..MaxImages, file : Files, sum : Contents, alone : BOOLEAN]

(* The types; the list of sandboxes, versions and attempts are unbounded.  *)
EnvTyped ==
  /\ place \in Places
  /\ envJob \in [attempt : Nat, status : {"running", "suspended", "ended"}, ref : Reference, steps : Nat]
  /\ boxes \in Seq(Box)
  /\ images \in [1..MaxImages -> Image]
  /\ tags \in [EnvProcs -> 0..MaxImages]
  /\ envCall \in [EnvProcs -> EnvCall]
  /\ engine \in [EnvProcs -> Nat]
  /\ written \in Nat

(* The steps a deployment knows.                                           *)
StepsOfPlace ==
  \A p \in EnvProcs :
    /\ envCall[p].pc \in {"copy", "manifest", "wipe", "back"} => Local
    /\ envCall[p].pc \in {"provision", "start", "resume"} => ~Local
    /\ envCall[p].pc = "image" => ~Local /\ envCall[p].box \in 1..Len(boxes)
    /\ envCall[p].pc = "imageId" => place.provider = "docker"
    /\ envCall[p].pc = "materialize" => place.provider = "fake"

(* Of the sandboxes of the job's name only the last may be there, but for  *)
(* the ones a remote restore adds.                                         *)
OneSandbox ==
  /\ Len(boxes) >= 1
  /\ place.provider # "fake" \/ "restored" \notin marks
       => \A i \in 1..Len(boxes) : i < Len(boxes) => boxes[i].status = "gone"
  /\ Local => Len(boxes) = 1
  /\ place.provider = "fake" => \A i \in 1..Len(boxes) : boxes[i].status # "gone"

(* The steps that fill a capture, and with the one that keeps its          *)
(* reference.                                                              *)
Filling == {"copy", "manifest", "image"}
Capturing == Filling \cup {"keep"}

(* Where numbers are not given again, no two captures have the same, and   *)
(* no reference names one that is being filled.                            *)
CapturesApart ==
  place.provider # "docker" =>
    /\ \A p, q \in EnvProcs : tags[p] = tags[q] /\ envCall[p].tag <= tags[q]
                                /\ envCall[p].ref.tag <= tags[q] /\ envJob.ref.tag <= tags[q]
    /\ \A p, q \in EnvProcs :
         p # q /\ envCall[p].pc \in Capturing /\ envCall[q].pc \in Capturing
           => envCall[p].tag # envCall[q].tag
    /\ \A p, q \in EnvProcs :
         envCall[p].pc \in Filling => envJob.ref.tag # envCall[p].tag /\ envCall[q].ref.tag # envCall[p].tag

(* A tag is a number of a capture when one is being taken or named.        *)
CapturesNumbered ==
  /\ \A p \in EnvProcs : envCall[p].pc \in Capturing \cup {"imageId"} => envCall[p].tag # 0
  /\ envJob.ref.tag = 0 => envJob.ref = NoRef
  /\ \A p \in EnvProcs :
       /\ envCall[p].ref.tag = 0 => envCall[p].ref = NoRef
       /\ envCall[p].pc \in {"validate", "wipe", "back", "materialize"} => envCall[p].ref.tag # 0

(* Nothing took bytes of a capture away: no rot, no disposal, no second    *)
(* use of a tag.                                                           *)
Unspoilt == marks \cap {"rotten", "disposed", "retagged"} = {}

(* A capture is whole and has these contents.                              *)
Stands(tag, sum) == images[tag].whole /\ images[tag].files = sum

(* What the record names is whole and as it was summed, and so is what is  *)
(* about to be recorded.                                                   *)
CapturesWhole ==
  Unspoilt =>
    /\ envJob.ref # NoRef => Stands(envJob.ref.tag, envJob.ref.sum)
    /\ \A p \in EnvProcs :
         /\ envCall[p].pc = "keep" => Stands(envCall[p].tag, envCall[p].sum)
         /\ envCall[p].pc = "imageId" => images[envCall[p].tag].whole

(* What a restore is about to copy is what it validated, or was removed.   *)
Restoring ==
  \A p \in EnvProcs :
    /\ envCall[p].pc \in {"acquire", "validate", "wipe"} => envCall[p].file = 1
    /\ envCall[p].pc \in {"wipe", "back", "materialize"} =>
         \/ Local /\ images[envCall[p].ref.tag] = NoImage
         \/ images[envCall[p].ref.tag].files = envCall[p].ref.sum
    /\ envCall[p].pc = "back" =>
         /\ envCall[p].box = 1 /\ "restored" \in marks
         /\ envCall[p].file = 2 /\ envCall[p].alone => boxes[1].files[1] = envCall[p].ref.sum[1]

(* No restore, no loss and no disposal.                                    *)
Unharmed == marks \cap {"restored", "lost", "disposed"} = {}

(* Until then the sandbox is there with all that was surely written.       *)
NothingLost ==
  Unharmed =>
    /\ Len(boxes) = 1 /\ boxes[1].status # "gone" /\ sure \in Contents
    /\ \A f \in Files : sure[f] <= boxes[1].files[f] /\ boxes[1].files[f] <= written

(* A sandbox that computes nothing: ended, or of docker and never started. *)
Down(i) ==
  \/ boxes[i].status \in {"terminated", "gone"}
  \/ place.provider = "docker" /\ boxes[i].status = "provisioning"

(* A job nobody else was at work on when it ended is left alone.           *)
EndedAlone ==
  "raced" \notin marks =>
    /\ \A p, q \in EnvProcs :
         envCall[p].pc = "dispose" => envJob.status = "ended" /\ (p # q => envCall[q].pc = "idle")
    /\ "disposed" \in marks => envJob.status = "ended" /\ \A p \in EnvProcs : envCall[p].pc = "idle"

(* What such an end disposed of stays down.                                *)
StaysDown ==
  "disposed" \in marks /\ "raced" \notin marks /\ (place.provider # "fake" \/ "restored" \notin marks)
    => \A i \in 1..Len(boxes) : Down(i)

(* The invariant.                                                          *)
EnvKept ==
  /\ EnvTyped /\ StepsOfPlace /\ OneSandbox
  /\ CapturesApart /\ CapturesNumbered /\ CapturesWhole
  /\ Restoring /\ NothingLost /\ EndedAlone /\ StaysDown

(* A non-empty set of natural numbers has a least one.                     *)
LEMMA SmallestNat ==
  ASSUME NEW T, T \subseteq Nat, T # {}
  PROVE  \E x \in T : \A y \in T : x <= y
<1>1. PICK x \in T : \A y \in T : ~(<<y, x>> \in OpToRel(<, Nat))
  BY NatLessThanWellFounded, WFMin
<1>2. ASSUME NEW y \in T PROVE x <= y
  <2>1. y \in Nat /\ x \in Nat
    OBVIOUS
  <2>2. y < x => <<y, x>> \in OpToRel(<, Nat)
    BY <2>1 DEF OpToRel
  <2>3. ~(y < x)
    BY <1>1, <2>2, Zenon
  <2> QED
    BY <2>1, <2>3
<1> QED
  BY <1>2

(* EnvKept holds at the beginning, in every deployment.                    *)
LEMMA EnvInitKept == EnvInit => EnvKept
<1> SUFFICES ASSUME EnvInit PROVE EnvKept
  OBVIOUS
<1>0. MaxImages \in Nat
  BY EnvAssumption
<1>1. Empty \in Contents /\ NoRef \in Reference /\ NoImage \in Image
  BY <1>0 DEF Empty, Contents, Files, NoRef, Reference, NoImage, Image
<1>2. EnvIdle \in EnvCall
  BY <1>0, <1>1 DEF EnvIdle, EnvCall, EnvSteps, Files
<1>3. Len(boxes) = 1 /\ boxes[1] = [status |-> "running", files |-> Empty] /\ boxes \in Seq(Box)
  BY <1>1 DEF EnvInit, Box
<1>4. EnvTyped
  <2>1. images \in [1..MaxImages -> Image] /\ tags \in [EnvProcs -> 0..MaxImages]
    BY <1>0, <1>1 DEF EnvInit
  <2>2. envCall \in [EnvProcs -> EnvCall] /\ engine \in [EnvProcs -> Nat]
    BY <1>2 DEF EnvInit
  <2>3. envJob \in [attempt : Nat, status : {"running", "suspended", "ended"}, ref : Reference, steps : Nat]
    BY <1>1 DEF EnvInit
  <2> QED BY <1>1, <1>3, <2>1, <2>2, <2>3 DEF EnvInit, EnvTyped
<1>5. /\ marks = {} /\ envJob.ref = NoRef /\ envJob.status = "running" /\ sure = Empty /\ written = 0
      /\ \A p \in EnvProcs : envCall[p] = EnvIdle /\ tags[p] = 0
  BY DEF EnvInit
<1>6. StepsOfPlace /\ CapturesApart /\ CapturesNumbered /\ CapturesWhole /\ Restoring
  BY <1>5 DEF StepsOfPlace, CapturesApart, CapturesNumbered, CapturesWhole, Restoring, EnvIdle, NoRef,
              Filling, Capturing
<1>7. OneSandbox /\ EndedAlone /\ StaysDown
  BY <1>3, <1>5 DEF OneSandbox, EndedAlone, StaysDown, EnvIdle
<1>8. NothingLost
  BY <1>1, <1>3, <1>5 DEF NothingLost, Empty, Files
<1> QED BY <1>4, <1>6, <1>7, <1>8 DEF EnvKept

(* The name leads to the only sandbox there may be.                        *)
LEMMA ByName ==
  ASSUME boxes \in Seq(Box), Len(boxes) >= 1,
         \A i \in 1..Len(boxes) : i < Len(boxes) => boxes[i].status = "gone"
  PROVE  SandboxByName = IF boxes[Len(boxes)].status = "gone" THEN 0 ELSE Len(boxes)
<1> DEFINE named == {i \in DOMAIN boxes : boxes[i].status # "gone"}
<1>1. DOMAIN boxes = 1..Len(boxes) /\ Len(boxes) \in Nat
  OBVIOUS
<1>2. CASE boxes[Len(boxes)].status = "gone"
  <2>1. named = {}
    BY <1>1, <1>2
  <2> QED BY <1>2, <2>1 DEF SandboxByName
<1>3. CASE boxes[Len(boxes)].status # "gone"
  <2>1. named = {Len(boxes)}
    BY <1>1, <1>3
  <2> HIDE DEF named
  <2>2. (CHOOSE i \in named : \A k \in named : i <= k) = Len(boxes)
    BY <1>1, <2>1
  <2> QED BY <1>3, <2>1, <2>2 DEF SandboxByName, named
<1> QED BY <1>2, <1>3

(* The name leads to the first sandbox that is there, or to none.          *)
LEMMA ByNameIn ==
  ASSUME boxes \in Seq(Box)
  PROVE  /\ SandboxByName \in Nat
         /\ SandboxByName # 0 => SandboxByName \in 1..Len(boxes) /\ boxes[SandboxByName].status # "gone"
<1> DEFINE named == {i \in DOMAIN boxes : boxes[i].status # "gone"}
<1>1. DOMAIN boxes = 1..Len(boxes) /\ Len(boxes) \in Nat /\ named \subseteq Nat
  OBVIOUS
<1>2. CASE named = {}
  BY <1>2 DEF SandboxByName
<1>3. CASE named # {}
  <2>1. \E i \in named : \A k \in named : i <= k
    BY <1>1, <1>3, SmallestNat
  <2>2. (CHOOSE i \in named : \A k \in named : i <= k) \in named
    BY <2>1
  <2>3. SandboxByName \in named
    BY <1>3, <2>2 DEF SandboxByName
  <2> QED BY <1>1, <2>3
<1> QED BY <1>2, <1>3

(* A step of process p.                                                    *)
Tame(p) ==
  \/ CreateInspect(p) \/ MakeDirectory(p) \/ Provision(p) \/ StartSandbox(p) \/ ResumeSandbox(p)
  \/ \E risk \in {"none", "high"} : StartSuspend(p, risk)
  \/ DecideCapture(p) \/ StartCapture(p) \/ CopyFile(p) \/ WriteManifest(p)
  \/ SnapshotFake(p) \/ DockerCommit(p) \/ ReadImageId(p) \/ KeepReference(p) \/ Hold(p) \/ Park(p)
  \/ StartRecover(p) \/ AcquireJob(p) \/ ValidateRestore(p) \/ WipeLive(p)
  \/ CopyBack(p) \/ CopyBackFails(p) \/ Materialize(p) \/ Attach(p)
  \/ CommitSteps(p) \/ EndJob(p) \/ DestroySandbox(p) \/ RemoveJobRoot(p) \/ EnvProcessDies(p)

(* What one process does leaves the calls of the others as they are, but   *)
(* for the note that they were not alone.                                  *)
Aside(d, c) ==
  /\ d.op = c.op /\ d.pc = c.pc /\ d.attempt = c.attempt /\ d.ref = c.ref /\ d.steps = c.steps
  /\ d.risk = c.risk /\ d.box = c.box /\ d.tag = c.tag /\ d.file = c.file /\ d.sum = c.sum
  /\ d.alone => c.alone

(* A call that another process disturbs is no longer alone and keeps       *)
(* everything else.                                                        *)
LEMMA DisturbedAside ==
  ASSUME NEW c \in EnvCall
  PROVE  Disturbed(c) \in EnvCall /\ Aside(Disturbed(c), c) /\ Aside(c, c)
BY DEF Disturbed, Aside, EnvCall

(* A step of one process changes nothing in the call of another but that   *)
(* it is no longer alone.                                                  *)
LEMMA OthersStand ==
  ASSUME EnvTyped, NEW p \in EnvProcs, Tame(p), NEW q \in EnvProcs, q # p
  PROVE  envCall'[q] \in EnvCall /\ Aside(envCall'[q], envCall[q])
<1>1. envCall[q] \in EnvCall /\ DOMAIN envCall = EnvProcs
  BY DEF EnvTyped
<1>2. Disturbed(envCall[q]) \in EnvCall /\ Aside(Disturbed(envCall[q]), envCall[q]) /\ Aside(envCall[q], envCall[q])
  BY <1>1, DisturbedAside
<1>3. envCall'[q] = envCall[q] \/ envCall'[q] = Disturbed(envCall[q])
  <2>1. CASE \/ MakeDirectory(p) \/ Provision(p) \/ StartSandbox(p) \/ ResumeSandbox(p) \/ WipeLive(p)
             \/ CopyBack(p) \/ DestroySandbox(p) \/ RemoveJobRoot(p)
    BY <2>1, <1>1 DEF MakeDirectory, Provision, StartSandbox, ResumeSandbox, WipeLive, CopyBack,
         DestroySandbox, RemoveJobRoot, Touching, EnvReturn, EnvGo
  <2>2. CASE \/ CreateInspect(p) \/ (\E risk \in {"none", "high"} : StartSuspend(p, risk))
             \/ DecideCapture(p) \/ StartCapture(p) \/ CopyFile(p) \/ WriteManifest(p)
             \/ SnapshotFake(p) \/ DockerCommit(p) \/ ReadImageId(p) \/ KeepReference(p) \/ Hold(p) \/ Park(p)
    BY <2>2, <1>1 DEF CreateInspect, StartSuspend, DecideCapture, StartCapture, CopyFile, WriteManifest,
         SnapshotFake, DockerCommit, ReadImageId, KeepReference, Hold, Park, EnvReturn, EnvGo
  <2>3. CASE \/ StartRecover(p) \/ AcquireJob(p) \/ ValidateRestore(p)
             \/ CopyBackFails(p) \/ Materialize(p) \/ Attach(p)
             \/ CommitSteps(p) \/ EndJob(p) \/ EnvProcessDies(p)
    BY <2>3, <1>1 DEF StartRecover, AcquireJob, ValidateRestore, CopyBackFails, Materialize, Attach,
         CommitSteps, EndJob, EnvProcessDies, EnvReturn, EnvGo
  <2> QED BY <2>1, <2>2, <2>3 DEF Tame
<1>4. CASE envCall'[q] = envCall[q]
  BY <1>1, <1>2, <1>4, Zenon
<1>5. CASE envCall'[q] = Disturbed(envCall[q])
  BY <1>2, <1>5, Zenon
<1> QED BY <1>3, <1>4, <1>5

(* A process leaves its own call well formed.                              *)
LEMMA OwnCallTyped ==
  ASSUME EnvTyped, StepsOfPlace, CapturesNumbered, NEW p \in EnvProcs, Tame(p)
  PROVE  envCall'[p] \in EnvCall /\ DOMAIN envCall' = EnvProcs
<1>1. envCall[p] \in EnvCall /\ DOMAIN envCall = EnvProcs /\ MaxImages \in Nat
  BY EnvAssumption DEF EnvTyped
<1>2. EnvIdle \in EnvCall
  BY <1>1 DEF EnvIdle, EnvCall, EnvSteps, Files, NoRef, Reference, Empty, Contents
<1>3. /\ SandboxByName \in Nat /\ Len(boxes) \in Nat /\ envJob.ref \in Reference
      /\ envJob.steps \in Nat /\ envJob.attempt \in Nat /\ tags[p] \in 0..MaxImages
  BY ByNameIn DEF EnvTyped
<1>4. AfterCreate(p) \in EnvSteps
  BY DEF AfterCreate, EnvSteps
<1>5. \A c \in EnvCall : \A s \in EnvSteps : \A b \in Nat :
        [c EXCEPT !.pc = s] \in EnvCall /\ [c EXCEPT !.pc = s, !.box = b] \in EnvCall
  BY DEF EnvCall
<1>6. CASE CreateInspect(p)
  <2> DEFINE next == CASE Dead(SandboxByName) -> "provision"
                [] Inspected(SandboxByName) = "provisioning" -> "start"
                [] Inspected(SandboxByName) = "suspended" -> "resume"
                [] OTHER -> AfterCreate(p)
  <2>1. next \in EnvSteps
    BY <1>4 DEF EnvSteps
  <2>2. envCall' = [envCall EXCEPT ![p].pc = next, ![p].box = SandboxByName]
    BY <1>6 DEF CreateInspect
  <2> HIDE DEF next
  <2>3. envCall'[p] = [envCall[p] EXCEPT !.pc = next, !.box = SandboxByName]
    BY <1>1, <2>2
  <2> QED BY <1>1, <1>3, <1>5, <2>1, <2>2, <2>3
<1>7. CASE MakeDirectory(p)
  BY <1>1, <1>4, <1>5, <1>7 DEF MakeDirectory, Touching
<1>8. CASE Provision(p)
  <2> DEFINE b == IF SandboxByName = 0 THEN Len(boxes) + 1 ELSE SandboxByName
  <2>1. b \in Nat /\ "start" \in EnvSteps
    BY <1>3 DEF EnvSteps
  <2>2. envCall'[p] = [envCall[p] EXCEPT !.pc = "start", !.box = b] /\ DOMAIN envCall' = EnvProcs
    BY <1>8 DEF Provision, Touching
  <2> HIDE DEF b
  <2> QED BY <1>1, <2>1, <2>2 DEF EnvCall
<1>9. CASE StartSandbox(p) \/ ResumeSandbox(p)
  <2>1. /\ envCall'[p] = EnvIdle \/ envCall'[p] = [envCall[p] EXCEPT !.pc = AfterCreate(p)]
        /\ DOMAIN envCall' = EnvProcs
    BY <1>1, <1>9 DEF StartSandbox, ResumeSandbox, Touching, EnvReturn
  <2> QED BY <1>1, <1>2, <1>4, <1>5, <2>1
<1>10. CASE \E risk \in {"none", "high"} : StartSuspend(p, risk)
  <2>1. PICK risk \in {"none", "high"} :
          envCall' = [envCall EXCEPT ![p] = [EnvIdle EXCEPT !.op = "suspend", !.pc = "create", !.risk = risk,
                        !.attempt = envJob.attempt, !.ref = envJob.ref, !.steps = envJob.steps]]
    BY <1>10 DEF StartSuspend
  <2> QED BY <1>1, <1>2, <1>3, <2>1 DEF EnvCall, EnvSteps
<1>11. CASE DecideCapture(p)
  <2>1. /\ \/ envCall'[p] = EnvIdle
           \/ \E s \in EnvSteps : envCall'[p] = [envCall[p] EXCEPT !.pc = s, !.risk = "none", !.box = 0]
        /\ DOMAIN envCall' = EnvProcs
    BY <1>1, <1>11 DEF DecideCapture, EnvReturn, EnvSteps
  <2>2. CASE envCall'[p] = EnvIdle
    BY <1>2, <2>1, <2>2
  <2>3. CASE envCall'[p] # EnvIdle
    <3>1. PICK s \in EnvSteps : envCall'[p] = [envCall[p] EXCEPT !.pc = s, !.risk = "none", !.box = 0]
      BY <2>1, <2>3
    <3>2. \A r \in {"none", "high"} : \A b \in Nat : [envCall[p] EXCEPT !.pc = s, !.risk = r, !.box = b] \in EnvCall
      BY <1>1 DEF EnvCall
    <3>3. [envCall[p] EXCEPT !.pc = s, !.risk = "none", !.box = 0] \in EnvCall
      BY <3>2
    <3> QED BY <2>1, <3>1, <3>3, Zenon
  <2> QED BY <2>2, <2>3
<1>12. CASE StartCapture(p)
  <2>1. /\ \/ envCall'[p] = EnvIdle
           \/ \E s \in EnvSteps : envCall'[p] = [envCall[p] EXCEPT !.pc = s, !.box = SandboxByName, !.tag = tags[p] + 1]
        /\ DOMAIN envCall' = EnvProcs /\ tags[p] < MaxImages
    BY <1>1, <1>12 DEF StartCapture, EnvReturn, EnvSteps
  <2>2. tags[p] + 1 \in 0..MaxImages
    <3>1. tags[p] \in 0..MaxImages /\ MaxImages \in Nat /\ tags[p] < MaxImages
      BY <1>1, <1>3, <2>1
    <3> QED BY <3>1
  <2>3. SandboxByName \in Nat
    BY <1>3
  <2> QED BY <1>1, <1>2, <2>1, <2>2, <2>3 DEF EnvCall
<1>13. CASE CopyFile(p)
  <2>1. /\ \/ envCall'[p] = EnvIdle
           \/ \E s \in EnvSteps : envCall'[p] = [envCall[p] EXCEPT !.pc = s, !.file = 2]
        /\ DOMAIN envCall' = EnvProcs
    BY <1>1, <1>13 DEF CopyFile, EnvReturn, EnvSteps
  <2> QED BY <1>1, <1>2, <2>1 DEF EnvCall, Files
<1>14. CASE WriteManifest(p) \/ ReadImageId(p)
  <2>1. /\ envCall'[p] = [envCall[p] EXCEPT !.pc = "keep", !.sum = images[envCall[p].tag].files]
        /\ DOMAIN envCall' = EnvProcs /\ envCall[p].pc \in {"manifest", "imageId"}
    BY <1>1, <1>14 DEF WriteManifest, ReadImageId, EnvAt
  <2>2. envCall[p].tag \in 1..MaxImages
    BY <1>1, <2>1 DEF CapturesNumbered, Capturing, Filling, EnvCall
  <2>3. images[envCall[p].tag].files \in Contents
    BY <2>2 DEF EnvTyped, Image
  <2> QED BY <1>1, <2>1, <2>3 DEF EnvCall, EnvSteps
<1>15. CASE SnapshotFake(p)
  <2>1. /\ envCall'[p] = EnvIdle \/ envCall'[p] = [envCall[p] EXCEPT !.pc = "keep", !.sum = boxes[envCall[p].box].files]
        /\ DOMAIN envCall' = EnvProcs /\ envCall[p].pc = "image"
    BY <1>1, <1>15 DEF SnapshotFake, EnvReturn, EnvAt
  <2>2. boxes[envCall[p].box].files \in Contents
    <3>1. envCall[p].box \in 1..Len(boxes)
      BY <2>1 DEF StepsOfPlace
    <3>2. boxes[envCall[p].box] \in Box
      BY <3>1 DEF EnvTyped
    <3> QED BY <3>2 DEF Box
  <2> QED BY <1>1, <1>2, <2>1, <2>2 DEF EnvCall, EnvSteps
<1>16. CASE DockerCommit(p) \/ ValidateRestore(p) \/ CopyBackFails(p) \/ Hold(p)
  <2>1. /\ envCall'[p] = EnvIdle \/ \E s \in EnvSteps : envCall'[p] = [envCall[p] EXCEPT !.pc = s]
        /\ DOMAIN envCall' = EnvProcs
    BY <1>1, <1>16 DEF DockerCommit, ValidateRestore, CopyBackFails, Hold, EnvReturn, EnvGo, EnvSteps
  <2> QED BY <1>1, <1>2, <2>1 DEF EnvCall
<1>17. CASE KeepReference(p)
  <2>1. /\ envCall'[p] = EnvIdle \/ envCall'[p] = [EnvIdle EXCEPT !.op = "suspend", !.pc = "hold", !.attempt = envCall[p].attempt]
        /\ DOMAIN envCall' = EnvProcs
    BY <1>1, <1>17 DEF KeepReference, EnvReturn
  <2> QED BY <1>1, <1>2, <2>1 DEF EnvCall, EnvSteps
<1>18. CASE Park(p) \/ Attach(p) \/ DestroySandbox(p) \/ RemoveJobRoot(p) \/ EnvProcessDies(p) \/ CommitSteps(p)
  <2>1. /\ envCall'[p] = EnvIdle \/ envCall'[p] = envCall[p]
        /\ DOMAIN envCall' = EnvProcs
    BY <1>1, <1>18 DEF Park, Attach, DestroySandbox, RemoveJobRoot, EnvProcessDies, CommitSteps, EnvReturn, Touching
  <2> QED BY <1>1, <1>2, <2>1
<1>19. CASE StartRecover(p) \/ EndJob(p)
  <2>1. /\ \/ envCall'[p] = [EnvIdle EXCEPT !.op = "recover", !.pc = "acquire", !.ref = envJob.ref]
           \/ envCall'[p] = [EnvIdle EXCEPT !.op = "destroy", !.pc = "dispose"]
        /\ DOMAIN envCall' = EnvProcs
    BY <1>1, <1>19 DEF StartRecover, EndJob
  <2> QED BY <1>2, <1>3, <2>1 DEF EnvCall, EnvSteps
<1>20. CASE AcquireJob(p)
  <2>1. /\ \/ envCall'[p] = EnvIdle
           \/ \E s \in EnvSteps : envCall'[p] = [envCall[p] EXCEPT !.attempt = envJob.attempt + 1, !.pc = s]
        /\ DOMAIN envCall' = EnvProcs
    BY <1>1, <1>20 DEF AcquireJob, EnvReturn, EnvSteps
  <2>2. envJob.attempt + 1 \in Nat
    BY <1>3
  <2> QED BY <1>1, <1>2, <2>1, <2>2 DEF EnvCall
<1>21. CASE WipeLive(p)
  BY <1>1, <1>5, <1>21 DEF WipeLive, Touching, EnvSteps
<1>22. CASE CopyBack(p)
  <2>1. /\ \E s \in EnvSteps : \/ envCall'[p] = [envCall[p] EXCEPT !.pc = s, !.file = 2]
                               \/ envCall'[p] = [envCall[p] EXCEPT !.pc = s]
        /\ DOMAIN envCall' = EnvProcs
    BY <1>1, <1>22 DEF CopyBack, Touching, EnvGo, EnvSteps
  <2> QED BY <1>1, <2>1 DEF EnvCall, Files
<1>23. CASE Materialize(p)
  <2>1. /\ envCall'[p] = [envCall[p] EXCEPT !.pc = "attach", !.box = Len(boxes) + 1]
        /\ DOMAIN envCall' = EnvProcs
    BY <1>1, <1>23 DEF Materialize
  <2>2. Len(boxes) + 1 \in Nat /\ "attach" \in EnvSteps
    BY <1>3 DEF EnvSteps
  <2> QED BY <1>1, <2>1, <2>2 DEF EnvCall
<1> QED BY <1>6, <1>7, <1>8, <1>9, <1>10, <1>11, <1>12, <1>13, <1>14, <1>15, <1>16, <1>17, <1>18, <1>19,
           <1>20, <1>21, <1>22, <1>23 DEF Tame

(* What is done to the sandboxes.                                          *)
Labels == {"provisioning", "running", "suspended", "terminated", "gone"}

(* Only statuses change.                                                   *)
Relabelled ==
  /\ boxes' \in Seq(Box) /\ Len(boxes') = Len(boxes)
  /\ \A k \in 1..Len(boxes) : boxes'[k].files = boxes[k].files

(* One sandbox gets a status; one gets a version of a file.                *)
Labelling(i, v) == boxes' = [boxes EXCEPT ![i].status = v]
Filing(i, f, v) == boxes' = [boxes EXCEPT ![i].files[f] = v]

(* The same for the first one.                                             *)
FilingFirst(f, v) == Filing(1, f, v)

(* A sequence of sandboxes whose members all stay sandboxes stays one, of  *)
(* the same length.                                                        *)
LEMMA BoxesStay ==
  ASSUME boxes \in Seq(Box), DOMAIN boxes' = 1..Len(boxes), boxes' = [k \in DOMAIN boxes' |-> boxes'[k]],
         \A k \in 1..Len(boxes) : boxes'[k] \in Box
  PROVE  boxes' \in Seq(Box) /\ Len(boxes') = Len(boxes)
<1>1. Len(boxes) \in Nat
  OBVIOUS
<1>2. boxes' \in [1..Len(boxes) -> Box]
  OBVIOUS
<1> QED BY <1>1, <1>2

(* Giving one sandbox another status leaves the others and all their       *)
(* files.                                                                  *)
LEMMA OneRelabelled ==
  ASSUME EnvTyped, NEW i, NEW v, i \in 1..Len(boxes) => v \in Labels, Labelling(i, v)
  PROVE  /\ Relabelled
         /\ \A k \in 1..Len(boxes) : boxes'[k].status = IF k = i THEN v ELSE boxes[k].status
<1>0. boxes \in Seq(Box) /\ DOMAIN boxes = 1..Len(boxes)
  BY DEF EnvTyped
<1>1. boxes \in Seq(Box) /\ DOMAIN boxes' = 1..Len(boxes) /\ boxes' = [k \in DOMAIN boxes' |-> boxes'[k]]
  BY <1>0 DEF Labelling
<1>2. ASSUME NEW k \in 1..Len(boxes)
      PROVE  boxes'[k] \in Box /\ boxes'[k].files = boxes[k].files /\ boxes'[k].status = IF k = i THEN v ELSE boxes[k].status
  <2>1. boxes[k] \in Box
    BY <1>1
  <2>2. CASE k = i
    BY <1>0, <1>1, <2>1, <2>2 DEF Labelling, Box, Labels
  <2>3. CASE k # i
    BY <1>0, <1>1, <2>1, <2>3 DEF Labelling
  <2> QED BY <2>2, <2>3
<1> QED BY <1>1, <1>2, BoxesStay DEF Relabelled

(* Writing one file of one sandbox leaves every other file and every       *)
(* status.                                                                 *)
LEMMA OneFileSet ==
  ASSUME EnvTyped, NEW i, NEW f \in Files, NEW v \in Nat, Filing(i, f, v)
  PROVE  /\ boxes' \in Seq(Box) /\ Len(boxes') = Len(boxes)
         /\ \A k \in 1..Len(boxes) :
              /\ boxes'[k].status = boxes[k].status
              /\ \A g \in Files : boxes'[k].files[g] = IF k = i /\ g = f THEN v ELSE boxes[k].files[g]
<1>0. boxes \in Seq(Box) /\ DOMAIN boxes = 1..Len(boxes)
  BY DEF EnvTyped
<1>1. boxes \in Seq(Box) /\ DOMAIN boxes' = 1..Len(boxes) /\ boxes' = [k \in DOMAIN boxes' |-> boxes'[k]]
  BY <1>0 DEF Filing
<1>2. ASSUME NEW k \in 1..Len(boxes)
      PROVE  /\ boxes'[k] \in Box /\ boxes'[k].status = boxes[k].status
             /\ \A g \in Files : boxes'[k].files[g] = IF k = i /\ g = f THEN v ELSE boxes[k].files[g]
  <2>1. boxes[k] \in Box
    BY <1>1
  <2>2. CASE k = i
    BY <1>0, <1>1, <2>1, <2>2 DEF Filing, Box, Contents
  <2>3. CASE k # i
    BY <1>0, <1>1, <2>1, <2>3 DEF Filing
  <2> QED BY <2>2, <2>3
<1> QED BY <1>1, <1>2, BoxesStay

(* The same for the first sandbox, which is the only one of a local        *)
(* deployment.                                                             *)
LEMMA FirstFileSet ==
  ASSUME EnvTyped, Len(boxes) >= 1, NEW f \in Files, NEW v \in Nat, FilingFirst(f, v)
  PROVE  /\ boxes' \in Seq(Box) /\ Len(boxes') = Len(boxes) /\ boxes'[1] \in Box
         /\ boxes'[1].files[f] = v
         /\ \A g \in Files : g # f => boxes'[1].files[g] = boxes[1].files[g]
<1>0. boxes \in Seq(Box) /\ 1 \in 1..Len(boxes)
  BY DEF EnvTyped
<1>1. boxes[1] \in Box /\ DOMAIN boxes = 1..Len(boxes)
  BY <1>0
<1>2. boxes' = [boxes EXCEPT ![1] = [boxes[1] EXCEPT !.files = [boxes[1].files EXCEPT ![f] = v]]]
  BY DEF FilingFirst, Filing
<1> DEFINE new == [boxes[1] EXCEPT !.files = [boxes[1].files EXCEPT ![f] = v]]
<1>3. /\ new \in Box /\ new.files[f] = v
      /\ \A g \in Files : g # f => new.files[g] = boxes[1].files[g]
  BY <1>1 DEF Box, Contents
<1>4. boxes' = [boxes EXCEPT ![1] = new]
  BY <1>2
<1> HIDE DEF new
<1>5. boxes' \in Seq(Box) /\ Len(boxes') = Len(boxes) /\ boxes'[1] = new
  BY <1>0, <1>1, <1>3, <1>4
<1> QED BY <1>3, <1>5

(* A sandbox of the list has a status and contents.                        *)
LEMMA BoxLabelled ==
  ASSUME EnvTyped, NEW i \in 1..Len(boxes)
  PROVE  boxes[i] \in Box /\ boxes[i].status \in Labels /\ boxes[i].files \in Contents
<1>1. boxes[i] \in Box
  BY DEF EnvTyped
<1> QED BY <1>1 DEF Box, Labels

(* The steps that give a sandbox another status keep those that are gone,  *)
(* and a start, a resume or a hold never removes one.                      *)
LEMMA StartRelabels ==
  ASSUME EnvTyped, NEW p \in EnvProcs, StartSandbox(p) \/ ResumeSandbox(p) \/ Hold(p)
  PROVE  /\ Relabelled
         /\ \A k \in 1..Len(boxes) : (boxes'[k].status = "gone") <=> (boxes[k].status = "gone")
<1>1. CASE boxes' = boxes
  BY <1>1 DEF Relabelled, EnvTyped
<1>2. CASE StartSandbox(p)
  <2> DEFINE i == envCall[p].box
             v == IF place.provider = "docker" THEN DockerStart(boxes[i].status) ELSE FakeStart(boxes[i].status)
  <2>1. Labelling(i, v)
    BY <1>2 DEF Labelling, StartSandbox
  <2>2. i \in 1..Len(boxes) => v \in Labels /\ (v = "gone" <=> boxes[i].status = "gone")
    BY BoxLabelled DEF DockerStart, FakeStart, Labels
  <2> HIDE DEF v, i
  <2>3. Relabelled /\ \A k \in 1..Len(boxes) : boxes'[k].status = IF k = i THEN v ELSE boxes[k].status
    <3>1. i \in 1..Len(boxes) => v \in Labels
      BY <2>2
    <3> QED BY <2>1, <3>1, OneRelabelled
  <2> QED BY <2>2, <2>3
<1>3. CASE ResumeSandbox(p)
  <2> DEFINE i == envCall[p].box
             v == Unpaused(boxes[i].status)
  <2>1. Labelling(i, v)
    BY <1>3 DEF Labelling, ResumeSandbox
  <2>2. i \in 1..Len(boxes) => v \in Labels /\ (v = "gone" <=> boxes[i].status = "gone")
    BY BoxLabelled DEF Unpaused, Labels
  <2> HIDE DEF v, i
  <2>3. Relabelled /\ \A k \in 1..Len(boxes) : boxes'[k].status = IF k = i THEN v ELSE boxes[k].status
    <3>1. i \in 1..Len(boxes) => v \in Labels
      BY <2>2
    <3> QED BY <2>1, <3>1, OneRelabelled
  <2> QED BY <2>2, <2>3
<1>4. CASE Hold(p) /\ boxes' # boxes
  <2> DEFINE i == SandboxByName
  <2>1. Labelling(i, "suspended") /\ boxes[i].status = "running"
    BY <1>4 DEF Labelling, Hold
  <2> HIDE DEF i
  <2>2. "suspended" \in Labels
    BY DEF Labels
  <2>3. Relabelled /\ \A k \in 1..Len(boxes) : boxes'[k].status = IF k = i THEN "suspended" ELSE boxes[k].status
    BY <2>1, <2>2, OneRelabelled
  <2> QED BY <2>1, <2>3
<1> QED BY <1>1, <1>2, <1>3, <1>4

(* A loss, a stop and a disposal only take away.                           *)
LEMMA LossRelabels ==
  ASSUME EnvTyped,
         \/ \E p \in EnvProcs : DestroySandbox(p) \/ RemoveJobRoot(p)
         \/ \E i \in DOMAIN boxes : SandboxStops(i) \/ SandboxLost(i)
  PROVE  /\ Relabelled
         /\ \A k \in 1..Len(boxes) :
              /\ boxes'[k].status = boxes[k].status \/ boxes'[k].status \in {"terminated", "gone"}
              /\ boxes[k].status = "gone" => boxes'[k].status = "gone"
              /\ place.provider = "fake" /\ boxes'[k].status = "gone" => boxes[k].status = "gone"
<1> DEFINE Lost ==
  /\ Relabelled
  /\ \A k \in 1..Len(boxes) :
       /\ boxes'[k].status = boxes[k].status \/ boxes'[k].status \in {"terminated", "gone"}
       /\ boxes[k].status = "gone" => boxes'[k].status = "gone"
       /\ place.provider = "fake" /\ boxes'[k].status = "gone" => boxes[k].status = "gone"
<1>0. DOMAIN boxes = 1..Len(boxes) /\ Len(boxes) \in Nat /\ boxes \in Seq(Box)
  BY DEF EnvTyped
<1>1. ASSUME NEW i, NEW v \in {"terminated", "gone"}, Labelling(i, v),
             i \in 1..Len(boxes) => boxes[i].status # "gone", v = "gone" => place.provider # "fake"
      PROVE  Lost
  <2>1. v \in Labels
    BY DEF Labels
  <2>2. Relabelled /\ \A k \in 1..Len(boxes) : boxes'[k].status = IF k = i THEN v ELSE boxes[k].status
    BY <1>1, <2>1, OneRelabelled
  <2> QED BY <1>1, <2>2
<1>2. ASSUME boxes' = boxes PROVE Lost
  BY <1>0, <1>2 DEF Relabelled
<1>3. ASSUME NEW p \in EnvProcs, DestroySandbox(p), boxes' # boxes PROVE Lost
  <2> DEFINE i == SandboxByName
             v == IF place.provider = "docker" THEN DockerRemove(boxes[i].status) ELSE FakeTerminate(boxes[i].status)
  <2>1. Labelling(i, v) /\ ~Dead(i)
    BY <1>3 DEF Labelling, DestroySandbox
  <2>2. v \in {"terminated", "gone"} /\ (v = "gone" => place.provider # "fake")
    BY DEF DockerRemove, FakeTerminate
  <2>3. i # 0
    BY <2>1 DEF Dead, Inspected
  <2>4. boxes[i].status # "gone"
    BY <1>0, <2>3, ByNameIn
  <2> HIDE DEF v, i, Lost
  <2> QED BY <1>1, <2>1, <2>2, <2>4
<1>4. ASSUME NEW p \in EnvProcs, RemoveJobRoot(p) PROVE Lost
  <2>1. boxes' = [i \in 1..Len(boxes) |-> [boxes[i] EXCEPT !.status = "gone"]]
    BY <1>0, <1>4 DEF RemoveJobRoot
  <2>2. \A k \in 1..Len(boxes) : boxes'[k] \in Box /\ boxes'[k].files = boxes[k].files /\ boxes'[k].status = "gone"
    BY <2>1, BoxLabelled DEF Box
  <2>3. boxes' \in [1..Len(boxes) -> Box]
    BY <2>1, <2>2
  <2>4. boxes' \in Seq(Box) /\ Len(boxes') = Len(boxes)
    BY <1>0, <2>3
  <2>5. place.provider # "fake"
    BY <1>4 DEF RemoveJobRoot, Local
  <2> QED BY <2>2, <2>4, <2>5 DEF Relabelled
<1>5. ASSUME NEW i \in DOMAIN boxes, SandboxStops(i) PROVE Lost
  <2>1. Labelling(i, "terminated") /\ boxes[i].status = "running"
    BY <1>5 DEF Labelling, SandboxStops
  <2> HIDE DEF Lost
  <2> QED BY <1>1, <2>1
<1>6. ASSUME NEW i \in DOMAIN boxes, SandboxLost(i) PROVE Lost
  <2>1. Labelling(i, "gone") /\ boxes[i].status # "gone" /\ place.provider # "fake"
    BY <1>6 DEF Labelling, SandboxLost
  <2> HIDE DEF Lost
  <2> QED BY <1>1, <2>1
<1> HIDE DEF Lost
<1>7. Lost
  <2>1. CASE \E p \in EnvProcs : DestroySandbox(p) \/ RemoveJobRoot(p)
    BY <2>1, <1>2, <1>3, <1>4
  <2>2. CASE \E i \in DOMAIN boxes : SandboxStops(i) \/ SandboxLost(i)
    BY <2>2, <1>5, <1>6
  <2> QED BY <2>1, <2>2
<1> QED BY <1>7 DEF Lost

(* Everything the two parts of the checkpoint, the captures and the        *)
(* sandboxes hold stays of its type.                                       *)
LEMMA BoxesTyped ==
  ASSUME EnvTyped, StepsOfPlace, CapturesNumbered, OneSandbox, EnvNext
  PROVE  /\ boxes' \in Seq(Box)
         /\ Len(boxes') >= Len(boxes) \/ Local
         /\ Len(boxes') >= 1
<1> DEFINE Grown == boxes' \in Seq(Box) /\ (Len(boxes') >= Len(boxes) \/ Local) /\ Len(boxes') >= 1
<1>0. boxes \in Seq(Box) /\ Len(boxes) \in Nat /\ Len(boxes) >= 1 /\ MaxImages \in Nat
  BY EnvAssumption DEF EnvTyped, OneSandbox
<1>1. Empty \in Contents
  BY DEF Empty, Contents
<1>2. \A s \in {"running", "provisioning"} : \A c \in Contents : NewBox(s, c) \in Box
  BY DEF NewBox, Box
<1>3. ASSUME NEW b \in Box PROVE Append(boxes, b) \in Seq(Box) /\ Len(Append(boxes, b)) = Len(boxes) + 1
                                 /\ <<b>> \in Seq(Box) /\ Len(<<b>>) = 1
  BY <1>0
<1>4. ASSUME boxes' = boxes PROVE Grown
  BY <1>0, <1>4
<1>5. ASSUME Relabelled PROVE Grown
  BY <1>0, <1>5 DEF Relabelled
<1>6. ASSUME NEW p \in EnvProcs, MakeDirectory(p) PROVE Grown
  <2>1. Local /\ boxes' = IF SandboxByName = 0 THEN <<NewBox("running", Empty)>> ELSE boxes
    BY <1>6 DEF MakeDirectory, Directory
  <2> QED BY <1>0, <1>1, <1>2, <1>3, <2>1
<1>7. ASSUME NEW p \in EnvProcs, Provision(p) PROVE Grown
  <2>1. boxes' = IF SandboxByName = 0 THEN Append(boxes, NewBox("provisioning", Empty)) ELSE boxes
    BY <1>7 DEF Provision
  <2> QED BY <1>0, <1>1, <1>2, <1>3, <2>1
<1>8. ASSUME NEW p \in EnvProcs, WipeLive(p) PROVE Grown
  <2>1. Local /\ boxes' = <<NewBox("running", Empty)>>
    BY <1>8 DEF WipeLive, StepsOfPlace, EnvAt
  <2> QED BY <1>1, <1>2, <1>3, <2>1
<1>9. ASSUME NEW p \in EnvProcs, Materialize(p) PROVE Grown
  <2>1. envCall[p].ref.tag \in 1..MaxImages
    BY <1>0, <1>9 DEF Materialize, EnvAt, CapturesNumbered, EnvTyped, EnvCall, Reference
  <2>2. images[envCall[p].ref.tag].files \in Contents
    BY <2>1 DEF EnvTyped, Image
  <2>3. boxes' = Append(boxes, NewBox("running", images[envCall[p].ref.tag].files))
    BY <1>9 DEF Materialize
  <2> QED BY <1>0, <1>2, <1>3, <2>2, <2>3
<1>10. ASSUME NEW p \in EnvProcs, CopyBack(p), boxes' # boxes PROVE Grown
  <2> DEFINE v == images[envCall[p].ref.tag].files[envCall[p].file]
  <2>1. envCall[p].ref.tag \in 1..MaxImages /\ envCall[p].file \in Files
    BY <1>0, <1>10 DEF CopyBack, EnvAt, CapturesNumbered, EnvTyped, EnvCall, Reference
  <2>2. images[envCall[p].ref.tag].files \in Contents
    BY <2>1 DEF EnvTyped, Image
  <2>3. v \in Nat
    BY <2>1, <2>2 DEF Contents
  <2>4. Filing(1, envCall[p].file, v)
    BY <1>10 DEF CopyBack, Filing
  <2> HIDE DEF v, Grown
  <2>5. boxes' \in Seq(Box) /\ Len(boxes') = Len(boxes)
    BY <2>1, <2>3, <2>4, OneFileSet
  <2> QED BY <1>0, <2>5 DEF Grown
<1>11. ASSUME NEW p \in EnvProcs, EngineWrites(p) PROVE Grown
  <2> DEFINE i == SandboxByName
             f == 1 + (written % 2)
  <2>1. Filing(i, f, written + 1)
    BY <1>11 DEF EngineWrites, Filing
  <2>2. written + 1 \in Nat /\ f \in Files
    BY DEF EnvTyped, Files
  <2> HIDE DEF i, f, Grown
  <2>3. boxes' \in Seq(Box) /\ Len(boxes') = Len(boxes)
    BY <2>1, <2>2, OneFileSet
  <2> QED BY <1>0, <2>3 DEF Grown
<1>12. ASSUME NEW p \in EnvProcs, StartSandbox(p) \/ ResumeSandbox(p) \/ Hold(p) PROVE Grown
  BY <1>5, <1>12, StartRelabels
<1>13. ASSUME \/ \E p \in EnvProcs : DestroySandbox(p) \/ RemoveJobRoot(p)
              \/ \E i \in DOMAIN boxes : SandboxStops(i) \/ SandboxLost(i)
       PROVE  Grown
  BY <1>5, <1>13, LossRelabels
<1>14. ASSUME NEW p \in EnvProcs,
              \/ CreateInspect(p) \/ (\E risk \in {"none", "high"} : StartSuspend(p, risk))
              \/ DecideCapture(p) \/ StartCapture(p) \/ CopyFile(p) \/ WriteManifest(p)
              \/ SnapshotFake(p) \/ DockerCommit(p) \/ ReadImageId(p) \/ KeepReference(p) \/ Park(p)
       PROVE  Grown
  BY <1>4, <1>14 DEF CreateInspect, StartSuspend, DecideCapture, StartCapture, CopyFile, WriteManifest,
       SnapshotFake, DockerCommit, ReadImageId, KeepReference, Park
<1>15. ASSUME NEW p \in EnvProcs,
              \/ StartRecover(p) \/ AcquireJob(p) \/ ValidateRestore(p) \/ CopyBackFails(p) \/ Attach(p)
              \/ CommitSteps(p) \/ EndJob(p) \/ EnvProcessDies(p)
       PROVE  Grown
  BY <1>4, <1>15 DEF StartRecover, AcquireJob, ValidateRestore, CopyBackFails, Attach, CommitSteps, EndJob, EnvProcessDies
<1>16. ASSUME NEW t \in DOMAIN images, ImageRots(t) PROVE Grown
  BY <1>4, <1>16 DEF ImageRots
<1> HIDE DEF Grown
<1>17. ASSUME NEW p \in EnvProcs, CopyBack(p) PROVE Grown
  BY <1>4, <1>10, <1>17
<1>18. ASSUME NEW p \in EnvProcs, Tame(p) PROVE Grown
  BY <1>18, <1>6, <1>7, <1>8, <1>9, <1>12, <1>13, <1>14, <1>15, <1>17 DEF Tame
<1>19. Grown
  BY <1>11, <1>13, <1>16, <1>18 DEF EnvNext, Tame
<1> QED BY <1>19 DEF Grown

(* What nobody's call does: the engine's writes and the faults.            *)
Outside ==
  \/ \E p \in EnvProcs : EngineWrites(p)
  \/ \E i \in DOMAIN boxes : SandboxStops(i) \/ SandboxLost(i)
  \/ \E t \in DOMAIN images : ImageRots(t)

(* A step is of one process, or comes from outside all of them.            *)
LEMMA StepKinds == EnvNext => Outside \/ \E p \in EnvProcs : Tame(p)
BY DEF EnvNext, Outside, Tame

(* A step from outside at most marks the calls as no longer alone.         *)
LEMMA CallsAside ==
  ASSUME EnvTyped, Outside
  PROVE  /\ envCall' \in [EnvProcs -> EnvCall]
         /\ \A q \in EnvProcs : Aside(envCall'[q], envCall[q])
<1>1. envCall' = envCall \/ envCall' = [q \in EnvProcs |-> Disturbed(envCall[q])]
  BY DEF Outside, EngineWrites, SandboxStops, SandboxLost, ImageRots
<1>2. \A q \in EnvProcs : Disturbed(envCall[q]) \in EnvCall /\ Aside(Disturbed(envCall[q]), envCall[q])
                            /\ Aside(envCall[q], envCall[q])
  BY DisturbedAside DEF EnvTyped
<1>3. CASE envCall' = envCall
  <2>1. envCall' \in [EnvProcs -> EnvCall]
    BY <1>3 DEF EnvTyped
  <2>2. \A q \in EnvProcs : envCall'[q] = envCall[q]
    BY <1>3
  <2> QED BY <1>2, <2>1, <2>2, Zenon
<1>4. CASE envCall' = [q \in EnvProcs |-> Disturbed(envCall[q])]
  <2>1. \A q \in EnvProcs : envCall'[q] = Disturbed(envCall[q])
    BY <1>4
  <2>2. envCall' \in [EnvProcs -> EnvCall]
    BY <1>2, <1>4
  <2> QED BY <1>2, <2>1, <2>2, Zenon
<1> QED BY <1>1, <1>3, <1>4

(* Every call stays well formed.                                           *)
LEMMA CallsTyped ==
  ASSUME EnvTyped, StepsOfPlace, CapturesNumbered, EnvNext
  PROVE  envCall' \in [EnvProcs -> EnvCall]
<1>1. CASE Outside
  BY <1>1, CallsAside
<1>2. ASSUME NEW p \in EnvProcs, Tame(p) PROVE envCall' \in [EnvProcs -> EnvCall]
  <2>1. DOMAIN envCall' = EnvProcs /\ envCall'[p] \in EnvCall
    BY <1>2, OwnCallTyped
  <2>2. \A q \in EnvProcs : q # p => envCall'[q] \in EnvCall
    BY <1>2, OthersStand
  <2>3. envCall' = [q \in DOMAIN envCall' |-> envCall'[q]]
    <3>1. DOMAIN envCall = EnvProcs /\ envCall = [q \in EnvProcs |-> envCall[q]]
      BY DEF EnvTyped
    <3>2. CASE \/ MakeDirectory(p) \/ Provision(p) \/ StartSandbox(p) \/ ResumeSandbox(p) \/ WipeLive(p)
               \/ CopyBack(p) \/ DestroySandbox(p) \/ RemoveJobRoot(p)
      BY <3>1, <3>2 DEF MakeDirectory, Provision, StartSandbox, ResumeSandbox, WipeLive, CopyBack,
           DestroySandbox, RemoveJobRoot, Touching, EnvReturn, EnvGo
    <3>3. CASE \/ CreateInspect(p) \/ (\E risk \in {"none", "high"} : StartSuspend(p, risk))
               \/ DecideCapture(p) \/ StartCapture(p) \/ CopyFile(p) \/ WriteManifest(p)
               \/ SnapshotFake(p) \/ DockerCommit(p) \/ ReadImageId(p) \/ KeepReference(p) \/ Hold(p) \/ Park(p)
      BY <3>1, <3>3 DEF CreateInspect, StartSuspend, DecideCapture, StartCapture, CopyFile, WriteManifest,
           SnapshotFake, DockerCommit, ReadImageId, KeepReference, Hold, Park, EnvReturn, EnvGo
    <3>4. CASE \/ StartRecover(p) \/ AcquireJob(p) \/ ValidateRestore(p)
               \/ CopyBackFails(p) \/ Materialize(p) \/ Attach(p)
               \/ CommitSteps(p) \/ EndJob(p) \/ EnvProcessDies(p)
      BY <3>1, <3>4 DEF StartRecover, AcquireJob, ValidateRestore, CopyBackFails, Materialize, Attach,
           CommitSteps, EndJob, EnvProcessDies, EnvReturn, EnvGo
    <3> QED BY <1>2, <3>2, <3>3, <3>4 DEF Tame
  <2>4. \A q \in EnvProcs : envCall'[q] \in EnvCall
    BY <2>1, <2>2
  <2> QED BY <2>1, <2>3, <2>4
<1> QED BY <1>1, <1>2, StepKinds

(* The captures: each step fills at most the one it has the number of.     *)
LEMMA ImagesTyped ==
  ASSUME EnvTyped, StepsOfPlace, CapturesNumbered, EnvNext
  PROVE  images' \in [1..MaxImages -> Image]
<1>0. MaxImages \in Nat /\ Empty \in Contents /\ NoImage \in Image /\ images \in [1..MaxImages -> Image]
  BY EnvAssumption DEF Empty, Contents, NoImage, Image, EnvTyped, Files
<1>1. ASSUME NEW t, NEW i \in Image, images' = [images EXCEPT ![t] = i] PROVE images' \in [1..MaxImages -> Image]
  BY <1>0, <1>1
<1>2. CASE images' = images
  BY <1>0, <1>2
<1>3. ASSUME NEW p \in EnvProcs, CopyFile(p), images' # images PROVE images' \in [1..MaxImages -> Image]
  <2> DEFINE t == envCall[p].tag
             v == boxes[1].files[envCall[p].file]
  <2>1. SandboxByName # 0
    BY <1>3 DEF CopyFile
  <2>2. 1 \in 1..Len(boxes)
    BY <2>1, ByNameIn DEF EnvTyped
  <2>3. envCall[p].file \in Files
    BY DEF EnvTyped, EnvCall
  <2>4. v \in Nat
    BY <2>2, <2>3, BoxLabelled DEF Contents
  <2>5. images' = [images EXCEPT ![t].files[envCall[p].file] = v]
    BY <1>3 DEF CopyFile
  <2> HIDE DEF t, v
  <2> QED BY <1>0, <2>3, <2>4, <2>5 DEF Image, Contents
<1>4. ASSUME NEW p \in EnvProcs, WriteManifest(p) PROVE images' \in [1..MaxImages -> Image]
  BY <1>0, <1>4 DEF WriteManifest, Image
<1>5. ASSUME NEW p \in EnvProcs, SnapshotFake(p) \/ DockerCommit(p), images' # images
      PROVE  images' \in [1..MaxImages -> Image]
  <2>1. /\ images' = [images EXCEPT ![envCall[p].tag] = [files |-> boxes[envCall[p].box].files, whole |-> TRUE]]
        /\ envCall[p].pc = "image"
    BY <1>5 DEF SnapshotFake, DockerCommit, EnvAt
  <2>2. envCall[p].box \in 1..Len(boxes)
    BY <2>1 DEF StepsOfPlace
  <2>3. [files |-> boxes[envCall[p].box].files, whole |-> TRUE] \in Image
    BY <2>2, BoxLabelled DEF Image
  <2> QED BY <1>0, <2>1, <2>3
<1>6. ASSUME NEW p \in EnvProcs, RemoveJobRoot(p) PROVE images' \in [1..MaxImages -> Image]
  BY <1>0, <1>6 DEF RemoveJobRoot
<1>7. ASSUME NEW t \in DOMAIN images, ImageRots(t) PROVE images' \in [1..MaxImages -> Image]
  BY <1>0, <1>7 DEF ImageRots, Image
<1>8. ASSUME NEW p \in EnvProcs,
             \/ CreateInspect(p) \/ MakeDirectory(p) \/ Provision(p) \/ StartSandbox(p) \/ ResumeSandbox(p)
             \/ (\E risk \in {"none", "high"} : StartSuspend(p, risk))
             \/ DecideCapture(p) \/ StartCapture(p) \/ ReadImageId(p) \/ KeepReference(p) \/ Hold(p) \/ Park(p)
      PROVE  images' = images
  BY <1>8 DEF CreateInspect, MakeDirectory, Provision, StartSandbox, ResumeSandbox, StartSuspend, DecideCapture,
       StartCapture, ReadImageId, KeepReference, Hold, Park
<1>9. ASSUME NEW p \in EnvProcs,
             \/ StartRecover(p) \/ AcquireJob(p) \/ ValidateRestore(p) \/ WipeLive(p) \/ CopyBack(p)
             \/ CopyBackFails(p) \/ Materialize(p) \/ Attach(p) \/ CommitSteps(p) \/ EndJob(p)
             \/ DestroySandbox(p) \/ EnvProcessDies(p) \/ EngineWrites(p)
      PROVE  images' = images
  BY <1>9 DEF StartRecover, AcquireJob, ValidateRestore, WipeLive, CopyBack, CopyBackFails, Materialize, Attach,
       CommitSteps, EndJob, DestroySandbox, EnvProcessDies, EngineWrites
<1>10. ASSUME NEW i \in DOMAIN boxes, SandboxStops(i) \/ SandboxLost(i) PROVE images' = images
  BY <1>10 DEF SandboxStops, SandboxLost
<1>11. ASSUME NEW p \in EnvProcs, CopyFile(p) \/ SnapshotFake(p) \/ DockerCommit(p) PROVE images' \in [1..MaxImages -> Image]
  BY <1>2, <1>3, <1>5, <1>11
<1> QED BY <1>2, <1>4, <1>6, <1>7, <1>8, <1>9, <1>10, <1>11 DEF EnvNext

(* Which steps change which part of the state.                             *)
Framed ==
  /\ place' = place /\ marks \subseteq marks'
  /\ "disposed" \in marks' =>
       "disposed" \in marks \/ \E p \in EnvProcs : DestroySandbox(p) \/ RemoveJobRoot(p)
  /\ written' = written \/ \E p \in EnvProcs : EngineWrites(p)
  /\ sure' = sure \/ \E p \in EnvProcs : CommitSteps(p)
  /\ tags' = tags \/ \E p \in EnvProcs : StartCapture(p) \/ EnvProcessDies(p)
  /\ engine' = engine \/ \E p \in EnvProcs : Park(p) \/ Attach(p) \/ EndJob(p) \/ EnvProcessDies(p)
  /\ \/ envJob' = envJob
     \/ \E p \in EnvProcs : KeepReference(p) \/ Park(p) \/ AcquireJob(p) \/ CommitSteps(p) \/ EndJob(p)
  /\ \/ images' = images
     \/ \E p \in EnvProcs : CopyFile(p) \/ WriteManifest(p) \/ SnapshotFake(p) \/ DockerCommit(p) \/ RemoveJobRoot(p)
     \/ \E t \in DOMAIN images : ImageRots(t)
  /\ \/ boxes' = boxes
     \/ \E p \in EnvProcs :
          \/ MakeDirectory(p) \/ Provision(p) \/ StartSandbox(p) \/ ResumeSandbox(p) \/ Hold(p) \/ WipeLive(p)
          \/ CopyBack(p) \/ Materialize(p) \/ EngineWrites(p) \/ DestroySandbox(p) \/ RemoveJobRoot(p)
     \/ \E i \in DOMAIN boxes : SandboxStops(i) \/ SandboxLost(i)

(* Which steps change what: the place never, the record only its writers,  *)
(* and so on.                                                              *)
LEMMA StepsFramed == EnvNext => Framed
<1>1. ASSUME NEW p \in EnvProcs,
             \/ CreateInspect(p) \/ MakeDirectory(p) \/ Provision(p) \/ StartSandbox(p)
             \/ ResumeSandbox(p)
      PROVE  Framed
  BY <1>1 DEF Framed, CreateInspect, MakeDirectory, Provision, StartSandbox, ResumeSandbox
<1>2. ASSUME NEW p \in EnvProcs,
             \/ (\E risk \in {"none", "high"} : StartSuspend(p, risk)) \/ DecideCapture(p)
             \/ StartCapture(p) \/ CopyFile(p) \/ WriteManifest(p)
      PROVE  Framed
  BY <1>2 DEF Framed, StartSuspend, DecideCapture, StartCapture, CopyFile, WriteManifest
<1>3. ASSUME NEW p \in EnvProcs, SnapshotFake(p) \/ ReadImageId(p) \/ KeepReference(p) \/ Hold(p) PROVE Framed
  BY <1>3 DEF Framed, SnapshotFake, ReadImageId, KeepReference, Hold
<1>9. ASSUME NEW p \in EnvProcs, DockerCommit(p) PROVE Framed
  <2>1. marks' \in {marks, marks \cup {"retagged"}}
    BY <1>9 DEF DockerCommit
  <2>2. marks \subseteq marks' /\ ("disposed" \in marks' => "disposed" \in marks)
    BY <2>1
  <2> QED BY <1>9, <2>2 DEF Framed, DockerCommit
<1>4. ASSUME NEW p \in EnvProcs,
             \/ Park(p) \/ StartRecover(p) \/ AcquireJob(p) \/ ValidateRestore(p) \/ WipeLive(p)
      PROVE  Framed
  BY <1>4 DEF Framed, Park, StartRecover, AcquireJob, ValidateRestore, WipeLive
<1>5. ASSUME NEW p \in EnvProcs,
             \/ CopyBack(p) \/ CopyBackFails(p) \/ Materialize(p) \/ Attach(p) \/ EngineWrites(p)
      PROVE  Framed
  BY <1>5 DEF Framed, CopyBack, CopyBackFails, Materialize, Attach, EngineWrites
<1>6. ASSUME NEW p \in EnvProcs,
             \/ CommitSteps(p) \/ EndJob(p) \/ DestroySandbox(p) \/ RemoveJobRoot(p)
             \/ EnvProcessDies(p)
      PROVE  Framed
  BY <1>6 DEF Framed, CommitSteps, EndJob, DestroySandbox, RemoveJobRoot, EnvProcessDies, Fault
<1>7. ASSUME NEW i \in DOMAIN boxes, SandboxStops(i) \/ SandboxLost(i) PROVE Framed
  BY <1>7 DEF Framed, SandboxStops, SandboxLost, Fault
<1>8. ASSUME NEW t \in DOMAIN images, ImageRots(t) PROVE Framed
  BY <1>8 DEF Framed, ImageRots, Fault
<1> QED BY <1>1, <1>2, <1>3, <1>4, <1>5, <1>6, <1>7, <1>8, <1>9 DEF EnvNext

(* Every step keeps the types.                                             *)
LEMMA EnvTypedNext ==
  ASSUME EnvTyped, StepsOfPlace, CapturesNumbered, OneSandbox, EnvNext
  PROVE  EnvTyped'
<1>0. MaxImages \in Nat /\ NoRef \in Reference
  BY EnvAssumption DEF NoRef, Reference, Empty, Contents
<1>1. Framed
  BY StepsFramed
<1>2. written' \in Nat
  BY <1>1 DEF Framed, EngineWrites, EnvTyped
<1>3. envJob' \in [attempt : Nat, status : {"running", "suspended", "ended"}, ref : Reference, steps : Nat]
  <2> DEFINE Jobs == [attempt : Nat, status : {"running", "suspended", "ended"}, ref : Reference, steps : Nat]
  <2>0. envJob \in Jobs
    BY DEF EnvTyped
  <2>1. ASSUME NEW p \in EnvProcs, KeepReference(p), envJob' # envJob PROVE envJob' \in Jobs
    <3>1. envJob' = [envJob EXCEPT !.ref = [tag |-> envCall[p].tag, sum |-> envCall[p].sum, steps |-> envCall[p].steps]]
      BY <2>1 DEF KeepReference
    <3>2. [tag |-> envCall[p].tag, sum |-> envCall[p].sum, steps |-> envCall[p].steps] \in Reference
      BY DEF EnvTyped, EnvCall, Reference
    <3> QED BY <2>0, <3>1, <3>2
  <2>2. ASSUME NEW p \in EnvProcs, Park(p) \/ AcquireJob(p) \/ CommitSteps(p) \/ EndJob(p) PROVE envJob' \in Jobs
    <3>1. \/ envJob' = envJob
          \/ envJob' = [envJob EXCEPT !.status = "suspended"] \/ envJob' = [envJob EXCEPT !.status = "ended"]
          \/ envJob' = [envJob EXCEPT !.attempt = envJob.attempt + 1, !.status = "running"]
          \/ envJob' = [envJob EXCEPT !.steps = written]
      BY <2>2 DEF Park, AcquireJob, CommitSteps, EndJob
    <3>2. written \in Nat
      BY DEF EnvTyped
    <3>3. envJob.attempt + 1 \in Nat
      BY <2>0
    <3> QED BY <2>0, <3>1, <3>2, <3>3
  <2>3. \/ envJob' = envJob
        \/ \E p \in EnvProcs : KeepReference(p) \/ Park(p) \/ AcquireJob(p) \/ CommitSteps(p) \/ EndJob(p)
    BY <1>1 DEF Framed
  <2> HIDE DEF Jobs
  <2>4. envJob' \in Jobs
    BY <2>0, <2>1, <2>2, <2>3
  <2> QED BY <2>4 DEF Jobs
<1>4. tags' \in [EnvProcs -> 0..MaxImages]
  <2>0. tags \in [EnvProcs -> 0..MaxImages]
    BY DEF EnvTyped
  <2>1. ASSUME NEW p \in EnvProcs, StartCapture(p) PROVE tags' \in [EnvProcs -> 0..MaxImages]
    <3>1. tags[p] + 1 \in 0..MaxImages
      BY <1>0, <2>0, <2>1 DEF StartCapture
    <3>2. tags' = tags \/ tags' = [q \in EnvProcs |-> IF place.provider = "docker" /\ q # p THEN tags[q] ELSE tags[p] + 1]
      BY <2>1 DEF StartCapture, Named
    <3> QED BY <2>0, <3>1, <3>2
  <2>2. ASSUME NEW p \in EnvProcs, EnvProcessDies(p) PROVE tags' \in [EnvProcs -> 0..MaxImages]
    BY <1>0, <2>0, <2>2 DEF EnvProcessDies
  <2>3. tags' = tags \/ \E p \in EnvProcs : StartCapture(p) \/ EnvProcessDies(p)
    BY <1>1 DEF Framed
  <2> QED BY <2>0, <2>1, <2>2, <2>3
<1>5. engine' \in [EnvProcs -> Nat]
  <2>0. engine \in [EnvProcs -> Nat] /\ \A p \in EnvProcs : envCall[p].attempt \in Nat
    BY DEF EnvTyped, EnvCall
  <2>1. ASSUME NEW p \in EnvProcs, Park(p) \/ Attach(p) \/ EndJob(p) \/ EnvProcessDies(p) PROVE engine' \in [EnvProcs -> Nat]
    BY <2>0, <2>1 DEF Park, Attach, EndJob, EnvProcessDies
  <2>2. engine' = engine \/ \E p \in EnvProcs : Park(p) \/ Attach(p) \/ EndJob(p) \/ EnvProcessDies(p)
    BY <1>1 DEF Framed
  <2> QED BY <2>0, <2>1, <2>2
<1>6. place' \in Places
  BY <1>1 DEF Framed, EnvTyped
<1> QED BY <1>2, <1>3, <1>4, <1>5, <1>6, BoxesTyped, CallsTyped, ImagesTyped DEF EnvTyped

(* What a step makes of the call it is a step of.  The steps of a capture, *)
(* of a restore and of the end of the job are told one by one; the others  *)
(* leave the call at a place nothing is promised of.                       *)
Plain == {"idle", "create", "provision", "start", "resume", "decide", "capture", "hold", "park", "attach"}

(* The steps that neither capture nor restore, and those that do.          *)
PlainStep(p) ==
  \/ CreateInspect(p) \/ MakeDirectory(p) \/ Provision(p) \/ StartSandbox(p) \/ ResumeSandbox(p)
  \/ (\E risk \in {"none", "high"} : StartSuspend(p, risk)) \/ DecideCapture(p) \/ KeepReference(p)
  \/ Hold(p) \/ Park(p) \/ CopyBackFails(p) \/ Materialize(p) \/ Attach(p)
  \/ DestroySandbox(p) \/ RemoveJobRoot(p) \/ EnvProcessDies(p)

SpecialStep(p) ==
  \/ StartCapture(p) \/ CopyFile(p) \/ WriteManifest(p) \/ SnapshotFake(p) \/ DockerCommit(p) \/ ReadImageId(p)
  \/ StartRecover(p) \/ AcquireJob(p) \/ ValidateRestore(p) \/ WipeLive(p) \/ CopyBack(p)
  \/ EndJob(p) \/ CommitSteps(p)

(* A process takes a plain step, or one of those that matter to captures   *)
(* and restores.                                                           *)
LEMMA TameKinds == ASSUME NEW p \in EnvProcs PROVE Tame(p) <=> PlainStep(p) \/ SpecialStep(p)
BY DEF Tame, PlainStep, SpecialStep

(* What a plain step makes of the call.                                    *)
MadePlain(p) ==
  /\ envCall'[p].pc \in Plain
  /\ envCall'[p].ref \in {NoRef, envJob.ref, envCall[p].ref}
  /\ envCall'[p].tag \in {0, envCall[p].tag}
  /\ envCall'[p].pc \in {"provision", "start", "resume"} => ~Local \/ envCall[p].pc = "provision"

(* A plain step leads to a plain place of the call, with what it knew.     *)
LEMMA PlainCalls ==
  ASSUME EnvTyped, NEW p \in EnvProcs, PlainStep(p)
  PROVE  MadePlain(p)
<1>1. envCall[p] \in EnvCall /\ DOMAIN envCall = EnvProcs
  BY DEF EnvTyped
<1> DEFINE Rightly(s) == s \in {"provision", "start", "resume"} => ~Local \/ envCall[p].pc = "provision"
<1>2. AfterCreate(p) \in Plain /\ Rightly(AfterCreate(p))
  BY DEF AfterCreate, Plain
<1>3. ASSUME envCall'[p] = EnvIdle PROVE MadePlain(p)
  BY <1>3 DEF MadePlain, EnvIdle, Plain
<1>4. ASSUME NEW s \in Plain, NEW b, Rightly(s), envCall'[p] = [envCall[p] EXCEPT !.pc = s] \/ envCall'[p] = [envCall[p] EXCEPT !.pc = s, !.box = b]
      PROVE  MadePlain(p)
  BY <1>1, <1>4 DEF MadePlain, EnvCall
<1>5. CASE CreateInspect(p)
  <2> DEFINE next == CASE Dead(SandboxByName) -> "provision"
                [] Inspected(SandboxByName) = "provisioning" -> "start"
                [] Inspected(SandboxByName) = "suspended" -> "resume"
                [] OTHER -> AfterCreate(p)
  <2>1. next \in Plain /\ Rightly(next)
    BY <1>2, <1>5 DEF Plain, CreateInspect
  <2>2. envCall' = [envCall EXCEPT ![p].pc = next, ![p].box = SandboxByName]
    BY <1>5 DEF CreateInspect
  <2> HIDE DEF next
  <2>3. envCall'[p] = [envCall[p] EXCEPT !.pc = next, !.box = SandboxByName]
    BY <1>1, <2>2
  <2> QED BY <1>4, <2>1, <2>3
<1>6. CASE MakeDirectory(p)
  BY <1>1, <1>2, <1>4, <1>6 DEF MakeDirectory, Touching
<1>7. CASE Provision(p)
  <2>1. \E b : envCall'[p] = [envCall[p] EXCEPT !.pc = "start", !.box = b]
    BY <1>1, <1>7 DEF Provision, Touching
  <2>2. "start" \in Plain /\ Rightly("start")
    BY <1>7 DEF Plain, Provision, EnvAt
  <2> QED BY <1>4, <2>1, <2>2
<1>8. CASE StartSandbox(p) \/ ResumeSandbox(p) \/ Hold(p) \/ CopyBackFails(p)
  <2>1. envCall'[p] = EnvIdle \/ \E s \in Plain : Rightly(s) /\ envCall'[p] = [envCall[p] EXCEPT !.pc = s]
    BY <1>1, <1>2, <1>8 DEF StartSandbox, ResumeSandbox, Hold, CopyBackFails, Touching, EnvReturn, EnvGo, Plain
  <2> QED BY <1>3, <1>4, <2>1
<1>9. CASE \E risk \in {"none", "high"} : StartSuspend(p, risk)
  BY <1>1, <1>9 DEF StartSuspend, MadePlain, EnvIdle, Plain
<1>10. CASE DecideCapture(p)
  <2>1. envCall'[p] = EnvIdle \/ \E s \in Plain : Rightly(s) /\ envCall'[p] = [envCall[p] EXCEPT !.pc = s, !.risk = "none", !.box = 0]
    BY <1>1, <1>10 DEF DecideCapture, EnvReturn, Plain
  <2>2. CASE envCall'[p] = EnvIdle
    BY <1>3, <2>2
  <2>3. CASE envCall'[p] # EnvIdle
    BY <1>1, <2>1, <2>3 DEF MadePlain, EnvCall
  <2> QED BY <2>2, <2>3
<1>11. CASE KeepReference(p)
  <2>1. envCall'[p] = EnvIdle \/ envCall'[p] = [EnvIdle EXCEPT !.op = "suspend", !.pc = "hold", !.attempt = envCall[p].attempt]
    BY <1>1, <1>11 DEF KeepReference, EnvReturn
  <2> QED BY <1>3, <2>1 DEF MadePlain, EnvIdle, Plain
<1>12. CASE Materialize(p)
  <2>1. \E b : envCall'[p] = [envCall[p] EXCEPT !.pc = "attach", !.box = b]
    BY <1>1, <1>12 DEF Materialize
  <2>2. "attach" \in Plain
    BY DEF Plain
  <2> QED BY <1>4, <2>1, <2>2
<1>13. CASE Park(p) \/ Attach(p) \/ DestroySandbox(p) \/ RemoveJobRoot(p) \/ EnvProcessDies(p)
  <2>1. envCall'[p] = EnvIdle
    BY <1>1, <1>13 DEF Park, Attach, DestroySandbox, RemoveJobRoot, EnvProcessDies, EnvReturn, Touching
  <2> QED BY <1>3, <2>1
<1> QED BY <1>5, <1>6, <1>7, <1>8, <1>9, <1>10, <1>11, <1>12, <1>13 DEF PlainStep

(* A step of a call that keeps what the call is about.                     *)
Moved(p, from, to) ==
  /\ envCall[p].pc = from /\ envCall'[p].pc \in to
  /\ envCall'[p].ref = envCall[p].ref /\ envCall'[p].tag = envCall[p].tag

MadeIdle(p) == envCall'[p] = EnvIdle

(* Where each of the other steps leads, and with which reference and       *)
(* capture.                                                                *)
LEMMA SpecialCalls ==
  ASSUME EnvTyped, NEW p \in EnvProcs
  PROVE  /\ StartCapture(p) =>
              \/ MadeIdle(p)
              \/ /\ envCall'[p].pc = (IF Local THEN "copy" ELSE "image") /\ envCall'[p].ref = envCall[p].ref
                 /\ envCall'[p].tag = tags[p] + 1 /\ envCall'[p].box \in 1..Len(boxes)
         /\ CopyFile(p) => MadeIdle(p) \/ Moved(p, "copy", {"copy", "manifest"})
         /\ WriteManifest(p) =>
              Moved(p, "manifest", {"keep"}) /\ envCall'[p].sum = images[envCall[p].tag].files
         /\ SnapshotFake(p) =>
              \/ MadeIdle(p)
              \/ Moved(p, "image", {"keep"}) /\ envCall'[p].sum = boxes[envCall[p].box].files
         /\ DockerCommit(p) => MadeIdle(p) \/ Moved(p, "image", {"imageId"})
         /\ ReadImageId(p) =>
              Moved(p, "imageId", {"keep"}) /\ envCall'[p].sum = images[envCall[p].tag].files
         /\ StartRecover(p) =>
              /\ envCall'[p].pc = "acquire" /\ envCall'[p].ref = envJob.ref
              /\ envCall'[p].tag = 0 /\ envCall'[p].file = 1
         /\ AcquireJob(p) =>
              \/ MadeIdle(p)
              \/ /\ Moved(p, "acquire", {"validate", "create"}) /\ envCall'[p].file = envCall[p].file
                 /\ envCall'[p].pc = "validate" => envCall[p].ref # NoRef
         /\ ValidateRestore(p) =>
              Moved(p, "validate", {"create", "wipe", "materialize"}) /\ envCall'[p].file = envCall[p].file
         /\ WipeLive(p) =>
              /\ Moved(p, "wipe", {"back"}) /\ envCall'[p].file = envCall[p].file /\ envCall'[p].box = 1
         /\ CopyBack(p) =>
              /\ Moved(p, "back", {"create", "attach", "back"}) /\ envCall'[p].box = envCall[p].box
              /\ envCall'[p].alone = envCall[p].alone
         /\ EndJob(p) => envCall'[p].pc = "dispose" /\ envCall'[p].ref = NoRef /\ envCall'[p].tag = 0
         /\ CommitSteps(p) => envCall' = envCall
<1>1. envCall[p] \in EnvCall /\ DOMAIN envCall = EnvProcs
  BY DEF EnvTyped
<1>2. /\ envCall[p].tag \in 0..MaxImages /\ boxes \in Seq(Box)
      /\ SandboxByName # 0 => SandboxByName \in 1..Len(boxes)
  BY <1>1, ByNameIn DEF EnvCall, EnvTyped
<1>3. StartCapture(p) =>
              \/ MadeIdle(p)
              \/ /\ envCall'[p].pc = (IF Local THEN "copy" ELSE "image") /\ envCall'[p].ref = envCall[p].ref
                 /\ envCall'[p].tag = tags[p] + 1 /\ envCall'[p].box \in 1..Len(boxes)
  <2> SUFFICES ASSUME StartCapture(p), ~Dead(SandboxByName)
               PROVE  /\ envCall'[p].pc = (IF Local THEN "copy" ELSE "image") /\ envCall'[p].ref = envCall[p].ref
                      /\ envCall'[p].tag = tags[p] + 1 /\ envCall'[p].box \in 1..Len(boxes)
    BY <1>1 DEF StartCapture, EnvReturn, MadeIdle
  <2>1. SandboxByName # 0
    BY DEF Dead, Inspected
  <2>2. envCall'[p] = [envCall[p] EXCEPT !.pc = IF Local THEN "copy" ELSE "image",
                                         !.box = SandboxByName, !.tag = tags[p] + 1]
    BY <1>1 DEF StartCapture
  <2> QED BY <1>1, <1>2, <2>1, <2>2 DEF EnvCall
<1>4. /\ CopyFile(p) => MadeIdle(p) \/ Moved(p, "copy", {"copy", "manifest"})
      /\ WriteManifest(p) =>
              Moved(p, "manifest", {"keep"}) /\ envCall'[p].sum = images[envCall[p].tag].files
  BY <1>1 DEF CopyFile, WriteManifest, EnvReturn, EnvAt, MadeIdle, Moved, EnvCall
<1>5. /\ SnapshotFake(p) =>
              \/ MadeIdle(p)
              \/ Moved(p, "image", {"keep"}) /\ envCall'[p].sum = boxes[envCall[p].box].files
      /\ DockerCommit(p) => MadeIdle(p) \/ Moved(p, "image", {"imageId"})
      /\ ReadImageId(p) =>
              Moved(p, "imageId", {"keep"}) /\ envCall'[p].sum = images[envCall[p].tag].files
  BY <1>1 DEF SnapshotFake, DockerCommit, ReadImageId, EnvReturn, EnvGo, EnvAt, MadeIdle, Moved, EnvCall
<1>6. /\ StartRecover(p) =>
              /\ envCall'[p].pc = "acquire" /\ envCall'[p].ref = envJob.ref
              /\ envCall'[p].tag = 0 /\ envCall'[p].file = 1
      /\ EndJob(p) => envCall'[p].pc = "dispose" /\ envCall'[p].ref = NoRef /\ envCall'[p].tag = 0
      /\ CommitSteps(p) => envCall' = envCall
  BY <1>1 DEF StartRecover, EndJob, CommitSteps, EnvIdle
<1>7. AcquireJob(p) =>
              \/ MadeIdle(p)
              \/ /\ Moved(p, "acquire", {"validate", "create"}) /\ envCall'[p].file = envCall[p].file
                 /\ envCall'[p].pc = "validate" => envCall[p].ref # NoRef
  BY <1>1 DEF AcquireJob, EnvReturn, EnvAt, MadeIdle, Moved, EnvCall
<1>8. ValidateRestore(p) =>
              Moved(p, "validate", {"create", "wipe", "materialize"}) /\ envCall'[p].file = envCall[p].file
  BY <1>1 DEF ValidateRestore, EnvGo, EnvAt, Moved, EnvCall
<1>9. WipeLive(p) => Moved(p, "wipe", {"back"}) /\ envCall'[p].file = envCall[p].file /\ envCall'[p].box = 1
  BY <1>1 DEF WipeLive, Touching, EnvAt, Moved, EnvCall
<1>10. CopyBack(p) =>
              /\ Moved(p, "back", {"create", "attach", "back"}) /\ envCall'[p].box = envCall[p].box
              /\ envCall'[p].alone = envCall[p].alone
  BY <1>1 DEF CopyBack, Touching, EnvGo, EnvAt, Moved, EnvCall
<1> QED BY <1>3, <1>4, <1>5, <1>6, <1>7, <1>8, <1>9, <1>10

(* A step from outside leaves each call where it is.                       *)
LEMMA OutsideCalls ==
  ASSUME EnvTyped, Outside, NEW q \in EnvProcs
  PROVE  Aside(envCall'[q], envCall[q])
BY CallsAside

(* A call only takes the steps its deployment knows.                       *)
LEMMA StepsOfPlaceNext ==
  ASSUME EnvTyped, StepsOfPlace, CapturesNumbered, OneSandbox, EnvNext
  PROVE  StepsOfPlace'
<1>1. Framed /\ (Len(boxes') >= Len(boxes) \/ Local) /\ Len(boxes) \in Nat /\ Len(boxes') \in Nat
  BY StepsFramed, BoxesTyped DEF EnvTyped
<1> DEFINE Fits(c) ==
  /\ c.pc \in {"copy", "manifest", "wipe", "back"} => Local
  /\ c.pc \in {"provision", "start", "resume"} => ~Local
  /\ c.pc = "image" => ~Local /\ c.box \in 1..Len(boxes')
  /\ c.pc = "imageId" => place.provider = "docker"
  /\ c.pc = "materialize" => place.provider = "fake"
<1>2. ASSUME NEW q \in EnvProcs, Aside(envCall'[q], envCall[q]) PROVE Fits(envCall'[q])
  <2>1. envCall[q].pc = "image" => ~Local /\ envCall[q].box \in 1..Len(boxes')
    <3>1. envCall[q].pc = "image" => ~Local /\ envCall[q].box \in 1..Len(boxes)
      BY DEF StepsOfPlace
    <3>2. ~Local => 1..Len(boxes) \subseteq 1..Len(boxes')
      BY <1>1
    <3> QED BY <3>1, <3>2
  <2> QED BY <1>2, <2>1 DEF Aside, StepsOfPlace
<1>3. ASSUME NEW p \in EnvProcs, Tame(p) PROVE Fits(envCall'[p])
  <2>1. CASE PlainStep(p)
    BY <2>1, PlainCalls DEF MadePlain, Plain, StepsOfPlace
  <2>2. CASE SpecialStep(p)
    <3>0. \/ MadeIdle(p) \/ CommitSteps(p) \/ \E s \in {"acquire", "dispose", "keep", "validate", "create", "attach"} : envCall'[p].pc = s
          \/ StartCapture(p) /\ envCall'[p].pc = (IF Local THEN "copy" ELSE "image") /\ envCall'[p].box \in 1..Len(boxes)
          \/ Moved(p, "copy", {"copy", "manifest"})
          \/ DockerCommit(p) /\ envCall'[p].pc = "imageId"
          \/ ValidateRestore(p) /\ envCall'[p].pc \in {"wipe", "materialize"}
          \/ Moved(p, "wipe", {"back"}) \/ Moved(p, "back", {"back"})
      BY <2>2, SpecialCalls DEF SpecialStep, Moved
    <3>1. CASE MadeIdle(p)
      BY <3>1 DEF MadeIdle, EnvIdle
    <3>2. CASE CommitSteps(p)
      <4>1. envCall' = envCall /\ boxes' = boxes
        BY <3>2 DEF CommitSteps
      <4> QED BY <4>1 DEF StepsOfPlace
    <3>3. CASE \E s \in {"acquire", "dispose", "keep", "validate", "create", "attach"} : envCall'[p].pc = s
      BY <3>3
    <3>4. CASE StartCapture(p) /\ envCall'[p].pc = (IF Local THEN "copy" ELSE "image") /\ envCall'[p].box \in 1..Len(boxes)
      <4>1. boxes' = boxes
        BY <3>4 DEF StartCapture
      <4> QED BY <3>4, <4>1
    <3>5. CASE Moved(p, "copy", {"copy", "manifest"}) \/ Moved(p, "wipe", {"back"}) \/ Moved(p, "back", {"back"})
      BY <3>5 DEF Moved, StepsOfPlace
    <3>6. CASE DockerCommit(p) /\ envCall'[p].pc = "imageId"
      BY <3>6 DEF DockerCommit
    <3>7. CASE ValidateRestore(p) /\ envCall'[p].pc \in {"wipe", "materialize"}
      <4>1. DOMAIN envCall = EnvProcs /\ envCall[p] \in EnvCall
        BY DEF EnvTyped
      <4>2. envCall'[p].pc = IF ~Valid(envCall[p].ref) THEN "create" ELSE IF Local THEN "wipe" ELSE "materialize"
        BY <3>7, <4>1 DEF ValidateRestore, EnvGo, EnvCall
      <4>3. ~Local /\ Valid(envCall[p].ref) => place.provider # "docker"
        BY DEF Valid, ValidCloud, InspectDockerImage
      <4>4. place.provider \in {"local", "docker", "fake"}
        BY EnvAssumption DEF EnvTyped
      <4> QED BY <3>7, <4>2, <4>3, <4>4 DEF Local
    <3> QED BY <3>0, <3>1, <3>2, <3>3, <3>4, <3>5, <3>6, <3>7
  <2> QED BY <1>3, <2>1, <2>2, TameKinds
<1>4. \A q \in EnvProcs : Fits(envCall'[q])
  <2>1. CASE Outside
    BY <1>2, <2>1, OutsideCalls
  <2>2. ASSUME NEW p \in EnvProcs, Tame(p), NEW q \in EnvProcs PROVE Fits(envCall'[q])
    BY <1>2, <1>3, <2>2, OthersStand
  <2> QED BY <2>1, <2>2, StepKinds
<1> QED BY <1>1, <1>4 DEF StepsOfPlace, Framed, Local

(* A call that captures or restores has the number of a capture.           *)
LEMMA CapturesNumberedNext ==
  ASSUME EnvTyped, StepsOfPlace, CapturesNumbered, EnvNext
  PROVE  CapturesNumbered'
<1>1. Framed
  BY StepsFramed
<1> DEFINE Fits(c) ==
  /\ c.pc \in Capturing \cup {"imageId"} => c.tag # 0
  /\ c.ref.tag = 0 => c.ref = NoRef
  /\ c.pc \in {"validate", "wipe", "back", "materialize"} => c.ref.tag # 0
<1>2. ASSUME NEW q \in EnvProcs, Aside(envCall'[q], envCall[q]) PROVE Fits(envCall'[q])
  BY <1>2 DEF Aside, CapturesNumbered
<1>3. ASSUME NEW p \in EnvProcs, Tame(p) PROVE Fits(envCall'[p])
  <2>0. tags[p] \in Nat
    BY EnvAssumption DEF EnvTyped
  <2>1. CASE PlainStep(p)
    BY <2>1, PlainCalls DEF MadePlain, Plain, CapturesNumbered, Capturing, Filling, NoRef
  <2>2. CASE SpecialStep(p)
    <3>1. CASE MadeIdle(p)
      BY <3>1 DEF MadeIdle, EnvIdle, Capturing, Filling
    <3>2. CASE StartCapture(p) /\ ~MadeIdle(p)
      <4>1. envCall'[p].pc \in {"copy", "image"} /\ envCall'[p].tag = tags[p] + 1 /\ envCall'[p].ref = envCall[p].ref
        BY <3>2, SpecialCalls
      <4> QED BY <2>0, <4>1 DEF CapturesNumbered
    <3>3. CASE StartRecover(p) \/ EndJob(p)
      BY <3>3, SpecialCalls DEF CapturesNumbered, Capturing, Filling, NoRef
    <3>4. CASE CommitSteps(p)
      BY <3>4, SpecialCalls DEF CapturesNumbered
    <3>5. CASE /\ CopyFile(p) \/ WriteManifest(p) \/ SnapshotFake(p) \/ DockerCommit(p) \/ ReadImageId(p)
               /\ ~MadeIdle(p)
      <4>1. /\ envCall[p].pc \in {"copy", "manifest", "image", "imageId"}
            /\ envCall'[p].pc \in {"copy", "manifest", "keep", "imageId"}
            /\ envCall'[p].tag = envCall[p].tag /\ envCall'[p].ref = envCall[p].ref
        BY <3>5, SpecialCalls DEF Moved
      <4> QED BY <4>1 DEF CapturesNumbered, Capturing, Filling
    <3>6. CASE (AcquireJob(p) \/ ValidateRestore(p) \/ WipeLive(p) \/ CopyBack(p)) /\ ~MadeIdle(p)
      <4>1. /\ \/ envCall[p].pc \in {"validate", "wipe", "back"}
               \/ envCall'[p].pc = "create"
               \/ envCall'[p].pc = "validate" /\ envCall[p].ref # NoRef
            /\ envCall'[p].pc \notin Capturing \cup {"imageId"}
            /\ envCall'[p].ref = envCall[p].ref
        BY <3>6, SpecialCalls DEF Moved, Capturing, Filling
      <4> QED BY <4>1 DEF CapturesNumbered
    <3> QED BY <2>2, <3>1, <3>2, <3>3, <3>4, <3>5, <3>6 DEF SpecialStep
  <2> QED BY <1>3, <2>1, <2>2, TameKinds
<1>4. \A q \in EnvProcs : Fits(envCall'[q])
  <2>1. CASE Outside
    BY <1>2, <2>1, OutsideCalls
  <2>2. ASSUME NEW p \in EnvProcs, Tame(p), NEW q \in EnvProcs PROVE Fits(envCall'[q])
    BY <1>2, <1>3, <2>2, OthersStand
  <2> QED BY <2>1, <2>2, StepKinds
<1>5. envJob'.ref.tag = 0 => envJob'.ref = NoRef
  <2>0. envJob \in [attempt : Nat, status : {"running", "suspended", "ended"}, ref : Reference, steps : Nat]
    BY DEF EnvTyped
  <2>1. envJob'.ref = envJob.ref \/ \E p \in EnvProcs : KeepReference(p)
    BY <1>1, <2>0 DEF Framed, Park, AcquireJob, CommitSteps, EndJob
  <2>2. ASSUME NEW p \in EnvProcs, KeepReference(p), envJob'.ref # envJob.ref PROVE envJob'.ref.tag # 0
    <3>1. envJob'.ref.tag = envCall[p].tag /\ envCall[p].pc = "keep"
      BY <2>0, <2>2 DEF KeepReference, EnvAt
    <3> QED BY <3>1 DEF CapturesNumbered, Capturing
  <2> QED BY <2>1, <2>2 DEF CapturesNumbered
<1> QED BY <1>4, <1>5 DEF CapturesNumbered

(* A call keeps its number while it captures, and gets none but as it      *)
(* starts to; what it restores comes from the record.                      *)
Numbered(q) ==
  /\ envCall'[q].pc \in Filling => envCall[q].pc \in Filling
  /\ envCall'[q].pc \in Capturing => envCall[q].pc \in Capturing /\ envCall'[q].tag = envCall[q].tag
  /\ envCall'[q].tag \in {0, envCall[q].tag}
  /\ envCall'[q].ref.tag \in {0, envJob.ref.tag, envCall[q].ref.tag}

(* Where numbers are not given again, a step leaves a process with numbers *)
(* it knew.                                                                *)
LEMMA StepsNumbered ==
  ASSUME EnvTyped, StepsOfPlace, place.provider # "docker", NEW p \in EnvProcs, Tame(p),
         StartCapture(p) => MadeIdle(p)
  PROVE  Numbered(p)
<1>1. CASE PlainStep(p)
  BY <1>1, PlainCalls DEF MadePlain, Plain, Numbered, Capturing, Filling, NoRef
<1>2. CASE SpecialStep(p)
  <2>1. CASE MadeIdle(p)
    BY <2>1 DEF MadeIdle, EnvIdle, Numbered, Capturing, Filling, NoRef
  <2>2. CASE StartRecover(p) \/ EndJob(p)
    BY <2>2, SpecialCalls DEF Numbered, Capturing, Filling, NoRef
  <2>3. CASE CommitSteps(p)
    BY <2>3, SpecialCalls DEF Numbered
  <2>4. CASE (CopyFile(p) \/ WriteManifest(p) \/ SnapshotFake(p)) /\ ~MadeIdle(p)
    BY <2>4, SpecialCalls DEF Moved, Numbered, Capturing, Filling
  <2>5. ~DockerCommit(p) /\ ~ReadImageId(p)
    BY DEF DockerCommit, ReadImageId, StepsOfPlace, EnvAt
  <2>6. CASE (AcquireJob(p) \/ ValidateRestore(p) \/ WipeLive(p) \/ CopyBack(p)) /\ ~MadeIdle(p)
    BY <2>6, SpecialCalls DEF Moved, Numbered, Capturing, Filling
  <2> QED BY <1>2, <2>1, <2>2, <2>3, <2>4, <2>5, <2>6 DEF SpecialStep
<1> QED BY <1>1, <1>2, TameKinds

(* The record names another capture only by the commit of a call that kept *)
(* it.                                                                     *)
LEMMA RecordNamed ==
  ASSUME EnvTyped, EnvNext
  PROVE  \/ envJob'.ref = envJob.ref
         \/ \E p \in EnvProcs : /\ KeepReference(p) /\ envCall[p].pc = "keep"
                                /\ envJob'.ref.tag = envCall[p].tag /\ envJob'.ref.sum = envCall[p].sum
<1>1. envJob \in [attempt : Nat, status : {"running", "suspended", "ended"}, ref : Reference, steps : Nat] /\ Framed
  BY StepsFramed DEF EnvTyped
<1>2. envJob'.ref = envJob.ref \/ \E p \in EnvProcs : KeepReference(p)
  BY <1>1 DEF Framed, Park, AcquireJob, CommitSteps, EndJob
<1>3. ASSUME NEW p \in EnvProcs, KeepReference(p), envJob'.ref # envJob.ref
      PROVE  envJob'.ref.tag = envCall[p].tag /\ envJob'.ref.sum = envCall[p].sum /\ envCall[p].pc = "keep"
  BY <1>1, <1>3 DEF KeepReference, EnvAt
<1> QED BY <1>2, <1>3

(* Every step keeps captures apart where numbers are not given again.      *)
LEMMA CapturesApartNext ==
  ASSUME EnvTyped, StepsOfPlace, CapturesNumbered, CapturesApart, EnvNext
  PROVE  CapturesApart'
<1> SUFFICES ASSUME place.provider # "docker" PROVE CapturesApart'
  BY StepsFramed DEF CapturesApart, Framed
<1>0. Framed /\ \A p \in EnvProcs : tags[p] \in Nat /\ envCall[p].tag \in Nat /\ envCall[p].ref.tag \in Nat /\ envJob.ref.tag \in Nat
  <2>1. MaxImages \in Nat /\ 0..MaxImages \subseteq Nat /\ Framed
    BY EnvAssumption, StepsFramed
  <2>2. envJob.ref \in Reference /\ \A p \in EnvProcs : envCall[p] \in EnvCall /\ tags[p] \in 0..MaxImages
    BY DEF EnvTyped
  <2>3. \A p \in EnvProcs : envCall[p].tag \in 0..MaxImages /\ envCall[p].ref \in Reference
    BY <2>2 DEF EnvCall
  <2> QED BY <2>1, <2>2, <2>3 DEF Reference
<1>1. \A p, q \in EnvProcs : tags[p] = tags[q] /\ envCall[p].tag <= tags[q]
                              /\ envCall[p].ref.tag <= tags[q] /\ envJob.ref.tag <= tags[q]
  BY DEF CapturesApart
<1>2. CASE \A q \in EnvProcs : Numbered(q) /\ tags'[q] = tags[q]
  <2>1. \A p, q \in EnvProcs :
          p # q /\ envCall'[p].pc \in Capturing /\ envCall'[q].pc \in Capturing
            => envCall'[p].tag # envCall'[q].tag
    BY <1>2 DEF Numbered, CapturesApart
  <2>2. \A p, q \in EnvProcs :
          envCall'[p].pc \in Filling => envCall'[q].ref.tag # envCall'[p].tag
    BY <1>2 DEF Numbered, CapturesApart, CapturesNumbered, Capturing
  <2>3. CASE envJob'.ref = envJob.ref
    <3>1. \A p \in EnvProcs : envCall'[p].pc \in Filling => envJob'.ref.tag # envCall'[p].tag
      BY <1>2, <2>3 DEF Numbered, CapturesApart, Capturing
    <3>2. \A p, q \in EnvProcs : tags'[p] = tags'[q] /\ envCall'[p].tag <= tags'[q]
                              /\ envCall'[p].ref.tag <= tags'[q] /\ envJob'.ref.tag <= tags'[q]
      BY <1>0, <1>1, <1>2, <2>3 DEF Numbered
    <3> QED BY <2>1, <2>2, <3>1, <3>2 DEF CapturesApart
  <2>4. ASSUME NEW r \in EnvProcs, KeepReference(r), envCall[r].pc = "keep", envJob'.ref.tag = envCall[r].tag
        PROVE  CapturesApart'
    <3>0. envCall[r].pc \notin Filling /\ envCall[r].pc \in Capturing
      BY <2>4 DEF Filling, Capturing
    <3>1. \A p \in EnvProcs : envCall'[p].pc \in Filling => envJob'.ref.tag # envCall'[p].tag
      BY <1>2, <2>4, <3>0 DEF Numbered, CapturesApart, Capturing
    <3>2. \A p, q \in EnvProcs : tags'[p] = tags'[q] /\ envCall'[p].tag <= tags'[q]
                              /\ envCall'[p].ref.tag <= tags'[q] /\ envJob'.ref.tag <= tags'[q]
      BY <1>0, <1>1, <1>2, <2>4 DEF Numbered
    <3> QED BY <2>1, <2>2, <3>1, <3>2 DEF CapturesApart
  <2> QED BY <2>3, <2>4, RecordNamed
<1>3. ASSUME NEW p \in EnvProcs, StartCapture(p), ~MadeIdle(p) PROVE CapturesApart'
  <2>1. /\ envCall'[p].tag = tags[p] + 1 /\ envCall'[p].ref = envCall[p].ref
        /\ envJob' = envJob
    BY <1>3, SpecialCalls DEF StartCapture
  <2>2. \A q \in EnvProcs : tags'[q] = tags[p] + 1
    <3>1. envCall'[p] # EnvIdle /\ DOMAIN envCall = EnvProcs
      BY <1>3 DEF MadeIdle, EnvTyped
    <3>2. tags' = Named(p)
      BY <1>3, <3>1 DEF StartCapture, EnvReturn
    <3> QED BY <3>2 DEF Named
  <2>3. \A q \in EnvProcs : q # p => Aside(envCall'[q], envCall[q])
    BY <1>3, OthersStand DEF Tame
  <2>4. \A q \in EnvProcs : q # p => envCall'[q].tag # envCall'[p].tag /\ envCall'[q].tag = envCall[q].tag
                                      /\ envCall'[q].pc = envCall[q].pc
    BY <1>0, <1>1, <2>1, <2>3 DEF Aside
  <2>5. \A q \in EnvProcs : envCall'[q].ref = envCall[q].ref
    BY <2>1, <2>3 DEF Aside
  <2>6. \A q, r \in EnvProcs : tags'[q] = tags'[r] /\ envCall'[q].tag <= tags'[r]
                              /\ envCall'[q].ref.tag <= tags'[r] /\ envJob'.ref.tag <= tags'[r]
    BY <1>0, <1>1, <2>1, <2>2, <2>4, <2>5
  <2>7. \A q, r \in EnvProcs :
          q # r /\ envCall'[q].pc \in Capturing /\ envCall'[r].pc \in Capturing
            => envCall'[q].tag # envCall'[r].tag
    BY <2>4 DEF CapturesApart
  <2>8. envJob.ref.tag # envCall'[p].tag /\ \A r \in EnvProcs : envCall[r].ref.tag # envCall'[p].tag
    BY <1>0, <1>1, <2>1
  <2>9. \A q, r \in EnvProcs :
          envCall'[q].pc \in Filling => envJob'.ref.tag # envCall'[q].tag /\ envCall'[r].ref.tag # envCall'[q].tag
    BY <2>1, <2>4, <2>5, <2>8 DEF CapturesApart
  <2> QED BY <2>6, <2>7, <2>9 DEF CapturesApart
<1>4. ASSUME NEW q \in EnvProcs, Aside(envCall'[q], envCall[q]) PROVE Numbered(q)
  BY <1>4 DEF Aside, Numbered
<1>5. CASE Outside
  <2>1. tags' = tags
    BY <1>5 DEF Outside, EngineWrites, SandboxStops, SandboxLost, ImageRots
  <2> QED BY <1>2, <1>4, <1>5, <2>1, OutsideCalls
<1>6. ASSUME NEW p \in EnvProcs, Tame(p), StartCapture(p) => MadeIdle(p) PROVE CapturesApart'
  <2>1. \A q \in EnvProcs : Numbered(q)
    BY <1>4, <1>6, StepsNumbered, OthersStand
  <2>2. tags' = tags
    <3>1. CASE StartCapture(p)
      <4>1. envCall'[p] = EnvIdle /\ envCall[p] \in EnvCall /\ DOMAIN envCall = EnvProcs
        BY <1>6, <3>1 DEF MadeIdle, EnvTyped
      <4>2. ~Dead(SandboxByName) => envCall'[p].tag # 0
        BY <1>0, <3>1, <4>1 DEF StartCapture, EnvCall
      <4>3. Dead(SandboxByName)
        BY <4>1, <4>2 DEF EnvIdle
      <4> QED BY <3>1, <4>3 DEF StartCapture
    <3>2. CASE ~StartCapture(p)
      BY <1>6, <3>2 DEF Tame, CreateInspect, MakeDirectory, Provision, StartSandbox, ResumeSandbox, StartSuspend,
        DecideCapture, CopyFile, WriteManifest, SnapshotFake, DockerCommit, ReadImageId, KeepReference, Hold, Park,
        StartRecover, AcquireJob, ValidateRestore, WipeLive, CopyBack, CopyBackFails, Materialize, Attach,
        CommitSteps, EndJob, DestroySandbox, RemoveJobRoot, EnvProcessDies
    <3> QED BY <3>1, <3>2
  <2> QED BY <1>2, <2>1, <2>2
<1> QED BY <1>3, <1>5, <1>6, StepKinds

(* What a step leaves of the capture a record or a call names.             *)
LEMMA OtherImages ==
  ASSUME EnvTyped, EnvNext, Unspoilt', NEW t \in 1..MaxImages,
         \A p \in EnvProcs : envCall[p].pc \in Filling => envCall[p].tag # t
  PROVE  images'[t] = images[t]
<1>0. DOMAIN images = 1..MaxImages /\ Framed
  BY StepsFramed DEF EnvTyped
<1>1. CASE images' = images
  BY <1>1
<1>2. ASSUME NEW p \in EnvProcs, CopyFile(p) \/ WriteManifest(p) \/ SnapshotFake(p) \/ DockerCommit(p)
      PROVE  images'[t] = images[t]
  <2>1. envCall[p].tag # t
    BY <1>2 DEF CopyFile, WriteManifest, SnapshotFake, DockerCommit, EnvAt, Filling
  <2> QED BY <1>0, <1>2, <2>1 DEF CopyFile, WriteManifest, SnapshotFake, DockerCommit
<1>3. ~(\E p \in EnvProcs : RemoveJobRoot(p)) /\ ~(\E i \in DOMAIN images : ImageRots(i))
  BY DEF Unspoilt, RemoveJobRoot, ImageRots, Fault
<1> QED BY <1>0, <1>1, <1>2, <1>3 DEF Framed

(* In docker a capture that is filled anew is marked.                      *)
LEMMA WholeImages ==
  ASSUME EnvTyped, EnvNext, Unspoilt', place.provider = "docker", StepsOfPlace, NEW t \in 1..MaxImages, images[t].whole
  PROVE  images'[t] = images[t]
<1>0. DOMAIN images = 1..MaxImages /\ Framed
  BY StepsFramed DEF EnvTyped
<1>1. CASE images' = images
  BY <1>1
<1>2. ASSUME NEW p \in EnvProcs, DockerCommit(p), images' # images PROVE images'[t] = images[t]
  <2>1. CASE envCall[p].tag = t
    <3>1. images[t] # NoImage
      BY DEF NoImage
    <3>2. "retagged" \in marks'
      BY <1>2, <2>1, <3>1 DEF DockerCommit
    <3> QED BY <3>2 DEF Unspoilt
  <2>2. CASE envCall[p].tag # t
    BY <1>0, <1>2, <2>2 DEF DockerCommit
  <2> QED BY <2>1, <2>2
<1>3. \A p \in EnvProcs : ~CopyFile(p) /\ ~WriteManifest(p) /\ ~SnapshotFake(p)
  BY DEF CopyFile, WriteManifest, SnapshotFake, EnvAt, StepsOfPlace, Local
<1>4. ~(\E p \in EnvProcs : RemoveJobRoot(p)) /\ ~(\E i \in DOMAIN images : ImageRots(i))
  BY DEF Unspoilt, RemoveJobRoot, ImageRots, Fault
<1> QED BY <1>0, <1>1, <1>2, <1>3, <1>4 DEF Framed

(* Every step keeps whole what the record names.                           *)
LEMMA CapturesWholeNext ==
  ASSUME EnvTyped, StepsOfPlace, CapturesNumbered, CapturesApart, CapturesWhole, EnvNext
  PROVE  CapturesWhole'
<1> SUFFICES ASSUME Unspoilt' PROVE CapturesWhole'
  BY DEF CapturesWhole
<1>0. Unspoilt /\ Framed
  BY StepsFramed DEF Framed, Unspoilt
<1>1. /\ envJob.ref # NoRef => Stands(envJob.ref.tag, envJob.ref.sum)
      /\ \A p \in EnvProcs :
           /\ envCall[p].pc = "keep" => Stands(envCall[p].tag, envCall[p].sum)
           /\ envCall[p].pc = "imageId" => images[envCall[p].tag].whole
  BY <1>0 DEF CapturesWhole
<1>2. /\ envJob.ref # NoRef => envJob.ref.tag \in 1..MaxImages
      /\ \A p \in EnvProcs : envCall[p].pc \in Capturing \cup {"imageId"} => envCall[p].tag \in 1..MaxImages
  <2>1. MaxImages \in Nat /\ envJob.ref.tag \in 0..MaxImages /\ \A p \in EnvProcs : envCall[p].tag \in 0..MaxImages
    BY EnvAssumption DEF EnvTyped, EnvCall, Reference
  <2>2. /\ envJob.ref # NoRef => envJob.ref.tag # 0
        /\ \A p \in EnvProcs : envCall[p].pc \in Capturing \cup {"imageId"} => envCall[p].tag # 0
    BY DEF CapturesNumbered
  <2> QED BY <2>1, <2>2
<1>3. envJob.ref # NoRef => images'[envJob.ref.tag] = images[envJob.ref.tag]
  <2>1. CASE place.provider = "docker"
    BY <1>1, <1>2, <2>1, WholeImages DEF Stands
  <2>2. CASE place.provider # "docker"
    <3>1. \A p \in EnvProcs : envCall[p].pc \in Filling => envCall[p].tag # envJob.ref.tag
      BY <2>2 DEF CapturesApart
    <3> QED BY <1>2, <3>1, OtherImages
  <2> QED BY <2>1, <2>2
<1>4. \A q \in EnvProcs : envCall[q].pc \in {"keep", "imageId"} => images'[envCall[q].tag] = images[envCall[q].tag]
  <2> SUFFICES ASSUME NEW q \in EnvProcs, envCall[q].pc \in {"keep", "imageId"}
               PROVE  images'[envCall[q].tag] = images[envCall[q].tag]
    OBVIOUS
  <2>0. envCall[q].tag \in 1..MaxImages
    BY <1>2 DEF Capturing
  <2>1. CASE place.provider = "docker"
    <3>1. images[envCall[q].tag].whole
      BY <1>1 DEF Stands
    <3> QED BY <2>0, <2>1, <3>1, WholeImages
  <2>2. CASE place.provider # "docker"
    <3>1. envCall[q].pc = "keep"
      BY <2>2 DEF StepsOfPlace
    <3>2. \A p \in EnvProcs : envCall[p].pc \in Filling => envCall[p].tag # envCall[q].tag
      BY <2>2, <3>1 DEF CapturesApart, Capturing, Filling
    <3> QED BY <2>0, <3>2, OtherImages
  <2> QED BY <2>1, <2>2
<1> DEFINE Fits(c) == /\ c.pc = "keep" => images'[c.tag].whole /\ images'[c.tag].files = c.sum
                      /\ c.pc = "imageId" => images'[c.tag].whole
<1>5. ASSUME NEW q \in EnvProcs, Aside(envCall'[q], envCall[q]) PROVE Fits(envCall'[q])
  BY <1>1, <1>4, <1>5 DEF Aside, Stands
<1>6. ASSUME NEW p \in EnvProcs, Tame(p) PROVE Fits(envCall'[p])
  <2>0. DOMAIN images = 1..MaxImages
    BY DEF EnvTyped
  <2>1. CASE PlainStep(p)
    BY <2>1, PlainCalls DEF MadePlain, Plain
  <2>2. CASE MadeIdle(p)
    BY <2>2 DEF MadeIdle, EnvIdle
  <2>3. CASE StartCapture(p) /\ ~MadeIdle(p)
    BY <2>3, SpecialCalls
  <2>4. CASE CopyFile(p) /\ ~MadeIdle(p)
    BY <2>4, SpecialCalls DEF Moved
  <2>5. CASE WriteManifest(p)
    <3>1. Moved(p, "manifest", {"keep"}) /\ envCall'[p].sum = images[envCall[p].tag].files
      BY <2>5, SpecialCalls
    <3>2. envCall[p].tag \in 1..MaxImages
      BY <1>2, <3>1 DEF Moved, Capturing, Filling
    <3>3. images' = [images EXCEPT ![envCall[p].tag].whole = TRUE] /\ images[envCall[p].tag] \in Image
      BY <2>5, <3>2 DEF WriteManifest, EnvTyped
    <3> QED BY <2>0, <3>1, <3>2, <3>3 DEF Moved, Image
  <2>6. CASE SnapshotFake(p) /\ ~MadeIdle(p)
    <3>1. Moved(p, "image", {"keep"}) /\ envCall'[p].sum = boxes[envCall[p].box].files
      BY <2>6, SpecialCalls
    <3>2. envCall[p].tag \in 1..MaxImages
      BY <1>2, <3>1 DEF Moved, Capturing, Filling
    <3>3. images' = [images EXCEPT ![envCall[p].tag] = [files |-> boxes[envCall[p].box].files, whole |-> TRUE]]
      <4>1. DOMAIN envCall = EnvProcs
        BY DEF EnvTyped
      <4> QED BY <2>6, <4>1 DEF SnapshotFake, EnvReturn, MadeIdle
    <3> QED BY <2>0, <3>1, <3>2, <3>3 DEF Moved
  <2>7. CASE DockerCommit(p) /\ ~MadeIdle(p)
    <3>1. Moved(p, "image", {"imageId"})
      BY <2>7, SpecialCalls
    <3>2. envCall[p].tag \in 1..MaxImages
      BY <1>2, <3>1 DEF Moved, Capturing, Filling
    <3>3. images' = [images EXCEPT ![envCall[p].tag] = [files |-> boxes[envCall[p].box].files, whole |-> TRUE]]
      <4>1. DOMAIN envCall = EnvProcs
        BY DEF EnvTyped
      <4> QED BY <2>7, <4>1 DEF DockerCommit, EnvReturn, MadeIdle
    <3> QED BY <2>0, <3>1, <3>2, <3>3 DEF Moved
  <2>8. CASE ReadImageId(p)
    <3>1. Moved(p, "imageId", {"keep"}) /\ envCall'[p].sum = images[envCall[p].tag].files /\ images' = images
      BY <2>8, SpecialCalls DEF ReadImageId
    <3> QED BY <1>1, <3>1 DEF Moved
  <2>9. CASE StartRecover(p) \/ EndJob(p)
    BY <2>9, SpecialCalls
  <2>10. CASE (AcquireJob(p) \/ ValidateRestore(p) \/ WipeLive(p) \/ CopyBack(p)) /\ ~MadeIdle(p)
    BY <2>10, SpecialCalls DEF Moved
  <2>11. CASE CommitSteps(p)
    <3>1. envCall' = envCall
      BY <2>11, SpecialCalls
    <3> QED BY <1>1, <1>4, <3>1 DEF Stands
  <2> QED BY <1>6, <2>1, <2>2, <2>3, <2>4, <2>5, <2>6, <2>7, <2>8, <2>9, <2>10, <2>11, TameKinds DEF SpecialStep
<1>7. \A q \in EnvProcs : Fits(envCall'[q])
  <2>1. CASE Outside
    BY <1>5, <2>1, OutsideCalls
  <2>2. ASSUME NEW p \in EnvProcs, Tame(p), NEW q \in EnvProcs PROVE Fits(envCall'[q])
    BY <1>5, <1>6, <2>2, OthersStand
  <2> QED BY <2>1, <2>2, StepKinds
<1>8. envJob'.ref # NoRef => images'[envJob'.ref.tag].whole /\ images'[envJob'.ref.tag].files = envJob'.ref.sum
  <2>1. CASE envJob'.ref = envJob.ref
    BY <1>1, <1>3, <2>1 DEF Stands
  <2>2. ASSUME NEW p \in EnvProcs, envCall[p].pc = "keep", envJob'.ref.tag = envCall[p].tag,
               envJob'.ref.sum = envCall[p].sum
        PROVE  images'[envJob'.ref.tag].whole /\ images'[envJob'.ref.tag].files = envJob'.ref.sum
    BY <1>1, <1>4, <2>2 DEF Stands
  <2> QED BY <2>1, <2>2, RecordNamed
<1> QED BY <1>7, <1>8 DEF CapturesWhole, Stands

(* Every step keeps one sandbox of the name at most.                       *)
LEMMA OneSandboxNext ==
  ASSUME EnvTyped, StepsOfPlace, CapturesNumbered, OneSandbox, EnvNext
  PROVE  OneSandbox'
<1>0. /\ Framed /\ place' = place /\ marks \subseteq marks' /\ boxes \in Seq(Box) /\ Len(boxes) \in Nat
      /\ boxes' \in Seq(Box) /\ Len(boxes') >= 1
  BY StepsFramed, BoxesTyped DEF EnvTyped, Framed
<1> DEFINE Lone == \A i \in 1..Len(boxes) : i < Len(boxes) => boxes[i].status = "gone"
           Lone2 == \A i \in 1..Len(boxes') : i < Len(boxes') => boxes'[i].status = "gone"
           Fits == /\ place.provider # "fake" \/ "restored" \notin marks' => Lone2
                   /\ Local => Len(boxes') = 1
                   /\ place.provider = "fake" => \A i \in 1..Len(boxes') : boxes'[i].status # "gone"
<1>1. /\ place.provider # "fake" \/ "restored" \notin marks' => Lone
      /\ Local => Len(boxes) = 1
      /\ place.provider = "fake" => \A i \in 1..Len(boxes) : boxes[i].status # "gone"
  BY <1>0 DEF OneSandbox
<1>2. ASSUME Len(boxes') = Len(boxes),
             \A k \in 1..Len(boxes) :
               /\ boxes[k].status = "gone" => boxes'[k].status = "gone"
               /\ place.provider = "fake" /\ boxes'[k].status = "gone" => boxes[k].status = "gone"
      PROVE  Fits
  BY <1>1, <1>2
<1>3. ASSUME boxes' = boxes PROVE Fits
  BY <1>2, <1>3
<1>4. ASSUME Local, Len(boxes') = 1 PROVE Fits
  BY <1>4 DEF Local
<1>5. ASSUME NEW p \in EnvProcs, MakeDirectory(p) PROVE Fits
  <2>1. Local /\ (boxes' = boxes \/ boxes' = <<NewBox("running", Empty)>>)
    BY <1>5 DEF MakeDirectory, Directory
  <2> QED BY <1>1, <1>4, <2>1
<1>6. ASSUME NEW p \in EnvProcs, Provision(p) PROVE Fits
  <2>1. ~Local
    BY <1>6 DEF Provision, EnvAt, StepsOfPlace
  <2>2. CASE SandboxByName # 0
    BY <1>3, <1>6, <2>2 DEF Provision
  <2>3. CASE SandboxByName = 0
    <3>1. boxes' = Append(boxes, NewBox("provisioning", Empty))
      BY <1>6, <2>3 DEF Provision
    <3>2. /\ Len(boxes') = Len(boxes) + 1 /\ \A k \in 1..Len(boxes) : boxes'[k] = boxes[k]
          /\ boxes'[Len(boxes) + 1] = NewBox("provisioning", Empty)
      BY <1>0, <3>1
    <3>3. NewBox("provisioning", Empty).status # "gone"
      BY DEF NewBox
    <3>4. place.provider # "fake" \/ "restored" \notin marks' => Lone2
      <4>1. SUFFICES ASSUME place.provider # "fake" \/ "restored" \notin marks' PROVE Lone2
        OBVIOUS
      <4>2. boxes[Len(boxes)].status = "gone"
        BY <1>0, <1>1, <2>3, <4>1, ByName DEF OneSandbox
      <4> QED BY <1>0, <1>1, <3>2, <4>1, <4>2
    <3> QED BY <1>0, <1>1, <2>1, <3>2, <3>3, <3>4
  <2> QED BY <2>2, <2>3
<1>7. ASSUME NEW p \in EnvProcs, StartSandbox(p) \/ ResumeSandbox(p) \/ Hold(p) PROVE Fits
  BY <1>2, <1>7, StartRelabels DEF Relabelled
<1>8. ASSUME NEW p \in EnvProcs, WipeLive(p) PROVE Fits
  <2>1. Local /\ boxes' = <<NewBox("running", Empty)>>
    BY <1>8 DEF WipeLive, StepsOfPlace, EnvAt
  <2>2. Len(boxes') = 1
    BY <2>1
  <2> QED BY <1>4, <2>1, <2>2
<1>9. ASSUME NEW p \in EnvProcs, CopyBack(p) PROVE Fits
  <2>1. Local
    BY <1>9 DEF CopyBack, StepsOfPlace, EnvAt
  <2>2. Len(boxes') = Len(boxes)
    BY <1>0, <1>9 DEF CopyBack
  <2> QED BY <1>1, <1>4, <2>1, <2>2
<1>10. ASSUME NEW p \in EnvProcs, Materialize(p) PROVE Fits
  <2>1. place.provider = "fake" /\ "restored" \in marks' /\ ~Local
    BY <1>10 DEF Materialize, StepsOfPlace, EnvAt, Local
  <2> DEFINE b == NewBox("running", images[envCall[p].ref.tag].files)
  <2>2. boxes' = Append(boxes, b) /\ b.status # "gone"
    BY <1>10 DEF Materialize, NewBox
  <2> HIDE DEF b
  <2>3. Len(boxes') = Len(boxes) + 1 /\ boxes'[Len(boxes) + 1] = b /\ \A k \in 1..Len(boxes) : boxes'[k] = boxes[k]
    BY <1>0, <2>2
  <2> QED BY <1>0, <1>1, <2>1, <2>2, <2>3
<1>11. ASSUME NEW p \in EnvProcs, EngineWrites(p) PROVE Fits
  <2> DEFINE i == SandboxByName
             f == 1 + (written % 2)
  <2>1. Filing(i, f, written + 1)
    BY <1>11 DEF EngineWrites, Filing
  <2>2. written + 1 \in Nat /\ f \in Files
    BY DEF EnvTyped, Files
  <2> HIDE DEF i, f, Fits
  <2>3. Len(boxes') = Len(boxes) /\ \A k \in 1..Len(boxes) : boxes'[k].status = boxes[k].status
    BY <2>1, <2>2, OneFileSet
  <2> QED BY <1>2, <2>3
<1>12. ASSUME \/ \E p \in EnvProcs : DestroySandbox(p) \/ RemoveJobRoot(p)
              \/ \E i \in DOMAIN boxes : SandboxStops(i) \/ SandboxLost(i)
       PROVE  Fits
  BY <1>2, <1>12, LossRelabels DEF Relabelled
<1> HIDE DEF Fits
<1>13. Fits
  BY <1>0, <1>3, <1>5, <1>6, <1>7, <1>8, <1>9, <1>10, <1>11, <1>12 DEF Framed
<1> QED BY <1>0, <1>13 DEF OneSandbox, Fits, Local

(* A step that does not restore, lose or dispose leaves the one sandbox    *)
(* there, with what it held and what the engine adds.                      *)
LEMMA NothingLostNext ==
  ASSUME EnvTyped, StepsOfPlace, Restoring, NothingLost, EnvNext
  PROVE  NothingLost'
<1> SUFFICES ASSUME Unharmed' PROVE NothingLost'
  BY DEF NothingLost
<1>0. Framed /\ Unharmed
  BY StepsFramed DEF Framed, Unharmed
<1>1. /\ Len(boxes) = 1 /\ boxes[1].status # "gone" /\ sure \in Contents /\ boxes \in Seq(Box)
      /\ \A f \in Files : sure[f] <= boxes[1].files[f] /\ boxes[1].files[f] <= written
  BY <1>0 DEF NothingLost, EnvTyped
<1>2. SandboxByName = 1 /\ boxes[1] \in Box /\ boxes[1].files \in Contents /\ written \in Nat
  BY <1>1, ByName, BoxLabelled DEF EnvTyped
<1> DEFINE Whole == /\ Len(boxes') = 1 /\ boxes'[1].status # "gone"
                    /\ \A f \in Files : sure[f] <= boxes'[1].files[f] /\ boxes'[1].files[f] <= written'
<1>3. ASSUME NEW p \in EnvProcs, EngineWrites(p) PROVE Whole
  <2> DEFINE f == 1 + (written % 2)
  <2>1. Filing(1, f, written + 1) /\ written' = written + 1
    BY <1>2, <1>3 DEF EngineWrites, Filing
  <2>2. written + 1 \in Nat /\ f \in Files
    BY <1>2 DEF Files
  <2> HIDE DEF f
  <2>3. /\ Len(boxes') = Len(boxes) /\ boxes'[1].status = boxes[1].status
        /\ \A g \in Files : boxes'[1].files[g] = IF g = f THEN written + 1 ELSE boxes[1].files[g]
    BY <1>1, <2>1, <2>2, OneFileSet
  <2>4. \A g \in Files : sure[g] \in Nat /\ boxes[1].files[g] \in Nat
    BY <1>1, <1>2 DEF Contents
  <2> QED BY <1>1, <1>2, <2>1, <2>3, <2>4
<1>4. ASSUME ~\E p \in EnvProcs : EngineWrites(p) PROVE Whole
  <2>1. written' = written
    BY <1>0, <1>4 DEF Framed
  <2>2. ASSUME NEW p \in EnvProcs, MakeDirectory(p) \/ Provision(p) PROVE boxes' = boxes
    BY <1>2, <2>2 DEF MakeDirectory, Provision, Directory
  <2>3. ASSUME NEW p \in EnvProcs, StartSandbox(p) \/ ResumeSandbox(p) \/ Hold(p)
        PROVE  Len(boxes') = 1 /\ boxes'[1].status # "gone" /\ boxes'[1].files = boxes[1].files
    BY <1>1, <2>3, StartRelabels DEF Relabelled
  <2>4. \A p \in EnvProcs : /\ ~WipeLive(p) /\ ~Materialize(p) /\ ~CopyBack(p)
                            /\ ~DestroySandbox(p) /\ ~RemoveJobRoot(p)
    BY <1>0 DEF WipeLive, Materialize, CopyBack, DestroySandbox, RemoveJobRoot, Unharmed, Restoring, EnvAt
  <2>5. \A i \in DOMAIN boxes : ~SandboxStops(i) /\ ~SandboxLost(i)
    BY DEF SandboxStops, SandboxLost, Fault, Unharmed
  <2> QED BY <1>0, <1>1, <1>4, <2>1, <2>2, <2>3, <2>4, <2>5 DEF Framed
<1>5. Whole
  BY <1>3, <1>4
<1>6. CASE sure' = sure
  BY <1>1, <1>5, <1>6 DEF NothingLost
<1>7. ASSUME NEW p \in EnvProcs, CommitSteps(p) PROVE NothingLost'
  <2>1. sure' = boxes[1].files /\ boxes' = boxes /\ written' = written
    BY <1>2, <1>7 DEF CommitSteps
  <2>2. \A g \in Files : boxes[1].files[g] \in Nat
    BY <1>2 DEF Contents
  <2> QED BY <1>1, <1>2, <2>1, <2>2 DEF NothingLost
<1> QED BY <1>0, <1>6, <1>7 DEF Framed

(* Whoever restores and has not been disturbed by a step has a workspace   *)
(* that the step left alone.                                               *)
LEMMA AloneLeft ==
  ASSUME EnvTyped, StepsOfPlace, OneSandbox, EnvNext, NEW q \in EnvProcs,
         envCall[q].pc = "back", envCall'[q].alone,
         Outside \/ \E p \in EnvProcs : p # q /\ Tame(p)
  PROVE  boxes'[1].files = boxes[1].files
<1>0. /\ Local /\ Len(boxes) = 1 /\ boxes \in Seq(Box) /\ Framed
      /\ DOMAIN envCall = EnvProcs /\ envCall[q] \in EnvCall
  BY StepsFramed DEF StepsOfPlace, OneSandbox, EnvTyped
<1>1. ~Disturbed(envCall[q]).alone
  BY <1>0 DEF Disturbed, EnvCall
<1>2. ASSUME NEW p, NEW next, Touching(p, next), p # q PROVE FALSE
  BY <1>1, <1>2 DEF Touching
<1>3. CASE Outside
  <2>1. \A p \in EnvProcs : ~EngineWrites(p)
    BY <1>1 DEF EngineWrites
  <2>2. \A i \in DOMAIN boxes : ~SandboxStops(i) /\ ~SandboxLost(i)
    BY <1>0, <1>1 DEF SandboxStops, SandboxLost
  <2> QED BY <1>3, <2>1, <2>2 DEF Outside, ImageRots
<1>4. ASSUME NEW p \in EnvProcs, p # q, Tame(p) PROVE boxes'[1].files = boxes[1].files
  <2>1. ~MakeDirectory(p) /\ ~Provision(p) /\ ~ResumeSandbox(p) /\ ~WipeLive(p) /\ ~RemoveJobRoot(p)
    BY <1>2, <1>4 DEF MakeDirectory, Provision, ResumeSandbox, WipeLive, RemoveJobRoot
  <2>2. ~Materialize(p) /\ ~DestroySandbox(p)
    BY <1>0 DEF Materialize, DestroySandbox, StepsOfPlace, EnvAt, Local
  <2>3. CopyBack(p) => boxes' = boxes
    BY <1>2, <1>4 DEF CopyBack
  <2>4. StartSandbox(p) \/ Hold(p) => boxes'[1].files = boxes[1].files
    BY <1>0, StartRelabels DEF Relabelled
  <2>5. \/ boxes' = boxes \/ MakeDirectory(p) \/ Provision(p) \/ StartSandbox(p) \/ ResumeSandbox(p) \/ Hold(p)
        \/ WipeLive(p) \/ CopyBack(p) \/ Materialize(p) \/ DestroySandbox(p) \/ RemoveJobRoot(p)
    BY <1>4 DEF Tame, CreateInspect, StartSuspend, DecideCapture, StartCapture, CopyFile, WriteManifest, SnapshotFake,
      DockerCommit, ReadImageId, KeepReference, Park, StartRecover, AcquireJob, ValidateRestore, CopyBackFails, Attach,
      CommitSteps, EndJob, EnvProcessDies
  <2> QED BY <2>1, <2>2, <2>3, <2>4, <2>5
<1> QED BY <1>3, <1>4

(* What a restore has validated stays as it was until it is copied, or is  *)
(* removed.                                                                *)
LEMMA ValidatedStays ==
  ASSUME EnvTyped, StepsOfPlace, CapturesNumbered, CapturesApart, Restoring, EnvNext, NEW q \in EnvProcs,
         envCall[q].pc \in {"wipe", "back", "materialize"}
  PROVE  LET ref == envCall[q].ref IN
         (Local /\ images'[ref.tag] = NoImage) \/ images'[ref.tag].files = ref.sum
<1> DEFINE ref == envCall[q].ref
<1>0. /\ Framed /\ DOMAIN images = 1..MaxImages /\ ref.tag \in 1..MaxImages
      /\ (Local /\ images[ref.tag] = NoImage) \/ images[ref.tag].files = ref.sum
      /\ place.provider # "docker"
  <2>1. MaxImages \in Nat /\ ref.tag \in 0..MaxImages /\ DOMAIN images = 1..MaxImages
    BY EnvAssumption DEF EnvTyped, EnvCall, Reference
  <2>2. ref.tag # 0
    BY DEF CapturesNumbered
  <2>3. place.provider # "docker"
    BY DEF StepsOfPlace, Local
  <2>4. (Local /\ images[ref.tag] = NoImage) \/ images[ref.tag].files = ref.sum
    BY DEF Restoring
  <2> QED BY <2>1, <2>2, <2>3, <2>4, StepsFramed
<1>1. CASE images' = images
  BY <1>0, <1>1
<1>2. ASSUME NEW p \in EnvProcs, CopyFile(p) \/ WriteManifest(p) \/ SnapshotFake(p) \/ DockerCommit(p)
      PROVE  images'[ref.tag] = images[ref.tag]
  <2>1. envCall[p].pc \in Filling
    BY <1>2 DEF CopyFile, WriteManifest, SnapshotFake, DockerCommit, EnvAt, Filling
  <2>2. envCall[p].tag # ref.tag
    BY <1>0, <2>1 DEF CapturesApart
  <2> HIDE DEF ref
  <2> QED BY <1>0, <1>2, <2>2 DEF CopyFile, WriteManifest, SnapshotFake, DockerCommit
<1>3. ASSUME NEW p \in EnvProcs, RemoveJobRoot(p) PROVE Local /\ images'[ref.tag] = NoImage
  BY <1>0, <1>3 DEF RemoveJobRoot
<1>4. ~\E i \in DOMAIN images : ImageRots(i)
  BY DEF ImageRots
<1> QED BY <1>0, <1>1, <1>2, <1>3, <1>4 DEF Framed

(* Every step keeps restores right.                                        *)
LEMMA RestoringNext ==
  ASSUME EnvTyped, StepsOfPlace, OneSandbox, CapturesNumbered, CapturesApart, Restoring, EnvNext
  PROVE  Restoring'
<1>0. Framed /\ place' = place /\ marks \subseteq marks'
  BY StepsFramed DEF Framed
<1> DEFINE Fits(c) ==
  /\ c.pc \in {"acquire", "validate", "wipe"} => c.file = 1
  /\ c.pc \in {"wipe", "back", "materialize"} =>
       (Local /\ images'[c.ref.tag] = NoImage) \/ images'[c.ref.tag].files = c.ref.sum
  /\ c.pc = "back" =>
       /\ c.box = 1 /\ "restored" \in marks'
       /\ c.file = 2 /\ c.alone => boxes'[1].files[1] = c.ref.sum[1]
<1>1. ASSUME NEW q \in EnvProcs, Aside(envCall'[q], envCall[q]), Outside \/ \E p \in EnvProcs : p # q /\ Tame(p)
      PROVE  Fits(envCall'[q])
  <2>1. envCall[q].pc \in {"wipe", "back", "materialize"} =>
          (Local /\ images'[envCall[q].ref.tag] = NoImage) \/ images'[envCall[q].ref.tag].files = envCall[q].ref.sum
    BY ValidatedStays
  <2>2. envCall[q].pc = "back" =>
          /\ envCall[q].box = 1 /\ "restored" \in marks'
          /\ envCall[q].file = 2 /\ envCall[q].alone => boxes[1].files[1] = envCall[q].ref.sum[1]
    BY <1>0 DEF Restoring
  <2>3. envCall[q].pc = "back" /\ envCall'[q].alone => boxes'[1].files = boxes[1].files
    BY <1>1, AloneLeft
  <2>4. envCall[q].pc \in {"acquire", "validate", "wipe"} => envCall[q].file = 1
    BY DEF Restoring
  <2> QED BY <1>1, <2>1, <2>2, <2>3, <2>4 DEF Aside
<1>2. ASSUME NEW p \in EnvProcs, Tame(p) PROVE Fits(envCall'[p])
  <2>0. DOMAIN envCall = EnvProcs /\ envCall[p] \in EnvCall
    BY DEF EnvTyped
  <2>1. CASE PlainStep(p)
    BY <2>1, PlainCalls DEF MadePlain, Plain
  <2>2. CASE MadeIdle(p)
    BY <2>2 DEF MadeIdle, EnvIdle
  <2>3. CASE StartCapture(p) /\ ~MadeIdle(p)
    BY <2>3, SpecialCalls
  <2>4. CASE (CopyFile(p) \/ WriteManifest(p) \/ SnapshotFake(p) \/ DockerCommit(p) \/ ReadImageId(p)) /\ ~MadeIdle(p)
    BY <2>4, SpecialCalls DEF Moved
  <2>5. CASE StartRecover(p) \/ EndJob(p)
    BY <2>5, SpecialCalls
  <2>6. CASE AcquireJob(p) /\ ~MadeIdle(p)
    BY <2>6, SpecialCalls DEF Moved, Restoring
  <2>7. CASE ValidateRestore(p)
    <3>1. Moved(p, "validate", {"create", "wipe", "materialize"}) /\ envCall'[p].file = envCall[p].file /\ images' = images
      BY <2>7, SpecialCalls DEF ValidateRestore
    <3>2. envCall'[p].pc # "create" => Valid(envCall[p].ref)
      BY <2>0, <2>7 DEF ValidateRestore, EnvGo, EnvCall
    <3>3. Valid(envCall[p].ref) => images[envCall[p].ref.tag].files = envCall[p].ref.sum
      BY DEF Valid, ValidLocal, ValidCloud, InspectDockerImage, InspectFakeImage
    <3> QED BY <3>1, <3>2, <3>3 DEF Moved, Restoring
  <2>8. CASE WipeLive(p)
    <3>1. /\ Moved(p, "wipe", {"back"}) /\ envCall'[p].file = envCall[p].file /\ envCall'[p].box = 1
          /\ "restored" \in marks'
      BY <2>8, SpecialCalls DEF WipeLive
    <3>2. envCall[p].file = 1
      BY <3>1 DEF Moved, Restoring
    <3>3. (Local /\ images'[envCall[p].ref.tag] = NoImage) \/ images'[envCall[p].ref.tag].files = envCall[p].ref.sum
      BY <3>1, ValidatedStays DEF Moved
    <3> QED BY <3>1, <3>2, <3>3 DEF Moved
  <2>9. CASE CopyBack(p)
    <3>1. Moved(p, "back", {"create", "attach", "back"}) /\ envCall'[p].box = envCall[p].box
      BY <2>9, SpecialCalls
    <3>2. CASE envCall'[p].pc # "back"
      BY <3>1, <3>2 DEF Moved
    <3>3. CASE envCall'[p].pc = "back"
      <4> DEFINE ref == envCall[p].ref
      <4>1. images[ref.tag] # NoImage /\ envCall[p].file # 2 /\ boxes[1].status # "gone"
        BY <2>0, <2>9, <3>3 DEF CopyBack, EnvGo, Touching, EnvCall
      <4>2. envCall[p].file = 1
        BY <2>0, <4>1 DEF EnvCall, Files
      <4>3. images[ref.tag].files = ref.sum /\ "restored" \in marks' /\ envCall[p].box = 1
        BY <1>0, <3>1, <4>1 DEF Moved, Restoring
      <4>4. Filing(1, 1, ref.sum[1]) /\ images' = images
        <5>1. boxes' = [boxes EXCEPT ![1].files[envCall[p].file] = images[ref.tag].files[envCall[p].file]]
          BY <2>9, <4>1 DEF CopyBack
        <5>2. images[ref.tag].files[1] = ref.sum[1]
          BY <4>3
        <5> QED BY <2>9, <4>2, <5>1, <5>2 DEF CopyBack, Filing
      <4>5. boxes \in Seq(Box) /\ Len(boxes) >= 1 /\ 1 \in Files /\ ref.sum[1] \in Nat
        BY <2>0 DEF OneSandbox, EnvTyped, EnvCall, Reference, Contents, Files
      <4> HIDE DEF ref
      <4>6. boxes'[1].files[1] = ref.sum[1]
        <5> DEFINE v == ref.sum[1]
                   f == 1
        <5>1. FilingFirst(f, v) /\ v \in Nat /\ f \in Files
          BY <4>4, <4>5 DEF FilingFirst
        <5> HIDE DEF v, f
        <5>2. Len(boxes) >= 1
          BY <4>5
        <5>3. boxes'[1].files[f] = v
          BY <2>0, <5>1, <5>2, FirstFileSet
        <5> QED BY <5>3 DEF v, f
      <4> QED BY <3>1, <3>3, <4>3, <4>4, <4>6 DEF Moved, ref
    <3> QED BY <3>2, <3>3
  <2>10. CASE CommitSteps(p)
    <3>1. envCall' = envCall /\ boxes' = boxes /\ images' = images /\ marks' = marks
      BY <2>10 DEF CommitSteps
    <3> QED BY <3>1 DEF Restoring
  <2> QED BY <1>2, <2>1, <2>2, <2>3, <2>4, <2>5, <2>6, <2>7, <2>8, <2>9, <2>10, TameKinds DEF SpecialStep
<1>3. \A q \in EnvProcs : Fits(envCall'[q])
  <2>1. CASE Outside
    BY <1>1, <2>1, OutsideCalls
  <2>2. ASSUME NEW p \in EnvProcs, Tame(p), NEW q \in EnvProcs PROVE Fits(envCall'[q])
    BY <1>1, <1>2, <2>2, OthersStand
  <2> QED BY <2>1, <2>2, StepKinds
<1> QED BY <1>0, <1>3 DEF Restoring, Local

(* When the job is over nobody begins anything, and who disposes disposes. *)
LEMMA OverSteps ==
  ASSUME EnvTyped, NEW p \in EnvProcs, Tame(p), envJob.status = "ended"
  PROVE  /\ envCall[p].pc = "idle" => EnvProcessDies(p)
         /\ envCall[p].pc = "dispose" => DestroySandbox(p) \/ RemoveJobRoot(p) \/ EnvProcessDies(p)
<1>1. CASE envCall[p].pc = "idle"
  <2>1. ~EndJob(p) /\ ~CommitSteps(p) /\ ~StartRecover(p) /\ ~\E risk \in {"none", "high"} : StartSuspend(p, risk)
    BY DEF EndJob, CommitSteps, StartRecover, StartSuspend, MayAct
  <2>2. /\ ~CreateInspect(p) /\ ~MakeDirectory(p) /\ ~Provision(p) /\ ~StartSandbox(p) /\ ~ResumeSandbox(p)
        /\ ~DecideCapture(p) /\ ~StartCapture(p) /\ ~CopyFile(p) /\ ~WriteManifest(p) /\ ~SnapshotFake(p)
        /\ ~DockerCommit(p) /\ ~ReadImageId(p) /\ ~KeepReference(p)
    BY <1>1 DEF CreateInspect, MakeDirectory, Provision, StartSandbox, ResumeSandbox, DecideCapture, StartCapture,
         CopyFile, WriteManifest, SnapshotFake, DockerCommit, ReadImageId, KeepReference, EnvAt
  <2>3. /\ ~Hold(p) /\ ~Park(p) /\ ~AcquireJob(p) /\ ~ValidateRestore(p) /\ ~WipeLive(p) /\ ~CopyBack(p)
        /\ ~CopyBackFails(p) /\ ~Materialize(p) /\ ~Attach(p) /\ ~DestroySandbox(p) /\ ~RemoveJobRoot(p)
    BY <1>1 DEF Hold, Park, AcquireJob, ValidateRestore, WipeLive, CopyBack, CopyBackFails, Materialize, Attach,
         DestroySandbox, RemoveJobRoot, EnvAt
  <2> QED BY <1>1, <2>1, <2>2, <2>3 DEF Tame
<1>2. CASE envCall[p].pc = "dispose"
  <2>1. ~EndJob(p) /\ ~CommitSteps(p) /\ ~StartRecover(p) /\ ~\E risk \in {"none", "high"} : StartSuspend(p, risk)
    BY DEF EndJob, CommitSteps, StartRecover, StartSuspend, MayAct
  <2>2. /\ ~CreateInspect(p) /\ ~MakeDirectory(p) /\ ~Provision(p) /\ ~StartSandbox(p) /\ ~ResumeSandbox(p)
        /\ ~DecideCapture(p) /\ ~StartCapture(p) /\ ~CopyFile(p) /\ ~WriteManifest(p) /\ ~SnapshotFake(p)
        /\ ~DockerCommit(p) /\ ~ReadImageId(p) /\ ~KeepReference(p)
    BY <1>2 DEF CreateInspect, MakeDirectory, Provision, StartSandbox, ResumeSandbox, DecideCapture, StartCapture,
         CopyFile, WriteManifest, SnapshotFake, DockerCommit, ReadImageId, KeepReference, EnvAt
  <2>3. /\ ~Hold(p) /\ ~Park(p) /\ ~AcquireJob(p) /\ ~ValidateRestore(p) /\ ~WipeLive(p) /\ ~CopyBack(p)
        /\ ~CopyBackFails(p) /\ ~Materialize(p) /\ ~Attach(p)
    BY <1>2 DEF Hold, Park, AcquireJob, ValidateRestore, WipeLive, CopyBack, CopyBackFails, Materialize, Attach, EnvAt
  <2> QED BY <1>2, <2>1, <2>2, <2>3 DEF Tame
<1> QED BY <1>1, <1>2

(* After the last step of a disposal, or a death, the call is over and the *)
(* record as before.                                                       *)
LEMMA DisposedIdle ==
  ASSUME EnvTyped, NEW p \in EnvProcs, DestroySandbox(p) \/ RemoveJobRoot(p) \/ EnvProcessDies(p)
  PROVE  envCall'[p].pc = "idle" /\ envJob' = envJob
<1>1. DOMAIN envCall = EnvProcs
  BY DEF EnvTyped
<1> QED BY <1>1 DEF DestroySandbox, RemoveJobRoot, EnvProcessDies, Touching, EnvReturn, EnvIdle

(* Every step keeps an undisturbed end undisturbed.                        *)
LEMMA EndedAloneNext ==
  ASSUME EnvTyped, EndedAlone, EnvNext
  PROVE  EndedAlone'
<1> SUFFICES ASSUME "raced" \notin marks' PROVE EndedAlone'
  BY DEF EndedAlone
<1>0. Framed /\ "raced" \notin marks
  BY StepsFramed DEF Framed
<1>1. /\ \A p, q \in EnvProcs :
           envCall[p].pc = "dispose" => envJob.status = "ended" /\ (p # q => envCall[q].pc = "idle")
      /\ "disposed" \in marks => envJob.status = "ended" /\ \A p \in EnvProcs : envCall[p].pc = "idle"
  BY <1>0 DEF EndedAlone
<1>2. CASE Outside
  <2>1. envJob' = envJob /\ ("disposed" \in marks' => "disposed" \in marks)
    BY <1>2 DEF Outside, EngineWrites, SandboxStops, SandboxLost, ImageRots, Fault
  <2>2. \A q \in EnvProcs : envCall'[q].pc = envCall[q].pc
    BY <1>2, OutsideCalls DEF Aside
  <2> QED BY <1>1, <2>1, <2>2 DEF EndedAlone
<1>3. ASSUME NEW p \in EnvProcs, Tame(p) PROVE EndedAlone'
  <2>1. \A q \in EnvProcs : q # p => envCall'[q].pc = envCall[q].pc
    BY <1>3, OthersStand DEF Aside
  <2>2. CASE EndJob(p)
    <3>1. /\ \A q \in EnvProcs : q # p => envCall[q].pc = "idle"
          /\ envJob'.status = "ended" /\ marks' = marks
      <4>1. envJob \in [attempt : Nat, status : {"running", "suspended", "ended"}, ref : Reference, steps : Nat]
        BY DEF EnvTyped
      <4>2. marks' = marks /\ \A q \in EnvProcs \ {p} : EnvAt(q, "idle")
        BY <2>2 DEF EndJob
      <4> QED BY <2>2, <4>1, <4>2 DEF EndJob, EnvAt
    <3>2. envJob.status # "ended"
      BY <2>2 DEF EndJob
    <3> QED BY <1>1, <2>1, <3>1, <3>2 DEF EndedAlone
  <2>3. CASE \E r \in EnvProcs : envCall[r].pc = "dispose"
    <3>1. PICK r \in EnvProcs : envCall[r].pc = "dispose"
      BY <2>3
    <3>2. envJob.status = "ended" /\ \A q \in EnvProcs : q # r => envCall[q].pc = "idle"
      BY <1>1, <3>1
    <3>3. DestroySandbox(p) \/ RemoveJobRoot(p) \/ EnvProcessDies(p)
      BY <1>3, <3>1, <3>2, OverSteps
    <3>4. envCall'[p].pc = "idle" /\ envJob' = envJob
      BY <3>3, DisposedIdle
    <3>5. p # r => "disposed" \notin marks'
      <4>1. p # r => EnvProcessDies(p)
        BY <1>3, <3>2, OverSteps
      <4>2. "disposed" \notin marks
        BY <1>1, <3>1
      <4>3. EnvProcessDies(p) => ("disposed" \in marks' => "disposed" \in marks)
        BY DEF EnvProcessDies, Fault
      <4> QED BY <4>1, <4>2, <4>3
    <3> QED BY <2>1, <3>2, <3>4, <3>5 DEF EndedAlone
  <2>4. CASE "disposed" \in marks
    <3>1. envJob.status = "ended" /\ \A q \in EnvProcs : envCall[q].pc = "idle"
      BY <1>1, <2>4
    <3>2. EnvProcessDies(p)
      BY <1>3, <3>1, OverSteps
    <3>3. envCall'[p].pc = "idle" /\ envJob' = envJob
      BY <3>2, DisposedIdle
    <3> QED BY <2>1, <3>1, <3>3 DEF EndedAlone
  <2>5. CASE ~EndJob(p) /\ ~(\E r \in EnvProcs : envCall[r].pc = "dispose") /\ "disposed" \notin marks
    <3>1. envCall'[p].pc # "dispose"
      <4>1. CASE PlainStep(p)
        BY <4>1, PlainCalls DEF MadePlain, Plain
      <4>2. CASE SpecialStep(p)
        BY <2>5, <4>2, SpecialCalls DEF SpecialStep, MadeIdle, Moved, EnvIdle
      <4> QED BY <1>3, <4>1, <4>2, TameKinds
    <3>2. "disposed" \notin marks'
      BY <1>0, <2>5 DEF Framed, DestroySandbox, RemoveJobRoot, EnvAt
    <3> QED BY <2>1, <2>5, <3>1, <3>2 DEF EndedAlone
  <2> QED BY <2>2, <2>3, <2>4, <2>5
<1> QED BY <1>2, <1>3, StepKinds

(* Every step keeps down what was disposed of.                             *)
LEMMA StaysDownNext ==
  ASSUME EnvTyped, OneSandbox, EndedAlone, StaysDown, EnvNext
  PROVE  StaysDown'
<1>0. /\ Framed /\ place' = place /\ boxes \in Seq(Box) /\ Len(boxes) \in Nat /\ Len(boxes) >= 1
      /\ DOMAIN boxes = 1..Len(boxes)
  BY StepsFramed DEF Framed, EnvTyped, OneSandbox
<1> SUFFICES ASSUME "disposed" \in marks', "raced" \notin marks', place.provider # "fake" \/ "restored" \notin marks'
             PROVE  \A i \in 1..Len(boxes') : Down(i)'
  BY <1>0 DEF StaysDown
<1>1. /\ \A i \in 1..Len(boxes) : i < Len(boxes) => boxes[i].status = "gone"
      /\ "raced" \notin marks
  BY <1>0 DEF OneSandbox, Framed
<1>2. CASE "disposed" \in marks
  <2>1. envJob.status = "ended" /\ \A p \in EnvProcs : envCall[p].pc = "idle"
    BY <1>1, <1>2 DEF EndedAlone
  <2>2. \A i \in 1..Len(boxes) : Down(i)
    BY <1>0, <1>1, <1>2 DEF StaysDown, Framed
  <2>3. CASE boxes' = boxes
    BY <1>0, <2>2, <2>3 DEF Down
  <2>4. \A p \in EnvProcs : ~EngineWrites(p)
    <3>1. SandboxByName # 0 => SandboxByName \in 1..Len(boxes)
      BY <1>0, ByNameIn
    <3> QED BY <2>2, <3>1 DEF EngineWrites, Down
  <2>5. CASE \E i \in DOMAIN boxes : SandboxStops(i) \/ SandboxLost(i)
    BY <1>0, <2>2, <2>5, LossRelabels DEF Relabelled, Down
  <2>6. CASE Outside
    BY <2>3, <2>4, <2>5, <2>6 DEF Outside, ImageRots
  <2>7. ASSUME NEW p \in EnvProcs, Tame(p) PROVE boxes' = boxes
    <3>1. EnvProcessDies(p)
      BY <2>1, <2>7, OverSteps
    <3> QED BY <3>1 DEF EnvProcessDies
  <2> QED BY <2>3, <2>6, <2>7, StepKinds
<1>3. CASE "disposed" \notin marks
  <2>1. PICK p \in EnvProcs : DestroySandbox(p) \/ RemoveJobRoot(p)
    BY <1>0, <1>3 DEF Framed
  <2>2. CASE RemoveJobRoot(p)
    <3>1. boxes' = [i \in 1..Len(boxes) |-> [boxes[i] EXCEPT !.status = "gone"]] /\ Len(boxes') = Len(boxes)
      BY <1>0, <2>2, LossRelabels DEF RemoveJobRoot, Relabelled
    <3>2. \A i \in 1..Len(boxes) : boxes[i] \in Box
      BY <1>0
    <3> QED BY <3>1, <3>2 DEF Down, Box
  <2>3. CASE DestroySandbox(p)
    <3> DEFINE n == Len(boxes)
    <3>1. SandboxByName = IF boxes[n].status = "gone" THEN 0 ELSE n
      BY <1>0, <1>1, ByName
    <3>2. Len(boxes') = n /\ \A k \in 1..n : boxes[k].status = "gone" => boxes'[k].status = "gone"
      BY <2>3, LossRelabels DEF Relabelled
    <3>3. \/ boxes'[n].status \in {"terminated", "gone"}
          \/ place.provider = "docker" /\ boxes'[n].status = "provisioning"
      <4>1. n \in 1..Len(boxes) /\ boxes[n] \in Box
        BY <1>0
      <4>2. CASE boxes[n].status = "gone"
        BY <3>2, <4>1, <4>2
      <4>3. CASE boxes[n].status # "gone" /\ Dead(n)
        <5>1. boxes' = boxes
          BY <2>3, <3>1, <4>3 DEF DestroySandbox
        <5> QED BY <1>0, <4>1, <4>3, <5>1 DEF Dead, Inspected, MapDockerStatus, Box
      <4>4. CASE boxes[n].status # "gone" /\ ~Dead(n)
        <5>1. boxes' = [boxes EXCEPT ![n].status =
                          IF place.provider = "docker" THEN DockerRemove(boxes[n].status) ELSE FakeTerminate(boxes[n].status)]
          BY <2>3, <3>1, <4>4 DEF DestroySandbox
        <5> QED BY <1>0, <4>1, <5>1 DEF DockerRemove, FakeTerminate, Box
      <4> QED BY <4>2, <4>3, <4>4
    <3>4. \A k \in 1..n : k < n => boxes'[k].status = "gone"
      BY <1>1, <3>2
    <3> HIDE DEF n
    <3> QED BY <1>0, <3>2, <3>3, <3>4 DEF Down, n
  <2> QED BY <2>1, <2>2, <2>3
<1> QED BY <1>2, <1>3

(* Every step keeps EnvKept.                                               *)
LEMMA EnvKeptNext ==
  ASSUME EnvKept, [EnvNext]_envVars
  PROVE  EnvKept'
<1>1. CASE EnvNext
  BY <1>1, EnvTypedNext, StepsOfPlaceNext, OneSandboxNext, CapturesApartNext, CapturesNumberedNext,
     CapturesWholeNext, RestoringNext, NothingLostNext, EndedAloneNext, StaysDownNext DEF EnvKept
<1>2. CASE UNCHANGED envVars
  BY <1>2 DEF EnvKept, EnvTyped, StepsOfPlace, OneSandbox, CapturesApart, CapturesNumbered, CapturesWhole,
       Restoring, NothingLost, EndedAlone, StaysDown, Down, Local, Unspoilt, Unharmed, Stands, envVars
<1> QED BY <1>1, <1>2

(* The three parts of WorkspaceKept about states follow from EnvKept.      *)
LEMMA WorkspaceStanding == EnvKept => ReferenceIsWhole /\ KeptWithoutRestore /\ DisposedStaysDown
<1> SUFFICES ASSUME EnvKept PROVE ReferenceIsWhole /\ KeptWithoutRestore /\ DisposedStaysDown
  OBVIOUS
<1>0. boxes \in Seq(Box) /\ DOMAIN boxes = 1..Len(boxes)
  BY DEF EnvKept, EnvTyped
<1>1. ReferenceIsWhole
  BY DEF EnvKept, CapturesWhole, Unspoilt, Stands, ReferenceIsWhole
<1>2. KeptWithoutRestore
  <2> SUFFICES ASSUME Unharmed PROVE SandboxByName # 0 /\ \A f \in Files : boxes[SandboxByName].files[f] >= sure[f]
    BY DEF KeptWithoutRestore, Unharmed
  <2>1. /\ Len(boxes) = 1 /\ boxes[1].status # "gone" /\ sure \in Contents
        /\ \A f \in Files : sure[f] <= boxes[1].files[f]
    BY DEF EnvKept, NothingLost
  <2>2. SandboxByName = 1 /\ boxes[1].files \in Contents
    BY <1>0, <2>1, ByName, BoxLabelled DEF EnvKept
  <2> QED BY <2>1, <2>2 DEF Contents
<1>3. DisposedStaysDown
  BY <1>0 DEF EnvKept, StaysDown, DisposedStaysDown, Down, MapDockerStatus
<1> QED BY <1>1, <1>2, <1>3

(* The end of a restore: the last file is copied, or the sandbox added.    *)
LEMMA RestoreEnds ==
  ASSUME EnvKept, [EnvNext]_envVars, NEW p \in EnvProcs,
         envCall[p].pc \in {"back", "materialize"}, envCall'[p].pc = "attach", envCall[p].alone
  PROVE  boxes'[envCall'[p].box].files = envCall[p].ref.sum
<1> DEFINE ref == envCall[p].ref
<1>0. /\ EnvTyped /\ StepsOfPlace /\ OneSandbox /\ Restoring /\ CapturesNumbered
      /\ boxes \in Seq(Box) /\ Len(boxes) \in Nat /\ envCall[p] \in EnvCall /\ DOMAIN envCall = EnvProcs
      /\ ref.sum \in Contents
  <2>1. EnvTyped /\ StepsOfPlace /\ OneSandbox /\ Restoring /\ CapturesNumbered
    BY DEF EnvKept
  <2>2. boxes \in Seq(Box) /\ envCall[p] \in EnvCall /\ DOMAIN envCall = EnvProcs
    BY <2>1 DEF EnvTyped
  <2>3. ref \in Reference
    BY <2>2 DEF EnvCall
  <2> QED BY <2>1, <2>2, <2>3 DEF Reference
<1>1. EnvNext
  <2>1. CASE UNCHANGED envVars
    BY <2>1 DEF envVars
  <2> QED BY <2>1
<1>2. Tame(p)
  <2>1. ~Outside
    BY <1>0, OutsideCalls DEF Aside
  <2>2. \A q \in EnvProcs : Tame(q) => q = p
    BY <1>0, OthersStand DEF Aside
  <2> QED BY <1>1, <2>1, <2>2, StepKinds
<1>3. CopyBack(p) \/ Materialize(p)
  <2>1. ~SpecialStep(p) \/ CopyBack(p)
    BY <1>0, SpecialCalls DEF SpecialStep, MadeIdle, Moved, EnvIdle
  <2>2. ~PlainStep(p) \/ Materialize(p)
    <3>1. /\ ~CreateInspect(p) /\ ~MakeDirectory(p) /\ ~Provision(p) /\ ~StartSandbox(p) /\ ~ResumeSandbox(p)
          /\ ~DecideCapture(p) /\ ~KeepReference(p) /\ ~Hold(p) /\ ~Park(p) /\ ~Attach(p)
          /\ ~DestroySandbox(p) /\ ~RemoveJobRoot(p) /\ ~\E risk \in {"none", "high"} : StartSuspend(p, risk)
      BY DEF CreateInspect, MakeDirectory, Provision, StartSandbox, ResumeSandbox, StartSuspend, DecideCapture,
        KeepReference, Hold, Park, Attach, DestroySandbox, RemoveJobRoot, EnvAt
    <3>2. ~CopyBackFails(p) /\ ~EnvProcessDies(p)
      BY <1>0 DEF CopyBackFails, EnvProcessDies, EnvGo, EnvReturn, EnvIdle, EnvCall
    <3> QED BY <3>1, <3>2 DEF PlainStep
  <2> QED BY <1>2, <2>1, <2>2, TameKinds
<1>4. CASE Materialize(p)
  <2>1. envCall[p].pc = "materialize" /\ ~Local
    BY <1>0, <1>4 DEF Materialize, EnvAt, StepsOfPlace, Local
  <2>2. images[ref.tag].files = ref.sum
    BY <1>0, <2>1 DEF Restoring
  <2>3. boxes' = Append(boxes, NewBox("running", images[ref.tag].files)) /\ envCall'[p].box = Len(boxes) + 1
    BY <1>0, <1>4 DEF Materialize, EnvCall
  <2>4. boxes'[Len(boxes) + 1] = NewBox("running", images[ref.tag].files)
    BY <1>0, <2>3
  <2> QED BY <2>2, <2>3, <2>4 DEF NewBox
<1>5. CASE CopyBack(p)
  <2>1. Local /\ envCall[p].pc = "back" /\ Len(boxes) = 1 /\ envCall[p].box = 1
    BY <1>0, <1>5 DEF CopyBack, EnvAt, StepsOfPlace, OneSandbox, Restoring
  <2>2. envCall[p].file = 2 /\ images[ref.tag] # NoImage /\ boxes[1].status # "gone"
    <3>1. images[ref.tag] # NoImage /\ boxes[1].status # "gone"
      BY <1>0, <1>5 DEF CopyBack, EnvGo, EnvCall
    <3>2. envCall'[p].pc = IF envCall[p].file = 2 THEN "attach" ELSE "back"
      BY <1>0, <1>5, <3>1 DEF CopyBack, Touching, EnvCall
    <3> QED BY <3>1, <3>2
  <2>3. images[ref.tag].files = ref.sum /\ boxes[1].files[1] = ref.sum[1]
    BY <1>0, <2>1, <2>2 DEF Restoring
  <2>4. envCall'[p].box = 1
    BY <1>0, <1>5, <2>1, SpecialCalls
  <2> DEFINE v == ref.sum[2]
             f == 2
  <2>5. FilingFirst(f, v)
    <3>1. boxes' = [boxes EXCEPT ![1].files[envCall[p].file] = images[ref.tag].files[envCall[p].file]]
      BY <1>5, <2>2 DEF CopyBack
    <3>2. images[ref.tag].files[2] = ref.sum[2]
      BY <2>3
    <3> QED BY <2>2, <3>1, <3>2 DEF Filing, FilingFirst
  <2>6. v \in Nat /\ f \in Files
    BY <1>0 DEF Contents, Files
  <2> HIDE DEF ref
  <2>7. boxes'[1].files[2] = ref.sum[2] /\ boxes'[1].files[1] = boxes[1].files[1] /\ boxes'[1] \in Box
    <3>1. 1 \in Files /\ f # 1 /\ Len(boxes) >= 1
      BY <2>1 DEF Files
    <3> HIDE DEF v, f
    <3>2. /\ boxes' \in Seq(Box) /\ Len(boxes') = Len(boxes) /\ boxes'[1] \in Box
          /\ boxes'[1].files[f] = v
          /\ \A g \in Files : g # f => boxes'[1].files[g] = boxes[1].files[g]
      BY <1>0, <2>5, <2>6, <3>1, FirstFileSet
    <3> QED BY <2>1, <3>1, <3>2 DEF v, f
  <2>8. boxes'[1].files \in [{1, 2} -> Nat] /\ ref.sum \in [{1, 2} -> Nat]
    BY <1>0, <2>7 DEF Box, Contents, Files, ref
  <2>9. \A g \in {1, 2} : boxes'[1].files[g] = ref.sum[g]
    BY <2>3, <2>7
  <2>10. boxes'[1].files = ref.sum
    BY <2>8, <2>9
  <2> QED BY <2>4, <2>10 DEF ref
<1> QED BY <1>3, <1>4, <1>5

(* WorkspaceKept: what the record names can be restored and is restored as *)
(* it was captured, nothing is lost without a restore and nothing computes *)
(* after disposal, in every deployment, for any number of processes,       *)
(* captures, recoveries, deaths and writes (environment.ts,                *)
(* docker-provider.ts, actor.ts).                                          *)
THEOREM WorkspaceAlwaysKept == EnvInit /\ [][EnvNext]_envVars => WorkspaceKept
<1>1. EnvKept /\ [EnvNext]_envVars => EnvKept'
  BY EnvKeptNext
<1>2. EnvInit /\ [][EnvNext]_envVars => []EnvKept
  BY <1>1, EnvInitKept, PTL
<1>3. EnvKept /\ [EnvNext]_envVars =>
        [\A p \in EnvProcs :
           envCall[p].pc \in {"back", "materialize"} /\ envCall'[p].pc = "attach" /\ envCall[p].alone
             => boxes'[envCall'[p].box].files = envCall[p].ref.sum]_envVars
  BY RestoreEnds
<1> QED BY <1>2, <1>3, WorkspaceStanding, PTL DEF WorkspaceKept, RestoredAsCaptured

=============================================================================
