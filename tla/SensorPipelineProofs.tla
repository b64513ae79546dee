------------------------- MODULE SensorPipelineProofs -------------------------
(***************************************************************************)
(* Proofs about SensorPipeline for every set of sensors, queue capacity    *)
(* and bound: the queue between the cores keeps its capacity and its       *)
(* types, and it loses, duplicates and reorders no reading.                *)
(*                                                                         *)
(* QueueCarriesEveryReading speaks of Sent, which depends on where core0  *)
(* is: it is not inductive without knowing that the batch of fresh         *)
(* readings is empty outside transfer_data_sensors and that every reading  *)
(* in it is at least the first.  The queue facts are proved once, for any  *)
(* sequence of entries, slots and last readings sent (QC), for the two     *)
(* things that change the queue: an append by core0 and a remove by core1. *)
(***************************************************************************)
EXTENDS SensorPipeline, WellFoundedInduction, TLAPS

\* QueueCarriesEveryReading for a queue q, slots sl and last readings sent
\* st, all functions of the sensor.
QC(q, sl, st) ==
  /\ \A i \in 1..Len(q) :
       (\A j \in 1..(i - 1) : q[j].topic # q[i].topic) =>
         q[i].n = sl[q[i].topic] + 1
  /\ \A i, j \in 1..Len(q) :
       (/\ i < j
        /\ q[j].topic = q[i].topic
        /\ \A k \in (i + 1)..(j - 1) : q[k].topic # q[i].topic) =>
         q[j].n = q[i].n + 1
  /\ \A i \in 1..Len(q) :
       (\A j \in (i + 1)..Len(q) : q[j].topic # q[i].topic) =>
         q[i].n = st[q[i].topic]
  /\ \A s \in Sensors : (\A i \in 1..Len(q) : q[i].topic # s) => st[s] = sl[s]

NatEntry == [topic : Sensors, n : Nat]

-----------------------------------------------------------------------------
(* The two queue operations.                                              *)

\* queue_add_blocking of the next reading of sensor s keeps QC, with the
\* last reading sent of s advanced by one.
LEMMA QCAppend ==
  ASSUME NEW q \in Seq(NatEntry), NEW sl \in [Sensors -> Nat],
         NEW st \in [Sensors -> Nat], NEW s \in Sensors, QC(q, sl, st)
  PROVE  QC(Append(q, [topic |-> s, n |-> st[s] + 1]), sl,
            [st EXCEPT ![s] = st[s] + 1])
  <1> DEFINE e == [topic |-> s, n |-> st[s] + 1]
             q2 == Append(q, e)
             st2 == [st EXCEPT ![s] = st[s] + 1]
             L == Len(q)
  <1>1. /\ Len(q2) = L + 1
        /\ \A i \in 1..L : q2[i] = q[i]
        /\ q2[L + 1] = e
        /\ L \in Nat
    <2>1. e \in NatEntry
      BY DEF NatEntry
    <2>2. QED
      BY <2>1
  <1>2. \A i \in 1..Len(q2) :
          (\A j \in 1..(i - 1) : q2[j].topic # q2[i].topic) =>
            q2[i].n = sl[q2[i].topic] + 1
    <2> SUFFICES ASSUME NEW i \in 1..Len(q2),
                        \A j \in 1..(i - 1) : q2[j].topic # q2[i].topic
                 PROVE  q2[i].n = sl[q2[i].topic] + 1
      OBVIOUS
    <2>1. CASE i <= L
      BY <1>1, <2>1 DEF QC
    <2>2. CASE i = L + 1
      <3>1. \A k \in 1..L : q[k].topic # s
        BY <1>1, <2>2
      <3>2. st[s] = sl[s]
        BY <3>1 DEF QC
      <3>3. QED
        BY <1>1, <2>2, <3>2
    <2>3. QED
      BY <1>1, <2>1, <2>2
  <1>3. \A i, j \in 1..Len(q2) :
          (/\ i < j
           /\ q2[j].topic = q2[i].topic
           /\ \A k \in (i + 1)..(j - 1) : q2[k].topic # q2[i].topic) =>
            q2[j].n = q2[i].n + 1
    <2> SUFFICES ASSUME NEW i \in 1..Len(q2), NEW j \in 1..Len(q2),
                        i < j, q2[j].topic = q2[i].topic,
                        \A k \in (i + 1)..(j - 1) : q2[k].topic # q2[i].topic
                 PROVE  q2[j].n = q2[i].n + 1
      OBVIOUS
    <2>1. CASE j <= L
      <3>1. /\ i \in 1..L /\ j \in 1..L
            /\ q2[i] = q[i] /\ q2[j] = q[j]
        BY <1>1, <2>1
      <3>2. \A k \in (i + 1)..(j - 1) : q[k].topic # q[i].topic
        BY <1>1, <3>1
      <3>3. QED
        BY <3>1, <3>2 DEF QC
    <2>2. CASE j = L + 1
      <3>0. i \in 1..L
        BY <1>1, <2>2
      <3>1. q[i].topic = s /\ \A k \in (i + 1)..L : q[k].topic # s
        BY <1>1, <2>2, <3>0
      <3>2. q[i].n = st[s]
        BY <1>1, <2>2, <3>0, <3>1 DEF QC
      <3>3. QED
        BY <1>1, <2>2, <3>0, <3>1, <3>2
    <2>3. QED
      BY <1>1, <2>1, <2>2
  <1>4. \A i \in 1..Len(q2) :
          (\A j \in (i + 1)..Len(q2) : q2[j].topic # q2[i].topic) =>
            q2[i].n = st2[q2[i].topic]
    <2> SUFFICES ASSUME NEW i \in 1..Len(q2),
                        \A j \in (i + 1)..Len(q2) : q2[j].topic # q2[i].topic
                 PROVE  q2[i].n = st2[q2[i].topic]
      OBVIOUS
    <2>1. CASE i <= L
      <3>1. q[i].topic # s
        BY <1>1, <2>1
      <3>2. \A j \in (i + 1)..L : q[j].topic # q[i].topic
        BY <1>1, <2>1
      <3>3. QED
        BY <1>1, <2>1, <3>1, <3>2 DEF QC
    <2>2. CASE i = L + 1
      BY <1>1, <2>2
    <2>3. QED
      BY <1>1, <2>1, <2>2
  <1>5. \A r \in Sensors :
          (\A i \in 1..Len(q2) : q2[i].topic # r) => st2[r] = sl[r]
    <2> SUFFICES ASSUME NEW r \in Sensors,
                        \A i \in 1..Len(q2) : q2[i].topic # r
                 PROVE  st2[r] = sl[r]
      OBVIOUS
    <2>1. r # s /\ \A i \in 1..L : q[i].topic # r
      BY <1>1
    <2>2. QED
      BY <2>1 DEF QC
  <1>6. QED
    BY <1>2, <1>3, <1>4, <1>5 DEF QC

\* queue_try_remove of the oldest entry h and its copy into the slot of its
\* sensor keep QC: the next entry of that sensor follows h.
LEMMA QCTail ==
  ASSUME NEW q \in Seq(NatEntry), NEW sl \in [Sensors -> Nat],
         NEW st \in [Sensors -> Nat], q # << >>, QC(q, sl, st)
  PROVE  QC(Tail(q), [sl EXCEPT ![Head(q).topic] = Head(q).n], st)
  <1> DEFINE h == Head(q)
             q2 == Tail(q)
             sl2 == [sl EXCEPT ![h.topic] = h.n]
             L == Len(q2)
  <1>1. /\ Len(q) = L + 1
        /\ L \in Nat
        /\ \A i \in 1..L : q2[i] = q[i + 1]
        /\ h = q[1]
        /\ h \in NatEntry
    OBVIOUS
  <1>2. \A i \in 1..Len(q2) :
          (\A j \in 1..(i - 1) : q2[j].topic # q2[i].topic) =>
            q2[i].n = sl2[q2[i].topic] + 1
    <2> SUFFICES ASSUME NEW i \in 1..Len(q2),
                        \A j \in 1..(i - 1) : q2[j].topic # q2[i].topic
                 PROVE  q2[i].n = sl2[q2[i].topic] + 1
      OBVIOUS
    <2>0. i \in 1..L /\ i + 1 \in 1..Len(q) /\ q2[i] = q[i + 1]
      BY <1>1
    <2>1. \A k \in 2..i : q[k].topic # q[i + 1].topic
      <3> SUFFICES ASSUME NEW k \in 2..i PROVE q[k].topic # q[i + 1].topic
        OBVIOUS
      <3>1. k - 1 \in 1..(i - 1) /\ q2[k - 1] = q[k]
        BY <1>1, <2>0
      <3>2. QED
        BY <2>0, <3>1
    <2>2. CASE q[i + 1].topic = h.topic
      <3>1. /\ 1 \in 1..Len(q) /\ 1 < i + 1
            /\ q[i + 1].topic = q[1].topic
            /\ \A k \in (1 + 1)..((i + 1) - 1) : q[k].topic # q[1].topic
        BY <1>1, <2>0, <2>1, <2>2
      <3>2. q[i + 1].n = q[1].n + 1
        BY <2>0, <3>1 DEF QC
      <3>3. h.topic \in Sensors /\ h.n \in Nat /\ sl2[h.topic] = h.n
        BY <1>1 DEF NatEntry
      <3>4. QED
        BY <1>1, <2>0, <2>2, <3>2, <3>3
    <2>3. CASE q[i + 1].topic # h.topic
      <3>1. \A k \in 1..((i + 1) - 1) : q[k].topic # q[i + 1].topic
        BY <1>1, <2>0, <2>1, <2>3
      <3>2. q[i + 1].n = sl[q[i + 1].topic] + 1
        BY <2>0, <3>1 DEF QC
      <3>3. QED
        BY <1>1, <2>0, <2>3, <3>2
    <2>4. QED
      BY <2>2, <2>3
  <1>3. \A i, j \in 1..Len(q2) :
          (/\ i < j
           /\ q2[j].topic = q2[i].topic
           /\ \A k \in (i + 1)..(j - 1) : q2[k].topic # q2[i].topic) =>
            q2[j].n = q2[i].n + 1
    <2> SUFFICES ASSUME NEW i \in 1..Len(q2), NEW j \in 1..Len(q2),
                        i < j, q2[j].topic = q2[i].topic,
                        \A k \in (i + 1)..(j - 1) : q2[k].topic # q2[i].topic
                 PROVE  q2[j].n = q2[i].n + 1
      OBVIOUS
    <2>0. /\ i + 1 \in 1..Len(q) /\ j + 1 \in 1..Len(q)
          /\ q2[i] = q[i + 1] /\ q2[j] = q[j + 1]
      BY <1>1
    <2>1. \A k \in ((i + 1) + 1)..((j + 1) - 1) : q[k].topic # q[i + 1].topic
      <3> SUFFICES ASSUME NEW k \in ((i + 1) + 1)..((j + 1) - 1)
                   PROVE  q[k].topic # q[i + 1].topic
        OBVIOUS
      <3>1. k - 1 \in (i + 1)..(j - 1) /\ q2[k - 1] = q[k]
        BY <1>1, <2>0
      <3>2. QED
        BY <2>0, <3>1
    <2>2. i + 1 < j + 1 /\ q[j + 1].topic = q[i + 1].topic
      BY <2>0
    <2>3. QED
      BY <2>0, <2>1, <2>2 DEF QC
  <1>4. \A i \in 1..Len(q2) :
          (\A j \in (i + 1)..Len(q2) : q2[j].topic # q2[i].topic) =>
            q2[i].n = st[q2[i].topic]
    <2> SUFFICES ASSUME NEW i \in 1..Len(q2),
                        \A j \in (i + 1)..Len(q2) : q2[j].topic # q2[i].topic
                 PROVE  q2[i].n = st[q2[i].topic]
      OBVIOUS
    <2>0. i + 1 \in 1..Len(q) /\ q2[i] = q[i + 1]
      BY <1>1
    <2>1. \A j \in ((i + 1) + 1)..Len(q) : q[j].topic # q[i + 1].topic
      <3> SUFFICES ASSUME NEW j \in ((i + 1) + 1)..Len(q)
                   PROVE  q[j].topic # q[i + 1].topic
        OBVIOUS
      <3>1. j - 1 \in (i + 1)..Len(q2) /\ q2[j - 1] = q[j]
        BY <1>1, <2>0
      <3>2. QED
        BY <2>0, <3>1
    <2>2. QED
      BY <2>0, <2>1 DEF QC
  <1>5. \A r \in Sensors :
          (\A i \in 1..Len(q2) : q2[i].topic # r) => st[r] = sl2[r]
    <2> SUFFICES ASSUME NEW r \in Sensors,
                        \A i \in 1..Len(q2) : q2[i].topic # r
                 PROVE  st[r] = sl2[r]
      OBVIOUS
    <2>1. \A i \in 2..Len(q) : q[i].topic # r
      <3> SUFFICES ASSUME NEW i \in 2..Len(q) PROVE q[i].topic # r
        OBVIOUS
      <3>1. i - 1 \in 1..Len(q2) /\ q2[i - 1] = q[i]
        BY <1>1
      <3>2. QED
        BY <3>1
    <2>2. CASE r = h.topic
      <3>1. \A j \in (1 + 1)..Len(q) : q[j].topic # q[1].topic
        BY <1>1, <2>1, <2>2
      <3>2. q[1].n = st[q[1].topic]
        <4>1. 1 \in 1..Len(q)
          BY <1>1
        <4>2. QED
          BY <3>1, <4>1 DEF QC
      <3>3. QED
        BY <1>1, <2>2, <3>2 DEF NatEntry
    <2>3. CASE r # h.topic
      <3>1. \A i \in 1..Len(q) : q[i].topic # r
        <4> SUFFICES ASSUME NEW i \in 1..Len(q) PROVE q[i].topic # r
          OBVIOUS
        <4>1. i = 1 \/ i \in 2..Len(q)
          BY <1>1
        <4>2. QED
          BY <1>1, <2>1, <2>3, <4>1
      <3>2. QED
        BY <1>1, <2>3, <3>1 DEF QC
    <2>4. QED
      BY <2>2, <2>3
  <1>6. QED
    BY <1>2, <1>3, <1>4, <1>5 DEF QC

-----------------------------------------------------------------------------
(* QueueCarriesEveryReading is QC of the queue, the slots and Sent.       *)

\* QueueCarriesEveryReading for a queue q, slots sl, batch b and readings rd.
QCE(q, sl, b, rd) ==
  LET SentOf(s) == IF s \in b THEN rd[s] - 1 ELSE rd[s] IN
  /\ \A i \in 1..Len(q) :
       (\A j \in 1..(i - 1) : q[j].topic # q[i].topic) =>
         q[i].n = sl[q[i].topic] + 1
  /\ \A i, j \in 1..Len(q) :
       (/\ i < j
        /\ q[j].topic = q[i].topic
        /\ \A k \in (i + 1)..(j - 1) : q[k].topic # q[i].topic) =>
         q[j].n = q[i].n + 1
  /\ \A i \in 1..Len(q) :
       (\A j \in (i + 1)..Len(q) : q[j].topic # q[i].topic) =>
         q[i].n = SentOf(q[i].topic)
  /\ \A s \in Sensors : (\A i \in 1..Len(q) : q[i].topic # s) => SentOf(s) = sl[s]

\* The last reading sent of every sensor, as a function.
SentF(b, rd) == [s \in Sensors |-> IF s \in b THEN rd[s] - 1 ELSE rd[s]]

\* The invariant in the two forms.
LEMMA QCEIsQC ==
  ASSUME NEW q \in Seq(NatEntry), NEW sl, NEW b \in SUBSET Sensors,
         NEW rd \in [Sensors -> Nat]
  PROVE  QCE(q, sl, b, rd) <=> QC(q, sl, SentF(b, rd))
  <1>1. \A i \in 1..Len(q) : q[i].topic \in Sensors
    <2> SUFFICES ASSUME NEW i \in 1..Len(q) PROVE q[i].topic \in Sensors
      OBVIOUS
    <2>1. q[i] \in NatEntry
      OBVIOUS
    <2>2. QED
      BY <2>1 DEF NatEntry
  <1>2. QED
    BY <1>1 DEF QCE, QC, SentF

LEMMA QCEIsQueueCarries ==
  /\ QueueCarriesEveryReading = QCE(queue, slot, batch, reading)
  /\ QueueCarriesEveryReading' = QCE(queue', slot', batch', reading')
  BY DEF QueueCarriesEveryReading, QCE, IsFirst, IsLast, NextOf, Sent

\* Every sent count is a natural number once batched readings are >= 1.
LEMMA SentFType ==
  ASSUME NEW b \in SUBSET Sensors, NEW rd \in [Sensors -> Nat],
         \A s \in b : rd[s] >= 1
  PROVE  SentF(b, rd) \in [Sensors -> Nat]
  BY DEF SentF

\* transfer_data_sensors passes on the least sensor of the batch.
LEMMA NextSensorInBatch ==
  ASSUME batch \subseteq Nat, batch # {}
  PROVE  NextSensor \in batch /\ \A r \in batch : NextSensor <= r
  <1>1. \E x \in batch : \A y \in batch : ~(<<y, x>> \in OpToRel(<, Nat))
    BY NatLessThanWellFounded, WFMin
  <1>2. \E x \in batch : \A y \in batch : x <= y
    <2>1. PICK x \in batch : \A y \in batch : ~(<<y, x>> \in OpToRel(<, Nat))
      BY <1>1
    <2>2. \A y \in batch : x <= y
      <3> SUFFICES ASSUME NEW y \in batch PROVE x <= y
        OBVIOUS
      <3>1. x \in Nat /\ y \in Nat /\ <<y, x>> \in Nat \X Nat
        OBVIOUS
      <3>2. ~(y < x)
        BY <2>1, <3>1 DEF OpToRel
      <3>3. QED
        BY <3>1, <3>2
    <2>3. QED
      BY <2>2
  <1>3. QED
    BY <1>2 DEF NextSensor

-----------------------------------------------------------------------------
(* The inductive invariant.                                               *)

\* Outside transfer_data_sensors no fresh reading waits to be passed on,
\* and a reading waiting in the batch is at least the first one.
BatchOnlyInTransfer == pc0 # "transfer" => batch = {}
BatchedCollected == \A s \in batch : reading[s] >= 1

IInv ==
  /\ TypeOK
  /\ BatchOnlyInTransfer
  /\ BatchedCollected
  /\ QueueCarriesEveryReading

\* A queue entry carries a natural number.
LEMMA EntryNat == Entry \subseteq NatEntry /\ Seq(Entry) \subseteq Seq(NatEntry)
  <1>1. Entry \subseteq NatEntry
    BY DEF Entry, NatEntry
  <1>2. QED
    BY <1>1

\* What TypeOK gives the queue lemmas.
LEMMA TypeFacts ==
  ASSUME TypeOK
  PROVE  /\ queue \in Seq(NatEntry)
         /\ reading \in [Sensors -> Nat]
         /\ slot \in [Sensors -> Nat]
         /\ batch \in SUBSET Sensors
         /\ batch \subseteq Nat
  BY EntryNat, PipelineAssumption DEF TypeOK

\* The invariant in terms of QC.
LEMMA IInvQC ==
  ASSUME IInv
  PROVE  QC(queue, slot, SentF(batch, reading))
  BY TypeFacts, QCEIsQC, QCEIsQueueCarries DEF IInv, BatchedCollected

\* A step that leaves the queue, the slots, the batch and the readings
\* alone keeps QueueCarriesEveryReading.
LEMMA QCEUnchanged ==
  ASSUME QueueCarriesEveryReading, UNCHANGED <<queue, slot, batch, reading>>
  PROVE  QueueCarriesEveryReading'
  BY QCEIsQueueCarries

LEMMA InitIInv == Init => IInv
  <1> SUFFICES ASSUME Init PROVE IInv
    OBVIOUS
  <1>1. TypeOK
    <2>1. reading \in [Sensors -> 0..MaxReadings]
          /\ slot \in [Sensors -> 0..MaxReadings]
      BY PipelineAssumption DEF Init
    <2>2. queue \in Seq(Entry) /\ Len(queue) <= QueueCap
      BY PipelineAssumption DEF Init
    <2>3. QED
      BY <2>1, <2>2 DEF Init, TypeOK
  <1>2. QueueCarriesEveryReading
    BY DEF Init, QueueCarriesEveryReading, Sent
  <1>3. QED
    BY <1>1, <1>2 DEF Init, IInv, BatchOnlyInTransfer, BatchedCollected

LEMMA InitSensorsIInv == IInv /\ InitSensors => IInv'
  <1> SUFFICES ASSUME IInv, InitSensors PROVE IInv'
    OBVIOUS
  <1>1. batch = {}
    BY DEF InitSensors, IInv, BatchOnlyInTransfer
  <1>2. TypeOK'
    BY <1>1 DEF InitSensors, IInv, TypeOK
  <1>3. QueueCarriesEveryReading'
    BY QCEUnchanged DEF InitSensors, IInv
  <1>4. QED
    BY <1>1, <1>2, <1>3 DEF InitSensors, IInv, BatchOnlyInTransfer,
       BatchedCollected

LEMMA CollectIInv == IInv /\ Collect => IInv'
  <1> SUFFICES ASSUME IInv, Collect PROVE IInv'
    OBVIOUS
  <1> DEFINE fresh == {s \in connected : reading[s] < MaxReadings}
  <1>1. /\ batch = {}
        /\ batch' = fresh
        /\ reading' = [s \in Sensors |->
                         IF s \in fresh THEN reading[s] + 1 ELSE reading[s]]
        /\ UNCHANGED <<connected, queue, slot, pc1, reset_core, windowCheck>>
        /\ pc0' = "transfer"
    BY DEF Collect, IInv, BatchOnlyInTransfer
  <1>2. /\ fresh \subseteq connected
        /\ reading' \in [Sensors -> 0..MaxReadings]
        /\ reading' \in [Sensors -> Nat]
        /\ \A s \in fresh : reading'[s] >= 1
    BY <1>1, PipelineAssumption DEF IInv, TypeOK
  <1>3. TypeOK'
    BY <1>1, <1>2 DEF IInv, TypeOK
  <1>4. SentF(batch', reading') = SentF(batch, reading)
    BY <1>1, TypeFacts DEF SentF, IInv
  <1>5. QC(queue', slot', SentF(batch', reading'))
    BY <1>1, <1>4, IInvQC
  <1>6. QueueCarriesEveryReading'
    <2>1. /\ queue' \in Seq(NatEntry)
          /\ batch' \in SUBSET Sensors
          /\ reading' \in [Sensors -> Nat]
      BY <1>1, <1>2, TypeFacts DEF IInv, TypeOK
    <2>2. QCE(queue', slot', batch', reading')
      BY <1>5, <2>1, QCEIsQC
    <2>3. QED
      BY <2>2, QCEIsQueueCarries
  <1>7. QED
    BY <1>1, <1>2, <1>3, <1>6 DEF IInv, BatchOnlyInTransfer, BatchedCollected

LEMMA TransferIInv == IInv /\ Transfer => IInv'
  <1> SUFFICES ASSUME IInv, Transfer PROVE IInv'
    OBVIOUS
  <1>1. CASE batch = {}
    <2>1. pc0' = "check" /\ UNCHANGED <<connected, batch, reading, queue, slot,
                                       pc1, reset_core, windowCheck>>
      BY <1>1 DEF Transfer
    <2>2. QueueCarriesEveryReading'
      BY <2>1, QCEUnchanged DEF IInv
    <2>3. QED
      BY <1>1, <2>1, <2>2 DEF IInv, TypeOK, BatchOnlyInTransfer,
         BatchedCollected
  <1>2. CASE batch # {}
    <2> DEFINE s == NextSensor
               st == SentF(batch, reading)
               e == [topic |-> s, n |-> reading[s]]
    <2>1. /\ Len(queue) < QueueCap
          /\ queue' = Append(queue, e)
          /\ batch' = batch \ {s}
          /\ UNCHANGED <<connected, pc0, reading, slot, pc1, reset_core,
                         windowCheck>>
      BY <1>2 DEF Transfer
    <2>2. s \in batch
      BY <1>2, NextSensorInBatch, TypeFacts DEF IInv
    <2>3. /\ s \in Sensors
          /\ reading[s] \in 1..MaxReadings
          /\ st \in [Sensors -> Nat]
          /\ st[s] + 1 = reading[s]
      BY <2>2, TypeFacts, PipelineAssumption DEF IInv, TypeOK, BatchedCollected,
         SentF
    <2>4. [st EXCEPT ![s] = st[s] + 1] = SentF(batch', reading')
      BY <2>1, <2>2, <2>3, TypeFacts DEF SentF, IInv
    <2>5. QC(queue', slot', SentF(batch', reading'))
      <3>1. QC(Append(queue, [topic |-> s, n |-> st[s] + 1]), slot,
               [st EXCEPT ![s] = st[s] + 1])
        BY <2>3, IInvQC, TypeFacts, QCAppend DEF IInv
      <3>2. QED
        BY <2>1, <2>3, <2>4, <3>1
    <2>6. /\ e \in Entry
          /\ queue' \in Seq(Entry) /\ Len(queue') <= QueueCap
          /\ batch' \subseteq connected
      <3>1. e \in Entry
        BY <2>3, PipelineAssumption DEF Entry
      <3>2. queue \in Seq(Entry) /\ batch \subseteq connected
        BY DEF IInv, TypeOK
      <3>3. queue' \in Seq(Entry) /\ Len(queue') = Len(queue) + 1
        BY <2>1, <3>1, <3>2
      <3>4. QED
        BY <2>1, <3>1, <3>2, <3>3, PipelineAssumption
    <2>7. QueueCarriesEveryReading'
      <3>1. /\ queue' \in Seq(NatEntry)
            /\ batch' \in SUBSET Sensors
            /\ reading' \in [Sensors -> Nat]
        BY <2>1, <2>6, TypeFacts DEF IInv, TypeOK, Entry, NatEntry
      <3>2. QCE(queue', slot', batch', reading')
        BY <2>5, <3>1, QCEIsQC
      <3>3. QED
        BY <3>2, QCEIsQueueCarries
    <2>8. QED
      BY <2>1, <2>6, <2>7 DEF IInv, TypeOK, BatchOnlyInTransfer,
         BatchedCollected
  <1>3. QED
    BY <1>1, <1>2

LEMMA CheckResetIInv == IInv /\ CheckReset => IInv'
  <1> SUFFICES ASSUME IInv, CheckReset PROVE IInv'
    OBVIOUS
  <1>1. /\ batch = {}
        /\ UNCHANGED <<batch, reading, queue, slot, pc1>>
        /\ connected' \subseteq connected
        /\ pc0' \in {"reboot", "collect"}
        /\ reset_core' \in BOOLEAN
        /\ windowCheck' \in BOOLEAN
    BY DEF CheckReset, DeinitCleanSensors, IInv, BatchOnlyInTransfer, TypeOK
  <1>2. QueueCarriesEveryReading'
    BY <1>1, QCEUnchanged DEF IInv
  <1>3. QED
    BY <1>1, <1>2 DEF IInv, TypeOK, BatchOnlyInTransfer, BatchedCollected

\* The core1 steps that leave the queue alone.
LEMMA Core1OtherIInv ==
  IInv /\ (Core1Start \/ ApLeave \/ ApSave \/ StaNullFault) => IInv'
  <1> SUFFICES ASSUME IInv, Core1Start \/ ApLeave \/ ApSave \/ StaNullFault
               PROVE IInv'
    OBVIOUS
  <1>1. /\ UNCHANGED <<connected, pc0, batch, reading, queue, slot, windowCheck>>
        /\ pc1' \in {"boot", "ap", "ap_returned", "sta", "sta_null",
                     "ap_shutdown", "stopped", "halted"}
        /\ reset_core' \in BOOLEAN
    BY DEF Core1Start, ApLeave, ApSave, StaNullFault, IInv, TypeOK
  <1>2. QueueCarriesEveryReading'
    BY <1>1, QCEUnchanged DEF IInv
  <1>3. QED
    BY <1>1, <1>2 DEF IInv, TypeOK, BatchOnlyInTransfer, BatchedCollected

LEMMA TryReadDataIInv == IInv /\ TryReadData => IInv'
  <1> SUFFICES ASSUME IInv, TryReadData PROVE IInv'
    OBVIOUS
  <1>1. /\ queue # << >>
        /\ slot' = [slot EXCEPT ![Head(queue).topic] = Head(queue).n]
        /\ queue' = Tail(queue)
        /\ UNCHANGED <<connected, pc0, batch, reading, pc1, reset_core,
                       windowCheck>>
    BY DEF TryReadData
  <1>2. /\ Head(queue) \in Entry
        /\ queue' \in Seq(Entry) /\ Len(queue') <= QueueCap
        /\ slot' \in [Sensors -> 0..MaxReadings]
    <2>1. queue \in Seq(Entry) /\ Len(queue) <= QueueCap
          /\ slot \in [Sensors -> 0..MaxReadings]
      BY DEF IInv, TypeOK
    <2>2. Head(queue) \in Entry
      BY <1>1, <2>1
    <2>3. Head(queue).topic \in Sensors /\ Head(queue).n \in 0..MaxReadings
      BY <2>2 DEF Entry
    <2>4. queue' \in Seq(Entry) /\ Len(queue') <= QueueCap
      BY <1>1, <2>1, PipelineAssumption
    <2>5. QED
      BY <1>1, <2>1, <2>2, <2>3, <2>4
  <1>3. QC(queue', slot', SentF(batch', reading'))
    BY <1>1, IInvQC, TypeFacts, SentFType, QCTail
       DEF IInv, BatchedCollected
  <1>4. QueueCarriesEveryReading'
    <2>1. /\ queue' \in Seq(NatEntry)
          /\ batch' \in SUBSET Sensors
          /\ reading' \in [Sensors -> Nat]
      BY <1>1, <1>2, TypeFacts, EntryNat DEF IInv
    <2>2. QCE(queue', slot', batch', reading')
      BY <1>3, <2>1, QCEIsQC
    <2>3. QED
      BY <2>2, QCEIsQueueCarries
  <1>5. QED
    BY <1>1, <1>2, <1>4 DEF IInv, TypeOK, BatchOnlyInTransfer,
       BatchedCollected

LEMMA NextIInv == IInv /\ [Next]_vars => IInv'
  <1> SUFFICES ASSUME IInv, [Next]_vars PROVE IInv'
    OBVIOUS
  <1>1. CASE UNCHANGED vars
    <2>1. QueueCarriesEveryReading'
      BY <1>1, QCEUnchanged DEF vars, IInv
    <2>2. QED
      BY <1>1, <2>1 DEF vars, IInv, TypeOK, BatchOnlyInTransfer,
         BatchedCollected
  <1>2. QED
    BY <1>1, InitSensorsIInv, CollectIInv, TransferIInv, CheckResetIInv,
       Core1OtherIInv, TryReadDataIInv DEF Next

LEMMA AlwaysIInv == Spec => []IInv
  BY InitIInv, NextIInv, PTL DEF Spec

\* The queue never holds more than the element count given to queue_init,
\* and every entry names a sensor: queue_add_blocking waits at the full
\* queue, for every number of sensors and every capacity.
THEOREM TypeCorrect == Spec => []TypeOK
  <1>1. IInv => TypeOK
    BY DEF IInv
  <1>2. QED
    BY <1>1, AlwaysIInv, PTL

\* current_sensor_data and sensor_data_queue together lose, duplicate and
\* reorder no reading of any sensor, for every number of sensors, every
\* capacity of the queue and every interleaving of the cores.
THEOREM ReadingsInOrder == Spec => []QueueCarriesEveryReading
  <1>1. IInv => QueueCarriesEveryReading
    BY DEF IInv
  <1>2. QED
    BY <1>1, AlwaysIInv, PTL

====
