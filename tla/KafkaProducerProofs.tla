-------------------------- MODULE KafkaProducerProofs --------------------------
(***************************************************************************)
(* What a producer does to the order of what is sent, for any payloads and *)
(* any partitioning: the topic has the payloads of a partition in the      *)
(* order in which they were handed over, though sends fail and the process *)
(* dies. A module with a producer instantiates this one and shows that its *)
(* steps are the producer's.                                               *)
(***************************************************************************)
EXTENDS KafkaProducer, FiniteSetTheorems, TLAPS

\* Everything a producer may be asked to do, and its completions.
ProducerNext ==
    \/ \E p \in Payloads : Accept(p)
    \/ \E i \in DOMAIN sends :
          Write(i) \/ SucceedSend(i) \/ FailSend(i) \/ MarkHandled(i)
    \/ LoseProducer

ProducerSpec == ProducerInit /\ [][ProducerNext]_sends

\* What the partition of i has.
Stored(i) == {j \in Queue(i) : Written(j)}

\* What came before in the partition has got its place, or never will; places
\* go up, and none is past the end of the partition.
QueuesInOrder ==
    /\ \A i \in DOMAIN sends : Written(i) => sends[i].offset <= Cardinality(Stored(i))
    /\ \A i, j \in DOMAIN sends :
          i < j /\ j \in Queue(i) /\ Written(j) =>
              ~Waiting(i) /\ (Written(i) => sends[i].offset < sends[j].offset)

ProducerInv == ProducerTypeOK /\ QueuesInOrder

-----------------------------------------------------------------------------
LEMMA OneSend ==
    ASSUME ProducerTypeOK
    PROVE  /\ Len(sends) \in Nat /\ DOMAIN sends = 1 .. Len(sends)
           /\ \A i \in DOMAIN sends :
                 /\ sends[i] \in Send
                 /\ sends[i].payload \in Payloads /\ sends[i].offset \in Nat
                 /\ sends[i].phase \in Phase
<1>1. /\ Len(sends) \in Nat /\ DOMAIN sends = 1 .. Len(sends)
      /\ \A i \in DOMAIN sends : sends[i] \in Send
  BY DEF ProducerTypeOK
<1> QED
  BY <1>1 DEF Send

LEMMA StoredIsFinite ==
    ASSUME ProducerTypeOK, NEW i
    PROVE  IsFiniteSet(Stored(i)) /\ Cardinality(Stored(i)) \in Nat
<1>1. IsFiniteSet(DOMAIN sends)
  BY OneSend, FS_Interval
<1>2. Stored(i) \in SUBSET DOMAIN sends
  BY DEF Stored, Queue
<1>3. IsFiniteSet(Stored(i))
  BY <1>1, <1>2, FS_Subset
<1> QED
  BY <1>3, FS_CardinalityType

\* An update of one send keeps the sequence a sequence.
LEMMA UpdateOne ==
    ASSUME ProducerTypeOK, NEW i \in DOMAIN sends, NEW s \in Send,
           sends' = [sends EXCEPT ![i] = s]
    PROVE  /\ ProducerTypeOK'
           /\ DOMAIN sends' = DOMAIN sends
           /\ sends'[i] = s
           /\ \A j \in DOMAIN sends \ {i} : sends'[j] = sends[j]
BY DEF ProducerTypeOK

-----------------------------------------------------------------------------
\* No payload or place changes, and nobody starts to wait.
LEMMA NoWriteKeepsOrder ==
    ASSUME ProducerInv, ProducerTypeOK',
           DOMAIN sends' = DOMAIN sends,
           \A i \in DOMAIN sends : /\ sends'[i].payload = sends[i].payload
                                   /\ sends'[i].offset = sends[i].offset
                                   /\ Waiting(i)' => Waiting(i)
    PROVE  ProducerInv'
<1>1. \A i \in DOMAIN sends : Queue(i)' = Queue(i) /\ (Written(i)' <=> Written(i))
  BY DEF Queue, Written
<1>2. ASSUME NEW i \in DOMAIN sends PROVE Stored(i)' = Stored(i)
  <2>1. Queue(i)' = Queue(i) /\ Queue(i) \subseteq DOMAIN sends
    BY <1>1 DEF Queue
  <2> QED
    BY <1>1, <2>1 DEF Stored
<1>3. QueuesInOrder'
  BY <1>1, <1>2 DEF ProducerInv, QueuesInOrder
<1> QED
  BY <1>3 DEF ProducerInv

LEMMA AcceptKeepsOrder ==
    ASSUME ProducerInv, NEW p \in Payloads, Accept(p)
    PROVE  ProducerInv'
<1> PICK n : n = Len(sends) + 1
  OBVIOUS
<1> DEFINE s == [payload |-> p, offset |-> 0, phase |-> "inflight"]
<1>1. s \in Send /\ s.offset = 0
  BY DEF Send, Phase
<1>2. sends' = Append(sends, s) /\ sends \in Seq(Send)
  BY DEF Accept, ProducerInv, ProducerTypeOK
<1> HIDE DEF s
<1>3. /\ sends' \in Seq(Send) /\ Len(sends) \in Nat
      /\ DOMAIN sends = 1 .. Len(sends) /\ DOMAIN sends' = 1 .. n
      /\ \A i \in DOMAIN sends : sends'[i] = sends[i]
      /\ sends'[n] = s
  BY <1>1, <1>2
<1>4. \A i \in DOMAIN sends : sends[i].offset \in Nat
  BY OneSend DEF ProducerInv
<1>5. \A i \in DOMAIN sends : Written(i)' <=> Written(i)
  BY <1>3 DEF Written
<1>6. ~Written(n)'
  BY <1>1, <1>3 DEF Written
<1>7. ASSUME NEW i \in DOMAIN sends PROVE Stored(i)' = Stored(i)
  BY <1>3, <1>5, <1>6 DEF Stored, Queue
<1>8. ASSUME NEW i \in DOMAIN sends', Written(i)'
      PROVE  sends'[i].offset <= Cardinality(Stored(i)')
  <2>1. i \in DOMAIN sends /\ Written(i)
    BY <1>3, <1>5, <1>6, <1>8
  <2> QED
    BY <1>3, <1>7, <2>1 DEF ProducerInv, QueuesInOrder
<1>9. ASSUME NEW i \in DOMAIN sends', NEW j \in DOMAIN sends',
             i < j, j \in Queue(i)', Written(j)'
      PROVE  ~Waiting(i)' /\ (Written(i)' => sends'[i].offset < sends'[j].offset)
  <2>1. i \in DOMAIN sends /\ j \in DOMAIN sends
    BY <1>3, <1>6, <1>9
  <2>2. j \in Queue(i) /\ Written(j)
    BY <1>3, <1>5, <1>9, <2>1 DEF Queue
  <2>3. ~Waiting(i) /\ (Written(i) => sends[i].offset < sends[j].offset)
    BY <1>9, <2>1, <2>2 DEF ProducerInv, QueuesInOrder
  <2> QED
    BY <1>3, <1>5, <2>1, <2>3 DEF Waiting
<1> QED
  BY <1>3, <1>8, <1>9 DEF ProducerInv, ProducerTypeOK, QueuesInOrder

\* The payload goes to the end of its partition, and all before it have been
\* there or are given up.
LEMMA WriteKeepsOrder ==
    ASSUME ProducerInv, NEW k \in DOMAIN sends, Write(k)
    PROVE  ProducerInv'
<1> DEFINE place == 1 + Cardinality(Stored(k))
           s == [sends[k] EXCEPT !.offset = place]
<1>1. ProducerTypeOK /\ place \in Nat
  BY StoredIsFinite DEF ProducerInv
<1>2. sends' = [sends EXCEPT ![k] = s] /\ Waiting(k)
  BY DEF Write, Stored
<1> HIDE DEF place
<1>3. /\ s \in Send /\ s.payload = sends[k].payload
      /\ s.phase = sends[k].phase /\ s.offset = place
  BY <1>1, OneSend DEF Send
<1> HIDE DEF s
<1>4. /\ ProducerTypeOK' /\ DOMAIN sends' = DOMAIN sends
      /\ sends'[k] = s /\ \A j \in DOMAIN sends \ {k} : sends'[j] = sends[j]
  BY <1>1, <1>2, <1>3, UpdateOne
<1>5. \A i \in DOMAIN sends : sends'[i].payload = sends[i].payload
  BY <1>3, <1>4
<1>6. /\ \A j \in DOMAIN sends \ {k} : Written(j)' <=> Written(j)
      /\ Written(k)' /\ ~Written(k)
  BY <1>1, <1>2, <1>3, <1>4, StoredIsFinite DEF Written, Waiting, place
<1>7. \A i \in DOMAIN sends : Queue(i)' = Queue(i)
  BY <1>4, <1>5 DEF Queue
<1>8. \A i \in DOMAIN sends : k \notin Queue(i) => Stored(i)' = Stored(i)
  BY <1>4, <1>6, <1>7 DEF Stored, Queue
<1>9. \A i \in DOMAIN sends : k \in Queue(i) =>
          /\ Stored(i) = Stored(k) /\ k \notin Stored(k)
          /\ Stored(i)' = Stored(k) \cup {k}
  BY <1>4, <1>6, <1>7 DEF Stored, Queue
<1>10. Cardinality(Stored(k) \cup {k}) = place
  <2>1. k \notin Stored(k)
    BY <1>6 DEF Stored
  <2>2. IsFiniteSet(Stored(k)) /\ Cardinality(Stored(k)) \in Nat
    BY <1>1, StoredIsFinite
  <2>3. Cardinality(Stored(k) \cup {k}) = Cardinality(Stored(k)) + 1
    BY <2>1, <2>2, FS_AddElement
  <2> QED
    BY <2>2, <2>3 DEF place
<1>11. ASSUME NEW i \in DOMAIN sends', Written(i)'
       PROVE  sends'[i].offset <= Cardinality(Stored(i)')
  <2>1. CASE i = k
    <3>1. k \in Queue(k)
      BY DEF Queue
    <3> QED
      BY <1>1, <1>3, <1>4, <1>9, <1>10, <2>1, <3>1
  <2>2. CASE i # k
    <3>1. Written(i) /\ sends'[i] = sends[i] /\ sends[i].offset <= Cardinality(Stored(i))
      BY <1>4, <1>6, <1>11, <2>2 DEF ProducerInv, QueuesInOrder
    <3>2. sends[i].offset \in Nat /\ Cardinality(Stored(k)) \in Nat
      BY <1>1, <1>4, OneSend, StoredIsFinite
    <3>3. CASE k \in Queue(i)
      BY <1>4, <1>9, <1>10, <3>1, <3>2, <3>3 DEF place
    <3>4. CASE k \notin Queue(i)
      BY <1>4, <1>8, <3>1, <3>4
    <3> QED
      BY <3>3, <3>4
  <2> QED
    BY <2>1, <2>2
<1>12. ASSUME NEW i \in DOMAIN sends', NEW j \in DOMAIN sends',
              i < j, j \in Queue(i)', Written(j)'
       PROVE  ~Waiting(i)' /\ (Written(i)' => sends'[i].offset < sends'[j].offset)
  <2>1. i \in DOMAIN sends /\ j \in DOMAIN sends /\ j \in Queue(i) /\ i \in Nat /\ j \in Nat
    BY <1>1, <1>4, <1>7, <1>12, OneSend
  <2>2. CASE j = k
    <3>1. i # k /\ sends'[i] = sends[i] /\ i \in Queue(k) /\ k \in Queue(i)
      BY <1>4, <1>12, <2>1, <2>2 DEF Queue
    <3>2. ~Waiting(i)
      BY <1>12, <2>2, <3>1 DEF Write
    <3>3. Written(i) => sends[i].offset <= Cardinality(Stored(k))
      BY <1>9, <2>1, <3>1 DEF ProducerInv, QueuesInOrder
    <3>4. sends[i].offset \in Nat /\ Cardinality(Stored(k)) \in Nat
      BY <1>1, <2>1, OneSend, StoredIsFinite
    <3> QED
      BY <1>3, <1>4, <2>2, <3>1, <3>2, <3>3, <3>4 DEF Waiting, Written, place
  <2>3. CASE j # k
    <3>1. Written(j) /\ sends'[j] = sends[j]
      BY <1>4, <1>6, <1>12, <2>1, <2>3
    <3>2. ~Waiting(i) /\ (Written(i) => sends[i].offset < sends[j].offset)
      BY <1>12, <2>1, <3>1 DEF ProducerInv, QueuesInOrder
    <3>3. i # k
      BY <1>2, <3>2
    <3> QED
      BY <1>4, <2>1, <3>1, <3>2, <3>3 DEF Waiting, Written
  <2> QED
    BY <2>2, <2>3
<1> QED
  BY <1>4, <1>11, <1>12 DEF ProducerInv, QueuesInOrder

LEMMA PhaseKeepsOrder ==
    ASSUME ProducerInv, NEW i \in DOMAIN sends, NEW p \in Phase \ {"inflight"},
           sends' = [sends EXCEPT ![i].phase = p]
    PROVE  ProducerInv'
<1> DEFINE s == [sends[i] EXCEPT !.phase = p]
<1>1. /\ s \in Send /\ s.payload = sends[i].payload
      /\ s.offset = sends[i].offset /\ s.phase = p
  BY OneSend DEF Send, ProducerInv
<1>2. sends' = [sends EXCEPT ![i] = s]
  OBVIOUS
<1> HIDE DEF s
<1>3. /\ ProducerTypeOK' /\ DOMAIN sends' = DOMAIN sends
      /\ sends'[i] = s /\ \A j \in DOMAIN sends \ {i} : sends'[j] = sends[j]
  BY <1>1, <1>2, UpdateOne DEF ProducerInv
<1> QED
  BY <1>1, <1>3, NoWriteKeepsOrder DEF Waiting, Written

LEMMA LosingKeepsOrder ==
    ASSUME ProducerInv, LoseProducer
    PROVE  ProducerInv'
<1>1. /\ DOMAIN sends' = DOMAIN sends
      /\ \A i \in DOMAIN sends :
            sends'[i] = IF Pending(i) THEN [sends[i] EXCEPT !.phase = "dead"] ELSE sends[i]
  BY DEF LoseProducer
<1>2. ASSUME NEW i \in DOMAIN sends
      PROVE  /\ sends'[i] \in Send
             /\ sends'[i].payload = sends[i].payload
             /\ sends'[i].offset = sends[i].offset
             /\ Waiting(i)' => Waiting(i)
  <2>1. sends[i] \in Send
    BY OneSend DEF ProducerInv
  <2>2. CASE Pending(i)
    <3>1. sends'[i] = [sends[i] EXCEPT !.phase = "dead"]
      BY <1>1, <2>2
    <3> QED
      BY <2>1, <3>1 DEF Send, Phase, Waiting
  <2>3. CASE ~Pending(i)
    <3>1. sends'[i] = sends[i]
      BY <1>1, <2>3, Zenon
    <3> QED
      BY <2>1, <3>1 DEF Waiting, Written
  <2> QED
    BY <2>2, <2>3
<1>3. ProducerTypeOK'
  <2>1. DOMAIN sends = 1 .. Len(sends) /\ Len(sends) \in Nat
    BY OneSend DEF ProducerInv
  <2>2. sends' = [i \in 1 .. Len(sends) |-> sends'[i]]
    BY <2>1 DEF LoseProducer
  <2> QED
    BY <1>2, <2>1, <2>2 DEF ProducerTypeOK
<1> QED
  BY <1>1, <1>2, <1>3, NoWriteKeepsOrder

LEMMA ProducerInvNext == ProducerInv /\ [ProducerNext]_sends => ProducerInv'
<1> SUFFICES ASSUME ProducerInv, [ProducerNext]_sends PROVE ProducerInv'
  OBVIOUS
<1>1. ASSUME NEW i \in DOMAIN sends, SucceedSend(i) \/ FailSend(i) \/ MarkHandled(i)
      PROVE  ProducerInv'
  BY <1>1, PhaseKeepsOrder DEF SucceedSend, FailSend, MarkHandled, Phase
<1>2. CASE UNCHANGED sends
  BY <1>2 DEF ProducerInv, ProducerTypeOK, QueuesInOrder, Stored, Queue, Written, Waiting
<1> QED
  BY <1>1, <1>2, AcceptKeepsOrder, WriteKeepsOrder, LosingKeepsOrder DEF ProducerNext

LEMMA ProducerInvInit == ProducerInit => ProducerInv
BY DEF ProducerInit, ProducerInv, ProducerTypeOK, QueuesInOrder

LEMMA ProducerInvAlways == ProducerSpec => []ProducerInv
BY ProducerInvInit, ProducerInvNext, PTL DEF ProducerSpec

PartitionsKeepOrder == \A i, j \in DOMAIN sends : Precedes(i, j) => i < j

\* With acks=all and enable.idempotence, as both services set them: whatever
\* fails, a partition has its payloads in the order of the calls of send.
THEOREM SendsKeepOrder == ProducerSpec => []PartitionsKeepOrder
<1>1. ProducerInv => PartitionsKeepOrder
  <2> SUFFICES ASSUME ProducerInv, NEW i \in DOMAIN sends, NEW j \in DOMAIN sends,
                      Precedes(i, j), ~(i < j)
               PROVE  FALSE
    BY DEF PartitionsKeepOrder
  <2>1. /\ i \in Nat /\ j \in Nat
        /\ sends[i].offset \in Nat /\ sends[j].offset \in Nat
    BY OneSend DEF ProducerInv
  <2>2. j < i /\ i \in Queue(j) /\ Written(i) /\ Written(j) /\ sends[i].offset < sends[j].offset
    BY <2>1 DEF Precedes, Queue
  <2>3. sends[j].offset < sends[i].offset
    BY <2>2 DEF ProducerInv, QueuesInOrder
  <2> QED
    BY <2>1, <2>2, <2>3
<1> QED
  BY <1>1, ProducerInvAlways, PTL
=============================================================================
