---------------------- MODULE ThresholdMonitoringProofs -----------------------
(***************************************************************************)
(* Theorems about ThresholdMonitoring, for every set of records, threads,  *)
(* levels and thresholds and every bound on faults: type correctness, that *)
(* marks of ordinary measurements stay, that an event gets at most one     *)
(* alert, that a mark means an alert, that the DLT is earned, that nothing *)
(* is lost while partitions stay with their owners, that alerts are in the *)
(* order of their measurements until the first fault, and that it          *)
(* implements Alerting.                                                    *)
(***************************************************************************)
EXTENDS ThresholdMonitoringToAlerting, RetryTopicProofs, FiniteSetTheorems

-----------------------------------------------------------------------------
(* The producer.                                                           *)

LEMMA SendShape ==
    ASSUME ProducerTypeOK, NEW i \in DOMAIN sends
    PROVE  /\ sends[i] \in Send
           /\ sends[i].payload \in Events
           /\ sends[i].offset \in Nat
           /\ sends[i].phase \in Phase
  <1>1. sends[i] \in Send
    BY DEF ProducerTypeOK
  <1> QED
    BY <1>1 DEF Send

\* A new alert comes last and leaves the others as they are.
LEMMA AcceptAppends ==
    ASSUME ProducerTypeOK, NEW e \in Events, Accept(e)
    PROVE  /\ ProducerTypeOK'
           /\ DOMAIN sends' = DOMAIN sends \cup {Len(sends) + 1}
           /\ \A i \in DOMAIN sends : sends'[i] = sends[i] /\ i < Len(sends) + 1
           /\ sends'[Len(sends) + 1] = [payload |-> e, offset |-> 0, phase |-> "inflight"]
  <1> DEFINE s == [payload |-> e, offset |-> 0, phase |-> "inflight"]
  <1>1. s \in Send
    BY DEF Send, Phase
  <1>2. sends' = Append(sends, s)
    BY DEF Accept
  <1>3. sends \in Seq(Send)
    BY DEF ProducerTypeOK
  <1> HIDE DEF s
  <1>4. sends' \in Seq(Send)
    BY <1>1, <1>2, <1>3
  <1>5. Len(sends') = Len(sends) + 1 /\ Len(sends) \in Nat
    BY <1>1, <1>2, <1>3
  <1>6. DOMAIN sends' = 1 .. Len(sends) + 1 /\ DOMAIN sends = 1 .. Len(sends)
    BY <1>3, <1>4, <1>5
  <1>7. \A i \in DOMAIN sends : sends'[i] = sends[i]
    BY <1>1, <1>2, <1>3, <1>6
  <1>8. sends'[Len(sends) + 1] = s
    BY <1>1, <1>2, <1>3, <1>5
  <1>9. ProducerTypeOK'
    BY <1>4 DEF ProducerTypeOK
  <1> QED
    BY <1>5, <1>6, <1>7, <1>8, <1>9 DEF s

\* The place the broker gives is a number.
LEMMA PlaceIsNat ==
    ASSUME ProducerTypeOK, NEW i \in DOMAIN sends
    PROVE  1 + Cardinality({j \in Queue(i) : Written(j)}) \in Nat \ {0}
  <1>1. DOMAIN sends = 1 .. Len(sends) /\ Len(sends) \in Nat
    BY DEF ProducerTypeOK
  <1>2. IsFiniteSet(DOMAIN sends)
    BY <1>1, FS_Interval
  <1>3. {j \in Queue(i) : Written(j)} \subseteq DOMAIN sends
    BY DEF Queue
  <1>4. IsFiniteSet({j \in Queue(i) : Written(j)})
    BY <1>2, <1>3, FS_Subset
  <1>5. Cardinality({j \in Queue(i) : Written(j)}) \in Nat
    BY <1>4, FS_CardinalityType
  <1> QED
    BY <1>5

\* Everything else that happens to an alert is an update in place.
LEMMA UpdateInPlace ==
    ASSUME ProducerTypeOK, NEW i \in DOMAIN sends, NEW s \in Send,
           sends' = [sends EXCEPT ![i] = s]
    PROVE  /\ ProducerTypeOK'
           /\ DOMAIN sends' = DOMAIN sends
           /\ sends'[i] = s
           /\ \A j \in DOMAIN sends \ {i} : sends'[j] = sends[j]
  BY DEF ProducerTypeOK

LEMMA WriteUpdates ==
    ASSUME ProducerTypeOK, NEW i \in DOMAIN sends, Write(i)
    PROVE  /\ ProducerTypeOK'
           /\ DOMAIN sends' = DOMAIN sends
           /\ sends[i].phase = "inflight"
           /\ sends'[i].payload = sends[i].payload /\ sends'[i].phase = sends[i].phase
           /\ \A j \in DOMAIN sends \ {i} : sends'[j] = sends[j]
  <1> DEFINE place == 1 + Cardinality({j \in Queue(i) : Written(j)})
  <1> DEFINE s == [sends[i] EXCEPT !.offset = place]
  <1>1. place \in Nat
    BY PlaceIsNat
  <1>2. sends' = [sends EXCEPT ![i] = s] /\ sends[i].phase = "inflight"
    BY DEF Write, Waiting
  <1> HIDE DEF place
  <1>3. s \in Send /\ s.payload = sends[i].payload /\ s.phase = sends[i].phase
    BY <1>1, SendShape DEF Send
  <1> HIDE DEF s
  <1> QED
    BY <1>2, <1>3, UpdateInPlace

\* SucceedSend, FailSend and MarkHandled change the phase only.
LEMMA PhaseUpdates ==
    ASSUME ProducerTypeOK, NEW i \in DOMAIN sends, NEW p \in Phase,
           sends' = [sends EXCEPT ![i].phase = p]
    PROVE  /\ ProducerTypeOK'
           /\ DOMAIN sends' = DOMAIN sends
           /\ sends'[i].payload = sends[i].payload
           /\ sends'[i].offset = sends[i].offset
           /\ sends'[i].phase = p
           /\ \A j \in DOMAIN sends \ {i} : sends'[j] = sends[j]
  <1> DEFINE s == [sends[i] EXCEPT !.phase = p]
  <1>1. s \in Send /\ s.payload = sends[i].payload /\ s.offset = sends[i].offset /\ s.phase = p
    BY SendShape DEF Send
  <1>2. sends' = [sends EXCEPT ![i] = s]
    OBVIOUS
  <1> HIDE DEF s
  <1> QED
    BY <1>1, <1>2, UpdateInPlace

LEMMA LoseKeepsPayloads ==
    ASSUME ProducerTypeOK, LoseProducer
    PROVE  /\ ProducerTypeOK'
           /\ DOMAIN sends' = DOMAIN sends
           /\ \A i \in DOMAIN sends :
                 /\ sends'[i].payload = sends[i].payload
                 /\ \/ sends'[i].phase = sends[i].phase
                    \/ sends[i].phase \in {"inflight", "failed"} /\ sends'[i].phase = "dead"
  <1>1. DOMAIN sends = 1 .. Len(sends) /\ Len(sends) \in Nat
    BY DEF ProducerTypeOK
  <1>2. \A i \in DOMAIN sends : sends'[i] = IF Pending(i) THEN [sends[i] EXCEPT !.phase = "dead"]
                                                          ELSE sends[i]
    BY DEF LoseProducer
  <1>3. \A i \in DOMAIN sends :
           /\ sends'[i] \in Send
           /\ sends'[i].payload = sends[i].payload
           /\ \/ sends'[i].phase = sends[i].phase
              \/ sends[i].phase \in {"inflight", "failed"} /\ sends'[i].phase = "dead"
    <2> SUFFICES ASSUME NEW i \in DOMAIN sends
                 PROVE  /\ sends'[i] \in Send
                        /\ sends'[i].payload = sends[i].payload
                        /\ \/ sends'[i].phase = sends[i].phase
                           \/ sends[i].phase \in {"inflight", "failed"} /\ sends'[i].phase = "dead"
      OBVIOUS
    <2>1. sends[i] \in Send
      BY SendShape
    <2>2. CASE Pending(i)
      <3>1. sends'[i] = [sends[i] EXCEPT !.phase = "dead"]
        BY <1>2, <2>2
      <3> QED
        BY <2>1, <2>2, <3>1 DEF Pending, Send, Phase
    <2>3. CASE ~Pending(i)
      <3>1. sends'[i] = sends[i]
        BY <1>2, <2>3, Zenon
      <3> QED
        BY <2>1, <3>1 DEF Send
    <2> QED
      BY <2>2, <2>3
  <1>4. DOMAIN sends' = DOMAIN sends
    BY DEF LoseProducer
  <1>5. sends' \in Seq(Send)
    <2>1. sends' = [i \in 1 .. Len(sends) |-> sends'[i]]
      BY <1>1 DEF LoseProducer
    <2> QED
      BY <1>1, <1>3, <2>1
  <1> QED
    BY <1>3, <1>4, <1>5 DEF ProducerTypeOK

-----------------------------------------------------------------------------
(* Type correctness.                                                       *)

TInv == TypeOK /\ InLog

\* The types of the variables outside the lane and the producer.
RestTypeOK ==
    /\ processed \subseteq Events
    /\ cached \subseteq Types
    /\ crashes \in 0 .. MaxCrashes
    /\ rebalances \in 0 .. MaxRebalances
    /\ dbFaults \in 0 .. MaxDbFaults
    /\ kafkaFaults \in 0 .. MaxKafkaFaults

LEMMA TInvParts ==
    /\ TInv <=> LaneInv(PC) /\ ProducerTypeOK /\ RestTypeOK
    /\ TInv' <=> LaneInv(PC)' /\ ProducerTypeOK' /\ RestTypeOK'
  BY DEF TInv, TypeOK, LaneInv, RestTypeOK

LEMMA FaultTypes ==
    ASSUME RestTypeOK
    PROVE  /\ DbFault => dbFaults' \in 0 .. MaxDbFaults /\ dbFaults' > 0
           /\ KafkaFault => kafkaFaults' \in 0 .. MaxKafkaFaults
  BY BoundsAssumption DEF RestTypeOK, DbFault, KafkaFault

\* Thread c is between marking its event and either sending the alert or
\* removing the mark.
Claims(c) == consumer[c].pc \in {"send", "delete"}

\* A thread at a step of the listener has an event.
LEMMA AtWork ==
    ASSUME TInv, NEW c \in Consumers, consumer[c].pc \in PC
    PROVE  /\ Busy(c)
           /\ LaneInv(PC)
           /\ EventOf(c) \in Events
           /\ EventType[EventOf(c)] \in Types
  <1>1. Busy(c) /\ LaneInv(PC)
    BY TInvParts DEF Busy, Idle, PC
  <1>2. EventOf(c) \in Events
    BY <1>1, BusyThread DEF EventOf, Events
  <1> QED
    BY <1>1, <1>2, DataAssumption

\* What the other threads do not notice of a step of the lane.
Unmoved(d) == /\ Claims(d)' <=> Claims(d)
              /\ Claims(d) => EventOf(d)' = EventOf(d)

LEMMA UnmovedThread ==
    ASSUME TInv, Grows, NEW d \in Consumers, consumer'[d] = consumer[d]
    PROVE  Unmoved(d)
  <1>1. Claims(d)' <=> Claims(d)
    BY DEF Claims
  <1>2. ASSUME Claims(d) PROVE EventOf(d)' = EventOf(d)
    <2>1. Busy(d) /\ LaneInv(PC)
      BY <1>2, AtWork DEF Claims, PC
    <2> QED
      BY <2>1, GrowthKeepsRecords DEF EventOf
  <1> QED
    BY <1>1, <1>2 DEF Unmoved

\* The effect of Goto, and of leaving the record, on claims.
LEMMA GotoMoves ==
    ASSUME TInv, NEW c \in Consumers, consumer[c].pc \in PC, NEW pc \in PC, Goto(c, pc)
    PROVE  /\ LaneInv(PC)'
           /\ consumer'[c].pc = pc
           /\ EventOf(c)' = EventOf(c)
           /\ \A d \in Consumers \ {c} : Unmoved(d)
  BY AtWork, GotoKeepsLane, UnmovedThread DEF EventOf

LEMMA LeavingMoves ==
    ASSUME TInv, NEW c \in Consumers, consumer[c].pc \in PC,
           \/ Finish(c)
           \/ SeekBack(c)
           \/ \E t \in Topics : Forward(c, t) \/ ForwardUnconfirmed(c, t)
    PROVE  /\ LaneInv(PC)'
           /\ ~Claims(c)'
           /\ \A d \in Consumers \ {c} : Unmoved(d)
  <1>1. /\ LaneInv(PC)' /\ Grows /\ consumer'[c].pc \in {"idle", "next"}
        /\ \A d \in Consumers \ {c} : consumer'[d] = consumer[d]
    BY AtWork, FinishKeepsLane, SeekBackKeepsLane, ForwardKeepsLane,
       ForwardUnconfirmedKeepsLane DEF PC
  <1> QED
    BY <1>1, UnmovedThread DEF Claims

\* Steps of one listener thread keep the types.
LEMMA ListenerTypes ==
    ASSUME TInv, NEW c \in Consumers, ListenerStep(c)
    PROVE  TInv'
  <1> USE FaultTypes, TInvParts
  <1>0. CASE Resume(c)
    <2>1. LaneInv(PC)'
      BY <1>0, GotoMoves DEF Resume, FirstStep, PC
    <2> QED
      BY <1>0, <2>1 DEF Resume, RestTypeOK, ProducerTypeOK, faultVars, serviceVars
  <1>1. CASE GetByType(c)
    <2>1. consumer[c].pc \in PC /\ EventType[EventOf(c)] \in Types
      BY <1>1, AtWork DEF GetByType, PC
    <2>2. LaneInv(PC)'
      BY <1>1, <2>1, GotoMoves DEF GetByType, PC
    <2> QED
      BY <1>1, <2>1, <2>2 DEF GetByType, RestTypeOK, ProducerTypeOK, faultVars
  <1>2. CASE GetByTypeFails(c)
    <2>1. LaneInv(PC)'
      BY <1>2, GotoMoves DEF GetByTypeFails, PC
    <2> QED
      BY <1>2, <2>1 DEF GetByTypeFails, DbFault, RestTypeOK, ProducerTypeOK, serviceVars
  <1>3. CASE RecordOrdinary(c)
    <2>1. LaneInv(PC)' /\ EventOf(c) \in Events
      BY <1>3, AtWork, LeavingMoves DEF RecordOrdinary, PC
    <2> QED
      BY <1>3, <2>1 DEF RecordOrdinary, RestTypeOK, ProducerTypeOK, faultVars
  <1>4. CASE ClaimAlert(c)
    <2>1. LaneInv(PC)' /\ EventOf(c) \in Events
      BY <1>4, AtWork, GotoMoves DEF ClaimAlert, PC
    <2> QED
      BY <1>4, <2>1 DEF ClaimAlert, RestTypeOK, ProducerTypeOK, faultVars
  <1>5. CASE SkipDuplicate(c)
    <2>1. LaneInv(PC)'
      BY <1>5, LeavingMoves DEF SkipDuplicate, PC
    <2> QED
      BY <1>5, <2>1 DEF SkipDuplicate, RestTypeOK, ProducerTypeOK, faultVars, serviceVars
  <1>6. CASE SaveFails(c)
    <2>1. LaneInv(PC)' /\ EventOf(c) \in Events
      BY <1>6, AtWork, GotoMoves DEF SaveFails, PC
    <2> QED
      BY <1>6, <2>1 DEF SaveFails, DbFault, RestTypeOK, ProducerTypeOK
  <1>7. CASE SendAlert(c)
    <2>1. LaneInv(PC)' /\ EventOf(c) \in Events
      BY <1>7, AtWork, LeavingMoves DEF SendAlert, PC
    <2>2. ProducerTypeOK'
      BY <1>7, <2>1, AcceptAppends DEF SendAlert
    <2> QED
      BY <1>7, <2>1, <2>2 DEF SendAlert, RestTypeOK, faultVars
  <1>8. CASE SendThrows(c)
    <2>1. LaneInv(PC)'
      BY <1>8, GotoMoves DEF SendThrows, PC
    <2> QED
      BY <1>8, <2>1 DEF SendThrows, KafkaFault, RestTypeOK, ProducerTypeOK, serviceVars
  <1>9. CASE DeleteProcessed(c)
    <2>1. LaneInv(PC)'
      BY <1>9, GotoMoves DEF DeleteProcessed, PC
    <2> QED
      BY <1>9, <2>1 DEF DeleteProcessed, RestTypeOK, ProducerTypeOK, faultVars
  <1>10. CASE DeleteProcessedFails(c)
    <2>1. LaneInv(PC)'
      BY <1>10, GotoMoves DEF DeleteProcessedFails, PC
    <2> QED
      BY <1>10, <2>1 DEF DeleteProcessedFails, DbFault, RestTypeOK, ProducerTypeOK
  <1>11. CASE Recover(c)
    <2>1. consumer[c].pc \in PC /\ consumer[c].level + 1 \in Topics /\ Dlt \in Topics
      BY <1>11, AtWork, BusyThread, LevelsAreTopics DEF Recover, PC
    <2>2. LaneInv(PC)'
      BY <1>11, <2>1, LeavingMoves DEF Recover
    <2> QED
      BY <1>11, <2>2 DEF Recover, RestTypeOK, ProducerTypeOK, faultVars, serviceVars
  <1>12. CASE RecoverFails(c)
    <2>1. consumer[c].pc \in PC /\ consumer[c].level + 1 \in Topics /\ Dlt \in Topics
      BY <1>12, AtWork, BusyThread, LevelsAreTopics DEF RecoverFails, PC
    <2>2. LaneInv(PC)'
      BY <1>12, <2>1, LeavingMoves DEF RecoverFails
    <2> QED
      BY <1>12, <2>2 DEF RecoverFails, KafkaFault, RestTypeOK, ProducerTypeOK, serviceVars
  <1> QED
    BY <1>0, <1>1, <1>2, <1>3, <1>4, <1>5, <1>6, <1>7, <1>8, <1>9, <1>10, <1>11, <1>12
       DEF ListenerStep

\* Steps of the producer and of the listener of UnprocessedEvent touch one
\* alert, in place, and not the lane.
LEMMA AlertMoves ==
    ASSUME TInv, NEW i \in DOMAIN sends, ProducerStep(i) \/ UnprocessedStep(i)
    PROVE  /\ LaneInv(PC)' /\ Grows /\ consumer' = consumer
           /\ ProducerTypeOK'
           /\ DOMAIN sends' = DOMAIN sends
           /\ sends'[i].payload = sends[i].payload
           /\ \A j \in DOMAIN sends \ {i} : sends'[j] = sends[j]
  <1>1. UNCHANGED laneVars
    BY DEF ProducerStep, UnprocessedStep, BrokerAppend, Acknowledge, SendFails,
           HandleUnprocessed, HandleUnprocessedFails
  <1>2. LaneInv(PC)' /\ Grows /\ consumer' = consumer
    BY <1>1, TInvParts, LaneStutters DEF laneVars
  <1>3. CASE Write(i)
    BY <1>2, <1>3, TInvParts, WriteUpdates
  <1>4. CASE SucceedSend(i) \/ FailSend(i) \/ MarkHandled(i)
    BY <1>2, <1>4, TInvParts, PhaseUpdates DEF SucceedSend, FailSend, MarkHandled, Phase
  <1> QED
    BY <1>3, <1>4
       DEF ProducerStep, UnprocessedStep, BrokerAppend, Acknowledge, SendFails,
           HandleUnprocessed, HandleUnprocessedFails

LEMMA AlertTypes ==
    ASSUME TInv, NEW i \in DOMAIN sends, ProducerStep(i) \/ UnprocessedStep(i)
    PROVE  TInv'
  <1>1. RestTypeOK
    BY TInvParts
  <1>2. RestTypeOK'
    <2>1. CASE BrokerAppend(i) \/ Acknowledge(i)
      BY <1>1, <2>1 DEF BrokerAppend, Acknowledge, RestTypeOK, faultVars
    <2>2. CASE SendFails(i)
      BY <1>1, <2>2, FaultTypes DEF SendFails, KafkaFault, RestTypeOK
    <2>3. CASE HandleUnprocessed(i)
      BY <1>1, <2>3 DEF HandleUnprocessed, RestTypeOK, faultVars
    <2>4. CASE HandleUnprocessedFails(i)
      BY <1>1, <2>4, FaultTypes DEF HandleUnprocessedFails, DbFault, RestTypeOK
    <2> QED
      BY <2>1, <2>2, <2>3, <2>4 DEF ProducerStep, UnprocessedStep
  <1> QED
    BY <1>2, AlertMoves, TInvParts

\* The remaining steps: arrivals, polls, commits, rebalances, crashes, rest.
LEMMA LaneTypes ==
    ASSUME TInv,
           \/ \E e \in Events : Arrive(e)
           \/ \E c \in Consumers, l \in Levels : Poll(c, l)
           \/ \E l \in Levels : Commit(l) \/ Rebalance(l)
           \/ Crash
           \/ UNCHANGED vars
    PROVE  TInv'
  <1> USE TInvParts
  <1>1. CASE \E e \in Events : Arrive(e)
    <2>1. LaneInv(PC)'
      BY <1>1, PublishKeepsLane DEF Arrive, Events
    <2> QED
      BY <1>1, <2>1 DEF Arrive, RestTypeOK, ProducerTypeOK, serviceVars, faultVars
  <1>2. CASE \E c \in Consumers, l \in Levels : Poll(c, l)
    <2>1. LaneInv(PC)'
      BY <1>2, DeliverKeepsLane DEF Poll, FirstStep, PC
    <2> QED
      BY <1>2, <2>1 DEF Poll, RestTypeOK, ProducerTypeOK, serviceVars, faultVars
  <1>3. CASE \E l \in Levels : Commit(l)
    <2>1. LaneInv(PC)'
      BY <1>3, CommitOffsetKeepsLane DEF Commit
    <2> QED
      BY <1>3, <2>1 DEF Commit, RestTypeOK, ProducerTypeOK, serviceVars, faultVars
  <1>4. CASE \E l \in Levels : Rebalance(l)
    <2>1. LaneInv(PC)'
      BY <1>4, ReassignKeepsLane DEF Rebalance
    <2> QED
      BY <1>4, <2>1, BoundsAssumption DEF Rebalance, RestTypeOK, ProducerTypeOK, serviceVars
  <1>5. CASE Crash
    <2>1. LaneInv(PC)' /\ ProducerTypeOK'
      BY <1>5, RestartKeepsLane, LoseKeepsPayloads DEF Crash
    <2> QED
      BY <1>5, <2>1, BoundsAssumption DEF Crash, RestTypeOK
  <1>6. CASE UNCHANGED vars
    <2>1. LaneInv(PC)'
      BY <1>6, LaneStutters DEF vars
    <2> QED
      BY <1>6, <2>1 DEF vars, RestTypeOK, ProducerTypeOK, serviceVars, faultVars
  <1> QED
    BY <1>1, <1>2, <1>3, <1>4, <1>5, <1>6

LEMMA TInvInit == Init => TInv
  <1> SUFFICES ASSUME Init PROVE TInv
    OBVIOUS
  <1>1. LaneInv(PC)
    BY LaneStarts DEF Init
  <1>2. ProducerTypeOK
    BY DEF Init, ProducerInit, ProducerTypeOK
  <1> QED
    BY <1>1, <1>2, TInvParts, BoundsAssumption DEF Init, RestTypeOK

LEMMA TInvNext == TInv /\ [Next]_vars => TInv'
  BY ListenerTypes, AlertTypes, LaneTypes DEF Next, AtRest

LEMMA TInvAlways == Spec => []TInv
  BY TInvInit, TInvNext, PTL DEF Spec

\* The service's state keeps its shape: every thread stands at a record of
\* the lane, every mark and every alert is of an event.
THEOREM TypeCorrect == Spec => []TypeOK
  <1>1. TInv => TypeOK
    BY DEF TInv
  <1> QED
    BY <1>1, TInvAlways, PTL

-----------------------------------------------------------------------------
(* Steps that neither mark nor alert, nor take a claim or a mark away.     *)

QuietListenerStep(c) ==
    Resume(c) \/ GetByType(c) \/ SkipDuplicate(c) \/ SendThrows(c) \/ Recover(c) \/ RecoverFails(c)

QuietLaneStep ==
    \/ \E e \in Events : Arrive(e)
    \/ \E c \in Consumers, l \in Levels : Poll(c, l)
    \/ \E l \in Levels : Commit(l) \/ Rebalance(l)
    \/ UNCHANGED vars

QuietStep == QuietLaneStep \/ \E c \in Consumers : QuietListenerStep(c)

Steady == \A c \in Consumers : Unmoved(c)

LEMMA QuietListenerIsSteady ==
    ASSUME TInv, NEW c \in Consumers, QuietListenerStep(c)
    PROVE  Steady
  <1>0. CASE Resume(c)
    BY <1>0, GotoMoves DEF Resume, FirstStep, PC, Steady, Unmoved, Claims
  <1>1. CASE GetByType(c)
    BY <1>1, GotoMoves DEF GetByType, PC, Steady, Unmoved, Claims
  <1>2. CASE SkipDuplicate(c)
    BY <1>2, LeavingMoves DEF SkipDuplicate, PC, Steady, Unmoved, Claims
  <1>3. CASE SendThrows(c)
    BY <1>3, GotoMoves DEF SendThrows, PC, Steady, Unmoved, Claims
  <1>4. CASE Recover(c)
    <2>1. consumer[c].pc \in PC /\ consumer[c].level + 1 \in Topics /\ Dlt \in Topics
      BY <1>4, AtWork, BusyThread, LevelsAreTopics DEF Recover, PC
    <2>2. ~Claims(c)' /\ \A d \in Consumers \ {c} : Unmoved(d)
      BY <1>4, <2>1, LeavingMoves DEF Recover
    <2> QED
      BY <1>4, <2>2 DEF Recover, Steady, Unmoved, Claims
  <1>5. CASE RecoverFails(c)
    <2>1. consumer[c].pc \in PC /\ consumer[c].level + 1 \in Topics /\ Dlt \in Topics
      BY <1>5, AtWork, BusyThread, LevelsAreTopics DEF RecoverFails, PC
    <2>2. ~Claims(c)' /\ \A d \in Consumers \ {c} : Unmoved(d)
      BY <1>5, <2>1, LeavingMoves DEF RecoverFails
    <2> QED
      BY <1>5, <2>2 DEF RecoverFails, Steady, Unmoved, Claims
  <1> QED
    BY <1>0, <1>1, <1>2, <1>3, <1>4, <1>5 DEF QuietListenerStep

LEMMA QuietLaneIsSteady ==
    ASSUME TInv, QuietLaneStep
    PROVE  Steady
  <1> USE TInvParts
  <1>1. CASE \E e \in Events : Arrive(e)
    BY <1>1, PublishKeepsLane, UnmovedThread DEF Arrive, Publish, Events, Steady
  <1>2. CASE \E c \in Consumers, l \in Levels : Poll(c, l)
    <2>1. PICK c \in Consumers, l \in Levels, start \in {"fatal", "getByType"} :
             Deliver(c, l, start)
      BY <1>2 DEF Poll, FirstStep
    <2>2. Grows /\ consumer'[c].pc = start /\ \A d \in Consumers \ {c} : Unmoved(d)
      BY <2>1, DeliverKeepsLane, UnmovedThread DEF PC
    <2>3. ~Claims(c) /\ ~Claims(c)'
      BY <2>1, <2>2 DEF Deliver, Busy, Idle, Claims
    <2> QED
      BY <2>2, <2>3 DEF Steady, Unmoved
  <1>3. CASE \E l \in Levels : Commit(l)
    BY <1>3, CommitOffsetKeepsLane, UnmovedThread DEF Commit, Steady
  <1>4. CASE \E l \in Levels : Rebalance(l)
    BY <1>4, ReassignKeepsLane DEF Rebalance, Steady, Unmoved, Claims, EventOf
  <1>5. CASE UNCHANGED vars
    BY <1>5, LaneStutters, UnmovedThread DEF vars, laneVars, Steady
  <1> QED
    BY <1>1, <1>2, <1>3, <1>4, <1>5 DEF QuietLaneStep

LEMMA QuietSteps ==
    ASSUME TInv, QuietStep
    PROVE  /\ Steady
           /\ processed' = processed /\ sends' = sends
           /\ dbFaults' = dbFaults /\ crashes' = crashes
  BY QuietListenerIsSteady, QuietLaneIsSteady
     DEF QuietStep, QuietLaneStep, QuietListenerStep, Arrive, Poll, Commit, Rebalance, vars,
         Resume, GetByType, SkipDuplicate, SendThrows, KafkaFault, Recover, RecoverFails,
         serviceVars, faultVars

\* The other listener steps leave the other threads alone.
LEMMA BusySteps ==
    ASSUME TInv, NEW c \in Consumers
    PROVE  /\ RecordOrdinary(c) => Steady
           /\ ClaimAlert(c) \/ (SaveFails(c) /\ Exceeds(EventOf(c))) =>
                 /\ ~Claims(c) /\ Claims(c)' /\ EventOf(c)' = EventOf(c)
                 /\ \A d \in Consumers \ {c} : Unmoved(d)
           /\ GetByTypeFails(c) \/ (SaveFails(c) /\ ~Exceeds(EventOf(c))) => Steady
           /\ SendAlert(c) \/ DeleteProcessed(c) \/ DeleteProcessedFails(c) =>
                 /\ Claims(c) /\ ~Claims(c)'
                 /\ \A d \in Consumers \ {c} : Unmoved(d)
  <1>1. ASSUME RecordOrdinary(c) PROVE Steady
    BY <1>1, LeavingMoves DEF RecordOrdinary, PC, Steady, Unmoved, Claims
  <1>2. ASSUME ClaimAlert(c)
        PROVE  /\ ~Claims(c) /\ Claims(c)' /\ EventOf(c)' = EventOf(c)
               /\ \A d \in Consumers \ {c} : Unmoved(d)
    BY <1>2, GotoMoves DEF ClaimAlert, PC, Claims
  <1>3. ASSUME SaveFails(c), Exceeds(EventOf(c))
        PROVE  /\ ~Claims(c) /\ Claims(c)' /\ EventOf(c)' = EventOf(c)
               /\ \A d \in Consumers \ {c} : Unmoved(d)
    BY <1>3, GotoMoves DEF SaveFails, PC, Claims
  <1>4. ASSUME GetByTypeFails(c) PROVE Steady
    BY <1>4, GotoMoves DEF GetByTypeFails, PC, Steady, Unmoved, Claims
  <1>5. ASSUME SaveFails(c), ~Exceeds(EventOf(c)) PROVE Steady
    BY <1>5, GotoMoves DEF SaveFails, PC, Steady, Unmoved, Claims
  <1>6. ASSUME SendAlert(c)
        PROVE  Claims(c) /\ ~Claims(c)' /\ \A d \in Consumers \ {c} : Unmoved(d)
    BY <1>6, LeavingMoves DEF SendAlert, PC, Claims
  <1>7. ASSUME DeleteProcessed(c)
        PROVE  Claims(c) /\ ~Claims(c)' /\ \A d \in Consumers \ {c} : Unmoved(d)
    BY <1>7, GotoMoves DEF DeleteProcessed, PC, Claims
  <1>8. ASSUME DeleteProcessedFails(c)
        PROVE  Claims(c) /\ ~Claims(c)' /\ \A d \in Consumers \ {c} : Unmoved(d)
    BY <1>8, GotoMoves DEF DeleteProcessedFails, PC, Claims
  <1> QED
    BY <1>1, <1>2, <1>3, <1>4, <1>5, <1>6, <1>7, <1>8

LEMMA SendAlertAppends ==
    ASSUME TInv, NEW c \in Consumers, SendAlert(c)
    PROVE  /\ DOMAIN sends' = DOMAIN sends \cup {Len(sends) + 1}
           /\ \A i \in DOMAIN sends : sends'[i] = sends[i] /\ i < Len(sends) + 1
           /\ sends'[Len(sends) + 1].payload = EventOf(c)
           /\ sends'[Len(sends) + 1].phase = "inflight"
  <1>1. EventOf(c) \in Events /\ ProducerTypeOK
    BY AtWork, TInvParts DEF SendAlert, PC
  <1>2. Accept(EventOf(c))
    BY DEF SendAlert
  <1>3. /\ DOMAIN sends' = DOMAIN sends \cup {Len(sends) + 1}
        /\ \A i \in DOMAIN sends : sends'[i] = sends[i] /\ i < Len(sends) + 1
        /\ sends'[Len(sends) + 1] = [payload |-> EventOf(c), offset |-> 0, phase |-> "inflight"]
    BY <1>1, <1>2, AcceptAppends, Zenon
  <1> QED
    BY <1>3

LEMMA AlertIsSteady ==
    ASSUME TInv, NEW i \in DOMAIN sends, ProducerStep(i) \/ UnprocessedStep(i)
    PROVE  Steady
  BY AlertMoves, UnmovedThread DEF Steady

\* The disjuncts of the next-state relation, as the proofs below take them.
LEMMA NextCases ==
    ASSUME [Next]_vars
    PROVE  \/ QuietStep
           \/ \E c \in Consumers :
                 \/ RecordOrdinary(c) \/ ClaimAlert(c) \/ SendAlert(c) \/ DeleteProcessed(c)
                 \/ GetByTypeFails(c) \/ SaveFails(c) \/ DeleteProcessedFails(c)
           \/ \E i \in DOMAIN sends :
                 \/ ProducerStep(i)
                 \/ HandleUnprocessed(i) \/ HandleUnprocessedFails(i)
           \/ Crash
  BY DEF Next, ListenerStep, UnprocessedStep, AtRest, QuietStep, QuietLaneStep,
         QuietListenerStep

-----------------------------------------------------------------------------
(* Marks of ordinary measurements.                                         *)

\* Only measurements above the threshold get on the alert path.
OnlyExceeding ==
    /\ \A c \in Consumers : Claims(c) => Exceeds(EventOf(c))
    /\ \A i \in DOMAIN sends : Exceeds(sends[i].payload)

LEMMA SteadyKeepsExceeding ==
    ASSUME OnlyExceeding, Steady,
           DOMAIN sends' = DOMAIN sends,
           \A i \in DOMAIN sends : sends'[i].payload = sends[i].payload
    PROVE  OnlyExceeding'
  BY DEF OnlyExceeding, Steady, Unmoved, Exceeds, HasThreshold

LEMMA OnlyExceedingNext == TInv /\ OnlyExceeding /\ [Next]_vars => OnlyExceeding'
  <1> SUFFICES ASSUME TInv, OnlyExceeding, [Next]_vars PROVE OnlyExceeding'
    OBVIOUS
  <1>1. CASE QuietStep
    BY <1>1, QuietSteps, SteadyKeepsExceeding
  <1>2. ASSUME NEW c \in Consumers,
               \/ RecordOrdinary(c) \/ GetByTypeFails(c)
               \/ SaveFails(c) /\ ~Exceeds(EventOf(c))
        PROVE  OnlyExceeding'
    BY <1>2, BusySteps, SteadyKeepsExceeding
       DEF RecordOrdinary, GetByTypeFails, SaveFails, serviceVars
  <1>3. ASSUME NEW c \in Consumers, ClaimAlert(c) \/ SaveFails(c), Exceeds(EventOf(c))
        PROVE  OnlyExceeding'
    <2>1. sends' = sends
      BY <1>3 DEF ClaimAlert, SaveFails
    <2>2. EventOf(c)' = EventOf(c) /\ \A d \in Consumers \ {c} : Unmoved(d)
      BY <1>3, BusySteps
    <2> QED
      BY <1>3, <2>1, <2>2 DEF OnlyExceeding, Unmoved, Exceeds, HasThreshold
  <1>4. ASSUME NEW c \in Consumers, SendAlert(c)
        PROVE  OnlyExceeding'
    <2>1. Claims(c) /\ ~Claims(c)' /\ \A d \in Consumers \ {c} : Unmoved(d)
      BY <1>4, BusySteps
    <2>2. /\ DOMAIN sends' = DOMAIN sends \cup {Len(sends) + 1}
          /\ \A i \in DOMAIN sends : sends'[i] = sends[i]
          /\ sends'[Len(sends) + 1].payload = EventOf(c)
      BY <1>4, SendAlertAppends
    <2> QED
      BY <2>1, <2>2 DEF OnlyExceeding, Unmoved, Exceeds, HasThreshold
  <1>5. ASSUME NEW c \in Consumers, DeleteProcessed(c) \/ DeleteProcessedFails(c)
        PROVE  OnlyExceeding'
    <2>1. ~Claims(c)' /\ \A d \in Consumers \ {c} : Unmoved(d)
      BY <1>5, BusySteps
    <2>2. sends' = sends
      BY <1>5 DEF DeleteProcessed, DeleteProcessedFails
    <2> QED
      BY <2>1, <2>2 DEF OnlyExceeding, Unmoved, Exceeds, HasThreshold
  <1>6. ASSUME NEW i \in DOMAIN sends, ProducerStep(i) \/ UnprocessedStep(i)
        PROVE  OnlyExceeding'
    BY <1>6, AlertMoves, AlertIsSteady, SteadyKeepsExceeding
  <1>7. CASE Crash
    <2>1. \A c \in Consumers : ~Claims(c)'
      BY <1>7, RestartKeepsLane, TInvParts DEF Crash, Claims, Idle
    <2>2. /\ DOMAIN sends' = DOMAIN sends
          /\ \A i \in DOMAIN sends : sends'[i].payload = sends[i].payload
      BY <1>7, LoseKeepsPayloads, TInvParts DEF Crash
    <2> QED
      BY <2>1, <2>2 DEF OnlyExceeding, Exceeds, HasThreshold
  <1>8. ASSUME NEW c \in Consumers, ClaimAlert(c)
        PROVE  Exceeds(EventOf(c))
    BY <1>8 DEF ClaimAlert
  <1> QED
    BY <1>1, <1>2, <1>3, <1>4, <1>5, <1>6, <1>7, <1>8, NextCases DEF UnprocessedStep

\* Which steps take a mark away.
LEMMA MarksTaken ==
    ASSUME TInv, OnlyExceeding, [Next]_vars, NEW e \in processed, e \notin processed'
    PROVE  Exceeds(e)
  <1>1. CASE QuietStep
    BY <1>1, QuietSteps
  <1>2. ASSUME NEW c \in Consumers,
               RecordOrdinary(c) \/ ClaimAlert(c) \/ SendAlert(c) \/ GetByTypeFails(c)
               \/ SaveFails(c)
        PROVE  FALSE
    BY <1>2 DEF RecordOrdinary, ClaimAlert, SendAlert, GetByTypeFails, SaveFails, serviceVars
  <1>3. ASSUME NEW c \in Consumers, DeleteProcessed(c) \/ DeleteProcessedFails(c)
        PROVE  Exceeds(e)
    <2>1. e = EventOf(c)
      BY <1>3 DEF DeleteProcessed, DeleteProcessedFails
    <2> QED
      BY <1>3, <2>1, BusySteps DEF OnlyExceeding
  <1>4. ASSUME NEW i \in DOMAIN sends, ProducerStep(i)
        PROVE  FALSE
    BY <1>4 DEF ProducerStep, BrokerAppend, Acknowledge, SendFails
  <1>5. ASSUME NEW i \in DOMAIN sends, HandleUnprocessed(i) \/ HandleUnprocessedFails(i)
        PROVE  Exceeds(e)
    <2>1. e = sends[i].payload
      BY <1>5 DEF HandleUnprocessed, HandleUnprocessedFails
    <2> QED
      BY <2>1 DEF OnlyExceeding
  <1>6. CASE Crash
    BY <1>6 DEF Crash
  <1> QED
    BY <1>1, <1>2, <1>3, <1>4, <1>5, <1>6, NextCases

LEMMA OnlyExceedingInit == Init => OnlyExceeding
  BY DEF Init, LaneInit, ProducerInit, OnlyExceeding, Claims, Idle

\* The mark of a measurement within its threshold, set by handle() outside its
\* try block, is never removed, whatever fails and whoever redelivers.
THEOREM OrdinaryMarksStay == Spec => OrdinaryStaysMarked
  <1>1. Spec => []OnlyExceeding
    BY OnlyExceedingInit, OnlyExceedingNext, TInvAlways, PTL DEF Spec
  <1>2. TInv /\ OnlyExceeding /\ [Next]_vars
        => [\A e \in processed : ~Exceeds(e) => e \in processed']_vars
    BY MarksTaken
  <1> QED
    BY <1>1, <1>2, TInvAlways, PTL DEF Spec, OrdinaryStaysMarked

-----------------------------------------------------------------------------
(***************************************************************************)
(* At most one alert. Without database faults a mark belongs to one thread *)
(* (which claims the event) or to one alert (which holds the mark until    *)
(* its UnprocessedEvent is handled): the unique key lets nobody else in.   *)
(***************************************************************************)
Holds(i) == sends[i].phase # "handled"

AlertsMarked == \A i \in DOMAIN sends : Holds(i) => sends[i].payload \in processed

ClaimsMarked == \A c \in Consumers : Claims(c) => EventOf(c) \in processed

OnlyLastHolds ==
    \A i, j \in DOMAIN sends :
        i < j /\ sends[i].payload = sends[j].payload => ~Holds(i)

ClaimExcludesAlert ==
    \A c \in Consumers, i \in DOMAIN sends :
        Claims(c) /\ sends[i].payload = EventOf(c) => ~Holds(i)

ClaimExcludesClaim ==
    \A c, d \in Consumers :
        c # d /\ Claims(c) /\ Claims(d) => EventOf(c) # EventOf(d)

OneOwner ==
    /\ AlertsMarked
    /\ ClaimsMarked
    /\ OnlyLastHolds
    /\ ClaimExcludesAlert
    /\ ClaimExcludesClaim

OneOwnerInv == dbFaults = 0 => OneOwner

\* Marks may come, claims may go; alerts stay and keep their hold.
LEMMA TameKeepsOneOwner ==
    ASSUME OneOwner,
           processed \subseteq processed',
           \A c \in Consumers : Claims(c)' => Claims(c) /\ EventOf(c)' = EventOf(c),
           DOMAIN sends' = DOMAIN sends,
           \A i \in DOMAIN sends : /\ sends'[i].payload = sends[i].payload
                                   /\ Holds(i)' <=> Holds(i)
    PROVE  OneOwner'
  <1>1. AlertsMarked'
    BY DEF OneOwner, AlertsMarked
  <1>2. ClaimsMarked'
    BY DEF OneOwner, ClaimsMarked
  <1>3. OnlyLastHolds'
    BY DEF OneOwner, OnlyLastHolds
  <1>4. ClaimExcludesAlert'
    BY DEF OneOwner, ClaimExcludesAlert
  <1>5. ClaimExcludesClaim'
    BY DEF OneOwner, ClaimExcludesClaim
  <1> QED
    BY <1>1, <1>2, <1>3, <1>4, <1>5 DEF OneOwner

\* The unique key: the event is nobody's when it is marked.
LEMMA ClaimKeepsOneOwner ==
    ASSUME TInv, OneOwner, NEW c \in Consumers, ClaimAlert(c)
    PROVE  OneOwner'
  <1> DEFINE e == EventOf(c)
  <1>1. /\ e \notin processed /\ processed' = processed \cup {e}
        /\ sends' = sends
    BY DEF ClaimAlert
  <1>2. /\ ~Claims(c) /\ Claims(c)' /\ EventOf(c)' = e
        /\ \A d \in Consumers \ {c} : Unmoved(d)
    BY BusySteps
  <1>3. \A i \in DOMAIN sends : Holds(i) => sends[i].payload # e
    BY <1>1 DEF OneOwner, AlertsMarked
  <1>4. \A d \in Consumers : Claims(d) => EventOf(d) # e
    BY <1>1 DEF OneOwner, ClaimsMarked
  <1> HIDE DEF e
  <1>5. AlertsMarked'
    BY <1>1 DEF OneOwner, AlertsMarked, Holds
  <1>6. ClaimsMarked'
    BY <1>1, <1>2 DEF OneOwner, ClaimsMarked, Unmoved
  <1>7. OnlyLastHolds'
    BY <1>1 DEF OneOwner, OnlyLastHolds, Holds
  <1>8. ClaimExcludesAlert'
    BY <1>1, <1>2, <1>3 DEF OneOwner, ClaimExcludesAlert, Holds, Unmoved
  <1>9. ClaimExcludesClaim'
    BY <1>2, <1>4 DEF OneOwner, ClaimExcludesClaim, Unmoved
  <1> QED
    BY <1>5, <1>6, <1>7, <1>8, <1>9 DEF OneOwner

\* The claim becomes the alert's hold.
LEMMA SendKeepsOneOwner ==
    ASSUME TInv, OneOwner, NEW c \in Consumers, SendAlert(c)
    PROVE  OneOwner'
  <1> DEFINE n == Len(sends) + 1
  <1>1. /\ DOMAIN sends' = DOMAIN sends \cup {n}
        /\ \A i \in DOMAIN sends : sends'[i] = sends[i] /\ i < n
        /\ sends'[n].payload = EventOf(c)
        /\ sends'[n].phase = "inflight"
    BY SendAlertAppends
  <1>2. /\ Claims(c) /\ ~Claims(c)'
        /\ \A d \in Consumers \ {c} : Unmoved(d)
    BY BusySteps
  <1>3. processed' = processed
    BY DEF SendAlert
  <1>4. DOMAIN sends \subseteq Nat /\ n \in Nat
    BY TInvParts DEF ProducerTypeOK
  <1> HIDE DEF n
  <1>5. AlertsMarked'
    BY <1>1, <1>2, <1>3 DEF OneOwner, AlertsMarked, ClaimsMarked, Holds
  <1>6. ClaimsMarked'
    BY <1>2, <1>3 DEF OneOwner, ClaimsMarked, Unmoved
  <1>7. OnlyLastHolds'
    <2> SUFFICES ASSUME NEW i \in DOMAIN sends', NEW j \in DOMAIN sends',
                        i < j, sends'[i].payload = sends'[j].payload
                 PROVE  ~Holds(i)'
      BY DEF OnlyLastHolds
    <2>1. i \in DOMAIN sends /\ sends'[i] = sends[i]
      BY <1>1, <1>4
    <2>2. CASE j = n
      BY <1>1, <1>2, <2>1, <2>2 DEF OneOwner, ClaimExcludesAlert, Holds
    <2>3. CASE j \in DOMAIN sends
      BY <1>1, <2>1, <2>3 DEF OneOwner, OnlyLastHolds, Holds
    <2> QED
      BY <1>1, <2>2, <2>3
  <1>8. ClaimExcludesAlert'
    BY <1>1, <1>2 DEF OneOwner, ClaimExcludesAlert, ClaimExcludesClaim, Holds, Unmoved
  <1>9. ClaimExcludesClaim'
    BY <1>2 DEF OneOwner, ClaimExcludesClaim, Unmoved
  <1> QED
    BY <1>5, <1>6, <1>7, <1>8, <1>9 DEF OneOwner

\* handle() takes back a mark that is its own.
LEMMA DeleteKeepsOneOwner ==
    ASSUME TInv, OneOwner, NEW c \in Consumers, DeleteProcessed(c)
    PROVE  OneOwner'
  <1>1. processed' = processed \ {EventOf(c)} /\ sends' = sends
    BY DEF DeleteProcessed
  <1>2. Claims(c) /\ ~Claims(c)' /\ \A d \in Consumers \ {c} : Unmoved(d)
    BY BusySteps
  <1>3. AlertsMarked'
    BY <1>1, <1>2 DEF OneOwner, AlertsMarked, ClaimExcludesAlert, Holds
  <1>4. ClaimsMarked'
    BY <1>1, <1>2 DEF OneOwner, ClaimsMarked, ClaimExcludesClaim, Unmoved
  <1>5. OnlyLastHolds'
    BY <1>1 DEF OneOwner, OnlyLastHolds, Holds
  <1>6. ClaimExcludesAlert'
    BY <1>1, <1>2 DEF OneOwner, ClaimExcludesAlert, Holds, Unmoved
  <1>7. ClaimExcludesClaim'
    BY <1>2 DEF OneOwner, ClaimExcludesClaim, Unmoved
  <1> QED
    BY <1>3, <1>4, <1>5, <1>6, <1>7 DEF OneOwner

\* handleUnprocessed() takes back a mark that is still this alert's.
LEMMA HandleUnprocessedKeepsOneOwner ==
    ASSUME TInv, OneOwner, NEW i \in DOMAIN sends, HandleUnprocessed(i)
    PROVE  OneOwner'
  <1>1. /\ processed' = processed \ {sends[i].payload}
        /\ Holds(i)
        /\ sends' = [sends EXCEPT ![i].phase = "handled"]
    BY DEF HandleUnprocessed, MarkHandled, Holds
  <1>2. /\ DOMAIN sends' = DOMAIN sends
        /\ sends'[i].payload = sends[i].payload
        /\ ~Holds(i)'
        /\ \A j \in DOMAIN sends \ {i} : sends'[j] = sends[j]
    BY <1>1, PhaseUpdates, TInvParts DEF Phase, Holds
  <1>3. Steady
    BY AlertIsSteady DEF UnprocessedStep
  <1>4. DOMAIN sends \subseteq Int
    BY TInvParts DEF ProducerTypeOK
  <1>5. \A j \in DOMAIN sends \ {i} : sends[j].payload = sends[i].payload => ~Holds(j)
    BY <1>1, <1>4 DEF OneOwner, OnlyLastHolds
  <1>6. AlertsMarked'
    BY <1>1, <1>2, <1>5 DEF OneOwner, AlertsMarked, Holds
  <1>7. ClaimsMarked'
    BY <1>1, <1>3 DEF OneOwner, ClaimsMarked, ClaimExcludesAlert, Steady, Unmoved
  <1>8. OnlyLastHolds'
    BY <1>2 DEF OneOwner, OnlyLastHolds, Holds
  <1>9. ClaimExcludesAlert'
    BY <1>2, <1>3 DEF OneOwner, ClaimExcludesAlert, Holds, Steady, Unmoved
  <1>10. ClaimExcludesClaim'
    BY <1>3 DEF OneOwner, ClaimExcludesClaim, Steady, Unmoved
  <1> QED
    BY <1>6, <1>7, <1>8, <1>9, <1>10 DEF OneOwner

\* The producer's steps leave a hold a hold.
LEMMA ProducerKeepsHolds ==
    ASSUME TInv, NEW i \in DOMAIN sends, ProducerStep(i)
    PROVE  /\ DOMAIN sends' = DOMAIN sends
           /\ \A j \in DOMAIN sends : /\ sends'[j].payload = sends[j].payload
                                      /\ Holds(j)' <=> Holds(j)
           /\ processed' = processed
           /\ crashes' = crashes /\ dbFaults' = dbFaults
  <1>1. /\ DOMAIN sends' = DOMAIN sends
        /\ sends'[i].payload = sends[i].payload
        /\ \A j \in DOMAIN sends \ {i} : sends'[j] = sends[j]
    BY AlertMoves
  <1>2. Holds(i)' <=> Holds(i)
    <2>1. CASE Write(i)
      BY <2>1, WriteUpdates, TInvParts DEF Holds
    <2>2. CASE SucceedSend(i)
      BY <2>2, PhaseUpdates, TInvParts DEF SucceedSend, Phase, Holds
    <2>3. CASE FailSend(i)
      BY <2>3, PhaseUpdates, TInvParts DEF FailSend, Phase, Holds
    <2> QED
      BY <2>1, <2>2, <2>3 DEF ProducerStep, BrokerAppend, Acknowledge, SendFails
  <1>3. processed' = processed /\ crashes' = crashes /\ dbFaults' = dbFaults
    BY DEF ProducerStep, BrokerAppend, Acknowledge, SendFails, KafkaFault, faultVars
  <1> QED
    BY <1>1, <1>2, <1>3 DEF Holds

LEMMA CrashKeepsHolds ==
    ASSUME TInv, Crash
    PROVE  /\ DOMAIN sends' = DOMAIN sends
           /\ \A j \in DOMAIN sends : /\ sends'[j].payload = sends[j].payload
                                      /\ Holds(j)' <=> Holds(j)
           /\ processed' = processed
           /\ \A c \in Consumers : ~Claims(c)'
           /\ crashes' > 0
  <1>1. \A c \in Consumers : ~Claims(c)'
    BY RestartKeepsLane, TInvParts DEF Crash, Claims, Idle
  <1>2. /\ DOMAIN sends' = DOMAIN sends
        /\ \A j \in DOMAIN sends : /\ sends'[j].payload = sends[j].payload
                                   /\ Holds(j)' <=> Holds(j)
    BY LoseKeepsPayloads, TInvParts DEF Crash, Holds
  <1>3. processed' = processed /\ crashes' > 0
    BY TInvParts DEF Crash, RestTypeOK
  <1> QED
    BY <1>1, <1>2, <1>3

\* A database fault is never forgotten.
LEMMA DbFaultsCount ==
    ASSUME TInv, [Next]_vars, dbFaults' = 0
    PROVE  /\ dbFaults = 0
           /\ ~DbFault
  BY FaultTypes, TInvParts, NextCases, QuietSteps, ProducerKeepsHolds
     DEF RestTypeOK, DbFault, RecordOrdinary, ClaimAlert, SendAlert, DeleteProcessed,
         GetByTypeFails, SaveFails, DeleteProcessedFails, HandleUnprocessed,
         HandleUnprocessedFails, Crash, faultVars

LEMMA OneOwnerNext == TInv /\ OneOwnerInv /\ [Next]_vars => OneOwnerInv'
  <1> SUFFICES ASSUME TInv, OneOwnerInv, [Next]_vars, dbFaults' = 0 PROVE OneOwner'
    BY DEF OneOwnerInv
  <1>1. OneOwner /\ ~DbFault
    BY DbFaultsCount DEF OneOwnerInv
  <1>2. CASE QuietStep
    BY <1>1, <1>2, QuietSteps, TameKeepsOneOwner DEF Steady, Unmoved, Holds
  <1>3. ASSUME NEW c \in Consumers, RecordOrdinary(c) PROVE OneOwner'
    BY <1>1, <1>3, BusySteps, TameKeepsOneOwner DEF RecordOrdinary, Steady, Unmoved, Holds
  <1>4. ASSUME NEW i \in DOMAIN sends, ProducerStep(i) PROVE OneOwner'
    BY <1>1, <1>4, ProducerKeepsHolds, AlertIsSteady, TameKeepsOneOwner DEF Steady, Unmoved
  <1>5. CASE Crash
    BY <1>1, <1>5, CrashKeepsHolds, TameKeepsOneOwner
  <1> QED
    BY <1>1, <1>2, <1>3, <1>4, <1>5, NextCases, ClaimKeepsOneOwner, SendKeepsOneOwner,
       DeleteKeepsOneOwner, HandleUnprocessedKeepsOneOwner
       DEF GetByTypeFails, SaveFails, DeleteProcessedFails, HandleUnprocessedFails

LEMMA OneOwnerInit == Init => OneOwnerInv
  BY DEF Init, LaneInit, ProducerInit, OneOwnerInv, OneOwner, AlertsMarked, ClaimsMarked,
         OnlyLastHolds, ClaimExcludesAlert, ClaimExcludesClaim, Claims, Idle

\* The alert topic gets one alert of an event at most, unless the first was
\* reported as failed, for any number of redeliveries, retries, rebalances,
\* crashes and Kafka faults, as long as the database does not fail.
THEOREM OneAlert == Spec => []AtMostOneAlert
  <1>1. OneOwnerInv => AtMostOneAlert
    BY DEF OneOwnerInv, OneOwner, OnlyLastHolds, Holds, AtMostOneAlert
  <1> QED
    BY <1>1, OneOwnerInit, OneOwnerNext, TInvAlways, PTL DEF Spec

-----------------------------------------------------------------------------
(***************************************************************************)
(* A mark means an alert. The property is inductive once types are known,  *)
(* but only step by step: a claim is handed on to the alert it becomes,    *)
(* and whoever gives up a claim or an alert takes the mark along.          *)
(***************************************************************************)
Carries(i) == Pending(i) \/ (sends[i].phase = "acked" /\ Written(i))

BackedEvent(e) ==
    \/ \E c \in Consumers : Claims(c) /\ EventOf(c) = e
    \/ \E i \in DOMAIN sends : sends[i].payload = e /\ Carries(i)

Backed == \A e \in processed : Exceeds(e) => BackedEvent(e)

BackedInv == crashes = 0 /\ dbFaults = 0 => Backed

\* Claims and alerts stay, and no event above its threshold gets a mark.
LEMMA TameKeepsBacked ==
    ASSUME Backed, Steady,
           \A e \in processed' : Exceeds(e) => e \in processed,
           DOMAIN sends' = DOMAIN sends,
           \A i \in DOMAIN sends : /\ sends'[i].payload = sends[i].payload
                                   /\ Carries(i) => Carries(i)'
    PROVE  Backed'
  <1> SUFFICES ASSUME NEW e \in processed, Exceeds(e) PROVE BackedEvent(e)'
    BY DEF Backed, Exceeds, HasThreshold
  <1>1. BackedEvent(e)
    BY DEF Backed
  <1> QED
    BY <1>1 DEF BackedEvent, Steady, Unmoved

\* The new mark has a claim.
LEMMA ClaimKeepsBacked ==
    ASSUME TInv, Backed, NEW c \in Consumers, ClaimAlert(c)
    PROVE  Backed'
  <1>1. processed' = processed \cup {EventOf(c)} /\ sends' = sends
    BY DEF ClaimAlert
  <1>2. /\ ~Claims(c) /\ Claims(c)' /\ EventOf(c)' = EventOf(c)
        /\ \A d \in Consumers \ {c} : Unmoved(d)
    BY BusySteps
  <1> SUFFICES ASSUME NEW e \in processed', Exceeds(e) PROVE BackedEvent(e)'
    BY DEF Backed, Exceeds, HasThreshold
  <1>3. CASE e = EventOf(c)
    BY <1>2, <1>3 DEF BackedEvent
  <1>4. CASE e \in processed
    <2>1. BackedEvent(e)
      BY <1>4 DEF Backed
    <2> QED
      BY <1>1, <1>2, <2>1 DEF BackedEvent, Unmoved, Carries, Pending, Written
  <1> QED
    BY <1>1, <1>3, <1>4

\* The alert takes the claim's place.
LEMMA SendKeepsBacked ==
    ASSUME TInv, Backed, NEW c \in Consumers, SendAlert(c)
    PROVE  Backed'
  <1> DEFINE n == Len(sends) + 1
  <1>1. /\ DOMAIN sends' = DOMAIN sends \cup {n}
        /\ \A i \in DOMAIN sends : sends'[i] = sends[i]
        /\ sends'[n].payload = EventOf(c)
        /\ sends'[n].phase = "inflight"
    BY SendAlertAppends
  <1>2. \A d \in Consumers \ {c} : Unmoved(d)
    BY BusySteps
  <1>3. processed' = processed
    BY DEF SendAlert
  <1> HIDE DEF n
  <1> SUFFICES ASSUME NEW e \in processed, Exceeds(e) PROVE BackedEvent(e)'
    BY <1>3 DEF Backed, Exceeds, HasThreshold
  <1>4. BackedEvent(e)
    BY DEF Backed
  <1>5. CASE e = EventOf(c)
    BY <1>1, <1>5 DEF BackedEvent, Carries, Pending
  <1>6. ASSUME NEW d \in Consumers \ {c}, Claims(d), EventOf(d) = e PROVE BackedEvent(e)'
    BY <1>2, <1>6 DEF BackedEvent, Unmoved
  <1>7. ASSUME NEW i \in DOMAIN sends, sends[i].payload = e, Carries(i)
        PROVE  BackedEvent(e)'
    BY <1>1, <1>7 DEF BackedEvent, Carries, Pending, Written
  <1> QED
    BY <1>4, <1>5, <1>6, <1>7 DEF BackedEvent

\* The claim and the mark go together.
LEMMA DeleteKeepsBacked ==
    ASSUME TInv, Backed, NEW c \in Consumers, DeleteProcessed(c)
    PROVE  Backed'
  <1>1. processed' = processed \ {EventOf(c)} /\ sends' = sends
    BY DEF DeleteProcessed
  <1>2. \A d \in Consumers \ {c} : Unmoved(d)
    BY BusySteps
  <1> SUFFICES ASSUME NEW e \in processed, e # EventOf(c), Exceeds(e)
               PROVE  BackedEvent(e)'
    BY <1>1 DEF Backed, Exceeds, HasThreshold
  <1>3. BackedEvent(e)
    BY DEF Backed
  <1> QED
    BY <1>1, <1>2, <1>3 DEF BackedEvent, Unmoved, Carries, Pending, Written

\* So do a failed alert and the mark.
LEMMA HandleUnprocessedKeepsBacked ==
    ASSUME TInv, Backed, NEW i \in DOMAIN sends, HandleUnprocessed(i)
    PROVE  Backed'
  <1>1. processed' = processed \ {sends[i].payload}
    BY DEF HandleUnprocessed
  <1>2. /\ DOMAIN sends' = DOMAIN sends
        /\ \A j \in DOMAIN sends \ {i} : sends'[j] = sends[j]
    BY AlertMoves DEF UnprocessedStep
  <1>3. Steady
    BY AlertIsSteady DEF UnprocessedStep
  <1> SUFFICES ASSUME NEW e \in processed, e # sends[i].payload, Exceeds(e)
               PROVE  BackedEvent(e)'
    BY <1>1 DEF Backed, Exceeds, HasThreshold
  <1>4. BackedEvent(e)
    BY DEF Backed
  <1> QED
    BY <1>2, <1>3, <1>4 DEF BackedEvent, Steady, Unmoved, Carries, Pending, Written

\* The producer's steps: the future of a written alert may complete either
\* way, that of an unwritten one only with an error.
LEMMA ProducerCarriesOn ==
    ASSUME TInv, NEW i \in DOMAIN sends, ProducerStep(i), NEW j \in DOMAIN sends, Carries(j)
    PROVE  Carries(j)'
  <1>1. \A k \in DOMAIN sends \ {i} : sends'[k] = sends[k]
    BY AlertMoves
  <1>2. CASE j # i
    BY <1>1, <1>2 DEF Carries, Pending, Written
  <1>3. CASE j = i /\ Write(i)
    BY <1>3, WriteUpdates, TInvParts DEF Carries, Pending
  <1>4. CASE j = i /\ SucceedSend(i)
    BY <1>4, PhaseUpdates, TInvParts DEF SucceedSend, Phase, Carries, Written
  <1>5. CASE j = i /\ FailSend(i)
    BY <1>5, PhaseUpdates, TInvParts DEF FailSend, Phase, Carries, Pending
  <1> QED
    BY <1>2, <1>3, <1>4, <1>5 DEF ProducerStep, BrokerAppend, Acknowledge, SendFails

\* Nor is a crash forgotten.
LEMMA CrashesCount ==
    ASSUME TInv, [Next]_vars, crashes' = 0
    PROVE  crashes = 0 /\ ~Crash
  <1>1. ~Crash
    BY CrashKeepsHolds
  <1>2. crashes' = crashes
    BY <1>1, NextCases, QuietSteps, ProducerKeepsHolds
       DEF DbFault, RecordOrdinary, ClaimAlert, SendAlert, DeleteProcessed,
           GetByTypeFails, SaveFails, DeleteProcessedFails, HandleUnprocessed,
           HandleUnprocessedFails, faultVars
  <1> QED
    BY <1>1, <1>2

LEMMA BackedNext == TInv /\ BackedInv /\ [Next]_vars => BackedInv'
  <1> SUFFICES ASSUME TInv, BackedInv, [Next]_vars, crashes' = 0, dbFaults' = 0
               PROVE  Backed'
    BY DEF BackedInv
  <1>1. Backed /\ ~DbFault /\ ~Crash
    BY DbFaultsCount, CrashesCount DEF BackedInv
  <1>2. CASE QuietStep
    BY <1>1, <1>2, QuietSteps, TameKeepsBacked DEF Carries, Pending, Written
  <1>3. ASSUME NEW c \in Consumers, RecordOrdinary(c) PROVE Backed'
    BY <1>1, <1>3, BusySteps, TameKeepsBacked DEF RecordOrdinary, Carries, Pending, Written
  <1>4. ASSUME NEW i \in DOMAIN sends, ProducerStep(i) PROVE Backed'
    BY <1>1, <1>4, ProducerKeepsHolds, ProducerCarriesOn, AlertIsSteady, TameKeepsBacked
  <1> QED
    BY <1>1, <1>2, <1>3, <1>4, NextCases, ClaimKeepsBacked, SendKeepsBacked,
       DeleteKeepsBacked, HandleUnprocessedKeepsBacked
       DEF GetByTypeFails, SaveFails, DeleteProcessedFails, HandleUnprocessedFails

\* What a duplicate skips is not lost: until a crash or a database fault, an
\* event above its threshold that is marked has its alert in the topic or
\* under way, or is about to be unmarked.
THEOREM MarkedIsAlerted == Spec => []MarkMeansAlert
  <1>1. Init => BackedInv
    BY DEF Init, BackedInv, Backed
  <1>2. BackedInv => MarkMeansAlert
    BY DEF BackedInv, Backed, BackedEvent, Carries, Claims, HoldsMark, MarkMeansAlert
  <1> QED
    BY <1>1, <1>2, BackedNext, TInvAlways, PTL DEF Spec

-----------------------------------------------------------------------------
(* What a step does to the threads, and the counters.                      *)

\* The listener's thread stays with its record.
LEMMA GotoEffect ==
    ASSUME TInv, NEW c \in Consumers, consumer[c].pc \in PC, NEW pc \in PC, Goto(c, pc)
    PROVE  /\ consumer'[c].pc = pc
           /\ consumer'[c].level = consumer[c].level
           /\ consumer'[c].offset = consumer[c].offset
           /\ consumer'[c].owns = consumer[c].owns
           /\ \A d \in Consumers \ {c} : consumer'[d] = consumer[d]
           /\ UNCHANGED <<log, pos, committed>>
  <1>1. Busy(c) /\ LaneInv(PC)
    BY AtWork
  <1>2. consumer[c] \in Running(PC)
    BY <1>1, BusyThread
  <1>3. consumer' = [consumer EXCEPT ![c] = [consumer[c] EXCEPT !.pc = pc]]
        /\ UNCHANGED <<log, pos, committed>>
    BY DEF Goto
  <1>4. consumer'[c] = [consumer[c] EXCEPT !.pc = pc]
        /\ \A d \in Consumers \ {c} : consumer'[d] = consumer[d]
    BY <1>1, <1>3 DEF LaneInv, LaneTypeOK
  <1> QED
    BY <1>2, <1>3, <1>4 DEF Running

\* It leaves the record: the partition's owner moves on.
LEMMA LeaveEffect ==
    ASSUME TInv, NEW c \in Consumers, consumer[c].pc \in PC, Leave(c)
    PROVE  /\ consumer'[c].pc \in {"idle", "next"}
           /\ \A d \in Consumers \ {c} : consumer'[d] = consumer[d]
           /\ consumer[c].owns =>
                 /\ consumer'[c] = Idle
                 /\ pos' = [pos EXCEPT ![consumer[c].level] = consumer[c].offset + 1]
  <1>1. consumer \in [Consumers -> Running(PC) \cup {Idle}]
    BY DEF TInv, TypeOK, LaneTypeOK
  <1>2. \/ consumer' = [consumer EXCEPT ![c] = Idle]
        \/ consumer' = [consumer EXCEPT ![c] = NextInBatch(c)]
    BY DEF Leave
  <1>3. /\ consumer'[c] \in {Idle, NextInBatch(c)}
        /\ \A d \in Consumers \ {c} : consumer'[d] = consumer[d]
    BY <1>1, <1>2
  <1>4. consumer'[c].pc \in {"idle", "next"}
    BY <1>3 DEF NextInBatch, Idle
  <1>5. ASSUME consumer[c].owns
        PROVE  /\ consumer'[c] = Idle
               /\ pos' = [pos EXCEPT ![consumer[c].level] = consumer[c].offset + 1]
    BY <1>1, <1>5 DEF Leave
  <1> QED
    BY <1>3, <1>4, <1>5

\* A step of one thread.
LEMMA ListenerEffect ==
    ASSUME TInv, NEW c \in Consumers, ListenerStep(c)
    PROVE  /\ Busy(c) /\ consumer[c].pc \in PC
           /\ consumer[c].level \in Levels /\ consumer[c].offset \in DOMAIN log[consumer[c].level]
           /\ EventOf(c) \in Events /\ EventOf(c) = log[consumer[c].level][consumer[c].offset]
           /\ Grows
           /\ \A d \in Consumers \ {c} : consumer'[d] = consumer[d]
           /\ UNCHANGED <<committed, rebalances, crashes>>
  <1>1. consumer[c].pc \in PC
    BY DEF ListenerStep, Resume, GetByType, GetByTypeFails, RecordOrdinary, ClaimAlert,
           SkipDuplicate, SaveFails, SendAlert, SendThrows, DeleteProcessed,
           DeleteProcessedFails, Recover, RecoverFails, PC
  <1>2. Busy(c) /\ LaneInv(PC) /\ EventOf(c) \in Events
    BY <1>1, AtWork
  <1>3. /\ consumer[c].level \in Levels /\ consumer[c].offset \in DOMAIN log[consumer[c].level]
        /\ consumer[c].level + 1 \in Topics /\ Dlt \in Topics
    BY <1>2, BusyThread, LevelsAreTopics
  <1>4. \/ \E pc \in PC : Goto(c, pc)
        \/ Finish(c) \/ SeekBack(c)
        \/ \E t \in Topics : Forward(c, t) \/ ForwardUnconfirmed(c, t)
    BY <1>3 DEF ListenerStep, Resume, GetByType, GetByTypeFails, RecordOrdinary, ClaimAlert,
           SkipDuplicate, SaveFails, SendAlert, SendThrows, DeleteProcessed,
           DeleteProcessedFails, Recover, RecoverFails, PC, FirstStep
  <1>5. Grows /\ \A d \in Consumers \ {c} : consumer'[d] = consumer[d]
    BY <1>2, <1>4, GotoKeepsLane, FinishKeepsLane, SeekBackKeepsLane, ForwardKeepsLane,
       ForwardUnconfirmedKeepsLane DEF PC
  <1>6. committed' = committed
    BY <1>4 DEF Goto, Finish, SeekBack, Forward, ForwardUnconfirmed
  <1>7. UNCHANGED <<rebalances, crashes>>
    BY DEF ListenerStep, Resume, GetByType, GetByTypeFails, RecordOrdinary, ClaimAlert,
           SkipDuplicate, SaveFails, SendAlert, SendThrows, DeleteProcessed,
           DeleteProcessedFails, Recover, RecoverFails, DbFault, KafkaFault, faultVars
  <1> QED
    BY <1>1, <1>2, <1>3, <1>5, <1>6, <1>7 DEF EventOf, RecordOf

\* A thread that is not touched keeps its event.
LEMMA SameEvent ==
    ASSUME TInv, Grows, NEW d \in Consumers, consumer'[d] = consumer[d],
           consumer[d].pc \in PC
    PROVE  EventOf(d)' = EventOf(d)
  BY AtWork, GrowthKeepsRecords DEF EventOf

Faults == dbFaults + kafkaFaults

LEMMA FaultsAreNat == TInv => Faults \in Nat
  <1>1. RestTypeOK => dbFaults \in Nat /\ kafkaFaults \in Nat
    BY BoundsAssumption DEF RestTypeOK
  <1> QED
    BY <1>1, TInvParts DEF Faults

LEMMA FaultsCount ==
    ASSUME TInv, [Next]_vars
    PROVE  /\ Faults \in Nat /\ Faults' \in Nat /\ Faults <= Faults'
           /\ DbFault \/ KafkaFault => Faults' = Faults + 1
           /\ rebalances' = 0 => rebalances = 0
  <1>1. /\ dbFaults \in Nat /\ kafkaFaults \in Nat /\ rebalances \in Nat
        /\ dbFaults' \in Nat /\ kafkaFaults' \in Nat
    <2>1. RestTypeOK /\ TInv'
      BY TInvNext, TInvParts
    <2>2. RestTypeOK'
      BY <2>1, TInvParts
    <2>3. dbFaults \in Nat /\ kafkaFaults \in Nat /\ rebalances \in Nat
      BY <2>1, BoundsAssumption DEF RestTypeOK
    <2>4. dbFaults' \in Nat /\ kafkaFaults' \in Nat
      BY <2>2, BoundsAssumption DEF RestTypeOK
    <2> QED
      BY <2>3, <2>4
  <1>2. \/ UNCHANGED <<dbFaults, kafkaFaults>>
        \/ DbFault \/ KafkaFault
    BY DEF Next, ListenerStep, ProducerStep, UnprocessedStep, Arrive, Poll, Resume, GetByType,
           GetByTypeFails, RecordOrdinary, ClaimAlert, SkipDuplicate, SaveFails, SendAlert,
           SendThrows, DeleteProcessed, DeleteProcessedFails, Recover, RecoverFails, Commit,
           BrokerAppend, Acknowledge, SendFails, HandleUnprocessed, HandleUnprocessedFails,
           Rebalance, Crash, AtRest, vars, faultVars
  <1>3. rebalances' \in {rebalances, rebalances + 1}
    BY DEF Next, ListenerStep, ProducerStep, UnprocessedStep, Arrive, Poll, Resume, GetByType,
           GetByTypeFails, RecordOrdinary, ClaimAlert, SkipDuplicate, SaveFails, SendAlert,
           SendThrows, DeleteProcessed, DeleteProcessedFails, Recover, RecoverFails, Commit,
           BrokerAppend, Acknowledge, SendFails, HandleUnprocessed, HandleUnprocessedFails,
           Rebalance, Crash, AtRest, vars, faultVars, DbFault, KafkaFault
  <1>4. PICK d \in Nat, k \in Nat : d = dbFaults' /\ k = kafkaFaults'
    BY <1>1
  <1>5. Faults' = d + k /\ Faults = dbFaults + kafkaFaults
    BY <1>4 DEF Faults
  <1>6. /\ DbFault => d = dbFaults + 1 /\ k = kafkaFaults
        /\ KafkaFault => d = dbFaults /\ k = kafkaFaults + 1
        /\ UNCHANGED <<dbFaults, kafkaFaults>> => d = dbFaults /\ k = kafkaFaults
    BY <1>4 DEF DbFault, KafkaFault
  <1>7. rebalances' = 0 => rebalances = 0
    BY <1>1, <1>3
  <1> QED
    BY <1>1, <1>2, <1>5, <1>6, <1>7

\* A topic that gets a record has published that one more.
LEMMA AppendPublishes ==
    ASSUME TInv, NEW r \in Events, NEW t \in Topics,
           log' = [log EXCEPT ![t] = Append(@, r)]
    PROVE  /\ Published(t)' = Published(t) \cup {r}
           /\ \A u \in Topics \ {t} : Published(u)' = Published(u)
           /\ Len(log'[t]) = Len(log[t]) + 1 /\ log'[t][Len(log[t]) + 1] = r
           /\ \A u \in Topics \ {t} : log'[u] = log[u]
  <1>1. log \in [Topics -> Seq(Events)]
    BY DEF TInv, TypeOK, LaneTypeOK, Events
  <1>2. log'[t] = Append(log[t], r) /\ \A u \in Topics \ {t} : log'[u] = log[u]
    BY <1>1
  <1>3. log[t] \in Seq(Events)
    BY <1>1
  <1>4. /\ Len(log'[t]) = Len(log[t]) + 1 /\ Len(log[t]) \in Nat
        /\ DOMAIN log[t] = 1 .. Len(log[t]) /\ DOMAIN log'[t] = 1 .. Len(log[t]) + 1
        /\ log'[t][Len(log[t]) + 1] = r
        /\ \A i \in DOMAIN log[t] : log'[t][i] = log[t][i]
    BY <1>2, <1>3
  <1>5. Published(t)' = Published(t) \cup {r}
    BY <1>4 DEF Published
  <1> QED
    BY <1>2, <1>4, <1>5 DEF Published

LEMMA GrowsPublishes ==
    ASSUME Grows, NEW t \in Topics
    PROVE  Published(t) \subseteq Published(t)'
  BY DEF Grows, Published

\* What a thread has in hand its level has published.
LEMMA InHand ==
    ASSUME TInv, NEW c \in Consumers, consumer[c].pc \in PC
    PROVE  /\ EventOf(c) \in Published(consumer[c].level)
           /\ consumer[c].level \in Levels /\ consumer[c].level \in Topics
  <1>1. /\ consumer[c].level \in Levels
        /\ consumer[c].offset \in DOMAIN log[consumer[c].level]
    BY AtWork, BusyThread
  <1> QED
    BY <1>1, LevelsAreTopics DEF EventOf, RecordOf, Published

-----------------------------------------------------------------------------
(***************************************************************************)
(* The DLT is earned. A record gets into a topic of the lane from the one  *)
(* before; it brings along a fault for each level it has been through,     *)
(* unless it has no threshold, and a thread on a failing path has a fault  *)
(* of its own to add.                                                      *)
(***************************************************************************)
RetriesInTurn == \A l \in 1 .. Attempts - 1 : Published(l) \subseteq Published(l - 1) \ PoisonPills

DltAfterLast == Published(Dlt) \ PoisonPills \subseteq Published(Attempts - 1)

EveryLevelFailed ==
    \A t \in Topics : \A e \in Published(t) \ PoisonPills : HasThreshold(e) => Faults >= t

Failing(c) ==
    /\ consumer[c].pc = "fatal" => EventOf(c) \in PoisonPills
    /\ consumer[c].pc \in PC \ {"next", "fatal"} => EventOf(c) \notin PoisonPills
    /\ consumer[c].pc \in {"failed", "delete"} /\ HasThreshold(EventOf(c)) =>
          Faults >= consumer[c].level + 1

EarnedTopics == RetriesInTurn /\ DltAfterLast /\ EveryLevelFailed

EarnedInv == EarnedTopics /\ \A c \in Consumers : Failing(c)

LEMMA SameTopicsEarned ==
    ASSUME EarnedTopics, log' = log, Faults \in Nat, Faults' \in Nat, Faults <= Faults'
    PROVE  EarnedTopics'
  <1>1. \A t \in Topics : Published(t)' = Published(t)
    BY DEF Published
  <1>2. RetriesInTurn' /\ DltAfterLast'
    BY DEF EarnedTopics, RetriesInTurn, DltAfterLast, Published
  <1>3. PICK f \in Nat : f = Faults'
    OBVIOUS
  <1>4. ASSUME NEW t \in Topics, NEW e \in Published(t) \ PoisonPills, HasThreshold(e)
        PROVE  f >= t
    <2>1. Faults >= t /\ t \in Nat
      BY <1>4, AttemptsAssumption DEF EarnedTopics, EveryLevelFailed, Topics
    <2> QED
      BY <1>3, <2>1
  <1>5. EveryLevelFailed'
    BY <1>1, <1>3, <1>4 DEF EveryLevelFailed, HasThreshold
  <1> QED
    BY <1>2, <1>5 DEF EarnedTopics

\* A record that comes from outside, or from the level before with a fault
\* for each level so far, or that cannot be deserialized.
LEMMA AppendEarned ==
    ASSUME TInv, EarnedTopics, NEW r \in Events, NEW t \in Topics,
           log' = [log EXCEPT ![t] = Append(@, r)],
           Faults \in Nat, Faults' \in Nat, Faults <= Faults',
           \/ t = 0
           \/ /\ t - 1 \in Levels
              /\ r \in Published(t - 1) \ PoisonPills
              /\ HasThreshold(r) => Faults >= t
           \/ t = Dlt /\ r \in PoisonPills
    PROVE  EarnedTopics'
  <1>1. /\ Published(t)' = Published(t) \cup {r}
        /\ \A u \in Topics \ {t} : Published(u)' = Published(u)
    BY AppendPublishes
  <1>2. PICK f \in Nat : f = Faults'
    OBVIOUS
  <1>3. /\ Attempts \in Nat \ {0} /\ Topics = 0 .. Attempts /\ Levels = 0 .. Attempts - 1
        /\ Dlt = Attempts /\ Attempts \in Topics /\ Attempts - 1 \in Topics
        /\ \A l \in 1 .. Attempts - 1 : l \in Topics /\ l - 1 \in Topics
    BY AttemptsAssumption DEF Topics, Levels, Dlt
  <1>4. RetriesInTurn'
    <2> SUFFICES ASSUME NEW l \in 1 .. Attempts - 1, NEW e \in Published(l)'
                 PROVE  e \in Published(l - 1)' \ PoisonPills
      BY DEF RetriesInTurn
    <2>1. l \in Topics /\ l - 1 \in Topics /\ l # Dlt /\ l # 0 /\ l \in Nat
      BY <1>3
    <2>2. Published(l - 1) \subseteq Published(l - 1)'
      BY <1>1, <2>1
    <2>3. CASE e \in Published(l)
      BY <2>2, <2>3 DEF EarnedTopics, RetriesInTurn
    <2>4. CASE e \notin Published(l)
      <3>1. l = t /\ e = r
        BY <1>1, <2>1, <2>4
      <3> QED
        BY <2>1, <2>2, <3>1
    <2> QED
      BY <2>3, <2>4
  <1>5. DltAfterLast'
    <2> SUFFICES ASSUME NEW e \in Published(Dlt)' \ PoisonPills
                 PROVE  e \in Published(Attempts - 1)'
      BY DEF DltAfterLast
    <2>1. Published(Attempts - 1) \subseteq Published(Attempts - 1)'
      BY <1>1, <1>3
    <2>2. CASE e \in Published(Dlt)
      BY <2>1, <2>2 DEF EarnedTopics, DltAfterLast
    <2>3. CASE e \notin Published(Dlt)
      <3>1. Dlt = t /\ e = r
        BY <1>1, <1>3, <2>3
      <3> QED
        BY <1>3, <2>1, <3>1
    <2> QED
      BY <2>2, <2>3
  <1>6. EveryLevelFailed'
    <2> SUFFICES ASSUME NEW u \in Topics, NEW e \in Published(u)' \ PoisonPills, HasThreshold(e)
                 PROVE  f >= u
      BY <1>2 DEF EveryLevelFailed, HasThreshold
    <2>0. u \in Nat
      BY <1>3
    <2>1. CASE e \in Published(u)
      <3>1. Faults >= u
        BY <2>1 DEF EarnedTopics, EveryLevelFailed
      <3> QED
        BY <1>2, <2>0, <3>1
    <2>2. CASE e \notin Published(u)
      <3>1. u = t /\ e = r
        BY <1>1, <2>2
      <3>2. Faults >= u
        BY <1>3, <3>1
      <3> QED
        BY <1>2, <2>0, <3>2
    <2> QED
      BY <2>1, <2>2
  <1> QED
    BY <1>4, <1>5, <1>6 DEF EarnedTopics

\* A thread that is not touched, or that is through with its record.
LEMMA OthersFailing ==
    ASSUME TInv, Grows, Faults \in Nat, Faults' \in Nat, Faults <= Faults',
           NEW d \in Consumers, Failing(d),
           consumer'[d] = consumer[d] \/ consumer'[d].pc \in {"idle", "next"}
    PROVE  Failing(d)'
  <1>1. CASE consumer'[d].pc \in {"idle", "next"}
    BY <1>1 DEF Failing, PC
  <1>2. CASE consumer'[d] = consumer[d] /\ consumer[d].pc \in PC
    <2>1. EventOf(d)' = EventOf(d) /\ consumer[d].level \in Nat
      BY <1>2, SameEvent, InHand, AttemptsAssumption DEF Levels
    <2>2. PICK f \in Nat : f = Faults'
      OBVIOUS
    <2>3. Faults >= consumer[d].level + 1 => f >= consumer[d].level + 1
      BY <2>1, <2>2
    <2> QED
      BY <1>2, <2>1, <2>2, <2>3 DEF Failing, HasThreshold
  <1>3. CASE consumer'[d] = consumer[d] /\ consumer[d].pc \notin PC
    BY <1>3 DEF Failing, PC
  <1> QED
    BY <1>1, <1>2, <1>3

\* A thread that goes on with its record.
LEMMA GoingOnFailing ==
    ASSUME TInv, NEW c \in Consumers, consumer[c].pc \in PC, NEW pc \in PC, Goto(c, pc),
           pc = "fatal" => EventOf(c) \in PoisonPills,
           pc \notin {"next", "fatal"} => EventOf(c) \notin PoisonPills,
           pc \in {"failed", "delete"} /\ HasThreshold(EventOf(c)) =>
               Faults' >= consumer[c].level + 1
    PROVE  Failing(c)'
  <1>1. /\ consumer'[c].pc = pc /\ consumer'[c].level = consumer[c].level
        /\ EventOf(c)' = EventOf(c)
    BY GotoEffect, GotoMoves
  <1> QED
    BY <1>1 DEF Failing, HasThreshold

\* One more fault, at the level where the thread stands.
LEMMA OneMoreFault ==
    ASSUME TInv, EarnedInv, [Next]_vars, DbFault \/ KafkaFault,
           NEW c \in Consumers, consumer[c].pc \in PC \ {"next", "fatal"},
           HasThreshold(EventOf(c))
    PROVE  Faults' >= consumer[c].level + 1
  <1>1. EventOf(c) \in Published(consumer[c].level) \ PoisonPills /\ consumer[c].level \in Topics
    BY InHand DEF EarnedInv, Failing
  <1>2. Faults >= consumer[c].level
    BY <1>1 DEF EarnedInv, EarnedTopics, EveryLevelFailed
  <1>3. Faults' = Faults + 1 /\ Faults \in Nat
    BY FaultsCount
  <1>4. consumer[c].level \in Nat
    BY <1>1, AttemptsAssumption DEF Topics
  <1> QED
    BY <1>2, <1>3, <1>4

LEMMA ListenerFailing ==
    ASSUME TInv, EarnedInv, [Next]_vars, NEW c \in Consumers, ListenerStep(c)
    PROVE  Failing(c)'
  <1>1. /\ consumer[c].pc \in PC /\ EventOf(c) \in Events
        /\ consumer[c].level \in Nat
        /\ Failing(c)
    BY ListenerEffect, AttemptsAssumption DEF EarnedInv, Levels
  <1>2. CASE Resume(c)
    BY <1>1, <1>2, GoingOnFailing DEF Resume, FirstStep, PC
  <1>3. CASE GetByType(c)
    BY <1>1, <1>3, GoingOnFailing DEF GetByType, PC, Failing
  <1>4. CASE ClaimAlert(c)
    BY <1>1, <1>4, GoingOnFailing DEF ClaimAlert, PC, Failing
  <1>5. CASE GetByTypeFails(c) \/ SaveFails(c) \/ SendThrows(c) \/ DeleteProcessedFails(c)
    <2>1. PICK pc \in {"failed", "delete"} : Goto(c, pc)
      BY <1>5 DEF GetByTypeFails, SaveFails, SendThrows, DeleteProcessedFails
    <2>2. consumer[c].pc \in PC \ {"next", "fatal"} /\ (DbFault \/ KafkaFault)
      BY <1>5 DEF GetByTypeFails, SaveFails, SendThrows, DeleteProcessedFails, PC
    <2>3. EventOf(c) \notin PoisonPills
      BY <1>1, <2>2 DEF Failing
    <2> QED
      BY <1>1, <2>1, <2>2, <2>3, OneMoreFault, GoingOnFailing DEF PC
  <1>6. CASE DeleteProcessed(c)
    <2>1. Faults' = Faults
      BY <1>6 DEF DeleteProcessed, faultVars, Faults
    <2> QED
      BY <1>1, <1>6, <2>1, GoingOnFailing DEF DeleteProcessed, PC, Failing
  <1>7. CASE RecordOrdinary(c) \/ SkipDuplicate(c) \/ SendAlert(c) \/ RecoverFails(c) \/ Recover(c)
    <2>1. consumer'[c].pc \in {"idle", "next"}
      BY <1>1, <1>7, LeaveEffect
         DEF RecordOrdinary, SkipDuplicate, SendAlert, RecoverFails, Recover, Finish, Forward,
             SeekBack, ForwardUnconfirmed, Idle, TInv, TypeOK, LaneTypeOK
    <2> QED
      BY <2>1 DEF Failing, PC
  <1> QED
    BY <1>2, <1>3, <1>4, <1>5, <1>6, <1>7 DEF ListenerStep

LEMMA ListenerTopicsEarned ==
    ASSUME TInv, EarnedInv, [Next]_vars, NEW c \in Consumers, ListenerStep(c)
    PROVE  EarnedTopics'
  <1>1. /\ consumer[c].pc \in PC /\ EventOf(c) \in Events
        /\ consumer[c].level \in Levels
        /\ EventOf(c) \in Published(consumer[c].level)
    BY ListenerEffect, InHand
  <1>2. CASE log' # log
    <2>0. \/ /\ consumer[c].pc = "failed"
             /\ \/ Forward(c, consumer[c].level + 1)
                \/ ForwardUnconfirmed(c, consumer[c].level + 1)
          \/ consumer[c].pc = "fatal" /\ (Forward(c, Dlt) \/ ForwardUnconfirmed(c, Dlt))
      BY <1>2 DEF ListenerStep, Resume, GetByType, GetByTypeFails, RecordOrdinary, ClaimAlert,
                  SkipDuplicate, SaveFails, SendAlert, SendThrows, DeleteProcessed,
                  DeleteProcessedFails, Recover, RecoverFails, Goto, Finish, SeekBack
    <2>1. Faults \in Nat /\ Faults' \in Nat /\ Faults <= Faults'
      BY FaultsCount
    <2>2. CASE /\ consumer[c].pc = "failed"
               /\ \/ Forward(c, consumer[c].level + 1)
                  \/ ForwardUnconfirmed(c, consumer[c].level + 1)
      <3>1. PICK t \in Topics : t = consumer[c].level + 1 /\ t - 1 = consumer[c].level
        BY <1>1, LevelsAreTopics, AttemptsAssumption DEF Levels
      <3>2. EventOf(c) \notin PoisonPills /\ (HasThreshold(EventOf(c)) => Faults >= t)
        BY <2>2, <3>1 DEF EarnedInv, Failing, PC
      <3>3. log' = [log EXCEPT ![t] = Append(@, EventOf(c))]
        BY <2>2, <3>1 DEF Forward, ForwardUnconfirmed, EventOf
      <3> QED
        BY <1>1, <2>1, <3>1, <3>2, <3>3, AppendEarned DEF EarnedInv
    <2>3. CASE consumer[c].pc = "fatal" /\ (Forward(c, Dlt) \/ ForwardUnconfirmed(c, Dlt))
      <3>1. EventOf(c) \in PoisonPills
        BY <2>3 DEF EarnedInv, Failing
      <3>2. log' = [log EXCEPT ![Dlt] = Append(@, EventOf(c))] /\ Dlt \in Topics
        BY <2>3, LevelsAreTopics DEF Forward, ForwardUnconfirmed, EventOf
      <3> QED
        BY <1>1, <2>1, <3>1, <3>2, AppendEarned DEF EarnedInv
    <2> QED
      BY <2>0, <2>2, <2>3
  <1>3. CASE log' = log
    BY <1>3, SameTopicsEarned, FaultsCount DEF EarnedInv
  <1> QED
    BY <1>2, <1>3

LEMMA ReassignKeepsPlaces ==
    ASSUME TInv, NEW l \in Levels, Reassign(l), NEW d \in Consumers
    PROVE  consumer'[d].level = consumer[d].level /\ consumer'[d].offset = consumer[d].offset
  <1>1. consumer \in [Consumers -> Running(PC) \cup {Idle}]
    BY DEF TInv, TypeOK, LaneTypeOK
  <1>2. \/ consumer'[d] = consumer[d]
        \/ Busy(d) /\ consumer'[d] = [consumer[d] EXCEPT !.owns = FALSE]
    BY DEF Reassign
  <1>3. Busy(d) => consumer[d] \in Running(PC)
    BY <1>1 DEF Busy
  <1> QED
    BY <1>2, <1>3 DEF Running

LEMMA EarnedNext == TInv /\ EarnedInv /\ [Next]_vars => EarnedInv'
  <1> SUFFICES ASSUME TInv, EarnedInv, [Next]_vars PROVE EarnedInv'
    OBVIOUS
  <1>1. Faults \in Nat /\ Faults' \in Nat /\ Faults <= Faults'
    BY FaultsCount
  <1>2. ASSUME NEW c \in Consumers, ListenerStep(c) PROVE EarnedInv'
    <2>1. Grows /\ \A d \in Consumers \ {c} : consumer'[d] = consumer[d]
      BY <1>2, ListenerEffect
    <2> QED
      BY <1>1, <1>2, <2>1, OthersFailing, ListenerFailing, ListenerTopicsEarned DEF EarnedInv
  <1>3. ASSUME NEW e \in Events, Arrive(e) PROVE EarnedInv'
    <2>1. /\ log' = [log EXCEPT ![0] = Append(@, e)] /\ consumer' = consumer
          /\ UNCHANGED <<dbFaults, kafkaFaults>> /\ 0 \in Topics
      BY <1>3, LevelsAreTopics DEF Arrive, Publish, faultVars
    <2>2. Grows
      BY <1>3, TInvParts, PublishKeepsLane DEF Arrive, Events
    <2>3. EarnedTopics'
      BY <2>1, FaultsCount, AppendEarned DEF EarnedInv
    <2> QED
      BY <1>1, <2>1, <2>2, <2>3, OthersFailing DEF EarnedInv
  <1>4. ASSUME NEW c \in Consumers, NEW l \in Levels, Poll(c, l) PROVE EarnedInv'
    <2>1. PICK start \in PC : start = FirstStep(log[l][pos[l]])
      BY DEF FirstStep, PC
    <2>2. Deliver(c, l, start)
      BY <1>4, <2>1 DEF Poll
    <2>3. /\ consumer' = [consumer EXCEPT ![c] =
                             [pc |-> start, level |-> l, offset |-> pos[l], owns |-> TRUE]]
          /\ log' = log
      BY <2>2 DEF Deliver
    <2>4. Grows /\ \A d \in Consumers \ {c} : consumer'[d] = consumer[d]
      BY <2>2, TInvParts, DeliverKeepsLane
    <2>5. consumer'[c].pc = start /\ EventOf(c)' = log[l][pos[l]]
      BY <2>3 DEF EventOf, RecordOf, TInv, TypeOK, LaneTypeOK
    <2>6. Failing(c)'
      BY <2>1, <2>5 DEF Failing, FirstStep
    <2>7. EarnedTopics'
      BY <1>1, <2>3, SameTopicsEarned DEF EarnedInv
    <2> QED
      BY <1>1, <2>4, <2>6, <2>7, OthersFailing DEF EarnedInv
  <1>5. ASSUME NEW l \in Levels, Rebalance(l) PROVE EarnedInv'
    <2>1. Reassign(l) /\ Faults' = Faults
      BY <1>5 DEF Rebalance, Faults
    <2>2. log' = log
      BY <2>1 DEF Reassign
    <2>3. \A d \in Consumers : /\ consumer'[d].pc = consumer[d].pc
                               /\ consumer'[d].level = consumer[d].level
                               /\ EventOf(d)' = EventOf(d)
      BY <2>1, TInvParts, ReassignKeepsLane, ReassignKeepsPlaces DEF EventOf
    <2>4. \A d \in Consumers : Failing(d)'
      BY <2>1, <2>3 DEF EarnedInv, Failing, HasThreshold
    <2> QED
      BY <1>1, <2>2, <2>4, SameTopicsEarned DEF EarnedInv
  <1>6. CASE Crash
    <2>1. log' = log /\ \A d \in Consumers : consumer'[d].pc = "idle"
      BY <1>6, TInvParts, RestartKeepsLane DEF Crash, Restart, Idle
    <2> QED
      BY <1>1, <2>1, SameTopicsEarned DEF EarnedInv, Failing, PC
  <1>7. CASE log' = log /\ consumer' = consumer
    <2>1. Grows
      BY <1>7 DEF Grows
    <2> QED
      BY <1>1, <1>7, <2>1, SameTopicsEarned, OthersFailing DEF EarnedInv
  <1>8. ASSUME NEW i \in DOMAIN sends, ProducerStep(i) \/ UnprocessedStep(i)
        PROVE  log' = log /\ consumer' = consumer
    BY <1>8 DEF ProducerStep, UnprocessedStep, BrokerAppend, Acknowledge, SendFails,
                HandleUnprocessed, HandleUnprocessedFails, laneVars
  <1> QED
    BY <1>2, <1>3, <1>4, <1>5, <1>6, <1>7, <1>8
       DEF Next, Commit, CommitOffset, AtRest, vars, laneVars

LEMMA EarnedInit == Init => EarnedInv
  <1>1. Init => \A t \in Topics : Published(t) = {}
    BY DEF Init, LaneInit, Published
  <1>2. Init => \A c \in Consumers : consumer[c].pc = "idle"
    BY DEF Init, LaneInit, Idle
  <1>3. Dlt \in Topics /\ \A l \in 1 .. Attempts - 1 : l \in Topics
    BY AttemptsAssumption DEF Dlt, Topics
  <1> QED
    BY <1>1, <1>2, <1>3 DEF EarnedInv, EarnedTopics, RetriesInTurn, DltAfterLast,
                            EveryLevelFailed, Failing, PC

\* The retry topics are gone through in turn, and what is in the DLT has been
\* in all of them, with a fault for each; but for poison pills, and for events
\* without a threshold, which need no fault to fail.
THEOREM DltEarned == Spec => []DltIsEarned
  <1>1. Dlt \in Topics /\ Dlt = Attempts
    BY LevelsAreTopics DEF Dlt
  <1>2. EarnedInv => DltIsEarned
    BY <1>1 DEF EarnedInv, EarnedTopics, RetriesInTurn, DltAfterLast, EveryLevelFailed,
                DltIsEarned, Faults
  <1>3. Spec => []EarnedInv
    BY EarnedInit, EarnedNext, TInvAlways, PTL DEF Spec
  <1> QED
    BY <1>2, <1>3, PTL

-----------------------------------------------------------------------------
(***************************************************************************)
(* No event is lost while partitions stay with their owners. Then a thread *)
(* stands at its container's next record, alone at its level, and the      *)
(* committed offset is not ahead of it.                                    *)
(***************************************************************************)
OwnersInPlace ==
    \A c \in Consumers : Busy(c) => /\ consumer[c].owns
                                    /\ consumer[c].offset = pos[consumer[c].level]

OnePerLevel ==
    \A c, d \in Consumers :
        Busy(c) /\ Busy(d) /\ consumer[c].level = consumer[d].level => c = d

PositionsInLog ==
    \A l \in Levels : committed[l] <= pos[l] /\ pos[l] <= Len(log[l]) + 1

Stationed == OwnersInPlace /\ OnePerLevel /\ PositionsInLog

\* The event is through: marked, in the DLT, or its failed alert was dealt with.
Settled(e) ==
    \/ e \in processed
    \/ e \in Published(Dlt)
    \/ \E i \in DOMAIN sends : sends[i].payload = e /\ sends[i].phase = "handled"

\* The record level l stands at is marked and on its way out.
AtSend(l) == \E c \in Consumers : consumer[c].pc = "send" /\ consumer[c].level = l

\* The event is still to be delivered or in the listener, unmarked by it.
WaitsFor(e, l, k) ==
    /\ k \in DOMAIN log[l] /\ log[l][k] = e
    /\ k > pos[l] \/ (k = pos[l] /\ ~AtSend(l))

Due(e) == \E l \in Levels : \E k \in DOMAIN log[l] : WaitsFor(e, l, k)

Kept == \A e \in Published(0) : Settled(e) \/ Due(e)

KeptInv == rebalances = 0 => Stationed /\ Kept

LEMMA LanePlaces ==
    ASSUME TInv
    PROVE  /\ \A t \in Topics : /\ log[t] \in Seq(Events) /\ Len(log[t]) \in Nat
                                /\ DOMAIN log[t] = 1 .. Len(log[t])
           /\ \A l \in Levels : /\ l \in Topics /\ pos[l] \in Nat \ {0}
                                /\ committed[l] \in Nat \ {0}
  BY LevelsAreTopics DEF TInv, TypeOK, LaneTypeOK, Events

LEMMA GrowsLonger ==
    ASSUME TInv, TInv', Grows, NEW t \in Topics
    PROVE  Len(log[t]) <= Len(log'[t])
  <1>1. /\ DOMAIN log[t] = 1 .. Len(log[t]) /\ Len(log[t]) \in Nat
        /\ \A k \in DOMAIN log[t] : k \in DOMAIN log'[t]
    BY LanePlaces DEF Grows
  <1>2. log' \in [Topics -> Seq(Events)]
    BY DEF TInv, TypeOK, LaneTypeOK, Events
  <1>3. DOMAIN log'[t] = 1 .. Len(log'[t]) /\ Len(log'[t]) \in Nat
    BY <1>2
  <1> QED
    BY <1>1, <1>3

\* What a listener step does to a thread that owns its partition: it goes on
\* with its record, gives it back, or is through with it.
LEMMA OwnerMoves ==
    ASSUME TInv, Stationed, NEW c \in Consumers, ListenerStep(c)
    PROVE  \/ /\ \E pc \in PC : Goto(c, pc) /\ consumer'[c].pc = pc
              /\ consumer'[c].level = consumer[c].level
              /\ consumer'[c].offset = consumer[c].offset
              /\ consumer'[c].owns = consumer[c].owns
              /\ log' = log /\ pos' = pos
           \/ consumer'[c] = Idle /\ pos' = pos /\ RecoverFails(c)
           \/ /\ consumer'[c] = Idle
              /\ pos'[consumer[c].level] = consumer[c].offset + 1
              /\ \A l \in Levels \ {consumer[c].level} : pos'[l] = pos[l]
              /\ RecordOrdinary(c) \/ SkipDuplicate(c) \/ SendAlert(c) \/ Recover(c)
  <1>1. /\ Busy(c) /\ consumer[c].pc \in PC /\ consumer[c].level \in Levels
        /\ consumer[c].owns /\ pos \in [Levels -> Nat \ {0}]
    BY ListenerEffect DEF Stationed, OwnersInPlace, TInv, TypeOK, LaneTypeOK
  <1>2. CASE RecoverFails(c)
    BY <1>1, <1>2 DEF RecoverFails, SeekBack, ForwardUnconfirmed, TInv, TypeOK, LaneTypeOK
  <1>3. CASE RecordOrdinary(c) \/ SkipDuplicate(c) \/ SendAlert(c) \/ Recover(c)
    <2>1. Leave(c)
      BY <1>3 DEF RecordOrdinary, SkipDuplicate, SendAlert, Recover, Finish, Forward
    <2>2. /\ consumer'[c] = Idle
          /\ pos' = [pos EXCEPT ![consumer[c].level] = consumer[c].offset + 1]
      BY <1>1, <2>1, LeaveEffect
    <2> QED
      BY <1>1, <1>3, <2>2
  <1>4. ASSUME NEW pc \in PC, Goto(c, pc)
        PROVE  /\ \E p \in PC : Goto(c, p) /\ consumer'[c].pc = p
               /\ consumer'[c].level = consumer[c].level
               /\ consumer'[c].offset = consumer[c].offset
               /\ consumer'[c].owns = consumer[c].owns
               /\ log' = log /\ pos' = pos
    BY <1>1, <1>4, GotoEffect
  <1>5. RecoverFails(c) \/ RecordOrdinary(c) \/ SkipDuplicate(c) \/ SendAlert(c) \/ Recover(c)
        \/ \E pc \in PC : Goto(c, pc)
    BY DEF ListenerStep, Resume, GetByType, GetByTypeFails, ClaimAlert, SaveFails, SendThrows,
           DeleteProcessed, DeleteProcessedFails, PC, FirstStep
  <1> QED
    BY <1>2, <1>3, <1>4, <1>5

LEMMA ListenerStationed ==
    ASSUME TInv, TInv', Stationed, NEW c \in Consumers, ListenerStep(c)
    PROVE  Stationed'
  <1>1. /\ Busy(c) /\ consumer[c].level \in Levels
        /\ consumer[c].offset \in DOMAIN log[consumer[c].level] /\ committed' = committed
        /\ \A d \in Consumers \ {c} : consumer'[d] = consumer[d]
        /\ Grows
    BY ListenerEffect
  <1>2. /\ consumer[c].offset \in Nat /\ consumer[c].offset <= Len(log[consumer[c].level])
        /\ consumer[c].offset = pos[consumer[c].level]
    BY <1>1, LanePlaces DEF Stationed, OwnersInPlace
  <1>3. \A l \in Levels : pos'[l] = pos[l] \/ (l = consumer[c].level /\ pos'[l] = pos[l] + 1)
    BY <1>2, OwnerMoves
  <1>4. PositionsInLog'
    <2> SUFFICES ASSUME NEW l \in Levels
                 PROVE  committed[l] <= pos'[l] /\ pos'[l] <= Len(log'[l]) + 1
      BY <1>1 DEF PositionsInLog
    <2>1. PICK n \in Nat : n = pos'[l]
      BY <1>3, LanePlaces
    <2>2. n = pos[l] \/ (l = consumer[c].level /\ n = pos[l] + 1)
      BY <1>3, <2>1
    <2>3. PICK m \in Nat : m = Len(log'[l])
      BY LevelsAreTopics DEF TInv, TypeOK, LaneTypeOK
    <2>4. Len(log[l]) <= m /\ Len(log[l]) \in Nat /\ committed[l] \in Nat /\ pos[l] \in Nat
      BY <2>3, <1>1, GrowsLonger, LanePlaces, LevelsAreTopics
    <2>5. committed[l] <= pos[l] /\ pos[l] <= Len(log[l]) + 1
      BY DEF Stationed, PositionsInLog
    <2>6. committed[l] <= n /\ n <= m + 1
      BY <1>2, <2>2, <2>4, <2>5
    <2> QED
      BY <2>1, <2>3, <2>6
  <1>5. consumer'[c] = Idle \/ (/\ consumer'[c].level = consumer[c].level
                                /\ consumer'[c].offset = consumer[c].offset
                                /\ consumer'[c].owns = consumer[c].owns
                                /\ pos' = pos)
    BY OwnerMoves
  <1>6. OwnersInPlace'
    <2> SUFFICES ASSUME NEW d \in Consumers, Busy(d)'
                 PROVE  consumer'[d].owns /\ consumer'[d].offset = pos'[consumer'[d].level]
      BY DEF OwnersInPlace
    <2>1. CASE d = c
      BY <1>1, <1>5, <2>1 DEF Stationed, OwnersInPlace, Busy
    <2>2. CASE d # c
      <3>1. Busy(d) /\ consumer[d].level # consumer[c].level /\ consumer[d].level \in Levels
        BY <1>1, <2>2, TInvParts, BusyThread DEF Stationed, OnePerLevel, Busy
      <3> QED
        BY <1>1, <1>3, <2>2, <3>1 DEF Stationed, OwnersInPlace
    <2> QED
      BY <2>1, <2>2
  <1>7. OnePerLevel'
    BY <1>1, <1>5 DEF Stationed, OnePerLevel, Busy
  <1> QED
    BY <1>4, <1>6, <1>7 DEF Stationed

\* The container's own steps.
LEMMA PollStationed ==
    ASSUME TInv, Stationed, NEW c \in Consumers, NEW l \in Levels, Poll(c, l)
    PROVE  /\ Stationed'
           /\ log' = log /\ pos' = pos /\ committed' = committed
           /\ consumer'[c].pc # "send"
           /\ \A d \in Consumers \ {c} : consumer'[d] = consumer[d]
  <1>1. PICK start \in PC \ {"send"} : start = FirstStep(log[l][pos[l]])
    BY DEF FirstStep, PC
  <1>2. Deliver(c, l, start)
    BY <1>1 DEF Poll
  <1>3. /\ consumer' = [consumer EXCEPT ![c] =
                           [pc |-> start, level |-> l, offset |-> pos[l], owns |-> TRUE]]
        /\ log' = log /\ pos' = pos /\ committed' = committed
        /\ ~Owned(l)
    BY <1>2 DEF Deliver
  <1>4. /\ consumer'[c] = [pc |-> start, level |-> l, offset |-> pos[l], owns |-> TRUE]
        /\ \A d \in Consumers \ {c} : consumer'[d] = consumer[d]
    BY <1>3 DEF TInv, TypeOK, LaneTypeOK
  <1>5. \A d \in Consumers : Busy(d) => consumer[d].level # l
    BY <1>3 DEF Owned, Stationed, OwnersInPlace
  <1>6. OwnersInPlace' /\ OnePerLevel'
    BY <1>3, <1>4, <1>5 DEF Stationed, OwnersInPlace, OnePerLevel, Busy
  <1>7. PositionsInLog'
    BY <1>3 DEF Stationed, PositionsInLog
  <1> QED
    BY <1>1, <1>3, <1>4, <1>6, <1>7 DEF Stationed

LEMMA ArriveStationed ==
    ASSUME TInv, TInv', Stationed, NEW e \in Events, Arrive(e)
    PROVE  Stationed'
  <1>1. pos' = pos /\ committed' = committed /\ consumer' = consumer
    BY DEF Arrive, Publish
  <1>2. Grows
    BY TInvParts, PublishKeepsLane DEF Arrive, Events
  <1>3. PositionsInLog'
    <2> SUFFICES ASSUME NEW l \in Levels
                 PROVE  committed[l] <= pos[l] /\ pos[l] <= Len(log'[l]) + 1
      BY <1>1 DEF PositionsInLog
    <2>1. PICK m \in Nat : m = Len(log'[l])
      BY LevelsAreTopics DEF TInv, TypeOK, LaneTypeOK
    <2>2. Len(log[l]) <= m /\ Len(log[l]) \in Nat /\ committed[l] \in Nat /\ pos[l] \in Nat
      BY <2>1, <1>2, GrowsLonger, LanePlaces, LevelsAreTopics
    <2> QED
      BY <2>1, <2>2 DEF Stationed, PositionsInLog
  <1> QED
    BY <1>1, <1>3 DEF Stationed, OwnersInPlace, OnePerLevel, Busy

LEMMA CommitStationed ==
    ASSUME TInv, Stationed, NEW l \in Levels, Commit(l)
    PROVE  Stationed' /\ log' = log /\ pos' = pos /\ consumer' = consumer
  <1>1. /\ committed' = [committed EXCEPT ![l] = pos[l]]
        /\ log' = log /\ pos' = pos /\ consumer' = consumer
        /\ committed \in [Levels -> Nat \ {0}]
    BY DEF Commit, CommitOffset, TInv, TypeOK, LaneTypeOK
  <1>2. \A m \in Levels : committed'[m] = committed[m] \/ committed'[m] = pos[m]
    BY <1>1
  <1>3. PositionsInLog'
    BY <1>1, <1>2, LanePlaces DEF Stationed, PositionsInLog
  <1> QED
    BY <1>1, <1>3 DEF Stationed, OwnersInPlace, OnePerLevel, Busy

LEMMA CrashStationed ==
    ASSUME TInv, Stationed, Crash
    PROVE  /\ Stationed' /\ log' = log /\ pos' = committed
           /\ \A c \in Consumers : consumer'[c] = Idle
  <1>1. /\ log' = log /\ pos' = committed /\ committed' = committed
        /\ \A c \in Consumers : consumer'[c] = Idle
    BY DEF Crash, Restart
  <1>2. PositionsInLog'
    <2> SUFFICES ASSUME NEW l \in Levels
                 PROVE  committed[l] <= committed[l] /\ committed[l] <= Len(log[l]) + 1
      BY <1>1 DEF PositionsInLog
    <2>1. /\ committed[l] <= pos[l] /\ pos[l] <= Len(log[l]) + 1
          /\ committed[l] \in Nat /\ pos[l] \in Nat /\ Len(log[l]) \in Nat
      BY LanePlaces DEF Stationed, PositionsInLog
    <2> QED
      BY <2>1
  <1> QED
    BY <1>1, <1>2 DEF Stationed, OwnersInPlace, OnePerLevel, Busy

-----------------------------------------------------------------------------
(* Due events. *)

\* The level goes back or stays, and nobody new is on the way out of it.
LEMMA DueStays ==
    ASSUME TInv, Grows, NEW e, Due(e),
           \A l \in Levels : pos'[l] \in Nat /\ pos'[l] <= pos[l],
           \A l \in Levels : pos'[l] = pos[l] /\ AtSend(l)' => AtSend(l)
    PROVE  Due(e)'
  <1>1. PICK l \in Levels : \E k \in DOMAIN log[l] : WaitsFor(e, l, k)
    BY DEF Due
  <1> PICK k \in DOMAIN log[l] : WaitsFor(e, l, k)
    BY <1>1
  <1>2. k \in DOMAIN log'[l] /\ log'[l][k] = e /\ l \in Topics
    BY LevelsAreTopics DEF Grows, WaitsFor
  <1>3. pos[l] \in Nat /\ k \in Nat /\ pos'[l] \in Nat /\ pos'[l] <= pos[l]
    BY <1>2, LanePlaces
  <1>4. k > pos'[l] \/ (k = pos'[l] /\ ~AtSend(l)')
    BY <1>3 DEF WaitsFor
  <1>5. WaitsFor(e, l, k)'
    BY <1>2, <1>4 DEF WaitsFor
  <1> QED
    BY <1>2, <1>5 DEF Due

\* A listener step takes no event's place but that of the record in hand.
LEMMA DueElsewhere ==
    ASSUME TInv, Stationed, NEW c \in Consumers, ListenerStep(c),
           NEW e, NEW l \in Levels, NEW k \in DOMAIN log[l], WaitsFor(e, l, k),
           l # consumer[c].level \/ k # consumer[c].offset
    PROVE  Due(e)'
  <1>1. /\ Busy(c) /\ consumer[c].level \in Levels /\ Grows
        /\ \A d \in Consumers \ {c} : consumer'[d] = consumer[d]
    BY ListenerEffect
  <1>2. k \in DOMAIN log'[l] /\ log'[l][k] = e
    BY <1>1, LevelsAreTopics DEF Grows, WaitsFor
  <1>3. /\ consumer[c].offset = pos[consumer[c].level]
        /\ pos[l] \in Nat /\ k \in Nat
    BY <1>1, LanePlaces DEF Stationed, OwnersInPlace
  <1>4. \/ consumer'[c] = Idle
        \/ consumer'[c].level = consumer[c].level /\ pos' = pos
    BY OwnerMoves
  <1>5. CASE l # consumer[c].level
    <2>1. pos'[l] = pos[l]
      BY <1>5, OwnerMoves
    <2>2. AtSend(l)' => AtSend(l)
      BY <1>1, <1>4, <1>5 DEF AtSend, Idle
    <2>3. WaitsFor(e, l, k)'
      BY <1>2, <2>1, <2>2 DEF WaitsFor
    <2> QED
      BY <1>2, <2>3 DEF Due
  <1>6. CASE l = consumer[c].level
    <2>1. k > pos[l]
      BY <1>3, <1>6 DEF WaitsFor
    <2>2. pos'[l] = pos[l] \/ (pos'[l] = pos[l] + 1 /\ consumer'[c] = Idle)
      BY <1>3, <1>6, OwnerMoves
    <2>3. \A d \in Consumers : consumer'[c] = Idle /\ consumer'[d].level = l => consumer'[d].pc # "send"
      <3> SUFFICES ASSUME NEW d \in Consumers, consumer'[c] = Idle, consumer'[d].level = l
                   PROVE  consumer'[d].pc # "send"
        OBVIOUS
      <3>1. CASE d = c
        BY <3>1 DEF Idle
      <3>2. CASE d # c
        BY <1>1, <1>6, <3>2 DEF Stationed, OnePerLevel, Busy, Idle
      <3> QED
        BY <3>1, <3>2
    <2>4. k > pos'[l] \/ (k = pos'[l] /\ ~AtSend(l)')
      BY <1>3, <2>1, <2>2, <2>3 DEF AtSend
    <2>5. WaitsFor(e, l, k)'
      BY <1>2, <2>4 DEF WaitsFor
    <2> QED
      BY <1>2, <2>5 DEF Due
  <1> QED
    BY <1>5, <1>6

\* The record in hand is due until the thread is on its way to send its alert.
LEMMA InHandIsDue ==
    ASSUME TInv, Stationed, NEW c \in Consumers, ListenerStep(c),
           \/ \E pc \in PC \ {"send"} : Goto(c, pc)
           \/ RecoverFails(c),
           NEW e, e = EventOf(c)
    PROVE  Due(e)'
  <1>0. PICK l, k : l = consumer[c].level /\ k = consumer[c].offset
    OBVIOUS
  <1>1. /\ Busy(c) /\ l \in Levels /\ k \in DOMAIN log[l] /\ log[l][k] = e
        /\ consumer[c].pc \in PC
        /\ \A d \in Consumers \ {c} : consumer'[d] = consumer[d]
        /\ k \in DOMAIN log'[l] /\ log'[l][k] = e
    BY <1>0, ListenerEffect, LevelsAreTopics DEF Grows
  <1>2. pos' = pos /\ consumer'[c].pc # "send"
    BY <1>1, GotoEffect
       DEF RecoverFails, SeekBack, ForwardUnconfirmed, Idle, TInv, TypeOK, LaneTypeOK
  <1>3. k = pos[l]
    BY <1>0, <1>1 DEF Stationed, OwnersInPlace
  <1>4. ~AtSend(l)'
    <2> SUFFICES ASSUME NEW d \in Consumers, consumer'[d].pc = "send", consumer'[d].level = l
                 PROVE  FALSE
      BY DEF AtSend
    <2>1. d # c /\ consumer'[d] = consumer[d]
      BY <1>1, <1>2
    <2> QED
      BY <1>0, <1>1, <2>1 DEF Stationed, OnePerLevel, Busy, Idle
  <1>5. WaitsFor(e, l, k)'
    BY <1>1, <1>2, <1>3, <1>4 DEF WaitsFor
  <1> QED
    BY <1>1, <1>2, <1>5 DEF Due

\* A failure dealt with stays on record.
LEMMA HandledStays ==
    ASSUME TInv, [Next]_vars, NEW i \in DOMAIN sends, sends[i].phase = "handled"
    PROVE  /\ i \in DOMAIN sends' /\ sends'[i].phase = "handled"
           /\ sends'[i].payload = sends[i].payload
  <1>1. CASE QuietStep
    BY <1>1, QuietSteps
  <1>2. ASSUME NEW c \in Consumers, SendAlert(c)
        PROVE  i \in DOMAIN sends' /\ sends'[i] = sends[i]
    BY <1>2, SendAlertAppends
  <1>3. ASSUME NEW c \in Consumers,
               \/ RecordOrdinary(c) \/ ClaimAlert(c) \/ DeleteProcessed(c)
               \/ GetByTypeFails(c) \/ SaveFails(c) \/ DeleteProcessedFails(c)
        PROVE  sends' = sends
    BY <1>3 DEF RecordOrdinary, ClaimAlert, DeleteProcessed, GetByTypeFails, SaveFails,
                DeleteProcessedFails, serviceVars
  <1>4. ASSUME NEW j \in DOMAIN sends, ProducerStep(j) \/ UnprocessedStep(j)
        PROVE  DOMAIN sends' = DOMAIN sends /\ sends'[i] = sends[i]
    <2>1. j # i
      BY <1>4 DEF ProducerStep, UnprocessedStep, BrokerAppend, Acknowledge, SendFails,
                  HandleUnprocessed, HandleUnprocessedFails, Write, Waiting, SucceedSend,
                  FailSend, MarkHandled
    <2> QED
      BY <1>4, <2>1, AlertMoves
  <1>5. CASE Crash
    BY <1>5, LoseKeepsPayloads, TInvParts DEF Crash
  <1> QED
    BY <1>1, <1>2, <1>3, <1>4, <1>5, NextCases DEF UnprocessedStep

\* The topics' records stay, and so do a settled event's reasons, but for marks.
LEMMA SettledStays ==
    ASSUME TInv, [Next]_vars, Grows, NEW e, Settled(e), e \in processed => e \in processed'
    PROVE  Settled(e)'
  <1>1. Published(Dlt) \subseteq Published(Dlt)'
    BY GrowsPublishes, LevelsAreTopics
  <1>2. ASSUME NEW i \in DOMAIN sends, sends[i].payload = e, sends[i].phase = "handled"
        PROVE  i \in DOMAIN sends' /\ sends'[i].payload = e /\ sends'[i].phase = "handled"
    BY <1>2, HandledStays
  <1> QED
    BY <1>1, <1>2 DEF Settled

\* A record appended to a level is due.
LEMMA AppendedIsDue ==
    ASSUME TInv, Stationed, NEW r \in Events, NEW t \in Levels,
           log' = [log EXCEPT ![t] = Append(@, r)],
           pos'[t] = pos[t],
           \A c \in Consumers : consumer'[c] = Idle \/ consumer'[c] = consumer[c]
    PROVE  Due(r)'
  <1>1. t \in Topics /\ Len(log[t]) \in Nat /\ pos[t] \in Nat
    BY LanePlaces, LevelsAreTopics
  <1>2. PICK n \in Nat : n = Len(log[t]) + 1
    BY <1>1
  <1>3. log[t] \in Seq(Events) /\ log'[t] = Append(log[t], r)
    BY <1>1, LanePlaces DEF TInv, TypeOK, LaneTypeOK
  <1>4. n \in DOMAIN log'[t] /\ log'[t][n] = r
    BY <1>2, <1>3
  <1>5. pos[t] <= n
    BY <1>2 DEF Stationed, PositionsInLog
  <1>6. n = pos[t] => ~AtSend(t)'
    <2> SUFFICES ASSUME n = pos[t], NEW c \in Consumers,
                        consumer'[c].pc = "send", consumer'[c].level = t
                 PROVE  FALSE
      BY DEF AtSend
    <2>1. consumer'[c] = consumer[c] /\ Busy(c)
      BY DEF Idle, Busy
    <2>2. consumer[c].offset = n /\ consumer[c].offset \in DOMAIN log[t]
      BY <2>1, TInvParts, BusyThread DEF Stationed, OwnersInPlace
    <2> QED
      BY <1>1, <1>2, <2>2, LanePlaces
  <1>7. WaitsFor(r, t, n)'
    BY <1>1, <1>4, <1>5, <1>6 DEF WaitsFor
  <1> QED
    BY <1>4, <1>7 DEF Due

\* What becomes of the record in hand.
LEMMA InHandKept ==
    ASSUME TInv, Stationed, [Next]_vars, NEW c \in Consumers, ListenerStep(c),
           consumer[c].pc # "send", NEW e, e = EventOf(c)
    PROVE  Settled(e)' \/ Due(e)'
  <1>1. /\ Busy(c) /\ consumer[c].level \in Levels /\ e \in Events /\ Grows
        /\ \A d \in Consumers \ {c} : consumer'[d] = consumer[d]
    BY ListenerEffect
  <1>2. CASE ClaimAlert(c) \/ RecordOrdinary(c) \/ SkipDuplicate(c)
    <2>1. e \in processed'
      BY <1>2 DEF ClaimAlert, RecordOrdinary, SkipDuplicate, serviceVars
    <2> QED
      BY <2>1 DEF Settled
  <1>3. CASE Recover(c)
    <2>1. /\ consumer'[c] = Idle
          /\ \A l \in Levels \ {consumer[c].level} : pos'[l] = pos[l]
      <3>1. Leave(c) /\ consumer[c].pc \in PC
        BY <1>3 DEF Recover, Forward, PC
      <3>2. /\ consumer'[c] = Idle
            /\ pos' = [pos EXCEPT ![consumer[c].level] = consumer[c].offset + 1]
        BY <1>1, <3>1, LeaveEffect DEF Stationed, OwnersInPlace
      <3> QED
        BY <3>2 DEF TInv, TypeOK, LaneTypeOK
    <2>2. PICK t \in Topics : /\ log' = [log EXCEPT ![t] = Append(@, e)]
                              /\ t = Dlt \/ t = consumer[c].level + 1
      <3>1. consumer[c].level + 1 \in Topics /\ Dlt \in Topics
        BY <1>1, LevelsAreTopics
      <3>2. PICK t \in {Dlt, consumer[c].level + 1} : Forward(c, t)
        BY <1>3 DEF Recover
      <3>3. log' = [log EXCEPT ![t] = Append(@, e)]
        BY <3>2 DEF Forward, EventOf
      <3> QED
        BY <3>1, <3>2, <3>3
    <2>3. CASE t = Dlt
      <3>1. Published(t)' = Published(t) \cup {e}
        BY <1>1, <2>2, AppendPublishes
      <3>2. e \in Published(Dlt)'
        BY <2>3, <3>1
      <3> QED
        BY <3>2 DEF Settled
    <2>4. CASE t # Dlt
      <3>1. t \in Levels /\ t # consumer[c].level
        BY <1>1, <2>2, <2>4, AttemptsAssumption DEF Topics, Levels, Dlt
      <3> QED
        BY <1>1, <2>1, <2>2, <3>1, AppendedIsDue
    <2> QED
      BY <2>3, <2>4
  <1>4. CASE \/ Resume(c) \/ GetByType(c) \/ GetByTypeFails(c) \/ SaveFails(c)
             \/ DeleteProcessed(c) \/ DeleteProcessedFails(c) \/ RecoverFails(c)
    <2>1. RecoverFails(c) \/ \E pc \in PC \ {"send"} : Goto(c, pc)
      BY <1>4 DEF Resume, GetByType, GetByTypeFails, SaveFails, DeleteProcessed,
                  DeleteProcessedFails, FirstStep, PC
    <2> QED
      BY <2>1, InHandIsDue
  <1> QED
    BY <1>2, <1>3, <1>4 DEF ListenerStep, SendAlert, SendThrows

LEMMA ListenerKept ==
    ASSUME TInv, Stationed, [Next]_vars, NEW c \in Consumers, ListenerStep(c),
           NEW e, Settled(e) \/ Due(e)
    PROVE  Settled(e)' \/ Due(e)'
  <1>1. Grows
    BY ListenerEffect
  <1>2. CASE Settled(e) /\ (e \in processed => e \in processed')
    BY <1>1, <1>2, SettledStays
  <1>3. CASE Settled(e) /\ ~(e \in processed => e \in processed')
    <2>1. (DeleteProcessed(c) \/ DeleteProcessedFails(c)) /\ e = EventOf(c)
      BY <1>3 DEF ListenerStep, Resume, GetByType, GetByTypeFails, RecordOrdinary, ClaimAlert,
                  SkipDuplicate, SaveFails, SendAlert, SendThrows, DeleteProcessed,
                  DeleteProcessedFails, Recover, RecoverFails, serviceVars
    <2>2. consumer[c].pc # "send"
      BY <2>1 DEF DeleteProcessed, DeleteProcessedFails
    <2> QED
      BY <2>1, <2>2, InHandKept
  <1>4. CASE Due(e)
    <2>1. PICK l \in Levels : \E k \in DOMAIN log[l] : WaitsFor(e, l, k)
      BY <1>4 DEF Due
    <2> PICK k \in DOMAIN log[l] : WaitsFor(e, l, k)
      BY <2>1
    <2>2. CASE l # consumer[c].level \/ k # consumer[c].offset
      BY <2>2, DueElsewhere
    <2>3. CASE l = consumer[c].level /\ k = consumer[c].offset
      <3>1. Busy(c) /\ EventOf(c) = e
        BY <2>3, ListenerEffect DEF WaitsFor
      <3>2. k = pos[l] /\ pos[l] \in Nat
        BY <2>3, <3>1, LanePlaces DEF Stationed, OwnersInPlace
      <3>3. consumer[c].pc # "send"
        BY <2>3, <3>2 DEF WaitsFor, AtSend
      <3> QED
        BY <3>1, <3>3, InHandKept
    <2> QED
      BY <2>2, <2>3
  <1> QED
    BY <1>2, <1>3, <1>4

LEMMA KeptNext == TInv /\ KeptInv /\ [Next]_vars => KeptInv'
  <1> SUFFICES ASSUME TInv, KeptInv, [Next]_vars, rebalances' = 0
               PROVE  Stationed' /\ Kept'
    BY DEF KeptInv
  <1>1. Stationed /\ Kept /\ TInv'
    BY FaultsCount, TInvNext DEF KeptInv
  <1>2. \A l \in Levels : pos[l] \in Nat /\ committed[l] \in Nat
    BY LanePlaces
  <1>3. ASSUME NEW c \in Consumers, ListenerStep(c) PROVE Stationed' /\ Kept'
    <2>1. Published(0)' = Published(0)
      <3>1. consumer[c].level \in Levels /\ EventOf(c) \in Events
        BY <1>3, ListenerEffect
      <3>2. log'[0] = log[0]
        <4>1. CASE Recover(c) \/ (RecoverFails(c) /\ log' # log)
          <5>1. PICK t \in Topics \ {0} : log' = [log EXCEPT ![t] = Append(@, EventOf(c))]
            BY <3>1, <4>1, AttemptsAssumption
               DEF Recover, RecoverFails, Forward, ForwardUnconfirmed, SeekBack, EventOf,
                   Topics, Levels, Dlt
          <5> QED
            BY <5>1, <3>1, AppendPublishes, LevelsAreTopics
        <4>2. CASE ~Recover(c) /\ ~(RecoverFails(c) /\ log' # log)
          BY <1>3, <4>2
             DEF ListenerStep, Resume, GetByType, GetByTypeFails, RecordOrdinary, ClaimAlert,
                 SkipDuplicate, SaveFails, SendAlert, SendThrows, DeleteProcessed,
                 DeleteProcessedFails, RecoverFails, Goto, Finish, SeekBack
        <4> QED
          BY <4>1, <4>2
      <3> QED
        BY <3>2 DEF Published
    <2> QED
      BY <1>1, <1>3, <2>1, ListenerStationed, ListenerKept DEF Kept
  <1>4. ASSUME NEW r \in Events, Arrive(r) PROVE Stationed' /\ Kept'
    <2>1. /\ log' = [log EXCEPT ![0] = Append(@, r)] /\ pos' = pos /\ consumer' = consumer
          /\ processed' = processed /\ 0 \in Levels /\ 0 \in Topics
      BY <1>4, LevelsAreTopics DEF Arrive, Publish, serviceVars
    <2>2. Grows
      BY <1>4, TInvParts, PublishKeepsLane DEF Arrive, Events
    <2>3. ASSUME NEW e \in Published(0) PROVE Settled(e)' \/ Due(e)'
      <3>1. CASE Settled(e)
        BY <2>1, <2>2, <3>1, SettledStays
      <3>2. CASE Due(e)
        BY <1>2, <2>1, <2>2, <3>2, DueStays DEF AtSend
      <3> QED
        BY <1>1, <3>1, <3>2 DEF Kept
    <2>4. Due(r)'
      BY <1>1, <2>1, AppendedIsDue
    <2>5. Published(0)' = Published(0) \cup {r}
      BY <2>1, AppendPublishes
    <2> QED
      BY <1>1, <1>4, <2>3, <2>4, <2>5, ArriveStationed DEF Kept
  <1>5. ASSUME log' = log, processed' = processed,
               \A l \in Levels : pos'[l] \in Nat /\ pos'[l] <= pos[l],
               \A l \in Levels : pos'[l] = pos[l] /\ AtSend(l)' => AtSend(l)
        PROVE  Kept'
    <2>1. Grows /\ Published(0)' = Published(0)
      BY <1>5 DEF Grows, Published
    <2> QED
      BY <1>1, <1>5, <2>1, SettledStays, DueStays DEF Kept
  <1>6. ASSUME NEW c \in Consumers, NEW l \in Levels, Poll(c, l) PROVE Stationed' /\ Kept'
    BY <1>1, <1>2, <1>5, <1>6, PollStationed DEF Poll, serviceVars, AtSend
  <1>7. ASSUME NEW l \in Levels, Commit(l) PROVE Stationed' /\ Kept'
    BY <1>1, <1>2, <1>5, <1>7, CommitStationed DEF Commit, serviceVars, AtSend
  <1>8. ASSUME Crash PROVE Stationed' /\ Kept'
    BY <1>1, <1>2, <1>5, <1>8, CrashStationed
       DEF Crash, AtSend, Idle, Stationed, PositionsInLog
  <1>9. ASSUME UNCHANGED laneVars PROVE Stationed'
    BY <1>1, <1>9 DEF laneVars, Stationed, OwnersInPlace, OnePerLevel, PositionsInLog, Busy
  <1>10. ASSUME NEW i \in DOMAIN sends, ProducerStep(i) \/ UnprocessedStep(i)
         PROVE  Stationed' /\ Kept'
    <2>1. UNCHANGED laneVars
      BY <1>10 DEF ProducerStep, UnprocessedStep, BrokerAppend, Acknowledge, SendFails,
                   HandleUnprocessed, HandleUnprocessedFails
    <2>2. log' = log /\ pos' = pos /\ consumer' = consumer
      BY <2>1 DEF laneVars
    <2>3. Grows /\ Published(0)' = Published(0)
      BY <2>2 DEF Grows, Published
    <2>4. ASSUME NEW e \in Published(0) PROVE Settled(e)' \/ Due(e)'
      <3>1. CASE Settled(e) /\ (e \in processed => e \in processed')
        BY <2>3, <3>1, SettledStays
      <3>2. CASE Settled(e) /\ ~(e \in processed => e \in processed')
        <4>1. MarkHandled(i) /\ sends[i].payload = e
          BY <1>10, <3>2
             DEF ProducerStep, UnprocessedStep, BrokerAppend, Acknowledge, SendFails,
                 HandleUnprocessed, HandleUnprocessedFails
        <4>2. i \in DOMAIN sends' /\ sends'[i].payload = e /\ sends'[i].phase = "handled"
          BY <4>1, TInvParts, PhaseUpdates DEF MarkHandled, Phase
        <4> QED
          BY <4>2 DEF Settled
      <3>3. CASE Due(e)
        BY <1>2, <2>2, <2>3, <3>3, DueStays DEF AtSend
      <3> QED
        BY <1>1, <3>1, <3>2, <3>3 DEF Kept
    <2> QED
      BY <1>9, <2>1, <2>3, <2>4 DEF Kept
  <1>11. CASE UNCHANGED vars
    BY <1>2, <1>5, <1>9, <1>11 DEF vars, laneVars, serviceVars, AtSend
  <1>12. ~\E l \in Levels : Rebalance(l)
    <2>1. rebalances \in Nat
      BY TInvParts, BoundsAssumption DEF RestTypeOK
    <2> QED
      BY <2>1 DEF Rebalance
  <1> QED
    BY <1>3, <1>4, <1>6, <1>7, <1>8, <1>10, <1>11, <1>12 DEF Next, AtRest

LEMMA KeptInit == Init => KeptInv
  <1> SUFFICES ASSUME Init PROVE Stationed /\ Kept
    BY DEF KeptInv
  <1>1. \A t \in Topics : log[t] = <<>>
    BY DEF Init, LaneInit
  <1>2. /\ \A c \in Consumers : consumer[c] = Idle
        /\ \A l \in Levels : pos[l] = 1 /\ committed[l] = 1
    BY DEF Init, LaneInit
  <1>3. Published(0) = {}
    BY <1>1, LevelsAreTopics DEF Published
  <1>4. PositionsInLog
    BY <1>1, <1>2, LevelsAreTopics DEF PositionsInLog
  <1> QED
    BY <1>2, <1>3, <1>4 DEF Stationed, OwnersInPlace, OnePerLevel, Busy, Kept

LEMMA KeptMeansNotLost ==
    ASSUME TInv, KeptInv
    PROVE  NoEventLost
  <1> SUFFICES ASSUME rebalances = 0, NEW e \in Published(0), Due(e)
               PROVE  \E l \in Levels : \E k \in DOMAIN log[l] :
                          log[l][k] = e /\ k >= committed[l]
    BY DEF KeptInv, Kept, Settled, NoEventLost, SendFailed
  <1>1. PICK l \in Levels : \E k \in DOMAIN log[l] : WaitsFor(e, l, k)
    BY DEF Due
  <1>2. PICK k \in DOMAIN log[l] : WaitsFor(e, l, k)
    BY <1>1
  <1>3. committed[l] <= pos[l] /\ committed[l] \in Nat /\ pos[l] \in Nat /\ k \in Nat
    BY <1>1, LanePlaces, LevelsAreTopics DEF KeptInv, Stationed, PositionsInLog
  <1>4. log[l][k] = e /\ k >= pos[l]
    BY <1>2, <1>3 DEF WaitsFor
  <1> QED
    BY <1>3, <1>4

\* While partitions stay with their owners, whatever else fails, an event that
\* arrived is at or after the committed offset of some level, or marked, or in
\* the DLT, or its alert failed after the producer had accepted it.
THEOREM NothingLost == Spec => []NoEventLost
  <1>1. Spec => []KeptInv
    BY KeptInit, KeptNext, TInvAlways, PTL DEF Spec
  <1>2. TInv /\ KeptInv => NoEventLost
    BY KeptMeansNotLost
  <1> QED
    BY <1>1, <1>2, TInvAlways, PTL

-----------------------------------------------------------------------------
(***************************************************************************)
(* Processed like a queue, until the first fault and the first rebalance.  *)
(* Until then only records nobody is to be alerted of reach the retry      *)
(* topics, so that alerts are sent for the main topic's records, in its    *)
(* order: an alert is out only when everything before its measurement is   *)
(* marked, and what is marked is not alerted of again after a crash.       *)
(***************************************************************************)
Producer == INSTANCE KafkaProducerProofs WITH Payloads <- Events, QueueOf <- AlertQueue

Quiet == dbFaults = 0 /\ kafkaFaults = 0 /\ rebalances = 0

Alertable(e) == Exceeds(e) /\ e \notin PoisonPills

MarkedBelow(n) ==
    \A k \in DOMAIN log[0] : k < n /\ Alertable(log[0][k]) => log[0][k] \in processed

ArrivedOnce == \A i, j \in DOMAIN log[0] : log[0][i] = log[0][j] => i = j

\* An alert is of a record of the main topic behind which nothing is left.
AlertsInTurn ==
    \A i \in DOMAIN sends : \E k \in DOMAIN log[0] :
        /\ sends[i].payload = log[0][k]
        /\ log[0][k] \in processed
        /\ MarkedBelow(k)

AlertsInOrder ==
    \A i, j \in DOMAIN sends : \A k, m \in DOMAIN log[0] :
        i < j /\ sends[i].payload = log[0][k] /\ sends[j].payload = log[0][m] => k < m

\* So is the one that is about to be sent.
NextInTurn ==
    \A c \in Consumers : consumer[c].pc = "send" =>
        /\ EventOf(c) \in processed
        /\ MarkedBelow(consumer[c].offset)
        /\ \A i \in DOMAIN sends : \A k \in DOMAIN log[0] :
              sends[i].payload = log[0][k] => k < consumer[c].offset

NothingFailed == \A i \in DOMAIN sends : sends[i].phase # "failed"

Ordered ==
    /\ ArrivedOnce /\ MarkedBelow(pos[0]) /\ NothingFailed
    /\ AlertsInTurn /\ AlertsInOrder /\ NextInTurn

OrderInv == Quiet => Ordered

LEMMA QuietCounts ==
    ASSUME TInv, [Next]_vars, Quiet'
    PROVE  /\ Quiet /\ Faults = 0
           /\ ~DbFault /\ ~KafkaFault /\ \A l \in Levels : ~Rebalance(l)
  <1>1. /\ dbFaults' = 0 /\ kafkaFaults' = 0 /\ rebalances' = 0
    BY DEF Quiet
  <1>2. Faults' = 0
    BY <1>1 DEF Faults
  <1>3. Faults = 0 /\ ~DbFault /\ ~KafkaFault /\ rebalances = 0
    BY <1>1, <1>2, FaultsCount
  <1>4. dbFaults \in Nat /\ kafkaFaults \in Nat
    BY TInvParts, BoundsAssumption DEF RestTypeOK
  <1>5. dbFaults = 0 /\ kafkaFaults = 0
    BY <1>3, <1>4 DEF Faults
  <1> QED
    BY <1>1, <1>3, <1>5 DEF Quiet, Rebalance

\* Without a fault, the alert path is at the main topic.
LEMMA ClaimsAtMain ==
    ASSUME TInv, EarnedInv, OnlyExceeding, Faults = 0, NEW c \in Consumers
    PROVE  /\ consumer[c].pc \in {"save", "send"} /\ Exceeds(EventOf(c)) =>
                  consumer[c].level = 0 /\ EventOf(c) \notin PoisonPills
           /\ consumer[c].pc # "delete"
           /\ consumer[c].pc = "failed" => ~Exceeds(EventOf(c))
           /\ consumer[c].pc = "fatal" => EventOf(c) \in PoisonPills
           /\ consumer[c].pc = "send" => Exceeds(EventOf(c))
  <1>1. Failing(c)
    BY DEF EarnedInv
  <1>2. ASSUME consumer[c].pc \in {"save", "send"}, Exceeds(EventOf(c))
        PROVE  consumer[c].level = 0 /\ EventOf(c) \notin PoisonPills
    <2>1. /\ EventOf(c) \in Published(consumer[c].level) \ PoisonPills
          /\ consumer[c].level \in Topics
      BY <1>1, <1>2, InHand DEF Failing, PC
    <2>2. Faults >= consumer[c].level
      BY <1>2, <2>1 DEF EarnedInv, EarnedTopics, EveryLevelFailed, Exceeds
    <2> QED
      BY <2>1, <2>2, AttemptsAssumption DEF Topics
  <1>3. ASSUME consumer[c].pc \in {"failed", "delete"}, HasThreshold(EventOf(c)) PROVE FALSE
    <2>1. consumer[c].level \in Topics
      BY <1>3, InHand DEF PC
    <2> QED
      BY <1>1, <1>3, <2>1, AttemptsAssumption DEF Failing, Topics
  <1>4. consumer[c].pc \in {"send", "delete"} => Exceeds(EventOf(c))
    BY DEF OnlyExceeding, Claims
  <1> QED
    BY <1>1, <1>2, <1>3, <1>4 DEF Failing, Exceeds

\* Marks come, the main topic stays, no alert is added and no thread is sent off.
LEMMA TameKeepsOrdered ==
    ASSUME Ordered, log'[0] = log[0], processed \subseteq processed', MarkedBelow(pos[0])',
           NothingFailed', DOMAIN sends' = DOMAIN sends,
           \A i \in DOMAIN sends : sends'[i].payload = sends[i].payload,
           \A c \in Consumers : consumer'[c].pc = "send" =>
               /\ consumer[c].pc = "send"
               /\ consumer'[c].offset = consumer[c].offset
               /\ EventOf(c)' = EventOf(c)
    PROVE  Ordered'
  <1>1. ArrivedOnce'
    BY DEF Ordered, ArrivedOnce
  <1>2. AlertsInOrder'
    BY DEF Ordered, AlertsInOrder
  <1>3. ASSUME NEW n, MarkedBelow(n) PROVE MarkedBelow(n)'
    BY <1>3 DEF MarkedBelow, Alertable, Exceeds, HasThreshold
  <1>4. AlertsInTurn'
    BY <1>3 DEF Ordered, AlertsInTurn
  <1>5. NextInTurn'
    <2> SUFFICES ASSUME NEW c \in Consumers, consumer'[c].pc = "send"
                 PROVE  /\ EventOf(c)' \in processed'
                        /\ MarkedBelow(consumer[c].offset)'
                        /\ \A i \in DOMAIN sends' : \A k \in DOMAIN log'[0] :
                              sends'[i].payload = log'[0][k] => k < consumer'[c].offset
      BY DEF NextInTurn
    <2>1. PICK n : n = consumer[c].offset /\ n = consumer'[c].offset
      OBVIOUS
    <2>2. /\ EventOf(c) \in processed /\ MarkedBelow(n)
          /\ \A i \in DOMAIN sends : \A k \in DOMAIN log[0] :
                sends[i].payload = log[0][k] => k < n
      BY <2>1 DEF Ordered, NextInTurn
    <2>3. MarkedBelow(n)'
      BY <1>3, <2>2
    <2>4. MarkedBelow(consumer[c].offset)'
      BY <2>1, <2>3 DEF MarkedBelow
    <2> QED
      BY <2>1, <2>2, <2>4
  <1> QED
    BY <1>1, <1>2, <1>4, <1>5 DEF Ordered

\* A record in hand at the main topic is its container's next.
LEMMA InHandAtMain ==
    ASSUME TInv, Stationed, NEW c \in Consumers, ListenerStep(c), consumer[c].level = 0
    PROVE  /\ consumer[c].offset = pos[0] /\ pos[0] \in DOMAIN log[0] /\ pos[0] \in Nat
           /\ EventOf(c) = log[0][pos[0]]
  <1>1. /\ Busy(c) /\ consumer[c].offset \in DOMAIN log[0]
        /\ EventOf(c) = log[0][consumer[c].offset]
    BY ListenerEffect
  <1> QED
    BY <1>1, LanePlaces, LevelsAreTopics DEF Stationed, OwnersInPlace

LEMMA ClaimKeepsOrdered ==
    ASSUME TInv, EarnedInv, OnlyExceeding, Stationed, Faults = 0, Ordered,
           NEW c \in Consumers, ClaimAlert(c)
    PROVE  Ordered'
  <1>1. ListenerStep(c) /\ consumer[c].pc \in PC
    BY DEF ListenerStep, ClaimAlert, PC
  <1>2. PICK n \in DOMAIN log[0] : /\ n = consumer[c].offset /\ n = pos[0] /\ n \in Nat
                                   /\ EventOf(c) = log[0][n]
                                   /\ Alertable(log[0][n])
    BY <1>1, ClaimsAtMain, InHandAtMain DEF ClaimAlert, Alertable
  <1>3. /\ log[0][n] \notin processed /\ processed' = processed \cup {log[0][n]}
        /\ sends' = sends
    BY <1>2 DEF ClaimAlert
  <1>4. Goto(c, "send") /\ "send" \in PC
    BY DEF ClaimAlert, PC
  <1>5. /\ consumer'[c].offset = n /\ EventOf(c)' = log[0][n]
        /\ \A d \in Consumers \ {c} : consumer'[d] = consumer[d]
        /\ log' = log /\ pos' = pos
    BY <1>1, <1>2, <1>4, GotoEffect, GotoMoves
  <1>6. ASSUME NEW m, MarkedBelow(m) PROVE MarkedBelow(m)'
    BY <1>3, <1>5, <1>6 DEF MarkedBelow, Alertable, Exceeds, HasThreshold
  <1>7. MarkedBelow(pos[0])'
    BY <1>3, <1>5 DEF Ordered, MarkedBelow, Alertable, Exceeds, HasThreshold
  <1>8. ArrivedOnce' /\ AlertsInOrder' /\ NothingFailed'
    BY <1>3, <1>5 DEF Ordered, ArrivedOnce, AlertsInOrder, NothingFailed
  <1>9. AlertsInTurn'
    BY <1>3, <1>5, <1>6 DEF Ordered, AlertsInTurn
  <1>10. ASSUME NEW i \in DOMAIN sends, NEW k \in DOMAIN log[0], sends[i].payload = log[0][k]
         PROVE  k < n
    <2>1. PICK m \in DOMAIN log[0] : /\ sends[i].payload = log[0][m]
                                     /\ log[0][m] \in processed /\ MarkedBelow(m)
      BY DEF Ordered, AlertsInTurn
    <2>2. m = k /\ m # n
      BY <1>3, <1>10, <2>1 DEF Ordered, ArrivedOnce
    <2>3. ~(n < m)
      BY <1>2, <1>3, <2>1 DEF MarkedBelow
    <2>4. k \in Nat
      BY LanePlaces, LevelsAreTopics
    <2> QED
      BY <1>2, <2>2, <2>3, <2>4
  <1>11. NextInTurn'
    <2> SUFFICES ASSUME NEW d \in Consumers, consumer'[d].pc = "send"
                 PROVE  d = c
      <3>1. consumer'[c].pc = "send" =>
               /\ EventOf(c)' \in processed'
               /\ MarkedBelow(consumer[c].offset)'
               /\ \A i \in DOMAIN sends' : \A k \in DOMAIN log'[0] :
                     sends'[i].payload = log'[0][k] => k < consumer'[c].offset
        BY <1>2, <1>3, <1>5, <1>7, <1>10 DEF MarkedBelow
      <3> QED
        BY <3>1 DEF NextInTurn
    <2>1. ASSUME d # c PROVE FALSE
      <3>1. consumer[d].pc = "send" /\ Busy(d) /\ Busy(c)
        BY <1>1, <1>5, <2>1, ListenerEffect DEF Busy, Idle
      <3>2. consumer[d].level = 0 /\ consumer[c].level = 0
        BY <3>1, ClaimsAtMain DEF ClaimAlert
      <3> QED
        BY <2>1, <3>1, <3>2 DEF Stationed, OnePerLevel
    <2> QED
      BY <2>1
  <1> QED
    BY <1>7, <1>8, <1>9, <1>11 DEF Ordered

LEMMA SendKeepsOrdered ==
    ASSUME TInv, EarnedInv, OnlyExceeding, Stationed, Faults = 0, Ordered,
           NEW c \in Consumers, SendAlert(c)
    PROVE  Ordered'
  <1>1. ListenerStep(c) /\ consumer[c].pc = "send" /\ consumer[c].pc \in PC
    BY DEF ListenerStep, SendAlert, PC
  <1>2. PICK n \in DOMAIN log[0] : /\ n = consumer[c].offset /\ n = pos[0] /\ n \in Nat
                                   /\ EventOf(c) = log[0][n]
                                   /\ consumer[c].level = 0
    BY <1>1, ClaimsAtMain, InHandAtMain
  <1>3. /\ log[0][n] \in processed /\ MarkedBelow(n)
        /\ \A i \in DOMAIN sends : \A k \in DOMAIN log[0] : sends[i].payload = log[0][k] => k < n
    BY <1>1, <1>2 DEF Ordered, NextInTurn
  <1>4. PICK s \in Nat : s = Len(sends) + 1
    BY TInvParts DEF ProducerTypeOK
  <1>5. /\ DOMAIN sends' = DOMAIN sends \cup {s}
        /\ \A i \in DOMAIN sends : sends'[i] = sends[i] /\ i < s /\ i \in Nat
        /\ sends'[s].payload = log[0][n] /\ sends'[s].phase = "inflight"
    <2>1. DOMAIN sends \subseteq Nat
      BY TInvParts DEF ProducerTypeOK
    <2>2. /\ DOMAIN sends' = DOMAIN sends \cup {Len(sends) + 1}
          /\ \A i \in DOMAIN sends : sends'[i] = sends[i] /\ i < Len(sends) + 1
          /\ sends'[Len(sends) + 1].payload = EventOf(c)
          /\ sends'[Len(sends) + 1].phase = "inflight"
      BY SendAlertAppends
    <2> QED
      BY <1>2, <1>4, <2>1, <2>2
  <1>6. processed' = processed /\ log' = log
    BY DEF SendAlert, Finish
  <1>7. /\ \A d \in Consumers \ {c} : consumer'[d] = consumer[d]
        /\ consumer'[c] = Idle
        /\ pos' = [pos EXCEPT ![0] = n + 1]
    <2>1. Leave(c) /\ consumer[c].owns /\ Busy(c)
      BY <1>1, ListenerEffect DEF SendAlert, Finish, Stationed, OwnersInPlace
    <2> QED
      BY <1>1, <1>2, <2>1, LeaveEffect
  <1>8. pos'[0] = n + 1
    BY <1>7, LevelsAreTopics DEF TInv, TypeOK, LaneTypeOK
  <1>9. ASSUME NEW m, MarkedBelow(m) PROVE MarkedBelow(m)'
    BY <1>6, <1>9 DEF MarkedBelow, Alertable, Exceeds, HasThreshold
  <1>10. MarkedBelow(pos[0])'
    <2>1. \A k \in DOMAIN log[0] : k < n + 1 => k < n \/ k = n
      BY <1>2, LanePlaces, LevelsAreTopics
    <2> QED
      BY <1>3, <1>6, <1>8, <2>1 DEF MarkedBelow, Alertable, Exceeds, HasThreshold
  <1>11. ArrivedOnce' /\ NothingFailed'
    BY <1>5, <1>6 DEF Ordered, ArrivedOnce, NothingFailed
  <1>12. AlertsInTurn'
    BY <1>3, <1>5, <1>6, <1>9 DEF Ordered, AlertsInTurn
  <1>13. AlertsInOrder'
    <2> SUFFICES ASSUME NEW i \in DOMAIN sends', NEW j \in DOMAIN sends',
                        NEW k \in DOMAIN log[0], NEW m \in DOMAIN log[0],
                        i < j, sends'[i].payload = log[0][k], sends'[j].payload = log[0][m]
                 PROVE  k < m
      BY <1>6 DEF AlertsInOrder
    <2>1. i \in DOMAIN sends
      BY <1>4, <1>5
    <2>2. CASE j = s
      <3>1. m = n
        BY <1>5, <2>2 DEF Ordered, ArrivedOnce
      <3> QED
        BY <1>3, <1>5, <2>1, <3>1
    <2>3. CASE j \in DOMAIN sends
      BY <1>5, <2>1, <2>3 DEF Ordered, AlertsInOrder
    <2> QED
      BY <1>5, <2>2, <2>3
  <1>14. NextInTurn'
    <2> SUFFICES ASSUME NEW d \in Consumers, consumer'[d].pc = "send" PROVE FALSE
      BY DEF NextInTurn
    <2>1. d # c /\ consumer[d].pc = "send"
      BY <1>7 DEF Idle
    <2>2. consumer[d].level = 0 /\ Busy(c) /\ Busy(d)
      BY <1>1, <2>1, ClaimsAtMain DEF Busy, Idle
    <2> QED
      BY <1>2, <2>1, <2>2 DEF Stationed, OnePerLevel
  <1> QED
    BY <1>10, <1>11, <1>12, <1>13, <1>14 DEF Ordered

\* A thread through with a record of the main topic leaves nothing behind it.
LEMMA LeavingKeepsOrdered ==
    ASSUME TInv, EarnedInv, OnlyExceeding, Stationed, Faults = 0, Ordered, NEW c \in Consumers,
           RecordOrdinary(c) \/ SkipDuplicate(c) \/ Recover(c)
    PROVE  Ordered'
  <1>1. ListenerStep(c) /\ consumer[c].pc \in PC
    BY DEF ListenerStep, RecordOrdinary, SkipDuplicate, Recover, PC
  <1>2. /\ Busy(c) /\ consumer[c].owns /\ consumer[c].level \in Levels /\ EventOf(c) \in Events
        /\ \A d \in Consumers \ {c} : consumer'[d] = consumer[d]
        /\ Grows
    BY <1>1, ListenerEffect DEF Stationed, OwnersInPlace
  <1>3. Leave(c) /\ sends' = sends
    BY DEF RecordOrdinary, SkipDuplicate, Recover, Finish, Forward, serviceVars
  <1>4. /\ consumer'[c] = Idle
        /\ pos' = [pos EXCEPT ![consumer[c].level] = consumer[c].offset + 1]
    BY <1>1, <1>2, <1>3, LeaveEffect
  <1>5. processed \subseteq processed' /\ (Alertable(EventOf(c)) => EventOf(c) \in processed')
    BY ClaimsAtMain DEF RecordOrdinary, SkipDuplicate, Recover, serviceVars, Alertable
  <1>6. log'[0] = log[0]
    <2>1. CASE Recover(c)
      <3>1. PICK t \in Topics \ {0} : log' = [log EXCEPT ![t] = Append(@, EventOf(c))]
        BY <1>2, <2>1, AttemptsAssumption DEF Recover, Forward, EventOf, Topics, Levels, Dlt
      <3> QED
        BY <1>2, <3>1, AppendPublishes, LevelsAreTopics
    <2>2. CASE ~Recover(c)
      BY <2>2 DEF RecordOrdinary, SkipDuplicate, Finish
    <2> QED
      BY <2>1, <2>2
  <1>7. MarkedBelow(pos[0])'
    <2>1. CASE consumer[c].level = 0
      <3>1. PICK n \in DOMAIN log[0] : n = consumer[c].offset /\ n = pos[0] /\ EventOf(c) = log[0][n]
        BY <1>1, <2>1, InHandAtMain
      <3>2. pos'[0] = n + 1
        BY <1>4, <2>1, <3>1, LevelsAreTopics DEF TInv, TypeOK, LaneTypeOK
      <3>3. \A k \in DOMAIN log[0] : k < n + 1 => k < n \/ k = n
        BY LanePlaces, LevelsAreTopics
      <3> QED
        BY <1>5, <1>6, <3>1, <3>2, <3>3 DEF Ordered, MarkedBelow, Alertable, Exceeds, HasThreshold
    <2>2. CASE consumer[c].level # 0
      <3>1. pos'[0] = pos[0]
        BY <1>4, <2>2, LevelsAreTopics DEF TInv, TypeOK, LaneTypeOK
      <3> QED
        BY <1>5, <1>6, <3>1 DEF Ordered, MarkedBelow, Alertable, Exceeds, HasThreshold
    <2> QED
      BY <2>1, <2>2
  <1>8. \A d \in Consumers : consumer'[d].pc = "send" =>
            /\ consumer[d].pc = "send" /\ consumer'[d].offset = consumer[d].offset
            /\ EventOf(d)' = EventOf(d)
    BY <1>2, <1>4, SameEvent DEF Idle, PC
  <1> QED
    BY <1>3, <1>5, <1>6, <1>7, <1>8, TameKeepsOrdered DEF Ordered, NothingFailed

LEMMA ArriveKeepsOrdered ==
    ASSUME TInv, EarnedInv, OnlyExceeding, Stationed, Faults = 0, Ordered,
           NEW e \in Events, Arrive(e)
    PROVE  Ordered'
  <1>1. PICK n \in Nat : n = Len(log[0]) + 1
    BY LanePlaces, LevelsAreTopics
  <1>2. /\ pos' = pos /\ consumer' = consumer /\ processed' = processed /\ sends' = sends
        /\ log' = [log EXCEPT ![0] = Append(@, e)] /\ e \notin Published(0)
    BY DEF Arrive, Publish, serviceVars
  <1>3. log[0] \in Seq(Events) /\ log'[0] = Append(log[0], e)
    BY <1>2, LanePlaces, LevelsAreTopics DEF TInv, TypeOK, LaneTypeOK
  <1>4. /\ DOMAIN log'[0] = DOMAIN log[0] \cup {n} /\ log'[0][n] = e
        /\ \A k \in DOMAIN log[0] : log'[0][k] = log[0][k] /\ log[0][k] # e /\ k < n /\ k \in Nat
    BY <1>1, <1>2, <1>3 DEF Published
  <1>5. ASSUME NEW m \in Nat, m <= n, MarkedBelow(m) PROVE MarkedBelow(m)'
    BY <1>2, <1>4, <1>5 DEF MarkedBelow, Alertable, Exceeds, HasThreshold
  <1>6. ArrivedOnce'
    BY <1>4 DEF Ordered, ArrivedOnce
  <1>7. MarkedBelow(pos[0])'
    <2>1. PICK m \in Nat : m = pos[0]
      BY LanePlaces, LevelsAreTopics
    <2>2. m <= n /\ MarkedBelow(m)
      BY <1>1, <2>1, LevelsAreTopics DEF Ordered, Stationed, PositionsInLog
    <2>3. MarkedBelow(m)'
      BY <1>5, <2>2
    <2> QED
      BY <1>2, <2>1, <2>3 DEF MarkedBelow
  <1>8. \A i \in DOMAIN sends : sends[i].payload # e
    BY <1>4 DEF Ordered, AlertsInTurn
  <1>9. AlertsInTurn'
    <2>1. \A k \in DOMAIN log[0] : MarkedBelow(k) => MarkedBelow(k)'
      BY <1>4, <1>5
    <2> QED
      BY <1>2, <1>4, <2>1 DEF Ordered, AlertsInTurn
  <1>10. AlertsInOrder' /\ NothingFailed'
    BY <1>2, <1>4, <1>8 DEF Ordered, AlertsInOrder, NothingFailed
  <1>11. NextInTurn'
    <2> SUFFICES ASSUME NEW c \in Consumers, consumer[c].pc = "send"
                 PROVE  /\ EventOf(c)' \in processed
                        /\ MarkedBelow(consumer[c].offset)'
                        /\ \A i \in DOMAIN sends : \A k \in DOMAIN log'[0] :
                              sends[i].payload = log'[0][k] => k < consumer[c].offset
      BY <1>2 DEF NextInTurn
    <2>1. Grows
      BY TInvParts, PublishKeepsLane DEF Arrive, Events
    <2>2. EventOf(c)' = EventOf(c)
      BY <1>2, <2>1, SameEvent DEF PC
    <2>3. PICK m \in Nat : m = consumer[c].offset /\ m <= n
      <3>1. Busy(c) /\ consumer[c].level = 0
        BY ClaimsAtMain DEF Busy, Idle
      <3>2. consumer[c].offset \in DOMAIN log[0]
        BY <3>1, TInvParts, BusyThread
      <3> QED
        BY <1>4, <3>2
    <2>4. /\ EventOf(c) \in processed /\ MarkedBelow(m)
          /\ \A i \in DOMAIN sends : \A k \in DOMAIN log[0] :
                sends[i].payload = log[0][k] => k < m
      BY <2>3 DEF Ordered, NextInTurn
    <2>5. MarkedBelow(m)'
      BY <1>5, <2>3, <2>4
    <2>6. MarkedBelow(consumer[c].offset)'
      BY <1>2, <2>3, <2>5 DEF MarkedBelow
    <2>7. \A i \in DOMAIN sends : \A k \in DOMAIN log'[0] : sends[i].payload = log'[0][k] => k < m
      BY <1>4, <1>8, <2>4
    <2> QED
      BY <1>2, <2>2, <2>3, <2>4, <2>6, <2>7
  <1> QED
    BY <1>6, <1>7, <1>9, <1>10, <1>11 DEF Ordered

LEMMA OrderNext ==
    TInv /\ EarnedInv /\ OnlyExceeding /\ KeptInv /\ OrderInv /\ [Next]_vars => OrderInv'
  <1> SUFFICES ASSUME TInv, EarnedInv, OnlyExceeding, KeptInv, OrderInv, [Next]_vars, Quiet'
               PROVE  Ordered'
    BY DEF OrderInv
  <1>1. Ordered /\ Stationed /\ Faults = 0 /\ ~DbFault /\ ~KafkaFault /\ \A l \in Levels : ~Rebalance(l)
    BY QuietCounts DEF OrderInv, KeptInv, Quiet
  <1>2. ASSUME NEW e \in Events, Arrive(e) PROVE Ordered'
    BY <1>1, <1>2, ArriveKeepsOrdered
  <1>3. ASSUME NEW c \in Consumers, ListenerStep(c) PROVE Ordered'
    <2>1. CASE Resume(c) \/ GetByType(c)
      <3>1. PICK pc \in PC \ {"send"} : Goto(c, pc)
        BY <2>1 DEF Resume, GetByType, FirstStep, PC
      <3>2. /\ log' = log /\ pos' = pos /\ processed' = processed /\ sends' = sends
            /\ consumer'[c].pc # "send"
            /\ Grows /\ \A d \in Consumers \ {c} : consumer'[d] = consumer[d]
        BY <1>3, <2>1, <3>1, ListenerEffect, GotoEffect DEF Resume, GetByType, serviceVars
      <3>3. \A d \in Consumers : consumer'[d].pc = "send" =>
               /\ consumer[d].pc = "send" /\ consumer'[d].offset = consumer[d].offset
               /\ EventOf(d)' = EventOf(d)
        BY <3>2, SameEvent DEF PC
      <3>4. MarkedBelow(pos[0])' /\ NothingFailed'
        BY <1>1, <3>2 DEF Ordered, MarkedBelow, NothingFailed, Alertable, Exceeds, HasThreshold
      <3> QED
        BY <1>1, <3>2, <3>3, <3>4, TameKeepsOrdered
    <2>2. ~DeleteProcessed(c)
      BY <1>1, ClaimsAtMain DEF DeleteProcessed
    <2> QED
      BY <1>1, <1>3, <2>1, <2>2, ClaimKeepsOrdered, SendKeepsOrdered, LeavingKeepsOrdered
         DEF ListenerStep, GetByTypeFails, SaveFails, SendThrows, DeleteProcessedFails, RecoverFails
  <1>4. ASSUME log' = log, processed' = processed, pos'[0] <= pos[0], pos'[0] \in Nat, NothingFailed',
               DOMAIN sends' = DOMAIN sends,
               \A i \in DOMAIN sends : sends'[i].payload = sends[i].payload,
               \A c \in Consumers : consumer'[c].pc = "send" => consumer'[c] = consumer[c]
        PROVE  Ordered'
    <2>1. MarkedBelow(pos[0])'
      <3>1. \A k \in DOMAIN log[0] : k < pos'[0] => k < pos[0]
        BY <1>4, LanePlaces, LevelsAreTopics
      <3> QED
        BY <1>1, <1>4, <3>1 DEF Ordered, MarkedBelow, Alertable, Exceeds, HasThreshold
    <2>2. \A c \in Consumers : consumer'[c].pc = "send" => EventOf(c)' = EventOf(c)
      BY <1>4 DEF EventOf, RecordOf
    <2> QED
      BY <1>1, <1>4, <2>1, <2>2, TameKeepsOrdered
  <1>5. pos[0] \in Nat /\ pos[0] <= pos[0]
    BY LanePlaces, LevelsAreTopics
  <1>6. ASSUME NEW c \in Consumers, NEW l \in Levels, Poll(c, l) PROVE Ordered'
    <2>1. sends' = sends /\ processed' = processed
      BY <1>6 DEF Poll, serviceVars
    <2>2. NothingFailed'
      BY <1>1, <2>1 DEF Ordered, NothingFailed
    <2> QED
      BY <1>1, <1>4, <1>5, <1>6, <2>1, <2>2, PollStationed
  <1>7. ASSUME NEW i \in DOMAIN sends, ProducerStep(i) PROVE Ordered'
    <2>1. UNCHANGED laneVars /\ processed' = processed
      BY <1>7 DEF ProducerStep, BrokerAppend, Acknowledge, SendFails
    <2>2. BrokerAppend(i) \/ Acknowledge(i)
      BY <1>1, <1>7 DEF ProducerStep, SendFails
    <2>3. /\ DOMAIN sends' = DOMAIN sends
          /\ sends'[i].payload = sends[i].payload
          /\ \A j \in DOMAIN sends \ {i} : sends'[j] = sends[j]
      BY <1>7, AlertMoves
    <2>4. sends'[i].phase # "failed"
      BY <2>2, TInvParts, WriteUpdates, PhaseUpdates
         DEF BrokerAppend, Acknowledge, SucceedSend, Phase
    <2>5. NothingFailed'
      BY <1>1, <2>3, <2>4 DEF Ordered, NothingFailed
    <2> QED
      BY <1>4, <1>5, <2>1, <2>3, <2>5 DEF laneVars
  <1>8. ASSUME NEW i \in DOMAIN sends, UnprocessedStep(i) PROVE FALSE
    BY <1>1, <1>8 DEF UnprocessedStep, HandleUnprocessed, HandleUnprocessedFails, MarkHandled,
                      Ordered, NothingFailed
  <1>9. ASSUME NEW l \in Levels, Commit(l) PROVE Ordered'
    <2>1. sends' = sends /\ processed' = processed
      BY <1>9 DEF Commit, serviceVars
    <2>2. NothingFailed'
      BY <1>1, <2>1 DEF Ordered, NothingFailed
    <2> QED
      BY <1>1, <1>4, <1>5, <1>9, <2>1, <2>2, CommitStationed
  <1>10. ASSUME Crash PROVE Ordered'
    <2>1. /\ log' = log /\ pos' = committed /\ processed' = processed
          /\ \A c \in Consumers : consumer'[c].pc # "send"
      BY <1>1, <1>10, CrashStationed DEF Crash, Idle
    <2>2. committed[0] \in Nat /\ committed[0] <= pos[0]
      BY <1>1, LanePlaces, LevelsAreTopics DEF Stationed, PositionsInLog
    <2>3. /\ DOMAIN sends' = DOMAIN sends
          /\ \A i \in DOMAIN sends : sends'[i].payload = sends[i].payload
          /\ NothingFailed'
      BY <1>1, <1>10, TInvParts, LoseKeepsPayloads DEF Crash, Ordered, NothingFailed
    <2> QED
      BY <1>4, <2>1, <2>2, <2>3
  <1>11. ASSUME UNCHANGED vars PROVE Ordered'
    <2>1. NothingFailed' /\ UNCHANGED laneVars /\ UNCHANGED serviceVars
      BY <1>1, <1>11 DEF Ordered, NothingFailed, vars, serviceVars
    <2> QED
      BY <1>4, <1>5, <2>1 DEF laneVars, serviceVars
  <1> QED
    BY <1>1, <1>2, <1>3, <1>6, <1>7, <1>8, <1>9, <1>10, <1>11 DEF Next, AtRest

LEMMA OrderInit == Init => OrderInv
  <1> SUFFICES ASSUME Init PROVE Ordered
    BY DEF OrderInv
  <1>1. /\ DOMAIN log[0] = {} /\ DOMAIN sends = {}
        /\ \A c \in Consumers : consumer[c].pc = "idle"
    BY LevelsAreTopics DEF Init, LaneInit, ProducerInit, Idle
  <1> QED
    BY <1>1 DEF Ordered, ArrivedOnce, MarkedBelow, NothingFailed, AlertsInTurn, AlertsInOrder,
                NextInTurn

-----------------------------------------------------------------------------
(* What the service does to its producer is what a producer may be asked.  *)

LEMMA SameProducer ==
    /\ ProducerInit <=> Producer!ProducerInit
    /\ \A e \in Events : Accept(e) <=> Producer!Accept(e)
    /\ \A i \in DOMAIN sends : /\ Write(i) <=> Producer!Write(i)
                               /\ SucceedSend(i) <=> Producer!SucceedSend(i)
                               /\ FailSend(i) <=> Producer!FailSend(i)
                               /\ MarkHandled(i) <=> Producer!MarkHandled(i)
    /\ LoseProducer <=> Producer!LoseProducer
    /\ \A i, j \in DOMAIN sends : Precedes(i, j) <=> Producer!Precedes(i, j)
  <1>1. ProducerInit <=> Producer!ProducerInit
    BY DEF ProducerInit, Producer!ProducerInit
  <1>2. \A e \in Events : Accept(e) <=> Producer!Accept(e)
    BY DEF Accept, Producer!Accept
  <1>3. \A i \in DOMAIN sends : /\ SucceedSend(i) <=> Producer!SucceedSend(i)
                                /\ FailSend(i) <=> Producer!FailSend(i)
                                /\ MarkHandled(i) <=> Producer!MarkHandled(i)
    BY DEF SucceedSend, Producer!SucceedSend, FailSend, Producer!FailSend, MarkHandled,
           Producer!MarkHandled, Written, Producer!Written
  <1>4. LoseProducer <=> Producer!LoseProducer
    BY DEF LoseProducer, Producer!LoseProducer, Pending, Producer!Pending
  <1>5. \A i, j \in DOMAIN sends : Precedes(i, j) <=> Producer!Precedes(i, j)
    BY DEF Precedes, Producer!Precedes, Written, Producer!Written, Queue, Producer!Queue
  <1>6. ASSUME NEW i \in DOMAIN sends PROVE Write(i) <=> Producer!Write(i)
    <2>1. Producer!Cardinality({j \in Queue(i) : Written(j)}) = Cardinality({j \in Queue(i) : Written(j)})
      BY DEF Producer!Cardinality, Cardinality
    <2> QED
      BY <2>1 DEF Write, Producer!Write, Waiting, Producer!Waiting, Written, Producer!Written,
             Queue, Producer!Queue
  <1> QED
    BY <1>1, <1>2, <1>3, <1>4, <1>5, <1>6

LEMMA ProducerRuns ==
    ASSUME TInv, [Next]_vars
    PROVE  [Producer!ProducerNext]_sends
  <1>1. CASE QuietStep
    BY <1>1, QuietSteps
  <1>2. ASSUME NEW c \in Consumers, SendAlert(c) PROVE Producer!ProducerNext
    <2>1. EventOf(c) \in Events
      BY <1>2, AtWork DEF SendAlert, PC
    <2>2. Producer!Accept(EventOf(c))
      BY <1>2, <2>1, SameProducer DEF SendAlert
    <2> QED
      BY <2>1, <2>2 DEF Producer!ProducerNext
  <1>3. ASSUME NEW c \in Consumers,
               \/ RecordOrdinary(c) \/ ClaimAlert(c) \/ DeleteProcessed(c)
               \/ GetByTypeFails(c) \/ SaveFails(c) \/ DeleteProcessedFails(c)
        PROVE  sends' = sends
    BY <1>3 DEF RecordOrdinary, ClaimAlert, DeleteProcessed, GetByTypeFails, SaveFails,
                DeleteProcessedFails, serviceVars
  <1>4. ASSUME NEW i \in DOMAIN sends, ProducerStep(i) \/ UnprocessedStep(i)
        PROVE  Producer!ProducerNext
    <2>1. Write(i) \/ SucceedSend(i) \/ FailSend(i) \/ MarkHandled(i)
      BY <1>4 DEF ProducerStep, UnprocessedStep, BrokerAppend, Acknowledge, SendFails,
                  HandleUnprocessed, HandleUnprocessedFails
    <2> QED
      BY <2>1, SameProducer DEF Producer!ProducerNext
  <1>5. ASSUME Crash PROVE Producer!ProducerNext
    BY <1>5, SameProducer DEF Crash, Producer!ProducerNext
  <1> QED
    BY <1>1, <1>2, <1>3, <1>4, <1>5, NextCases DEF UnprocessedStep

LEMMA ProducerImplemented == Spec => Producer!ProducerSpec
  <1>1. Init => Producer!ProducerInit
    BY SameProducer DEF Init
  <1> QED
    BY <1>1, ProducerRuns, TInvAlways, PTL DEF Spec, Producer!ProducerSpec

PartitionsInOrder == \A i, j \in DOMAIN sends : Precedes(i, j) => i < j

LEMMA AlertTopicInOrder == Spec => []PartitionsInOrder
  <1>2. Spec => Producer!ProducerSpec
    BY ProducerImplemented
  <1>3. Producer!PartitionsKeepOrder => PartitionsInOrder
    BY SameProducer DEF PartitionsInOrder, Producer!PartitionsKeepOrder
  <1> QED
    BY <1>2, <1>3, Producer!SendsKeepOrder, PTL

\* No alert has a place beyond the alerts its partition has.
PlacesFilled ==
    \A i \in DOMAIN sends :
        Written(i) => sends[i].offset <= Cardinality({j \in Queue(i) : Written(j)})

LEMMA PlacesAreFilled == Spec => []PlacesFilled
  <1>1. ASSUME Producer!ProducerInv PROVE PlacesFilled
    <2> SUFFICES ASSUME NEW i \in DOMAIN sends, Written(i)
                 PROVE  sends[i].offset <= Cardinality({j \in Queue(i) : Written(j)})
      BY DEF PlacesFilled
    <2>1. Producer!Written(i) /\ Producer!Stored(i) = {j \in Queue(i) : Written(j)}
      BY DEF Producer!Stored, Producer!Queue, Queue, Producer!Written, Written
    <2>2. Producer!Cardinality({j \in Queue(i) : Written(j)}) = Cardinality({j \in Queue(i) : Written(j)})
      BY DEF Producer!Cardinality, Cardinality
    <2> QED
      BY <1>1, <2>1, <2>2 DEF Producer!ProducerInv, Producer!QueuesInOrder
  <1> QED
    BY <1>1, ProducerImplemented, Producer!ProducerInvAlways, PTL

\* The alert that is written goes to the end of its partition.
LEMMA AppendGoesLast ==
    ASSUME TInv, PlacesFilled, NEW i \in DOMAIN sends, BrokerAppend(i)
    PROVE  /\ DOMAIN sends' = DOMAIN sends /\ ~Written(i) /\ Written(i)'
           /\ sends'[i].payload = sends[i].payload /\ sends'[i].offset \in Nat
           /\ \A j \in DOMAIN sends \ {i} : sends'[j] = sends[j]
           /\ \A j \in Queue(i) : Written(j) => sends[j].offset < sends'[i].offset
  <1>0. ProducerTypeOK /\ Write(i)
    BY TInvParts DEF BrokerAppend
  <1>1. PICK place : place = 1 + Cardinality({j \in Queue(i) : Written(j)})
    OBVIOUS
  <1>2. place \in Nat \ {0}
    BY <1>0, <1>1, PlaceIsNat
  <1>3. sends' = [sends EXCEPT ![i].offset = place] /\ ~Written(i)
    BY <1>0, <1>1 DEF Write, Waiting
  <1>4. DOMAIN sends' = DOMAIN sends /\ sends'[i].payload = sends[i].payload
        /\ sends'[i].offset = place /\ \A j \in DOMAIN sends \ {i} : sends'[j] = sends[j]
    BY <1>0, <1>3, SendShape DEF Send
  <1>5. ASSUME NEW j \in Queue(i), Written(j) PROVE sends[j].offset < place
    <2>1. j \in DOMAIN sends /\ Queue(j) = Queue(i)
      BY DEF Queue
    <2>2. sends[j].offset <= Cardinality({k \in Queue(i) : Written(k)})
      BY <1>5, <2>1 DEF PlacesFilled
    <2>3. sends[j].offset \in Nat
      BY <1>0, <2>1, SendShape
    <2>4. Cardinality({k \in Queue(i) : Written(k)}) \in Nat
      <3>1. IsFiniteSet(DOMAIN sends)
        BY <1>0, FS_Interval DEF ProducerTypeOK
      <3> QED
        BY <3>1, FS_Subset, FS_CardinalityType DEF Queue
    <2> QED
      BY <1>1, <2>2, <2>3, <2>4
  <1> QED
    BY <1>2, <1>3, <1>4, <1>5 DEF Written

\* Places in the topic are given by the broker only, and kept; and nobody but
\* the warehouse adds to the main topic.
PlacesStay ==
    /\ \A i \in DOMAIN sends : /\ i \in DOMAIN sends'
                               /\ sends'[i].payload = sends[i].payload
                               /\ sends'[i].offset = sends[i].offset
    /\ \A i \in DOMAIN sends' : Written(i)' => i \in DOMAIN sends

LEMMA NothingWritten ==
    ASSUME ProducerTypeOK,
           \/ \E e \in Events : Accept(e)
           \/ \E i \in DOMAIN sends : SucceedSend(i)
           \/ LoseProducer
           \/ UNCHANGED sends
    PROVE  PlacesStay
  <1>0. DOMAIN sends = 1 .. Len(sends) /\ Len(sends) \in Nat
    BY DEF ProducerTypeOK
  <1>1. CASE \E e \in Events : Accept(e)
    <2>1. PICK e \in Events : Accept(e)
      BY <1>1
    <2>2. /\ DOMAIN sends' = DOMAIN sends \cup {Len(sends) + 1}
          /\ \A i \in DOMAIN sends : sends'[i] = sends[i]
          /\ sends'[Len(sends) + 1] = [payload |-> e, offset |-> 0, phase |-> "inflight"]
      BY <2>1, AcceptAppends
    <2>3. sends'[Len(sends) + 1].offset = 0
      BY <2>2
    <2>4. PICK n : n = Len(sends) + 1
      OBVIOUS
    <2> QED
      BY <2>2, <2>3, <2>4 DEF PlacesStay, Written
  <1>2. CASE \E i \in DOMAIN sends : SucceedSend(i)
    <2>1. PICK i \in DOMAIN sends : sends' = [sends EXCEPT ![i].phase = "acked"]
      BY <1>2 DEF SucceedSend
    <2> QED
      BY <2>1, PhaseUpdates DEF Phase, PlacesStay
  <1>3. CASE LoseProducer
    <2>1. DOMAIN sends' = DOMAIN sends
          /\ \A i \in DOMAIN sends : sends'[i] \in {sends[i], [sends[i] EXCEPT !.phase = "dead"]}
      BY <1>3 DEF LoseProducer
    <2>2. ASSUME NEW i \in DOMAIN sends
          PROVE  sends'[i].payload = sends[i].payload /\ sends'[i].offset = sends[i].offset
      <3>1. sends[i] \in Send
        BY SendShape
      <3> QED
        BY <2>1, <3>1 DEF Send
    <2> QED
      BY <2>1, <2>2 DEF PlacesStay
  <1>4. CASE UNCHANGED sends
    BY <1>4 DEF PlacesStay
  <1> QED
    BY <1>1, <1>2, <1>3, <1>4

LEMMA TopicsStay ==
    ASSUME TInv,
           \/ \E c \in Consumers, l \in Levels : Poll(c, l)
           \/ \E c \in Consumers : ListenerStep(c)
           \/ \E i \in DOMAIN sends : Acknowledge(i)
           \/ \E l \in Levels : Commit(l)
           \/ Crash
           \/ UNCHANGED vars
    PROVE  PlacesStay /\ log'[0] = log[0]
  <1>0. ProducerTypeOK
    BY TInvParts
  <1>1. ASSUME NEW c \in Consumers, NEW l \in Levels, Poll(c, l)
        PROVE  UNCHANGED sends /\ log' = log
    BY <1>1 DEF Poll, Deliver, serviceVars
  <1>2. ASSUME NEW c \in Consumers, ListenerStep(c)
        PROVE  /\ UNCHANGED sends \/ \E e \in Events : Accept(e)
               /\ log'[0] = log[0]
    <2>1. /\ consumer[c].level \in Levels /\ EventOf(c) \in Events
          /\ log \in [Topics -> Seq(Records)]
      BY <1>2, ListenerEffect, TInvParts DEF LaneInv, LaneTypeOK
    <2>2. UNCHANGED sends \/ \E e \in Events : Accept(e)
      <3>1. CASE SendAlert(c)
        BY <2>1, <3>1 DEF SendAlert
      <3> QED
        BY <1>2, <3>1 DEF ListenerStep, Resume, GetByType, GetByTypeFails, RecordOrdinary,
           ClaimAlert, SkipDuplicate, SaveFails, SendThrows, DeleteProcessed,
           DeleteProcessedFails, Recover, RecoverFails, serviceVars
    <2>3. \/ log' = log
          \/ Forward(c, consumer[c].level + 1) \/ ForwardUnconfirmed(c, consumer[c].level + 1)
          \/ Forward(c, Dlt) \/ ForwardUnconfirmed(c, Dlt)
      BY <1>2 DEF ListenerStep, Resume, GetByType, GetByTypeFails, RecordOrdinary, ClaimAlert,
         SkipDuplicate, SaveFails, SendAlert, SendThrows, DeleteProcessed,
         DeleteProcessedFails, Recover, RecoverFails, Goto, Finish, SeekBack
    <2>4. consumer[c].level + 1 # 0 /\ Dlt # 0 /\ 0 \in Topics
      BY <2>1, LevelsAreTopics, AttemptsAssumption DEF Levels, Dlt
    <2>5. ASSUME NEW t, t # 0, Forward(c, t) \/ ForwardUnconfirmed(c, t)
          PROVE  log'[0] = log[0]
      BY <2>1, <2>4, <2>5 DEF Forward, ForwardUnconfirmed
    <2> QED
      BY <2>2, <2>3, <2>4, <2>5
  <1>3. ASSUME NEW i \in DOMAIN sends, Acknowledge(i)
        PROVE  SucceedSend(i) /\ log' = log
    BY <1>3 DEF Acknowledge, laneVars
  <1>4. ASSUME NEW l \in Levels, Commit(l)
        PROVE  UNCHANGED sends /\ log' = log
    BY <1>4 DEF Commit, CommitOffset, serviceVars
  <1>5. ASSUME Crash PROVE LoseProducer /\ log' = log
    BY <1>5 DEF Crash, Restart
  <1>6. ASSUME UNCHANGED vars PROVE UNCHANGED sends /\ log' = log
    BY <1>6 DEF vars, laneVars, serviceVars
  <1> QED
    BY <1>0, <1>1, <1>2, <1>3, <1>4, <1>5, <1>6, NothingWritten

LEMMA OrderMeansQueue ==
    ASSUME OrderInv, PartitionsInOrder, TInv
    PROVE  QueueUntilFirstFault
  <1> SUFFICES ASSUME Ordered, NEW i \in DOMAIN sends, NEW j \in DOMAIN sends, Precedes(i, j)
               PROVE  OffsetOf(sends[i].payload) <= OffsetOf(sends[j].payload)
    BY DEF OrderInv, Quiet, QueueUntilFirstFault, ProcessedLikeAQueue
  <1>1. PICK k \in DOMAIN log[0] : sends[i].payload = log[0][k]
    BY DEF Ordered, AlertsInTurn
  <1>2. PICK m \in DOMAIN log[0] : sends[j].payload = log[0][m]
    BY DEF Ordered, AlertsInTurn
  <1>3. k < m /\ k \in Nat /\ m \in Nat
    BY <1>1, <1>2, LanePlaces, LevelsAreTopics DEF PartitionsInOrder, Ordered, AlertsInOrder
  <1>4. OffsetOf(sends[i].payload) = k /\ OffsetOf(sends[j].payload) = m
    BY <1>1, <1>2 DEF OffsetOf, Ordered, ArrivedOnce
  <1> QED
    BY <1>3, <1>4

LEMMA OrderAlways == Spec => []OrderInv
  <1>1. Spec => [](TInv /\ EarnedInv /\ OnlyExceeding /\ KeptInv)
    BY EarnedInit, EarnedNext, KeptInit, KeptNext, OnlyExceedingInit, OnlyExceedingNext,
       TInvAlways, PTL DEF Spec
  <1> QED
    BY <1>1, OrderInit, OrderNext, PTL DEF Spec

\* Until the first fault and the first rebalance, crashes or not, the alert
\* topic has the alerts of one warehouse and sensor in the order of their
\* measurements.
THEOREM LikeAQueue == Spec => []QueueUntilFirstFault
BY OrderAlways, TInvAlways, AlertTopicInOrder, OrderMeansQueue, PTL

-----------------------------------------------------------------------------
(* Where a measurement is to be found, when nothing fails.                 *)

\* No alert has failed, dealt with or not.
NoFailure == \A i \in DOMAIN sends : sends[i].phase \notin {"failed", "handled"}

NoFailureInv == Quiet => NoFailure

LEMMA NoFailureNext == TInv /\ NoFailureInv /\ [Next]_vars => NoFailureInv'
  <1> SUFFICES ASSUME TInv, NoFailureInv, [Next]_vars, Quiet' PROVE NoFailure'
    BY DEF NoFailureInv
  <1>0. NoFailure /\ ~DbFault /\ ~KafkaFault
    BY QuietCounts DEF NoFailureInv
  <1>1. CASE QuietStep
    BY <1>0, <1>1, QuietSteps DEF NoFailure
  <1>2. ASSUME NEW c \in Consumers, SendAlert(c) PROVE NoFailure'
    BY <1>0, <1>2, SendAlertAppends DEF NoFailure
  <1>3. ASSUME NEW c \in Consumers,
               \/ RecordOrdinary(c) \/ ClaimAlert(c) \/ DeleteProcessed(c)
               \/ GetByTypeFails(c) \/ SaveFails(c) \/ DeleteProcessedFails(c)
        PROVE  NoFailure'
    <2>1. sends' = sends
      BY <1>3 DEF RecordOrdinary, ClaimAlert, DeleteProcessed, GetByTypeFails, SaveFails,
                  DeleteProcessedFails, serviceVars
    <2> QED
      BY <1>0, <2>1 DEF NoFailure
  <1>4. ASSUME NEW i \in DOMAIN sends, BrokerAppend(i) \/ Acknowledge(i) PROVE NoFailure'
    <2>1. CASE BrokerAppend(i)
      BY <1>0, <2>1, WriteUpdates, TInvParts DEF BrokerAppend, NoFailure
    <2>2. CASE Acknowledge(i)
      BY <1>0, <2>2, PhaseUpdates, TInvParts DEF Acknowledge, SucceedSend, Phase, NoFailure
    <2> QED
      BY <1>4, <2>1, <2>2
  <1>5. \A i \in DOMAIN sends : ~MarkHandled(i) /\ ~SendFails(i)
    BY <1>0 DEF MarkHandled, SendFails, NoFailure
  <1>6. CASE Crash
    BY <1>0, <1>6, LoseKeepsPayloads, TInvParts DEF Crash, NoFailure
  <1> QED
    BY <1>1, <1>2, <1>3, <1>4, <1>5, <1>6, NextCases
       DEF ProducerStep, HandleUnprocessed, HandleUnprocessedFails

LEMMA NoFailureAlways == Spec => []NoFailureInv
  <1>1. Init => NoFailureInv
    BY DEF Init, ProducerInit, NoFailureInv, NoFailure
  <1> QED
    BY <1>1, NoFailureNext, TInvAlways, PTL DEF Spec

\* A measurement above its threshold is to be delivered, or its alert is in
\* hand, in the buffer or in the topic, unless a crash took it.
LEMMA ArrivedIsSomewhere ==
    ASSUME NoFailure, NoEventLost, MarkMeansAlert, DltIsEarned, Quiet, crashes \in Nat,
           NEW e \in Published(0), Exceeds(e), e \notin PoisonPills
    PROVE  \/ \E l \in Levels : \E k \in DOMAIN log[l] : log[l][k] = e /\ k >= committed[l]
           \/ \E c \in Consumers : HoldsMark(c, e)
           \/ \E i \in DOMAIN sends : sends[i].payload = e /\ (Waiting(i) \/ Written(i))
           \/ crashes > 0 /\ e \in processed
  <1>1. e \notin Published(Dlt)
    BY AttemptsAssumption DEF DltIsEarned, Exceeds, Quiet
  <1>2. ~SendFailed(e)
    BY DEF SendFailed, NoFailure
  <1>3. ASSUME e \in processed, crashes = 0
        PROVE  \/ \E c \in Consumers : HoldsMark(c, e)
               \/ \E i \in DOMAIN sends : sends[i].payload = e /\ (Waiting(i) \/ Written(i))
    BY <1>3 DEF MarkMeansAlert, Quiet, Pending, NoFailure, Waiting
  <1> QED
    BY <1>1, <1>2, <1>3 DEF NoEventLost, Quiet

-----------------------------------------------------------------------------
(***************************************************************************)
(* Alerting. While the database does not fail, OneOwner says that a mark   *)
(* has one owner, which is why the event's status is well defined and why  *)
(* a step of one thread or alert moves one event.                          *)
(***************************************************************************)
\* What the status of e is read from.
SameSigns(e) ==
    /\ e \in processed' <=> e \in processed
    /\ Claimed(e)' <=> Claimed(e)
    /\ AlertSent(e)' <=> AlertSent(e)
    /\ AlertWritten(e)' <=> AlertWritten(e)
    /\ AlertIn(e, "acked")' <=> AlertIn(e, "acked")
    /\ AlertIn(e, "failed")' <=> AlertIn(e, "failed")

LEMMA SameStatus ==
    ASSUME NEW e, SameSigns(e)
    PROVE  StatusOf(e)' = StatusOf(e)
BY DEF SameSigns, StatusOf, Exceeds, HasThreshold

\* The alerts of e are as they were.
SameAlerts(e) ==
    /\ AlertSent(e)' <=> AlertSent(e)
    /\ AlertWritten(e)' <=> AlertWritten(e)
    /\ AlertIn(e, "acked")' <=> AlertIn(e, "acked")
    /\ AlertIn(e, "failed")' <=> AlertIn(e, "failed")

LEMMA AlertsUntouched ==
    ASSUME NEW e,
           \A i \in DOMAIN sends : sends[i].payload = e =>
               i \in DOMAIN sends' /\ sends'[i] = sends[i],
           \A i \in DOMAIN sends' : sends'[i].payload = e =>
               i \in DOMAIN sends /\ sends'[i] = sends[i]
    PROVE  SameAlerts(e)
<1>1. AlertSent(e)' <=> AlertSent(e)
  BY DEF AlertSent, Waiting, Written
<1>2. AlertWritten(e)' <=> AlertWritten(e)
  BY DEF AlertWritten, Written
<1>3. ASSUME NEW p PROVE AlertIn(e, p)' <=> AlertIn(e, p)
  BY DEF AlertIn
<1> QED
  BY <1>1, <1>2, <1>3 DEF SameAlerts

LEMMA SteadyClaims ==
    ASSUME Steady, NEW e
    PROVE  Claimed(e)' <=> Claimed(e)
BY DEF Steady, Unmoved, Claimed, HoldsMark, Claims

\* A step of thread c is about its own event.
LEMMA OtherClaims ==
    ASSUME NEW c \in Consumers, \A d \in Consumers \ {c} : Unmoved(d),
           Claims(c)' => EventOf(c)' = EventOf(c),
           NEW e, e # EventOf(c)
    PROVE  Claimed(e)' <=> Claimed(e)
BY DEF Unmoved, Claimed, HoldsMark, Claims

\* One event moves: the shape of most steps of Alerting.
LEMMA OneMoves ==
    ASSUME NEW e \in Events, NEW from, NEW to,
           dbFaults = 0, dbFaults' = 0, crashes' = crashes,
           StatusOf(e) \in from, StatusOf(e)' = to,
           \A x \in Events \ {e} : StatusOf(x)' = StatusOf(x)
    PROVE  Promise!Move(e, from, to)
<1>1. StatusBar' = [StatusBar EXCEPT ![e] = to]
  BY DEF StatusBar
<1>2. StatusBar[e] \in from
  BY DEF StatusBar
<1> QED
  BY <1>1, <1>2 DEF Promise!Move

\* An alert that holds its mark is the only live one of its event, and no
\* thread claims that event.
LEMMA SoleAlert ==
    ASSUME OneOwner, TInv, NEW i \in DOMAIN sends, Holds(i)
    PROVE  /\ sends[i].payload \in processed
           /\ ~Claimed(sends[i].payload)
           /\ \A j \in DOMAIN sends \ {i} :
                 sends[j].payload = sends[i].payload => sends[j].phase = "handled"
<1>1. sends[i].payload \in processed
  BY DEF OneOwner, AlertsMarked
<1>2. ~Claimed(sends[i].payload)
  BY DEF OneOwner, ClaimExcludesAlert, Claimed, HoldsMark, Claims
<1>3. ASSUME NEW j \in DOMAIN sends \ {i}, sends[j].payload = sends[i].payload
      PROVE  sends[j].phase = "handled"
  <2>1. i < j \/ j < i
    BY TInvParts DEF ProducerTypeOK
  <2> QED
    BY <1>3, <2>1 DEF OneOwner, OnlyLastHolds, Holds
<1> QED
  BY <1>1, <1>2, <1>3

-----------------------------------------------------------------------------
(* The topic.                                                              *)

LEMMA TopicUntouched ==
    ASSUME \A i \in DOMAIN sends :
               /\ i \in DOMAIN sends'
               /\ sends'[i].payload = sends[i].payload
               /\ sends'[i].offset = sends[i].offset,
           \A i \in DOMAIN sends' : i \in DOMAIN sends \/ ~(sends'[i].offset > 0)
    PROVE  TopicBar' = TopicBar
BY DEF TopicBar, Written

LEMMA TopicHasAlerts ==
    ASSUME TInv, OnlyExceeding
    PROVE  TopicBar \subseteq Promise!Alerts
<1>1. \A i \in DOMAIN sends : i \in Nat \ {0} /\ sends[i].payload \in ExceedingEvents
  BY SendShape, TInvParts DEF ProducerTypeOK, OnlyExceeding, ExceedingEvents
<1> QED
  BY <1>1 DEF TopicBar, Promise!Alerts

-----------------------------------------------------------------------------
(* Steps of a listener thread.                                             *)

LEMMA QuietRefines ==
    ASSUME TInv, QuietStep
    PROVE  UNCHANGED <<StatusBar, TopicBar, dbFaults > 0, crashes>>
<1>1. /\ Steady /\ processed' = processed /\ sends' = sends
      /\ dbFaults' = dbFaults /\ crashes' = crashes
  BY QuietSteps
<1>2. ASSUME NEW e \in Events PROVE StatusOf(e)' = StatusOf(e)
  BY <1>1, SteadyClaims, AlertsUntouched, SameStatus DEF SameAlerts, SameSigns
<1>3. StatusBar' = StatusBar
  BY <1>2 DEF StatusBar
<1>4. TopicBar' = TopicBar
  BY <1>1 DEF TopicBar, Written
<1> QED
  BY <1>1, <1>3, <1>4

LEMMA RecordRefines ==
    ASSUME TInv, dbFaults = 0, NEW c \in Consumers, RecordOrdinary(c)
    PROVE  Promise!Next
<1>0. PICK e \in Events : e = EventOf(c)
  BY AtWork DEF RecordOrdinary, PC
<1>1. /\ e \notin processed /\ ~Exceeds(e)
      /\ processed' = processed \cup {e} /\ sends' = sends
      /\ dbFaults' = 0 /\ crashes' = crashes
  BY <1>0 DEF RecordOrdinary, PC, faultVars
<1>2. ASSUME NEW x \in Events \ {e} PROVE StatusOf(x)' = StatusOf(x)
  BY <1>1, BusySteps, SteadyClaims, AlertsUntouched, SameStatus DEF SameAlerts, SameSigns
<1>3. StatusOf(e) \in {"open"} /\ StatusOf(e)' = "dismissed"
  BY <1>1 DEF StatusOf, Exceeds, HasThreshold
<1>4. Promise!Move(e, {"open"}, "dismissed")
  BY <1>1, <1>2, <1>3, OneMoves
<1>5. TopicBar' = TopicBar
  BY <1>1 DEF TopicBar, Written
<1> QED
  BY <1>1, <1>4, <1>5 DEF Promise!Next, Promise!Dismiss, ExceedingEvents

LEMMA ClaimRefines ==
    ASSUME TInv, dbFaults = 0, NEW c \in Consumers, ClaimAlert(c)
    PROVE  Promise!Next
<1>0. PICK e \in Events : e = EventOf(c)
  BY AtWork DEF ClaimAlert, PC
<1>1. /\ e \notin processed /\ Exceeds(e)
      /\ processed' = processed \cup {e} /\ sends' = sends
      /\ dbFaults' = 0 /\ crashes' = crashes
  BY <1>0 DEF ClaimAlert, PC, faultVars
<1>2. /\ Claims(c)' /\ EventOf(c)' = e
      /\ \A d \in Consumers \ {c} : Unmoved(d)
  BY <1>0, BusySteps
<1>3. ASSUME NEW x \in Events \ {e} PROVE StatusOf(x)' = StatusOf(x)
  BY <1>0, <1>1, <1>2, OtherClaims, AlertsUntouched, SameStatus DEF SameAlerts, SameSigns
<1>4. Claimed(e)'
  BY <1>2 DEF Claimed, HoldsMark, Claims
<1>5. StatusOf(e) \in {"open"} /\ StatusOf(e)' = "claimed"
  BY <1>1, <1>4 DEF StatusOf, Exceeds, HasThreshold
<1>6. Promise!Move(e, {"open"}, "claimed")
  BY <1>1, <1>3, <1>5, OneMoves
<1>7. TopicBar' = TopicBar
  BY <1>1 DEF TopicBar, Written
<1> QED
  BY <1>1, <1>6, <1>7 DEF Promise!Next, Promise!Claim, ExceedingEvents

\* Only thread c claims its event, which is marked and above the threshold.
LEMMA SoleClaim ==
    ASSUME OneOwner, OnlyExceeding, NEW c \in Consumers, Claims(c)
    PROVE  /\ EventOf(c) \in processed /\ Exceeds(EventOf(c))
           /\ StatusOf(EventOf(c)) = "claimed"
           /\ \A d \in Consumers \ {c} : Claims(d) => EventOf(d) # EventOf(c)
<1>1. EventOf(c) \in processed /\ Exceeds(EventOf(c))
  BY DEF OneOwner, ClaimsMarked, OnlyExceeding
<1>2. Claimed(EventOf(c))
  BY DEF Claimed, HoldsMark, Claims
<1> QED
  BY <1>1, <1>2 DEF StatusOf, OneOwner, ClaimExcludesClaim

LEMMA SendRefines ==
    ASSUME TInv, OneOwner, OnlyExceeding, dbFaults = 0, NEW c \in Consumers, SendAlert(c)
    PROVE  Promise!Next
<1>0. PICK e \in Events : e = EventOf(c)
  BY AtWork DEF SendAlert, PC
<1> DEFINE n == Len(sends) + 1
<1>1. /\ ProducerTypeOK /\ Accept(e)
      /\ processed' = processed /\ dbFaults' = 0 /\ crashes' = crashes
  BY <1>0, TInvParts DEF SendAlert, PC, faultVars
<1>2. /\ Claims(c) /\ ~Claims(c)'
      /\ \A d \in Consumers \ {c} : Unmoved(d)
  BY <1>0, BusySteps
<1>3. /\ DOMAIN sends' = DOMAIN sends \cup {n}
      /\ \A i \in DOMAIN sends : sends'[i] = sends[i] /\ i < n
      /\ sends'[n] = [payload |-> e, offset |-> 0, phase |-> "inflight"]
  BY <1>1, AcceptAppends, Zenon
<1> HIDE DEF n
<1>4. sends'[n].payload = e /\ sends'[n].offset = 0 /\ sends'[n].phase = "inflight"
  BY <1>3
<1>5. ASSUME NEW x \in Events \ {e} PROVE StatusOf(x)' = StatusOf(x)
  <2>1. Claimed(x)' <=> Claimed(x)
    BY <1>0, <1>2, OtherClaims
  <2>2. SameAlerts(x)
    BY <1>3, <1>4, AlertsUntouched
  <2> QED
    BY <1>1, <2>1, <2>2, SameStatus DEF SameAlerts, SameSigns
<1>6. StatusOf(e) \in {"claimed"}
  BY <1>0, <1>2, SoleClaim
<1>7. ~Claimed(e)'
  BY <1>0, <1>2, SoleClaim DEF Unmoved, Claimed, HoldsMark, Claims
<1>8. AlertSent(e)'
  BY <1>3, <1>4 DEF AlertSent, Waiting, Written
<1>9. StatusOf(e)' = "sent"
  BY <1>0, <1>1, <1>2, <1>7, <1>8, SoleClaim DEF StatusOf, Exceeds, HasThreshold
<1>10. Promise!Move(e, {"claimed"}, "sent")
  BY <1>1, <1>5, <1>6, <1>9, OneMoves
<1>11. TopicBar' = TopicBar
  BY <1>3, <1>4, TopicUntouched
<1> QED
  BY <1>1, <1>10, <1>11 DEF Promise!Next, Promise!Submit

LEMMA DeleteRefines ==
    ASSUME TInv, OneOwner, OnlyExceeding, dbFaults = 0, NEW c \in Consumers,
           DeleteProcessed(c)
    PROVE  Promise!Next
<1>0. PICK e \in Events : e = EventOf(c)
  BY AtWork DEF DeleteProcessed, PC
<1>1. /\ processed' = processed \ {e} /\ sends' = sends
      /\ dbFaults' = 0 /\ crashes' = crashes
  BY <1>0 DEF DeleteProcessed, PC, faultVars
<1>2. /\ Claims(c) /\ ~Claims(c)'
      /\ \A d \in Consumers \ {c} : Unmoved(d)
  BY <1>0, BusySteps
<1>3. ASSUME NEW x \in Events \ {e} PROVE StatusOf(x)' = StatusOf(x)
  BY <1>0, <1>1, <1>2, OtherClaims, AlertsUntouched, SameStatus DEF SameAlerts, SameSigns
<1>4. StatusOf(e) \in {"claimed", "failed"} /\ StatusOf(e)' = "open"
  BY <1>0, <1>1, <1>2, SoleClaim DEF StatusOf
<1>5. Promise!Move(e, {"claimed", "failed"}, "open")
  BY <1>1, <1>3, <1>4, OneMoves
<1>6. TopicBar' = TopicBar
  BY <1>1 DEF TopicBar, Written
<1> QED
  BY <1>1, <1>5, <1>6 DEF Promise!Next, Promise!Reopen

-----------------------------------------------------------------------------
(* Steps of an alert that holds its mark.                                  *)

\* Alert i changes; its event, which no thread claims, has no other live alert.
LEMMA AlertAlone ==
    ASSUME TInv, OneOwner, OnlyExceeding, NEW i \in DOMAIN sends, Holds(i),
           ProducerStep(i) \/ UnprocessedStep(i), processed' = processed
    PROVE  \E e \in Events :
              /\ e = sends[i].payload /\ sends'[i].payload = e
              /\ Exceeds(e) /\ e \in processed /\ e \in processed'
              /\ ~Claimed(e) /\ ~Claimed(e)'
              /\ \A j \in DOMAIN sends \ {i} :
                    sends[j].payload = e =>
                       sends[j].phase = "handled" /\ sends'[j] = sends[j]
              /\ \A x \in Events \ {e} : StatusOf(x)' = StatusOf(x)
<1>1. PICK e \in Events : e = sends[i].payload
  BY SendShape, TInvParts
<1>2. /\ DOMAIN sends' = DOMAIN sends /\ sends'[i].payload = e
      /\ \A j \in DOMAIN sends \ {i} : sends'[j] = sends[j]
  BY <1>1, AlertMoves
<1>3. \A x \in Events : Claimed(x)' <=> Claimed(x)
  BY AlertIsSteady, SteadyClaims
<1>4. ASSUME NEW x \in Events \ {e} PROVE StatusOf(x)' = StatusOf(x)
  <2>1. SameAlerts(x)
    BY <1>1, <1>2, AlertsUntouched
  <2> QED
    BY <1>3, <2>1, SameStatus DEF SameAlerts, SameSigns
<1>5. /\ e \in processed /\ ~Claimed(e)
      /\ \A j \in DOMAIN sends \ {i} : sends[j].payload = e => sends[j].phase = "handled"
  BY <1>1, SoleAlert
<1>6. Exceeds(e)
  BY <1>1 DEF OnlyExceeding
<1> QED
  BY <1>1, <1>2, <1>3, <1>4, <1>5, <1>6

LEMMA BrokerAppendRefines ==
    ASSUME TInv, OneOwner, OnlyExceeding, dbFaults = 0, NEW i \in DOMAIN sends,
           BrokerAppend(i)
    PROVE  Promise!Next
<1>1. /\ Write(i) /\ Waiting(i) /\ Holds(i) /\ processed' = processed
      /\ dbFaults' = 0 /\ crashes' = crashes
  BY DEF BrokerAppend, Write, Waiting, Holds, faultVars
<1>2. PICK e \in Events :
         /\ e = sends[i].payload /\ sends'[i].payload = e
         /\ Exceeds(e) /\ e \in processed /\ e \in processed'
         /\ ~Claimed(e) /\ ~Claimed(e)'
         /\ \A j \in DOMAIN sends \ {i} :
               sends[j].payload = e => sends[j].phase = "handled" /\ sends'[j] = sends[j]
         /\ \A x \in Events \ {e} : StatusOf(x)' = StatusOf(x)
  BY <1>1, AlertAlone DEF ProducerStep
<1>3. /\ ProducerTypeOK /\ DOMAIN sends' = DOMAIN sends
      /\ sends'[i].phase = "inflight"
      /\ \A j \in DOMAIN sends \ {i} : sends'[j] = sends[j]
  BY <1>1, WriteUpdates, TInvParts DEF Waiting
<1>4. sends'[i].offset \in Nat \ {0}
  <2>1. sends[i] \in Send
    BY SendShape, TInvParts
  <2>2. sends'[i] = [sends[i] EXCEPT !.offset =
                        1 + Cardinality({j \in Queue(i) : Written(j)})]
    BY <1>1, <1>3 DEF Write, ProducerTypeOK
  <2> QED
    BY <1>3, <2>1, <2>2, PlaceIsNat DEF Send
<1>5. StatusOf(e) \in {"sent"}
  BY <1>1, <1>2 DEF StatusOf, AlertSent
<1>6. ~AlertSent(e)' /\ AlertWritten(e)'
  BY <1>2, <1>3, <1>4 DEF AlertSent, AlertWritten, Waiting, Written
<1>7. StatusOf(e)' = "written"
  BY <1>2, <1>6 DEF StatusOf, Exceeds, HasThreshold
<1>8. Promise!Move(e, {"sent"}, "written")
  BY <1>1, <1>2, <1>5, <1>7, OneMoves
<1>9. /\ TopicBar' = TopicBar \cup {<<i, e>>}
      /\ <<i, e>> \notin TopicBar
  BY <1>1, <1>2, <1>3, <1>4 DEF TopicBar, Written, Waiting
<1>10. <<i, e>> \in Promise!Alerts
  BY <1>2, <1>3 DEF Promise!Alerts, ExceedingEvents, ProducerTypeOK
<1>11. Promise!Write(e)
  BY <1>8, <1>9, <1>10 DEF Promise!Write
<1> QED
  BY <1>11 DEF Promise!Next

LEMMA AcknowledgeRefines ==
    ASSUME TInv, OneOwner, OnlyExceeding, dbFaults = 0, NEW i \in DOMAIN sends,
           Acknowledge(i)
    PROVE  Promise!Next
<1>1. /\ SucceedSend(i) /\ Holds(i) /\ processed' = processed
      /\ dbFaults' = 0 /\ crashes' = crashes
      /\ sends[i].phase = "inflight" /\ Written(i)
  BY DEF Acknowledge, SucceedSend, Holds, faultVars
<1>2. PICK e \in Events :
         /\ e = sends[i].payload /\ sends'[i].payload = e
         /\ Exceeds(e) /\ e \in processed /\ e \in processed'
         /\ ~Claimed(e) /\ ~Claimed(e)'
         /\ \A j \in DOMAIN sends \ {i} :
               sends[j].payload = e => sends[j].phase = "handled" /\ sends'[j] = sends[j]
         /\ \A x \in Events \ {e} : StatusOf(x)' = StatusOf(x)
  BY <1>1, AlertAlone DEF ProducerStep
<1>3. /\ DOMAIN sends' = DOMAIN sends
      /\ sends'[i].phase = "acked" /\ sends'[i].offset = sends[i].offset
      /\ \A j \in DOMAIN sends \ {i} : sends'[j] = sends[j]
  BY <1>1, PhaseUpdates, TInvParts DEF SucceedSend, Phase
<1>4. StatusOf(e) \in {"written"}
  BY <1>1, <1>2 DEF StatusOf, AlertSent, AlertWritten, Waiting
<1>5. StatusOf(e)' = "alerted"
  BY <1>2, <1>3
     DEF StatusOf, AlertSent, AlertWritten, AlertIn, Waiting, Exceeds, HasThreshold
<1>6. Promise!Move(e, {"written"}, "alerted")
  BY <1>1, <1>2, <1>4, <1>5, OneMoves
<1>7. TopicBar' = TopicBar
  BY <1>2, <1>3, TopicUntouched
<1> QED
  BY <1>6, <1>7 DEF Promise!Next, Promise!Confirm

LEMMA SendFailsRefines ==
    ASSUME TInv, OneOwner, OnlyExceeding, dbFaults = 0, NEW i \in DOMAIN sends,
           SendFails(i)
    PROVE  Promise!Next
<1>1. /\ FailSend(i) /\ Holds(i) /\ processed' = processed
      /\ dbFaults' = 0 /\ crashes' = crashes
      /\ sends[i].phase = "inflight"
  BY DEF SendFails, FailSend, Holds, KafkaFault
<1>2. PICK e \in Events :
         /\ e = sends[i].payload /\ sends'[i].payload = e
         /\ Exceeds(e) /\ e \in processed /\ e \in processed'
         /\ ~Claimed(e) /\ ~Claimed(e)'
         /\ \A j \in DOMAIN sends \ {i} :
               sends[j].payload = e => sends[j].phase = "handled" /\ sends'[j] = sends[j]
         /\ \A x \in Events \ {e} : StatusOf(x)' = StatusOf(x)
  BY <1>1, AlertAlone DEF ProducerStep
<1>3. /\ DOMAIN sends' = DOMAIN sends
      /\ sends'[i].phase = "failed" /\ sends'[i].offset = sends[i].offset
      /\ \A j \in DOMAIN sends \ {i} : sends'[j] = sends[j]
  BY <1>1, PhaseUpdates, TInvParts DEF FailSend, Phase
<1>4. StatusOf(e) \in {"sent", "written"}
  BY <1>1, <1>2 DEF StatusOf, AlertSent, AlertWritten, Waiting
<1>5. StatusOf(e)' = "failed"
  BY <1>2, <1>3
     DEF StatusOf, AlertSent, AlertWritten, AlertIn, Waiting, Exceeds, HasThreshold
<1>6. Promise!Move(e, {"sent", "written"}, "failed")
  BY <1>1, <1>2, <1>4, <1>5, OneMoves
<1>7. TopicBar' = TopicBar
  BY <1>2, <1>3, TopicUntouched
<1> QED
  BY <1>6, <1>7 DEF Promise!Next, Promise!Fail

LEMMA HandleUnprocessedRefines ==
    ASSUME TInv, OneOwner, OnlyExceeding, dbFaults = 0, NEW i \in DOMAIN sends,
           HandleUnprocessed(i)
    PROVE  Promise!Next
<1>1. /\ MarkHandled(i) /\ Holds(i) /\ sends[i].phase = "failed"
      /\ dbFaults' = 0 /\ crashes' = crashes
  BY DEF HandleUnprocessed, MarkHandled, Holds, faultVars
<1>2. PICK e \in Events : e = sends[i].payload
  BY SendShape, TInvParts
<1>3. /\ e \in processed /\ ~Claimed(e) /\ Exceeds(e)
      /\ \A j \in DOMAIN sends \ {i} : sends[j].payload = e => sends[j].phase = "handled"
  BY <1>1, <1>2, SoleAlert DEF OnlyExceeding
<1>4. /\ DOMAIN sends' = DOMAIN sends /\ sends'[i].payload = e
      /\ sends'[i].offset = sends[i].offset
      /\ \A j \in DOMAIN sends \ {i} : sends'[j] = sends[j]
  BY <1>1, <1>2, PhaseUpdates, TInvParts DEF MarkHandled, Phase
<1>5. processed' = processed \ {e}
  BY <1>2 DEF HandleUnprocessed
<1>6. ASSUME NEW x \in Events \ {e} PROVE StatusOf(x)' = StatusOf(x)
  <2>1. Claimed(x)' <=> Claimed(x)
    BY AlertIsSteady, SteadyClaims DEF UnprocessedStep
  <2>2. SameAlerts(x)
    BY <1>2, <1>4, AlertsUntouched
  <2> QED
    BY <1>5, <2>1, <2>2, SameStatus DEF SameAlerts, SameSigns
<1>7. StatusOf(e) \in {"claimed", "failed"}
  BY <1>1, <1>2, <1>3 DEF StatusOf, AlertSent, AlertWritten, AlertIn, Waiting
<1>8. StatusOf(e)' = "open"
  BY <1>5 DEF StatusOf
<1>9. Promise!Move(e, {"claimed", "failed"}, "open")
  BY <1>1, <1>6, <1>7, <1>8, OneMoves
<1>10. TopicBar' = TopicBar
  BY <1>2, <1>4, TopicUntouched
<1> QED
  BY <1>9, <1>10 DEF Promise!Next, Promise!Reopen

-----------------------------------------------------------------------------
(* A crash, and what follows a database fault.                             *)

LEMMA CrashLosesProducer ==
    ASSUME TInv, Crash
    PROVE  /\ DOMAIN sends' = DOMAIN sends
           /\ \A i \in DOMAIN sends :
                 /\ sends'[i].payload = sends[i].payload
                 /\ sends'[i].offset = sends[i].offset
                 /\ sends'[i].phase = IF Pending(i) THEN "dead" ELSE sends[i].phase
<1>1. sends' = [i \in DOMAIN sends |-> IF Pending(i)
                                       THEN [sends[i] EXCEPT !.phase = "dead"]
                                       ELSE sends[i]]
  BY DEF Crash, LoseProducer
<1>2. \A i \in DOMAIN sends : sends[i] \in Send
  BY SendShape, TInvParts
<1> QED
  BY <1>1, <1>2 DEF Send

LEMMA CrashRefines ==
    ASSUME TInv, OneOwner, OnlyExceeding, dbFaults = 0, Crash
    PROVE  Promise!Crash
<1>1. processed' = processed /\ dbFaults' = 0 /\ crashes' = crashes + 1
  BY DEF Crash
<1>2. /\ DOMAIN sends' = DOMAIN sends
      /\ \A i \in DOMAIN sends :
            /\ sends'[i].payload = sends[i].payload
            /\ sends'[i].offset = sends[i].offset
            /\ sends'[i].phase = IF Pending(i) THEN "dead" ELSE sends[i].phase
  BY CrashLosesProducer
<1>3. ASSUME NEW e PROVE ~Claimed(e)'
  BY CrashKeepsHolds DEF Claimed, HoldsMark, Claims
<1>4. ASSUME NEW e
      PROVE  /\ ~AlertSent(e)' /\ ~AlertWritten(e)' /\ ~AlertIn(e, "failed")'
             /\ AlertIn(e, "acked")' <=> AlertIn(e, "acked")
  BY <1>2 DEF AlertSent, AlertWritten, AlertIn, Waiting, Pending
<1>5. ASSUME NEW e \in Events, e \in processed, Exceeds(e)
      PROVE  StatusOf(e)' = IF AlertIn(e, "acked") THEN "alerted" ELSE "abandoned"
  BY <1>1, <1>3, <1>4, <1>5 DEF StatusOf, Exceeds, HasThreshold
<1>6. ASSUME NEW e \in Events, AlertIn(e, "acked")
      PROVE  ~Claimed(e) /\ ~AlertSent(e) /\ ~AlertWritten(e)
  <2>1. PICK i \in DOMAIN sends : sends[i].payload = e /\ sends[i].phase = "acked"
    BY <1>6 DEF AlertIn
  <2>2. /\ ~Claimed(e)
        /\ \A j \in DOMAIN sends \ {i} : sends[j].payload = e => sends[j].phase = "handled"
    BY <2>1, SoleAlert DEF Holds
  <2> QED
    BY <2>1, <2>2 DEF AlertSent, AlertWritten, Waiting
<1>7. ASSUME NEW e \in Events
      PROVE  StatusOf(e)' = IF StatusOf(e) \in Promise!UnderWay
                            THEN "abandoned" ELSE StatusOf(e)
  <2>1. CASE e \notin processed \/ ~Exceeds(e)
    BY <1>1, <2>1 DEF StatusOf, Exceeds, HasThreshold, Promise!UnderWay
  <2>2. CASE e \in processed /\ Exceeds(e) /\ AlertIn(e, "acked")
    BY <1>5, <1>6, <2>2 DEF StatusOf, Promise!UnderWay
  <2>3. CASE e \in processed /\ Exceeds(e) /\ ~AlertIn(e, "acked")
    BY <1>5, <2>3 DEF StatusOf, Promise!UnderWay
  <2> QED
    BY <2>1, <2>2, <2>3
<1>8. StatusBar' = [e \in Events |-> IF StatusBar[e] \in Promise!UnderWay
                                     THEN "abandoned" ELSE StatusBar[e]]
  BY <1>7 DEF StatusBar
<1>9. TopicBar' = TopicBar
  BY <1>2, TopicUntouched
<1> QED
  BY <1>1, <1>8, <1>9 DEF Promise!Crash

\* A database fault stays counted.
LEMMA DbFaultsStay ==
    ASSUME TInv, [Next]_vars, dbFaults > 0
    PROVE  dbFaults' > 0
<1>1. dbFaults \in Nat
  BY TInvParts DEF RestTypeOK
<1>2. dbFaults' = dbFaults \/ dbFaults' = dbFaults + 1
  BY NextCases, QuietSteps, ProducerKeepsHolds
     DEF DbFault, RecordOrdinary, ClaimAlert, SendAlert, DeleteProcessed,
         GetByTypeFails, SaveFails, DeleteProcessedFails, HandleUnprocessed,
         HandleUnprocessedFails, Crash, faultVars
<1> QED
  BY <1>1, <1>2

\* What was handed to the producer is there, and what was written stays written.
LEMMA WrittenStays ==
    ASSUME TInv, [Next]_vars
    PROVE  TopicBar \subseteq TopicBar'
<1> SUFFICES ASSUME NEW i \in DOMAIN sends, Written(i)
             PROVE  i \in DOMAIN sends' /\ sends'[i].payload = sends[i].payload /\ Written(i)'
  BY DEF TopicBar
<1>1. ASSUME sends' = sends
      PROVE  i \in DOMAIN sends' /\ sends'[i].payload = sends[i].payload /\ Written(i)'
  BY <1>1 DEF Written
<1>2. CASE QuietStep
  BY <1>1, <1>2, QuietSteps
<1>3. ASSUME NEW c \in Consumers,
             \/ RecordOrdinary(c) \/ ClaimAlert(c) \/ DeleteProcessed(c)
             \/ GetByTypeFails(c) \/ SaveFails(c) \/ DeleteProcessedFails(c)
      PROVE  i \in DOMAIN sends' /\ sends'[i].payload = sends[i].payload /\ Written(i)'
  BY <1>1, <1>3 DEF RecordOrdinary, ClaimAlert, DeleteProcessed, GetByTypeFails, SaveFails,
                    DeleteProcessedFails, serviceVars
<1>4. ASSUME NEW c \in Consumers, SendAlert(c)
      PROVE  i \in DOMAIN sends' /\ sends'[i].payload = sends[i].payload /\ Written(i)'
  BY <1>4, SendAlertAppends DEF Written
<1>5. ASSUME NEW k \in DOMAIN sends, ProducerStep(k) \/ UnprocessedStep(k)
      PROVE  i \in DOMAIN sends' /\ sends'[i].payload = sends[i].payload /\ Written(i)'
  <2>1. /\ ProducerTypeOK /\ DOMAIN sends' = DOMAIN sends
        /\ sends'[k].payload = sends[k].payload
        /\ \A j \in DOMAIN sends \ {k} : sends'[j] = sends[j]
    BY <1>5, AlertMoves, TInvParts
  <2>2. CASE i # k
    BY <2>1, <2>2 DEF Written
  <2>3. CASE i = k
    <3>1. ~Write(i)
      BY DEF Write, Waiting
    <3>2. \E p \in Phase : sends' = [sends EXCEPT ![i].phase = p]
      BY <1>5, <2>3, <3>1
         DEF ProducerStep, UnprocessedStep, BrokerAppend, Acknowledge, SendFails, SucceedSend,
             FailSend, HandleUnprocessed, HandleUnprocessedFails, MarkHandled, Phase
    <3>3. sends'[i].offset = sends[i].offset
      BY <2>1, <3>2, PhaseUpdates
    <3> QED
      BY <2>1, <2>3, <3>3 DEF Written
  <2> QED
    BY <2>2, <2>3
<1>6. CASE Crash
  BY <1>6, CrashLosesProducer DEF Written
<1> QED
  BY <1>2, <1>3, <1>4, <1>5, <1>6, NextCases DEF UnprocessedStep

LEMMA CrashesStay ==
    ASSUME TInv, [Next]_vars
    PROVE  crashes' \in {crashes, crashes + 1}
BY NextCases, QuietSteps, ProducerKeepsHolds
   DEF DbFault, RecordOrdinary, ClaimAlert, SendAlert, DeleteProcessed,
       GetByTypeFails, SaveFails, DeleteProcessedFails, HandleUnprocessed,
       HandleUnprocessedFails, Crash, faultVars

LEMMA DisturbRefines ==
    ASSUME TInv, TInv', OnlyExceeding', [Next]_vars, dbFaults' > 0
    PROVE  Promise!Disturb
<1>1. TopicBar \subseteq TopicBar'
  BY WrittenStays
<1>2. TopicBar' \subseteq Promise!Alerts
  <2>1. sends' \in Seq(Send)
    BY TInvParts DEF ProducerTypeOK
  <2>2. \A i \in DOMAIN sends' : i \in Nat \ {0} /\ sends'[i] \in Send
    BY <2>1
  <2>3. \A i \in DOMAIN sends' : sends'[i].payload \in Events
    BY <2>2 DEF Send
  <2>4. \A i \in DOMAIN sends' : Exceeds(sends'[i].payload)
    BY DEF OnlyExceeding, Exceeds, HasThreshold
  <2> QED
    BY <2>2, <2>3, <2>4 DEF TopicBar, Promise!Alerts, ExceedingEvents
<1>3. \A e \in Events : StatusOf(e)' \in Promise!Status
  BY DEF StatusOf, Promise!Status, Promise!UnderWay
<1>4. StatusBar' \in [Events -> Promise!Status]
  BY <1>3 DEF StatusBar
<1> QED
  BY <1>1, <1>2, <1>4, CrashesStay DEF Promise!Disturb

-----------------------------------------------------------------------------
LEMMA InitRefines == Init => Promise!Init
<1> SUFFICES ASSUME Init PROVE Promise!Init
  OBVIOUS
<1>1. \A e \in Events : StatusOf(e) = "open"
  BY DEF Init, StatusOf
<1>2. TopicBar = {}
  BY DEF Init, ProducerInit, TopicBar
<1> QED
  BY <1>1, <1>2 DEF Promise!Init, StatusBar, Init

LEMMA StepRefines ==
    ASSUME TInv, TInv', OneOwnerInv, OnlyExceeding, OnlyExceeding', [Next]_vars
    PROVE  [Promise!Next]_(Promise!vars)
<1>1. CASE dbFaults' > 0
  BY <1>1, DisturbRefines DEF Promise!Next
<1>2. CASE ~(dbFaults' > 0)
  <2>1. dbFaults' = 0
    BY <1>2, TInvParts DEF RestTypeOK
  <2>2. dbFaults = 0 /\ ~DbFault /\ OneOwner
    BY <2>1, DbFaultsCount DEF OneOwnerInv
  <2>3. CASE QuietStep
    BY <2>3, QuietRefines DEF Promise!vars
  <2>4. ASSUME NEW c \in Consumers,
               RecordOrdinary(c) \/ ClaimAlert(c) \/ SendAlert(c) \/ DeleteProcessed(c)
        PROVE  Promise!Next
    BY <2>2, <2>4, RecordRefines, ClaimRefines, SendRefines, DeleteRefines
  <2>5. ASSUME NEW i \in DOMAIN sends, ProducerStep(i) \/ HandleUnprocessed(i)
        PROVE  Promise!Next
    BY <2>2, <2>5, BrokerAppendRefines, AcknowledgeRefines, SendFailsRefines,
       HandleUnprocessedRefines DEF ProducerStep
  <2>6. CASE Crash
    BY <2>2, <2>6, CrashRefines DEF Promise!Next
  <2> QED
    BY <2>2, <2>3, <2>4, <2>5, <2>6, NextCases
       DEF GetByTypeFails, SaveFails, DeleteProcessedFails, HandleUnprocessedFails
<1> QED
  BY <1>1, <1>2

\* The monitoring service implements Alerting, for any events, thresholds,
\* threads and numbers of faults.
THEOREM ServiceKeepsPromise == Spec => KeepsPromise
<1>1. Init => Promise!Init
  BY InitRefines
<1>2. TInv /\ TInv' /\ OneOwnerInv /\ OnlyExceeding /\ OnlyExceeding' /\ [Next]_vars
        => [Promise!Next]_(Promise!vars)
  BY StepRefines
<1> QED
  BY <1>1, <1>2, TInvAlways, OneOwnerInit, OneOwnerNext, OnlyExceedingInit, OnlyExceedingNext,
     PTL DEF Spec, KeepsPromise, Promise!Spec
=============================================================================
