-------------------------- MODULE SensorsWatchProofs --------------------------
(***************************************************************************)
(* Theorems about the whole system, from those about its three parts: each *)
(* part of SensorsWatch is an implementation of its own module, so that    *)
(* what is proved there holds here, and what is added is how the orders of *)
(* the parts fit together where one's topic is another's input.            *)
(***************************************************************************)
EXTENDS SensorsWatch, LogListenerProofs, FiniteSetTheorems

\* The theorems of UdpGateway and of ThresholdMonitoring, read as SensorsWatch
\* reads these modules.
GatewayPart == INSTANCE UdpGatewayProofs WITH
    sends <- events,
    crashes <- gatewayCrashes,
    MaxCrashes <- MaxGatewayCrashes,
    kafkaFaults <- 0,
    MaxKafkaFaults <- 0

MonitoringPart == INSTANCE ThresholdMonitoringProofs WITH
    Records <- Readings,
    Consumers <- MeasurementThreads,
    EventType <- [d \in Readings |-> AdapterOf[d]],
    EventValue <- [d \in Readings |-> Value[d]],
    EventKey <- [d \in Readings |-> Sensor[d]],
    PoisonPills <- {},
    Types <- Adapters,
    log <- eventLog,
    pos <- eventPos,
    committed <- eventCommitted,
    consumer <- eventConsumer,
    sends <- alerts,
    rebalances <- 0,   MaxRebalances <- 0,
    dbFaults <- 0,     MaxDbFaults <- 0,
    kafkaFaults <- 0,  MaxKafkaFaults <- 0

-----------------------------------------------------------------------------
(* The gateway.                                                            *)

LEMMA GatewayAssumptions ==
    /\ GatewayPart!DatagramAssumption /\ GatewayPart!ProcessorsAssumption
    /\ GatewayPart!BoundsAssumption /\ GatewayPart!NoTaskAssumption
<1>1. GatewayPart!DatagramAssumption
  BY GatewayAssumption
<1>2. GatewayPart!ProcessorsAssumption
  BY GatewayAssumption
<1>3. GatewayPart!BoundsAssumption
  BY SystemBoundsAssumption
<1>4. GatewayPart!NoTaskAssumption
  BY GatewayAssumption DEF Gateway!NoTask, GatewayPart!NoTask, Gateway!Tasks, GatewayPart!Tasks
<1> QED
  BY <1>1, <1>2, <1>3, <1>4

LEMMA SameGatewayInit == Gateway!Init => GatewayPart!Init
BY DEF Gateway!Init, GatewayPart!Init, Gateway!ProducerInit, GatewayPart!ProducerInit,
       Gateway!NoTask, GatewayPart!NoTask, Gateway!Workers, GatewayPart!Workers

LEMMA SameUnderway == ASSUME NEW d PROVE GatewayPart!Underway(d) <=> Gateway!Underway(d)
BY DEF GatewayPart!Underway, Gateway!Underway, GatewayPart!InSocket, Gateway!InSocket,
       GatewayPart!WaitsAt, Gateway!WaitsAt, GatewayPart!Queued, Gateway!Queued,
       GatewayPart!Handled, Gateway!Handled, GatewayPart!Workers, Gateway!Workers,
       GatewayPart!Waiting, Gateway!Waiting, GatewayPart!Written, Gateway!Written

LEMMA SameGatewaySteps ==
    /\ \A a \in Adapters : Gateway!StartAdapter(a) => GatewayPart!StartAdapter(a)
    /\ \A d \in Datagrams : Gateway!Arrive(d) => GatewayPart!Arrive(d)
    /\ \A w \in Gateway!Workers : /\ Gateway!Take(w) => GatewayPart!Take(w)
                                  /\ Gateway!Handle(w) => GatewayPart!Handle(w)
    /\ \A w \in Gateway!Workers, a \in Adapters : Gateway!Receive(w, a) => GatewayPart!Receive(w, a)
    /\ \A i \in DOMAIN events : /\ Gateway!BrokerAppend(i) => GatewayPart!BrokerAppend(i)
                                /\ Gateway!Acknowledge(i) => GatewayPart!Acknowledge(i)
    /\ Gateway!Crash => GatewayPart!Crash
    /\ Gateway!Workers = GatewayPart!Workers
<1>0. Gateway!Workers = GatewayPart!Workers /\ Gateway!NoTask = GatewayPart!NoTask
      /\ Gateway!socketVars = GatewayPart!socketVars /\ Gateway!poolVars = GatewayPart!poolVars
  BY DEF Gateway!Workers, GatewayPart!Workers, Gateway!NoTask, GatewayPart!NoTask,
         Gateway!socketVars, GatewayPart!socketVars, Gateway!poolVars, GatewayPart!poolVars
<1>1. ASSUME NEW a \in Adapters, Gateway!StartAdapter(a) PROVE GatewayPart!StartAdapter(a)
  BY <1>1 DEF Gateway!StartAdapter, GatewayPart!StartAdapter, Gateway!Execute,
              GatewayPart!Execute, Gateway!socketVars, GatewayPart!socketVars
<1>2. ASSUME NEW d \in Datagrams, Gateway!Arrive(d) PROVE GatewayPart!Arrive(d)
  BY <1>0, <1>2 DEF Gateway!Arrive, GatewayPart!Arrive, Gateway!Listening, GatewayPart!Listening,
                    Gateway!AllListening, GatewayPart!AllListening, Gateway!poolVars,
                    GatewayPart!poolVars
<1>3. ASSUME NEW w \in Gateway!Workers, Gateway!Take(w) PROVE GatewayPart!Take(w)
  BY <1>0, <1>3 DEF Gateway!Take, GatewayPart!Take, Gateway!socketVars, GatewayPart!socketVars
<1>4. ASSUME NEW w \in Gateway!Workers, Gateway!Handle(w) PROVE GatewayPart!Handle(w)
  BY <1>0, <1>4 DEF Gateway!Handle, GatewayPart!Handle, Gateway!Accept, GatewayPart!Accept,
                    Gateway!MessageOf, GatewayPart!MessageOf,
                    Gateway!socketVars, GatewayPart!socketVars
<1>5. ASSUME NEW w \in Gateway!Workers, NEW a \in Adapters, Gateway!Receive(w, a)
      PROVE  GatewayPart!Receive(w, a)
  BY <1>5 DEF Gateway!Receive, GatewayPart!Receive, Gateway!Execute, GatewayPart!Execute
<1>6. ASSUME NEW i \in DOMAIN events, Gateway!BrokerAppend(i) PROVE GatewayPart!BrokerAppend(i)
  <2>1. Gateway!Queue(i) = GatewayPart!Queue(i)
    BY DEF Gateway!Queue, GatewayPart!Queue, Gateway!MessageQueue, GatewayPart!MessageQueue
  <2>2. \A j : (Gateway!Waiting(j) <=> GatewayPart!Waiting(j))
               /\ (Gateway!Written(j) <=> GatewayPart!Written(j))
    BY DEF Gateway!Waiting, GatewayPart!Waiting, Gateway!Written, GatewayPart!Written
  <2>3. Gateway!Cardinality({j \in Gateway!Queue(i) : Gateway!Written(j)})
        = GatewayPart!Cardinality({j \in GatewayPart!Queue(i) : GatewayPart!Written(j)})
    <3>1. {j \in Gateway!Queue(i) : Gateway!Written(j)}
          = {j \in GatewayPart!Queue(i) : GatewayPart!Written(j)}
      BY <2>1, <2>2
    <3> QED
      BY <3>1 DEF Gateway!Cardinality, GatewayPart!Cardinality
  <2> QED
    BY <1>6, <2>1, <2>2, <2>3
       DEF Gateway!BrokerAppend, GatewayPart!BrokerAppend, Gateway!Write, GatewayPart!Write,
           Gateway!socketVars, GatewayPart!socketVars, Gateway!poolVars, GatewayPart!poolVars
<1>7. ASSUME NEW i \in DOMAIN events, Gateway!Acknowledge(i) PROVE GatewayPart!Acknowledge(i)
  BY <1>7 DEF Gateway!Acknowledge, GatewayPart!Acknowledge, Gateway!SucceedSend,
              GatewayPart!SucceedSend, Gateway!Written, GatewayPart!Written,
              Gateway!socketVars, GatewayPart!socketVars, Gateway!poolVars, GatewayPart!poolVars
<1>8. ASSUME Gateway!Crash PROVE GatewayPart!Crash
  <2>1. {d \in Datagrams : Gateway!Underway(d)} = {d \in Datagrams : GatewayPart!Underway(d)}
    BY SameUnderway
  <2> QED
    BY <1>0, <1>8, <2>1 DEF Gateway!Crash, GatewayPart!Crash, Gateway!LoseProducer,
                            GatewayPart!LoseProducer, Gateway!Pending, GatewayPart!Pending
<1> QED
  BY <1>0, <1>1, <1>2, <1>3, <1>4, <1>5, <1>6, <1>7, <1>8

-----------------------------------------------------------------------------
(* The monitoring service.                                                 *)

LEMMA MonitoringAssumptions ==
    /\ MonitoringPart!DataAssumption /\ MonitoringPart!BoundsAssumption
    /\ MonitoringPart!AttemptsAssumption
<1>1. MonitoringPart!DataAssumption
  BY GatewayAssumption, MonitoringAssumption DEF MonitoringPart!Events, Readings
<1>2. MonitoringPart!BoundsAssumption
  BY SystemBoundsAssumption
<1>3. MonitoringPart!AttemptsAssumption
  BY AttemptsAssumption
<1> QED
  BY <1>1, <1>2, <1>3

LEMMA SameMonitoringInit == Monitoring!Init => MonitoringPart!Init
BY DEF Monitoring!Init, MonitoringPart!Init, Monitoring!LaneInit, MonitoringPart!LaneInit,
       Monitoring!ProducerInit, MonitoringPart!ProducerInit, Monitoring!Idle,
       MonitoringPart!Idle, Monitoring!Topics, MonitoringPart!Topics, Monitoring!Levels,
       MonitoringPart!Levels

\* What the steps of the lane are made of.
LEMMA SameLane ==
    /\ Levels = MonitoringPart!Levels /\ Monitoring!Idle = MonitoringPart!Idle
    /\ UNCHANGED <<Monitoring!serviceVars, Monitoring!faultVars>>
       <=> UNCHANGED <<MonitoringPart!serviceVars, MonitoringPart!faultVars>>
    /\ UNCHANGED Monitoring!faultVars <=> UNCHANGED MonitoringPart!faultVars
    /\ \A c : /\ Monitoring!RecordOf(c) = MonitoringPart!RecordOf(c)
              /\ Monitoring!EventOf(c) = MonitoringPart!EventOf(c)
              /\ Monitoring!Finish(c) <=> MonitoringPart!Finish(c)
              /\ \A t : Monitoring!Forward(c, t) <=> MonitoringPart!Forward(c, t)
              /\ \A pc : Monitoring!Goto(c, pc) <=> MonitoringPart!Goto(c, pc)
              /\ \A l, pc : Monitoring!Deliver(c, l, pc) <=> MonitoringPart!Deliver(c, l, pc)
    /\ \A l : Monitoring!HasNext(l) <=> MonitoringPart!HasNext(l)
    /\ \A e : /\ Monitoring!FirstStep(e) = MonitoringPart!FirstStep(e)
              /\ Monitoring!Exceeds(e) <=> MonitoringPart!Exceeds(e)
              /\ Monitoring!HasThreshold(e) <=> MonitoringPart!HasThreshold(e)
<1>1. Levels = MonitoringPart!Levels /\ Monitoring!Idle = MonitoringPart!Idle
  BY DEF Levels, MonitoringPart!Levels, Monitoring!Idle, MonitoringPart!Idle
<1>2. /\ UNCHANGED <<Monitoring!serviceVars, Monitoring!faultVars>>
         <=> UNCHANGED <<MonitoringPart!serviceVars, MonitoringPart!faultVars>>
      /\ UNCHANGED Monitoring!faultVars <=> UNCHANGED MonitoringPart!faultVars
  BY DEF Monitoring!serviceVars, MonitoringPart!serviceVars, Monitoring!faultVars,
         MonitoringPart!faultVars
<1>3. \A c : /\ Monitoring!RecordOf(c) = MonitoringPart!RecordOf(c)
             /\ Monitoring!EventOf(c) = MonitoringPart!EventOf(c)
  BY DEF Monitoring!RecordOf, MonitoringPart!RecordOf, Monitoring!EventOf,
         MonitoringPart!EventOf
<1>4. \A c : Monitoring!Leave(c) <=> MonitoringPart!Leave(c)
  BY <1>1 DEF Monitoring!Leave, MonitoringPart!Leave, Monitoring!NextInBatch,
         MonitoringPart!NextInBatch
<1>5. \A c : /\ Monitoring!Finish(c) <=> MonitoringPart!Finish(c)
             /\ \A t : Monitoring!Forward(c, t) <=> MonitoringPart!Forward(c, t)
  BY <1>3, <1>4 DEF Monitoring!Finish, MonitoringPart!Finish, Monitoring!Forward,
         MonitoringPart!Forward
<1>6. \A c, pc : Monitoring!Goto(c, pc) <=> MonitoringPart!Goto(c, pc)
  BY DEF Monitoring!Goto, MonitoringPart!Goto
<1>7. \A l : Monitoring!HasNext(l) <=> MonitoringPart!HasNext(l)
  BY DEF Monitoring!HasNext, MonitoringPart!HasNext
<1>8. \A c, l, pc : Monitoring!Deliver(c, l, pc) <=> MonitoringPart!Deliver(c, l, pc)
  BY <1>1, <1>7 DEF Monitoring!Deliver, MonitoringPart!Deliver, Monitoring!Busy,
         MonitoringPart!Busy, Monitoring!Owned, MonitoringPart!Owned
<1>9. \A e : /\ Monitoring!FirstStep(e) = MonitoringPart!FirstStep(e)
             /\ Monitoring!Exceeds(e) <=> MonitoringPart!Exceeds(e)
             /\ Monitoring!HasThreshold(e) <=> MonitoringPart!HasThreshold(e)
  BY DEF Monitoring!FirstStep, MonitoringPart!FirstStep, Monitoring!Exceeds,
         MonitoringPart!Exceeds, Monitoring!HasThreshold, MonitoringPart!HasThreshold
<1> QED
  BY <1>1, <1>2, <1>3, <1>5, <1>6, <1>7, <1>8, <1>9

LEMMA SameListenerStep ==
    ASSUME NEW c \in MeasurementThreads, Monitoring!ListenerStep(c)
    PROVE  MonitoringPart!ListenerStep(c)
<1> USE SameLane
<1>1. Monitoring!Resume(c) => MonitoringPart!Resume(c)
  BY DEF Monitoring!Resume, MonitoringPart!Resume
<1>2. Monitoring!GetByType(c) => MonitoringPart!GetByType(c)
  BY DEF Monitoring!GetByType, MonitoringPart!GetByType
<1>3. Monitoring!RecordOrdinary(c) => MonitoringPart!RecordOrdinary(c)
  BY DEF Monitoring!RecordOrdinary, MonitoringPart!RecordOrdinary
<1>4. Monitoring!ClaimAlert(c) => MonitoringPart!ClaimAlert(c)
  BY DEF Monitoring!ClaimAlert, MonitoringPart!ClaimAlert
<1>5. Monitoring!SkipDuplicate(c) => MonitoringPart!SkipDuplicate(c)
  BY DEF Monitoring!SkipDuplicate, MonitoringPart!SkipDuplicate
<1>6. Monitoring!SendAlert(c) => MonitoringPart!SendAlert(c)
  BY DEF Monitoring!SendAlert, MonitoringPart!SendAlert, Monitoring!Accept, MonitoringPart!Accept
<1>7. Monitoring!DeleteProcessed(c) => MonitoringPart!DeleteProcessed(c)
  BY DEF Monitoring!DeleteProcessed, MonitoringPart!DeleteProcessed
<1>8. Monitoring!Recover(c) => MonitoringPart!Recover(c)
  BY DEF Monitoring!Recover, MonitoringPart!Recover, Monitoring!Dlt, MonitoringPart!Dlt
<1>9. /\ ~Monitoring!GetByTypeFails(c) /\ ~Monitoring!SaveFails(c) /\ ~Monitoring!SendThrows(c)
      /\ ~Monitoring!DeleteProcessedFails(c) /\ ~Monitoring!RecoverFails(c)
  BY DEF Monitoring!DbFault, Monitoring!KafkaFault, Monitoring!GetByTypeFails,
         Monitoring!SaveFails, Monitoring!SendThrows, Monitoring!DeleteProcessedFails,
         Monitoring!RecoverFails
<1> HIDE SameLane
<1>10. MonitoringPart!ListenerStep(c) <=>
          \/ MonitoringPart!Resume(c) \/ MonitoringPart!GetByType(c)
          \/ MonitoringPart!GetByTypeFails(c) \/ MonitoringPart!RecordOrdinary(c)
          \/ MonitoringPart!ClaimAlert(c) \/ MonitoringPart!SkipDuplicate(c)
          \/ MonitoringPart!SaveFails(c) \/ MonitoringPart!SendAlert(c)
          \/ MonitoringPart!SendThrows(c) \/ MonitoringPart!DeleteProcessed(c)
          \/ MonitoringPart!DeleteProcessedFails(c) \/ MonitoringPart!Recover(c)
          \/ MonitoringPart!RecoverFails(c)
  BY DEF MonitoringPart!ListenerStep
<1> QED
  BY <1>1, <1>2, <1>3, <1>4, <1>5, <1>6, <1>7, <1>8, <1>9, <1>10, Zenon
     DEF Monitoring!ListenerStep

LEMMA SameMonitoringSteps ==
    /\ \A d \in Readings : Monitoring!Arrive(d) => MonitoringPart!Arrive(d)
    /\ \A c \in MeasurementThreads, l \in Levels :
          Monitoring!Poll(c, l) => MonitoringPart!Poll(c, l)
    /\ \A i \in DOMAIN alerts : /\ Monitoring!BrokerAppend(i) => MonitoringPart!BrokerAppend(i)
                                /\ Monitoring!Acknowledge(i) => MonitoringPart!Acknowledge(i)
    /\ \A l \in Levels : Monitoring!Commit(l) => MonitoringPart!Commit(l)
    /\ Monitoring!Crash => MonitoringPart!Crash
<1>1. ASSUME NEW d \in Readings, Monitoring!Arrive(d) PROVE MonitoringPart!Arrive(d)
  BY <1>1, SameLane DEF Monitoring!Arrive, MonitoringPart!Arrive, Monitoring!Published,
         MonitoringPart!Published, Monitoring!Publish, MonitoringPart!Publish
<1>2. ASSUME NEW c \in MeasurementThreads, NEW l \in Levels, Monitoring!Poll(c, l)
      PROVE  MonitoringPart!Poll(c, l)
  BY <1>2, SameLane DEF Monitoring!Poll, MonitoringPart!Poll
<1>3. ASSUME NEW i \in DOMAIN alerts, Monitoring!BrokerAppend(i)
      PROVE  MonitoringPart!BrokerAppend(i)
  <2>1. Monitoring!Queue(i) = MonitoringPart!Queue(i)
    BY DEF Monitoring!Queue, MonitoringPart!Queue, Monitoring!AlertQueue,
           MonitoringPart!AlertQueue
  <2>2. \A j : (Monitoring!Waiting(j) <=> MonitoringPart!Waiting(j))
               /\ (Monitoring!Written(j) <=> MonitoringPart!Written(j))
    BY DEF Monitoring!Waiting, MonitoringPart!Waiting, Monitoring!Written,
           MonitoringPart!Written
  <2>3. Monitoring!Cardinality({j \in Monitoring!Queue(i) : Monitoring!Written(j)})
        = MonitoringPart!Cardinality({j \in MonitoringPart!Queue(i) : MonitoringPart!Written(j)})
    <3>1. {j \in Monitoring!Queue(i) : Monitoring!Written(j)}
          = {j \in MonitoringPart!Queue(i) : MonitoringPart!Written(j)}
      BY <2>1, <2>2
    <3> QED
      BY <3>1 DEF Monitoring!Cardinality, MonitoringPart!Cardinality
  <2> QED
    BY <1>3, <2>1, <2>2, <2>3, SameLane
       DEF Monitoring!BrokerAppend, MonitoringPart!BrokerAppend, Monitoring!Write,
           MonitoringPart!Write, Monitoring!laneVars, MonitoringPart!laneVars
<1>4. ASSUME NEW i \in DOMAIN alerts, Monitoring!Acknowledge(i)
      PROVE  MonitoringPart!Acknowledge(i)
  BY <1>4, SameLane DEF Monitoring!Acknowledge, MonitoringPart!Acknowledge, Monitoring!SucceedSend,
         MonitoringPart!SucceedSend, Monitoring!Written, MonitoringPart!Written,
         Monitoring!laneVars, MonitoringPart!laneVars
<1>5. ASSUME NEW l \in Levels, Monitoring!Commit(l) PROVE MonitoringPart!Commit(l)
  BY <1>5, SameLane DEF Monitoring!Commit, MonitoringPart!Commit, Monitoring!CommitOffset,
         MonitoringPart!CommitOffset
<1>6. ASSUME Monitoring!Crash PROVE MonitoringPart!Crash
  BY <1>6, SameLane DEF Monitoring!Crash, MonitoringPart!Crash, Monitoring!Restart,
         MonitoringPart!Restart, Monitoring!LoseProducer, MonitoringPart!LoseProducer,
         Monitoring!Pending, MonitoringPart!Pending
<1> QED
  BY <1>1, <1>2, <1>3, <1>4, <1>5, <1>6

-----------------------------------------------------------------------------
(* The whole implements the gateway and the monitoring service.            *)

\* The steps of the two services, as the theorems about them see them.
GatewayMoves ==
    \/ \E a \in Adapters : GatewayPart!StartAdapter(a)
    \/ \E d \in Datagrams : GatewayPart!Arrive(d)
    \/ \E w \in GatewayPart!Workers :
          \/ GatewayPart!Take(w) \/ GatewayPart!Handle(w)
          \/ \E a \in Adapters : GatewayPart!Receive(w, a)
    \/ \E i \in DOMAIN events : GatewayPart!Acknowledge(i)
    \/ GatewayPart!Crash

MonitoringMoves ==
    \/ \E c \in MeasurementThreads, l \in MonitoringPart!Levels : MonitoringPart!Poll(c, l)
    \/ \E c \in MeasurementThreads : MonitoringPart!ListenerStep(c)
    \/ \E i \in DOMAIN alerts : MonitoringPart!Acknowledge(i)
    \/ \E l \in MonitoringPart!Levels : MonitoringPart!Commit(l)
    \/ MonitoringPart!Crash

\* A step of the system is one for each of its parts.
LEMMA StepsOfParts ==
    ASSUME [SystemNext]_systemVars
    PROVE  \/ GatewayMoves /\ UNCHANGED <<eventVars, alertVars, listenerFaults>>
           \/ /\ MonitoringMoves
              /\ UNCHANGED gatewayVars
              /\ Crash \/ UNCHANGED <<alertVars, listenerFaults>>
           \/ AlertListenerStep
           \/ \E i \in DOMAIN events :
                 /\ GatewayPart!BrokerAppend(i)
                 /\ IF Followed(i)
                    THEN MonitoringPart!Arrive(events[i].payload.datagram)
                    ELSE UNCHANGED eventVars
                 /\ UNCHANGED <<alertVars, listenerFaults>>
           \/ \E i \in DOMAIN alerts :
                 /\ MonitoringPart!BrokerAppend(i)
                 /\ Arrive(<<i, alerts[i].payload>>)
                 /\ UNCHANGED gatewayVars
           \/ UNCHANGED systemVars
<1>1. ASSUME GatewayStep
      PROVE  GatewayMoves /\ UNCHANGED <<eventVars, alertVars, listenerFaults>>
  <2>1. CASE \E a \in Adapters : Gateway!StartAdapter(a)
    BY <1>1, <2>1, SameGatewaySteps DEF GatewayStep, GatewayMoves
  <2>2. CASE \E d \in Datagrams : Gateway!Arrive(d)
    BY <1>1, <2>2, SameGatewaySteps DEF GatewayStep, GatewayMoves
  <2>3. CASE \E w \in Gateway!Workers : Gateway!Take(w) \/ Gateway!Handle(w)
    BY <1>1, <2>3, SameGatewaySteps DEF GatewayStep, GatewayMoves
  <2>4. CASE \E w \in Gateway!Workers : \E a \in Adapters : Gateway!Receive(w, a)
    BY <1>1, <2>4, SameGatewaySteps DEF GatewayStep, GatewayMoves
  <2>5. CASE \E i \in DOMAIN events : Gateway!Acknowledge(i)
    BY <1>1, <2>5, SameGatewaySteps DEF GatewayStep, GatewayMoves
  <2>6. CASE Gateway!Crash
    BY <1>1, <2>6, SameGatewaySteps DEF GatewayStep, GatewayMoves
  <2> QED
    BY <1>1, <2>1, <2>2, <2>3, <2>4, <2>5, <2>6 DEF GatewayStep
<1>2. ASSUME MonitoringStep
      PROVE  /\ MonitoringMoves
             /\ UNCHANGED gatewayVars
             /\ UNCHANGED <<alertVars, listenerFaults>>
  <2>1. CASE \E c \in MeasurementThreads, l \in Levels : Monitoring!Poll(c, l)
    <3>1. crashes' = crashes
      BY <2>1 DEF Monitoring!Poll, Monitoring!faultVars
    <3> QED
      BY <1>2, <2>1, <3>1, SameMonitoringSteps, SameLane
         DEF MonitoringStep, MonitoringMoves, listenerFaults
  <2>2. CASE \E c \in MeasurementThreads : Monitoring!ListenerStep(c)
    <3>1. PICK c \in MeasurementThreads : Monitoring!ListenerStep(c)
      BY <2>2
    <3>2. MonitoringPart!ListenerStep(c)
      BY <3>1, SameListenerStep
    <3>3. crashes' = crashes
      BY <3>1 DEF Monitoring!ListenerStep, Monitoring!Resume, Monitoring!GetByType,
         Monitoring!GetByTypeFails, Monitoring!RecordOrdinary, Monitoring!ClaimAlert,
         Monitoring!SkipDuplicate, Monitoring!SaveFails, Monitoring!SendAlert,
         Monitoring!SendThrows, Monitoring!DeleteProcessed, Monitoring!DeleteProcessedFails,
         Monitoring!Recover, Monitoring!RecoverFails, Monitoring!DbFault, Monitoring!KafkaFault,
         Monitoring!faultVars
    <3> QED
      BY <1>2, <3>2, <3>3 DEF MonitoringStep, MonitoringMoves, listenerFaults
  <2>3. CASE \E i \in DOMAIN alerts : Monitoring!Acknowledge(i)
    <3>1. crashes' = crashes
      BY <2>3 DEF Monitoring!Acknowledge, Monitoring!faultVars
    <3> QED
      BY <1>2, <2>3, <3>1, SameMonitoringSteps DEF MonitoringStep, MonitoringMoves, listenerFaults
  <2>4. CASE \E l \in Levels : Monitoring!Commit(l)
    <3>1. crashes' = crashes
      BY <2>4 DEF Monitoring!Commit, Monitoring!faultVars
    <3> QED
      BY <1>2, <2>4, <3>1, SameMonitoringSteps, SameLane
         DEF MonitoringStep, MonitoringMoves, listenerFaults
  <2> QED
    BY <1>2, <2>1, <2>2, <2>3, <2>4 DEF MonitoringStep
<1>3. ASSUME NEW i \in DOMAIN events, PublishEvent(i)
      PROVE  /\ GatewayPart!BrokerAppend(i)
             /\ IF Followed(i)
                THEN MonitoringPart!Arrive(events[i].payload.datagram)
                ELSE UNCHANGED eventVars
             /\ UNCHANGED <<alertVars, listenerFaults>>
  <2>1. Followed(i) => events[i].payload.datagram \in Readings
    BY DEF Followed
  <2> QED
    BY <1>3, <2>1, SameGatewaySteps, SameMonitoringSteps DEF PublishEvent
<1>4. ASSUME NEW i \in DOMAIN alerts, PublishAlert(i)
      PROVE  /\ MonitoringPart!BrokerAppend(i)
             /\ Arrive(<<i, alerts[i].payload>>)
             /\ UNCHANGED gatewayVars
  BY <1>4, SameMonitoringSteps DEF PublishAlert
<1>5. ASSUME MonitoringCrash PROVE MonitoringMoves /\ UNCHANGED gatewayVars /\ Crash
  BY <1>5, SameMonitoringSteps DEF MonitoringCrash, MonitoringMoves
<1>6. AtRest => UNCHANGED systemVars
  BY DEF AtRest
<1> QED
  BY <1>1, <1>2, <1>3, <1>4, <1>5, <1>6 DEF SystemNext

LEMMA GatewayImplemented == SystemSpec => GatewayPart!Spec
<1>1. SystemInit => GatewayPart!Init
  BY SameGatewayInit DEF SystemInit
<1>2. [SystemNext]_systemVars => [GatewayPart!Next]_(GatewayPart!vars)
  <2> SUFFICES ASSUME [SystemNext]_systemVars
               PROVE  GatewayPart!Next \/ UNCHANGED GatewayPart!vars
    OBVIOUS
  <2>1. GatewayMoves => GatewayPart!Next
    BY DEF GatewayMoves, GatewayPart!Next
  <2>2. (\E i \in DOMAIN events : GatewayPart!BrokerAppend(i)) => GatewayPart!Next
    BY DEF GatewayPart!Next
  <2>3. UNCHANGED gatewayVars => UNCHANGED GatewayPart!vars
    BY DEF gatewayVars, GatewayPart!vars
  <2>4. AlertListenerStep \/ UNCHANGED systemVars => UNCHANGED gatewayVars
    BY DEF AlertListenerStep, systemVars
  <2> QED
    BY <2>1, <2>2, <2>3, <2>4, StepsOfParts
<1> QED
  BY <1>1, <1>2, PTL DEF SystemSpec, GatewayPart!Spec

LEMMA MonitoringImplemented == SystemSpec => MonitoringPart!Spec
<1>1. SystemInit => MonitoringPart!Init
  BY SameMonitoringInit DEF SystemInit
<1>2. [SystemNext]_systemVars => [MonitoringPart!Next]_(MonitoringPart!vars)
  <2> SUFFICES ASSUME [SystemNext]_systemVars
               PROVE  MonitoringPart!Next \/ UNCHANGED MonitoringPart!vars
    OBVIOUS
  <2>1. MonitoringMoves => MonitoringPart!Next
    BY DEF MonitoringMoves, MonitoringPart!Next, MonitoringPart!ProducerStep
  <2>2. (\E i \in DOMAIN alerts : MonitoringPart!BrokerAppend(i)) => MonitoringPart!Next
    BY DEF MonitoringPart!Next, MonitoringPart!ProducerStep
  <2>3. \A d \in Readings : MonitoringPart!Arrive(d) => MonitoringPart!Next
    BY DEF MonitoringPart!Next, MonitoringPart!Events
  <2>4. UNCHANGED eventVars /\ crashes' = crashes => UNCHANGED MonitoringPart!vars
    BY DEF eventVars, MonitoringPart!vars, MonitoringPart!laneVars, MonitoringPart!serviceVars,
           MonitoringPart!faultVars
  <2>5. UNCHANGED listenerFaults => crashes' = crashes
    BY DEF listenerFaults
  <2>6. AlertListenerStep => UNCHANGED eventVars /\ crashes' = crashes
    BY DEF AlertListenerStep, Poll, ListenerStep, Resume, Log, Recover, RecoverFails, Commit,
           Rebalance, listenerFaults
  <2>7. UNCHANGED systemVars => UNCHANGED eventVars /\ UNCHANGED listenerFaults
    BY DEF systemVars
  <2>8. ASSUME NEW i \in DOMAIN events, Followed(i)
        PROVE  events[i].payload.datagram \in Readings
    BY <2>8 DEF Followed
  <2> QED
    BY <2>1, <2>2, <2>3, <2>4, <2>5, <2>6, <2>7, <2>8, StepsOfParts
<1> QED
  BY <1>1, <1>2, PTL DEF SystemSpec, MonitoringPart!Spec

-----------------------------------------------------------------------------
(* What is known of the two services by themselves.                        *)

GatewayKnown ==
    /\ GatewayPart!GatewayInv
    /\ GatewayPart!PlacesFilled
    /\ GatewayPart!QueueOnceListening
    /\ GatewayPart!AllAccounted

LEMMA GatewayKnownAlways == SystemSpec => []GatewayKnown
<1>1. /\ GatewayPart!DatagramAssumption /\ GatewayPart!ProcessorsAssumption
      /\ GatewayPart!BoundsAssumption /\ GatewayPart!NoTaskAssumption
  BY GatewayAssumptions
<1>2. GatewayPart!Spec => []GatewayPart!GatewayInv
  BY <1>1, GatewayPart!GatewayInvAlways, PTL
<1>3. GatewayPart!Spec => []GatewayPart!PlacesFilled
  BY <1>1, GatewayPart!PlacesAreFilled, PTL
<1>4. GatewayPart!Spec => []GatewayPart!QueueOnceListening
  BY <1>1, GatewayPart!LikeAQueueOnceListening, PTL
<1>5. GatewayPart!Spec => []GatewayPart!AllAccounted
  BY <1>1, GatewayPart!AllAccountedAlways, PTL
<1> QED
  BY <1>2, <1>3, <1>4, <1>5, GatewayImplemented, PTL DEF GatewayKnown

MonitoringKnown ==
    /\ MonitoringPart!TInv
    /\ MonitoringPart!Ordered
    /\ MonitoringPart!PlacesFilled
    /\ MonitoringPart!PartitionsInOrder
    /\ MonitoringPart!NoFailure
    /\ MonitoringPart!NoEventLost /\ MonitoringPart!MarkMeansAlert /\ MonitoringPart!DltIsEarned

LEMMA MonitoringKnownAlways == SystemSpec => []MonitoringKnown
<1>1. /\ MonitoringPart!DataAssumption /\ MonitoringPart!BoundsAssumption
      /\ MonitoringPart!AttemptsAssumption
  BY MonitoringAssumptions
<1>2. MonitoringPart!Spec => []MonitoringPart!TInv
  BY <1>1, MonitoringPart!TInvAlways, PTL
<1>3. MonitoringPart!Spec => []MonitoringPart!OrderInv
  BY <1>1, MonitoringPart!OrderAlways, PTL
<1>4. MonitoringPart!Spec => []MonitoringPart!PlacesFilled
  BY <1>1, MonitoringPart!PlacesAreFilled, PTL
<1>5. MonitoringPart!Spec => []MonitoringPart!PartitionsInOrder
  BY <1>1, MonitoringPart!AlertTopicInOrder, PTL
<1>6. MonitoringPart!OrderInv => MonitoringPart!Ordered
  BY DEF MonitoringPart!OrderInv, MonitoringPart!Quiet
<1>7. MonitoringPart!Spec => []MonitoringPart!NoFailureInv
  BY <1>1, MonitoringPart!NoFailureAlways, PTL
<1>8. MonitoringPart!NoFailureInv => MonitoringPart!NoFailure
  BY DEF MonitoringPart!NoFailureInv, MonitoringPart!Quiet
<1>9. MonitoringPart!Spec => []MonitoringPart!NoEventLost
  BY <1>1, MonitoringPart!NothingLost, PTL
<1>10. MonitoringPart!Spec => []MonitoringPart!MarkMeansAlert
  BY <1>1, MonitoringPart!MarkedIsAlerted, PTL
<1>11. MonitoringPart!Spec => []MonitoringPart!DltIsEarned
  BY <1>1, MonitoringPart!DltEarned, PTL
<1> QED
  BY <1>2, <1>3, <1>4, <1>5, <1>6, <1>7, <1>8, <1>9, <1>10, <1>11, MonitoringImplemented, PTL DEF MonitoringKnown

\* No datagram has two alerts.
LEMMA AlertsDiffer ==
    ASSUME MonitoringKnown
    PROVE  /\ DOMAIN alerts = 1 .. Len(alerts) /\ Len(alerts) \in Nat
           /\ \A i \in DOMAIN alerts : alerts[i].payload \in Readings /\ alerts[i].offset \in Nat
           /\ \A i \in DOMAIN alerts : \E k \in DOMAIN eventLog[0] :
                 alerts[i].payload = eventLog[0][k]
           /\ \A i, j \in DOMAIN alerts : alerts[i].payload = alerts[j].payload => i = j
<1>1. alerts \in Seq(MonitoringPart!Send)
  BY DEF MonitoringKnown, MonitoringPart!TInv, MonitoringPart!TypeOK,
         MonitoringPart!ProducerTypeOK
<1>2. DOMAIN alerts = 1 .. Len(alerts) /\ Len(alerts) \in Nat
  BY <1>1
<1>3. ASSUME NEW i \in DOMAIN alerts
      PROVE  alerts[i].payload \in Readings /\ alerts[i].offset \in Nat
  <2>1. alerts[i] \in MonitoringPart!Send
    BY <1>1
  <2> QED
    BY <2>1 DEF MonitoringPart!Send, MonitoringPart!Events
<1>4. \A i \in DOMAIN alerts : \E k \in DOMAIN eventLog[0] : alerts[i].payload = eventLog[0][k]
  BY DEF MonitoringKnown, MonitoringPart!Ordered, MonitoringPart!AlertsInTurn
<1>5. DOMAIN eventLog[0] \subseteq Nat
  <2>1. eventLog \in [MonitoringPart!Topics -> Seq(Readings)] /\ 0 \in MonitoringPart!Topics
    BY AttemptsAssumption DEF MonitoringKnown, MonitoringPart!TInv, MonitoringPart!TypeOK,
       MonitoringPart!LaneTypeOK, MonitoringPart!Topics
  <2>2. eventLog[0] \in Seq(Readings)
    BY <2>1
  <2> QED
    BY <2>2
<1>6. ASSUME NEW i \in DOMAIN alerts, NEW j \in DOMAIN alerts, i < j
      PROVE  alerts[i].payload # alerts[j].payload
  <2>1. PICK k \in DOMAIN eventLog[0] : alerts[i].payload = eventLog[0][k]
    BY <1>4
  <2>2. ~(k < k)
    BY <1>5
  <2> QED
    BY <1>6, <2>1, <2>2 DEF MonitoringKnown, MonitoringPart!Ordered, MonitoringPart!AlertsInOrder
<1> QED
  BY <1>2, <1>3, <1>4, <1>6

LEMMA AlertsAreRecords ==
    ASSUME MonitoringKnown, NEW i \in DOMAIN alerts
    PROVE  <<i, alerts[i].payload>> \in Records
<1> DEFINE f == [j \in DOMAIN alerts |-> alerts[j].payload]
<1>1. f \in Injection(DOMAIN alerts, Readings)
  BY AlertsDiffer DEF Injection, IsInjective
<1>2. IsFiniteSet(Readings) /\ Cardinality(Readings) \in Nat
  BY RecordsAssumption, FS_CardinalityType
<1> HIDE DEF f
<1>3. Cardinality(DOMAIN alerts) <= Cardinality(Readings)
  BY <1>1, <1>2, FS_Injection
<1>4. Cardinality(DOMAIN alerts) = Len(alerts)
  <2>1. PICK n \in Nat : DOMAIN alerts = 1 .. n /\ Len(alerts) = n
    BY AlertsDiffer
  <2>2. Cardinality(1 .. n) = IF 1 > n THEN 0 ELSE n - 1 + 1
    BY FS_Interval
  <2> QED
    BY <2>1, <2>2
<1>5. i \in 1 .. Cardinality(Readings) /\ alerts[i].payload \in Readings
  BY <1>2, <1>3, <1>4, AlertsDiffer
<1> QED
  BY <1>5, RecordsAssumption

LEMMA AlertListenerImplemented == SystemSpec => Spec
<1>1. SystemInit => Init
  BY DEF SystemInit
<1>2. MonitoringKnown /\ [SystemNext]_systemVars => [Next]_vars
  <2> SUFFICES ASSUME MonitoringKnown, [SystemNext]_systemVars
               PROVE  Next \/ UNCHANGED vars
    OBVIOUS
  <2>1. UNCHANGED <<alertVars, listenerFaults>> => UNCHANGED vars
    BY DEF alertVars, vars
  <2>2. AlertListenerStep => Next
    BY DEF AlertListenerStep, Next
  <2>3. ASSUME NEW i \in DOMAIN alerts, Arrive(<<i, alerts[i].payload>>) PROVE Next
    BY <2>3, AlertsAreRecords DEF Next
  <2>4. Crash => Next
    BY DEF Next
  <2>5. UNCHANGED systemVars => UNCHANGED <<alertVars, listenerFaults>>
    BY DEF systemVars
  <2> QED
    BY <2>1, <2>2, <2>3, <2>4, <2>5, StepsOfParts
<1> QED
  BY <1>1, <1>2, MonitoringKnownAlways, PTL DEF SystemSpec, Spec

-----------------------------------------------------------------------------
(* What one service reads is what the other's producer got written, in the *)
(* order of its places in the partition.                                   *)

\* The record at k of the measurement topic is message p of the gateway.
IsEvent(k, p) ==
    /\ events[p].payload = [datagram |-> eventLog[0][k], topic |-> Type]
    /\ GatewayPart!Written(p)

EventsFlow ==
    /\ \A k \in DOMAIN eventLog[0] : \E p \in DOMAIN events : IsEvent(k, p)
    /\ \A k, m \in DOMAIN eventLog[0] : \A p, q \in DOMAIN events :
          /\ k < m /\ IsEvent(k, p) /\ IsEvent(m, q)
          /\ Sensor[eventLog[0][k]] = Sensor[eventLog[0][m]]
          => events[p].offset < events[q].offset

\* The record at x of the alert topic is alert i of the monitoring service.
IsAlert(x, i) == log[0][x] = <<i, alerts[i].payload>> /\ MonitoringPart!Written(i)

AlertsFlow ==
    /\ \A x \in DOMAIN log[0] : \E i \in DOMAIN alerts : IsAlert(x, i)
    /\ \A x, y \in DOMAIN log[0] : \A i, j \in DOMAIN alerts :
          /\ x < y /\ IsAlert(x, i) /\ IsAlert(y, j)
          /\ Sensor[alerts[i].payload] = Sensor[alerts[j].payload]
          => alerts[i].offset < alerts[j].offset

LEMMA EventTopic ==
    ASSUME MonitoringKnown
    PROVE  eventLog[0] \in Seq(Readings) /\ 0 \in MonitoringPart!Topics
           /\ eventLog \in [MonitoringPart!Topics -> Seq(Readings)]
<1>1. eventLog \in [MonitoringPart!Topics -> Seq(Readings)] /\ 0 \in MonitoringPart!Topics
  BY AttemptsAssumption DEF MonitoringKnown, MonitoringPart!TInv, MonitoringPart!TypeOK,
     MonitoringPart!LaneTypeOK, MonitoringPart!Topics
<1> QED
  BY <1>1

LEMMA EventShape ==
    ASSUME GatewayKnown, NEW p \in DOMAIN events
    PROVE  /\ events[p].payload \in GatewayPart!Message
           /\ events[p].payload.datagram \in Datagrams
           /\ events[p].offset \in Nat
           /\ \A q \in DOMAIN events :
                 events[p].payload.datagram = events[q].payload.datagram => p = q
<1>1. events[p] \in GatewayPart!Send
  BY DEF GatewayKnown, GatewayPart!GatewayInv, GatewayPart!TypeOK, GatewayPart!ProducerTypeOK
<1>2. events[p].payload \in GatewayPart!Message /\ events[p].offset \in Nat
  BY <1>1 DEF GatewayPart!Send
<1>3. events[p].payload.datagram \in Datagrams
  BY <1>2 DEF GatewayPart!Message
<1>4. GatewayPart!SentOnce(events[p].payload.datagram)
  BY <1>3 DEF GatewayKnown, GatewayPart!GatewayInv, GatewayPart!PlacesInv, GatewayPart!Once
<1> QED
  BY <1>2, <1>3, <1>4 DEF GatewayPart!SentOnce

\* Steps that write nothing and leave the topic as it is.
LEMMA EventsFlowStays ==
    ASSUME EventsFlow, GatewayPart!PlacesStay, eventLog'[0] = eventLog[0]
    PROVE  EventsFlow'
<1>1. ASSUME NEW k, NEW p \in DOMAIN events
      PROVE  /\ p \in DOMAIN events' /\ events'[p].offset = events[p].offset
             /\ IsEvent(k, p)' <=> IsEvent(k, p)
  BY <1>1 DEF GatewayPart!PlacesStay, IsEvent, GatewayPart!Written
<1>2. ASSUME NEW k, NEW p \in DOMAIN events', IsEvent(k, p)'
      PROVE  p \in DOMAIN events /\ IsEvent(k, p)
  BY <1>1, <1>2 DEF GatewayPart!PlacesStay, IsEvent
<1> QED
  BY <1>1, <1>2 DEF EventsFlow

LEMMA AlertsFlowStays ==
    ASSUME AlertsFlow, MonitoringPart!PlacesStay, log'[0] = log[0]
    PROVE  AlertsFlow'
<1>1. ASSUME NEW x, NEW i \in DOMAIN alerts
      PROVE  /\ i \in DOMAIN alerts' /\ alerts'[i].offset = alerts[i].offset
             /\ alerts'[i].payload = alerts[i].payload
             /\ IsAlert(x, i)' <=> IsAlert(x, i)
  BY <1>1 DEF MonitoringPart!PlacesStay, IsAlert, MonitoringPart!Written
<1>2. ASSUME NEW x, NEW i \in DOMAIN alerts', IsAlert(x, i)'
      PROVE  i \in DOMAIN alerts /\ IsAlert(x, i)
  BY <1>1, <1>2 DEF MonitoringPart!PlacesStay, IsAlert
<1> QED
  BY <1>1, <1>2 DEF AlertsFlow

\* The message that is written gets the last place of its partition, and its
\* datagram the last of the topic the monitoring service reads.
LEMMA PublishEventFlows ==
    ASSUME EventsFlow, GatewayKnown, MonitoringKnown,
           NEW b \in DOMAIN events, GatewayPart!BrokerAppend(b),
           IF Followed(b) THEN MonitoringPart!Arrive(events[b].payload.datagram)
                          ELSE UNCHANGED eventVars
    PROVE  EventsFlow'
<1>0. /\ GatewayPart!DatagramAssumption /\ GatewayPart!ProcessorsAssumption
      /\ GatewayPart!BoundsAssumption /\ GatewayPart!NoTaskAssumption
  BY GatewayAssumptions
<1>1. /\ GatewayPart!SameDatagrams /\ ~GatewayPart!Written(b) /\ GatewayPart!Written(b)'
      /\ events'[b].payload = events[b].payload /\ events'[b].offset \in Nat
      /\ \A p \in DOMAIN events \ {b} : events'[p] = events[p]
      /\ \A p \in GatewayPart!Queue(b) :
            GatewayPart!Written(p) => events[p].offset < events'[b].offset
  <2>1. GatewayPart!TypeOK /\ GatewayPart!PlacesFilled
    BY DEF GatewayKnown, GatewayPart!GatewayInv
  <2> QED
    BY <1>0, <2>1, GatewayPart!AppendGoesLast
<1>2. DOMAIN events' = DOMAIN events
  BY <1>1 DEF GatewayPart!SameDatagrams
<1>3. PICK n \in Nat : n = Len(eventLog[0])
  BY EventTopic
<1>4. DOMAIN eventLog[0] = 1 .. n
  BY <1>3, EventTopic
\* The topic is as it was, or has one datagram more.
<1>5. PICK d : d = events[b].payload.datagram
  OBVIOUS
<1>6. \/ eventLog'[0] = eventLog[0]
      \/ /\ d \in Readings /\ events[b].payload = [datagram |-> d, topic |-> Type]
         /\ DOMAIN eventLog'[0] = 1 .. n + 1
         /\ \A k \in 1 .. n : eventLog'[0][k] = eventLog[0][k]
         /\ eventLog'[0][n + 1] = d
  <2>1. CASE Followed(b)
    <3>1. d \in Readings /\ events[b].payload = [datagram |-> d, topic |-> Type]
      BY <1>5, <2>1 DEF Followed
    <3>2. eventLog'[0] = Append(eventLog[0], d)
      BY <1>5, <2>1, <3>1, EventTopic DEF MonitoringPart!Arrive, MonitoringPart!Publish
    <3> QED
      BY <1>3, <1>4, <3>1, <3>2, EventTopic
  <2>2. CASE ~Followed(b)
    BY <2>2 DEF eventVars
  <2> QED
    BY <2>1, <2>2
\* What was in the topic came from another message, and still does.
<1>7. ASSUME NEW k \in 1 .. n, NEW p \in DOMAIN events
      PROVE  /\ eventLog'[0][k] = eventLog[0][k]
             /\ IsEvent(k, p)' <=> IsEvent(k, p)
             /\ IsEvent(k, p) => p # b /\ events'[p].offset = events[p].offset
  <2>1. eventLog'[0][k] = eventLog[0][k]
    BY <1>6
  <2>2. IsEvent(k, p) => p # b
    BY <1>1 DEF IsEvent
  <2>3. p # b => (IsEvent(k, p)' <=> IsEvent(k, p)) /\ events'[p].offset = events[p].offset
    BY <1>1, <2>1 DEF IsEvent, GatewayPart!Written
  <2>4. ~IsEvent(k, b)'
    <3> SUFFICES ASSUME IsEvent(k, b)' PROVE FALSE
      OBVIOUS
    <3>1. events[b].payload = [datagram |-> eventLog[0][k], topic |-> Type]
      BY <1>1, <2>1 DEF IsEvent
    <3>2. PICK q \in DOMAIN events : IsEvent(k, q)
      BY <1>4 DEF EventsFlow
    <3>3. events[q].payload.datagram = events[b].payload.datagram
      BY <3>1, <3>2 DEF IsEvent
    <3>4. q = b
      BY <3>3, EventShape
    <3> QED
      BY <1>1, <3>2, <3>4 DEF IsEvent
  <2> QED
    BY <2>1, <2>2, <2>3, <2>4
<1>8. CASE eventLog'[0] = eventLog[0]
  BY <1>2, <1>4, <1>7, <1>8 DEF EventsFlow
<1>9. CASE /\ d \in Readings /\ events[b].payload = [datagram |-> d, topic |-> Type]
           /\ DOMAIN eventLog'[0] = 1 .. n + 1
           /\ \A k \in 1 .. n : eventLog'[0][k] = eventLog[0][k]
           /\ eventLog'[0][n + 1] = d
  <2>1. IsEvent(n + 1, b)'
    BY <1>1, <1>9 DEF IsEvent
  <2>2. ASSUME NEW q \in DOMAIN events, IsEvent(n + 1, q)' PROVE q = b
    <3>1. events'[q].payload.datagram = d
      BY <1>9, <2>2 DEF IsEvent
    <3>2. events[q].payload.datagram = events[b].payload.datagram
      BY <1>1, <1>5, <3>1
    <3> QED
      BY <3>2, EventShape
  <2>3. ASSUME NEW k \in 1 .. n, NEW p \in DOMAIN events, IsEvent(k, p),
               Sensor[eventLog[0][k]] = Sensor[d]
        PROVE  events[p].offset < events'[b].offset
    <3>1. GatewayPart!MessageQueue(events[p].payload)
          = GatewayPart!MessageQueue(events[b].payload)
      BY <1>9, <2>3 DEF IsEvent, GatewayPart!MessageQueue
    <3>2. p \in GatewayPart!Queue(b)
      BY <3>1 DEF GatewayPart!Queue
    <3> QED
      BY <1>1, <2>3, <3>2 DEF IsEvent
  <2>4. \A k \in 1 .. n + 1 : k \in 1 .. n \/ k = n + 1
    BY <1>3
  <2>5. ASSUME NEW k \in 1 .. n + 1 PROVE \E p \in DOMAIN events : IsEvent(k, p)'
    BY <1>4, <1>7, <2>1, <2>4 DEF EventsFlow
  <2>6. ASSUME NEW k \in 1 .. n + 1, NEW m \in 1 .. n + 1,
               NEW p \in DOMAIN events, NEW q \in DOMAIN events,
               k < m, IsEvent(k, p)', IsEvent(m, q)',
               Sensor[eventLog'[0][k]] = Sensor[eventLog'[0][m]]
        PROVE  events'[p].offset < events'[q].offset
    <3>1. k \in 1 .. n /\ IsEvent(k, p) /\ events'[p].offset = events[p].offset
          /\ eventLog'[0][k] = eventLog[0][k]
      BY <1>3, <1>7, <2>6
    <3>2. CASE m \in 1 .. n
      BY <1>4, <1>7, <2>6, <3>1, <3>2 DEF EventsFlow
    <3>3. CASE m = n + 1
      BY <1>9, <2>2, <2>3, <2>6, <3>1, <3>3
    <3> QED
      BY <2>4, <3>2, <3>3
  <2> QED
    BY <1>2, <1>9, <2>5, <2>6 DEF EventsFlow
<1> QED
  BY <1>6, <1>8, <1>9

\* So does the alert that is written, and the record it becomes.
LEMMA PublishAlertFlows ==
    ASSUME AlertsFlow, MonitoringKnown, Shape,
           NEW b \in DOMAIN alerts, MonitoringPart!BrokerAppend(b),
           Arrive(<<b, alerts[b].payload>>)
    PROVE  AlertsFlow'
<1>0. /\ MonitoringPart!DataAssumption /\ MonitoringPart!BoundsAssumption
      /\ MonitoringPart!AttemptsAssumption
  BY MonitoringAssumptions
<1>1. /\ DOMAIN alerts' = DOMAIN alerts
      /\ ~MonitoringPart!Written(b) /\ MonitoringPart!Written(b)'
      /\ alerts'[b].payload = alerts[b].payload /\ alerts'[b].offset \in Nat
      /\ \A i \in DOMAIN alerts \ {b} : alerts'[i] = alerts[i]
      /\ \A i \in MonitoringPart!Queue(b) :
            MonitoringPart!Written(i) => alerts[i].offset < alerts'[b].offset
  <2>1. MonitoringPart!TInv /\ MonitoringPart!PlacesFilled
    BY DEF MonitoringKnown
  <2> QED
    BY <1>0, <2>1, MonitoringPart!AppendGoesLast
<1>2. PICK n \in Nat : n = Len(log[0]) /\ DOMAIN log[0] = 1 .. n
  BY MainTopic
<1>3. PICK r : r = <<b, alerts[b].payload>>
  OBVIOUS
<1>4. /\ DOMAIN log'[0] = 1 .. n + 1
      /\ \A x \in 1 .. n : log'[0][x] = log[0][x]
      /\ log'[0][n + 1] = r
  <2>1. r \in Records
    BY <1>3, AlertsAreRecords
  <2>2. log'[0] = Append(log[0], r)
    BY <1>3, MainTopic DEF Arrive, Publish
  <2> QED
    BY <1>2, <2>1, <2>2, MainTopic
<1>5. ASSUME NEW x \in 1 .. n, NEW i \in DOMAIN alerts
      PROVE  /\ IsAlert(x, i)' <=> IsAlert(x, i)
             /\ IsAlert(x, i) => i # b /\ alerts'[i] = alerts[i]
  <2>1. IsAlert(x, i) => i # b
    BY <1>1 DEF IsAlert
  <2>2. i # b => (IsAlert(x, i)' <=> IsAlert(x, i)) /\ alerts'[i] = alerts[i]
    BY <1>1, <1>4 DEF IsAlert, MonitoringPart!Written
  <2>3. ~IsAlert(x, b)'
    <3> SUFFICES ASSUME IsAlert(x, b)' PROVE FALSE
      OBVIOUS
    <3>1. PICK j \in DOMAIN alerts : IsAlert(x, j)
      BY <1>2 DEF AlertsFlow
    <3>2. log[0][x] = <<b, alerts[b].payload>> /\ log[0][x] = <<j, alerts[j].payload>>
      BY <1>1, <1>4, <3>1 DEF IsAlert
    <3>3. j = b
      BY <3>2
    <3> QED
      BY <1>1, <3>1, <3>3 DEF IsAlert
  <2> QED
    BY <2>1, <2>2, <2>3
<1>6. IsAlert(n + 1, b)'
  BY <1>1, <1>3, <1>4 DEF IsAlert
<1>7. ASSUME NEW j \in DOMAIN alerts, IsAlert(n + 1, j)' PROVE j = b
  <2>1. <<b, alerts[b].payload>> = <<j, alerts'[j].payload>>
    BY <1>3, <1>4, <1>7 DEF IsAlert
  <2> QED
    BY <2>1
<1>8. ASSUME NEW i \in DOMAIN alerts, MonitoringPart!Written(i),
             Sensor[alerts[i].payload] = Sensor[alerts[b].payload]
      PROVE  alerts[i].offset < alerts'[b].offset
  <2>1. alerts[i].payload \in Readings /\ alerts[b].payload \in Readings
    BY AlertsDiffer
  <2>2. AdapterOf[alerts[i].payload] = Type /\ AdapterOf[alerts[b].payload] = Type
    BY <2>1 DEF Readings
  <2>3. i \in MonitoringPart!Queue(b)
    BY <1>8, <2>1, <2>2 DEF MonitoringPart!Queue, MonitoringPart!AlertQueue
  <2> QED
    BY <1>1, <1>8, <2>3
<1>9. \A x \in 1 .. n + 1 : x \in 1 .. n \/ x = n + 1
  BY <1>2
<1>10. ASSUME NEW x \in 1 .. n + 1 PROVE \E i \in DOMAIN alerts : IsAlert(x, i)'
  BY <1>2, <1>5, <1>6, <1>9 DEF AlertsFlow
<1>11. ASSUME NEW x \in 1 .. n + 1, NEW y \in 1 .. n + 1,
              NEW i \in DOMAIN alerts, NEW j \in DOMAIN alerts,
              x < y, IsAlert(x, i)', IsAlert(y, j)',
              Sensor[alerts'[i].payload] = Sensor[alerts'[j].payload]
       PROVE  alerts'[i].offset < alerts'[j].offset
  <2>1. x \in 1 .. n /\ IsAlert(x, i) /\ alerts'[i] = alerts[i]
    BY <1>2, <1>5, <1>11
  <2>2. CASE y \in 1 .. n
    BY <1>2, <1>5, <1>11, <2>1, <2>2 DEF AlertsFlow
  <2>3. CASE y = n + 1
    <3>1. j = b /\ MonitoringPart!Written(i)
      BY <1>7, <1>11, <2>1, <2>3 DEF IsAlert
    <3> QED
      BY <1>1, <1>8, <1>11, <2>1, <3>1
  <2> QED
    BY <1>9, <2>2, <2>3
<1> QED
  BY <1>1, <1>4, <1>10, <1>11 DEF AlertsFlow

\* Of either link, a step adds to the topic what it writes, or leaves both.
EventLinkStays == GatewayPart!PlacesStay /\ eventLog'[0] = eventLog[0]

WritesEvent(i) ==
    /\ GatewayPart!BrokerAppend(i)
    /\ IF Followed(i) THEN MonitoringPart!Arrive(events[i].payload.datagram)
                      ELSE UNCHANGED eventVars

AlertLinkStays == MonitoringPart!PlacesStay /\ log'[0] = log[0]

WritesAlert(i) == MonitoringPart!BrokerAppend(i) /\ Arrive(<<i, alerts[i].payload>>)

LinksStep ==
    /\ EventLinkStays \/ \E i \in DOMAIN events : WritesEvent(i)
    /\ AlertLinkStays \/ \E i \in DOMAIN alerts : WritesAlert(i)

LEMMA StepsOfLinks ==
    ASSUME GatewayKnown, MonitoringKnown, Shape, [SystemNext]_systemVars
    PROVE  LinksStep
<1>1. UNCHANGED events => GatewayPart!PlacesStay
  BY DEF GatewayPart!PlacesStay
<1>2. UNCHANGED alerts => MonitoringPart!PlacesStay
  BY DEF MonitoringPart!PlacesStay
<1>3. UNCHANGED gatewayVars => UNCHANGED events
  BY DEF gatewayVars
<1>4. UNCHANGED eventVars => UNCHANGED <<eventLog, alerts>>
  BY DEF eventVars
<1>5. UNCHANGED alertVars => UNCHANGED log
  BY DEF alertVars, laneVars
<1>6. ASSUME GatewayMoves, UNCHANGED <<eventVars, alertVars>> PROVE LinksStep
  <2>1. GatewayPart!DatagramAssumption /\ GatewayPart!ProcessorsAssumption
        /\ GatewayPart!BoundsAssumption /\ GatewayPart!NoTaskAssumption
    BY GatewayAssumptions
  <2>2. \/ \E w \in GatewayPart!Workers : GatewayPart!Handle(w)
        \/ \E i \in DOMAIN events : GatewayPart!Acknowledge(i)
        \/ GatewayPart!Crash
        \/ UNCHANGED events
    BY <1>6 DEF GatewayMoves, GatewayPart!StartAdapter, GatewayPart!Arrive, GatewayPart!Take,
                GatewayPart!Receive
  <2>3. GatewayPart!TypeOK
    BY DEF GatewayKnown, GatewayPart!GatewayInv
  <2>4. GatewayPart!PlacesStay
    BY <2>1, <2>2, <2>3, GatewayPart!NothingWritten
  <2> QED
    BY <1>2, <1>4, <1>5, <1>6, <2>4
       DEF LinksStep, EventLinkStays, AlertLinkStays
<1>7. ASSUME MonitoringMoves, UNCHANGED gatewayVars, Crash \/ UNCHANGED alertVars
      PROVE  LinksStep
  <2>1. /\ MonitoringPart!DataAssumption /\ MonitoringPart!BoundsAssumption
        /\ MonitoringPart!AttemptsAssumption
    BY MonitoringAssumptions
  <2>2. MonitoringPart!PlacesStay /\ eventLog'[0] = eventLog[0]
    <3>1. MonitoringPart!TInv
      BY DEF MonitoringKnown
    <3> QED
      BY <1>7, <2>1, <3>1, MonitoringPart!TopicsStay DEF MonitoringMoves
  <2>3. UNCHANGED log
    BY <1>5, <1>7 DEF Crash, Restart
  <2> QED
    BY <1>1, <1>3, <1>7, <2>2, <2>3
       DEF LinksStep, EventLinkStays, AlertLinkStays
<1>8. ASSUME AlertListenerStep PROVE LinksStep
  <2>1. UNCHANGED <<gatewayVars, eventVars>>
    BY <1>8 DEF AlertListenerStep
  <2>2. \/ \E c \in Consumers : Forward(c, Dlt) \/ ForwardUnconfirmed(c, Dlt)
        \/ UNCHANGED log
    BY <1>8 DEF AlertListenerStep, Poll, Deliver, ListenerStep, Resume, Goto, Log, Finish,
                Recover, RecoverFails, SeekBack, Commit, CommitOffset, Rebalance, Reassign
  <2>3. log'[0] = log[0]
    BY <2>2, MainTopic DEF Forward, ForwardUnconfirmed
  <2> QED
    BY <1>1, <1>2, <1>3, <1>4, <2>1, <2>3
       DEF LinksStep, EventLinkStays, AlertLinkStays
<1>9. ASSUME NEW i \in DOMAIN events, GatewayPart!BrokerAppend(i),
             IF Followed(i) THEN MonitoringPart!Arrive(events[i].payload.datagram)
                            ELSE UNCHANGED eventVars,
             UNCHANGED alertVars
      PROVE  LinksStep
  <2>1. UNCHANGED alerts
    BY <1>4, <1>9 DEF MonitoringPart!Arrive, MonitoringPart!serviceVars
  <2> QED
    BY <1>2, <1>5, <1>9, <2>1 DEF LinksStep, WritesEvent, AlertLinkStays
<1>10. ASSUME NEW i \in DOMAIN alerts, MonitoringPart!BrokerAppend(i),
              Arrive(<<i, alerts[i].payload>>), UNCHANGED gatewayVars
       PROVE  LinksStep
  <2>1. UNCHANGED eventLog
    BY <1>10 DEF MonitoringPart!BrokerAppend, MonitoringPart!laneVars
  <2> QED
    BY <1>1, <1>3, <1>10, <2>1 DEF LinksStep, WritesAlert, EventLinkStays
<1>11. ASSUME UNCHANGED systemVars PROVE LinksStep
  <2>1. UNCHANGED <<gatewayVars, eventVars, alertVars>>
    BY <1>11 DEF systemVars
  <2> QED
    BY <1>1, <1>2, <1>3, <1>4, <1>5, <2>1
       DEF LinksStep, EventLinkStays, AlertLinkStays
<1> QED
  BY <1>6, <1>7, <1>8, <1>9, <1>10, <1>11, StepsOfParts

LEMMA FlowNext ==
    ASSUME EventsFlow, AlertsFlow, GatewayKnown, MonitoringKnown, Shape, LinksStep
    PROVE  EventsFlow' /\ AlertsFlow'
<1>1. EventsFlow'
  BY EventsFlowStays, PublishEventFlows DEF LinksStep, EventLinkStays, WritesEvent
<1>2. AlertsFlow'
  BY AlertsFlowStays, PublishAlertFlows DEF LinksStep, AlertLinkStays, WritesAlert
<1> QED
  BY <1>1, <1>2

-----------------------------------------------------------------------------
(* And what the producers got written has arrived at the other end.        *)

EventsArrive ==
    \A p \in DOMAIN events :
        Followed(p) /\ GatewayPart!Written(p) => \E k \in DOMAIN eventLog[0] : IsEvent(k, p)

AlertsArrive ==
    \A i \in DOMAIN alerts :
        MonitoringPart!Written(i) => \E x \in DOMAIN log[0] : IsAlert(x, i)

LEMMA EventsArriveNext ==
    ASSUME EventsArrive, GatewayKnown, MonitoringKnown, LinksStep
    PROVE  EventsArrive'
<1>1. CASE EventLinkStays
  <2>1. \A p \in DOMAIN events' : GatewayPart!Written(p)' => p \in DOMAIN events
    BY <1>1 DEF EventLinkStays, GatewayPart!PlacesStay
  <2>2. ASSUME NEW p \in DOMAIN events
        PROVE  events'[p].payload = events[p].payload /\ events'[p].offset = events[p].offset
    BY <1>1 DEF EventLinkStays, GatewayPart!PlacesStay
  <2>3. eventLog'[0] = eventLog[0]
    BY <1>1 DEF EventLinkStays
  <2> QED
    BY <2>1, <2>2, <2>3 DEF EventsArrive, Followed, IsEvent, GatewayPart!Written
<1>2. ASSUME NEW b \in DOMAIN events, WritesEvent(b) PROVE EventsArrive'
  <2>0. /\ GatewayPart!DatagramAssumption /\ GatewayPart!ProcessorsAssumption
        /\ GatewayPart!BoundsAssumption /\ GatewayPart!NoTaskAssumption
        /\ GatewayPart!TypeOK /\ GatewayPart!PlacesFilled
    BY GatewayAssumptions DEF GatewayKnown, GatewayPart!GatewayInv
  <2>1. /\ DOMAIN events' = DOMAIN events
        /\ events'[b].payload = events[b].payload /\ GatewayPart!Written(b)'
        /\ \A p \in DOMAIN events \ {b} : events'[p] = events[p]
    BY <1>2, <2>0, GatewayPart!AppendGoesLast DEF WritesEvent, GatewayPart!SameDatagrams
  <2>2. PICK n \in Nat : n = Len(eventLog[0]) /\ DOMAIN eventLog[0] = 1 .. n
    BY EventTopic
  <2>3. \A k \in DOMAIN eventLog[0] : k \in DOMAIN eventLog'[0] /\ eventLog'[0][k] = eventLog[0][k]
    <3>1. CASE Followed(b)
      <4>1. PICK d \in Readings : d = events[b].payload.datagram
        BY <3>1 DEF Followed
      <4>2. eventLog'[0] = Append(eventLog[0], d)
        BY <1>2, <3>1, <4>1, EventTopic DEF WritesEvent, MonitoringPart!Arrive, MonitoringPart!Publish
      <4> QED
        BY <2>2, <4>1, <4>2, EventTopic
    <3>2. CASE ~Followed(b)
      BY <1>2, <3>2 DEF WritesEvent, eventVars
    <3> QED
      BY <3>1, <3>2
  <2>4. ASSUME NEW p \in DOMAIN events, p # b, Followed(p)', GatewayPart!Written(p)'
        PROVE  \E k \in DOMAIN eventLog'[0] : IsEvent(k, p)'
    <3>1. Followed(p) /\ GatewayPart!Written(p)
      BY <2>1, <2>4 DEF Followed, GatewayPart!Written
    <3>2. PICK k \in DOMAIN eventLog[0] : IsEvent(k, p)
      BY <3>1 DEF EventsArrive
    <3> QED
      BY <2>1, <2>3, <2>4, <3>2 DEF IsEvent
  <2>5. ASSUME Followed(b)' PROVE \E k \in DOMAIN eventLog'[0] : IsEvent(k, b)'
    <3>1. PICK d \in Readings : events[b].payload = [datagram |-> d, topic |-> Type]
      BY <2>1, <2>5 DEF Followed
    <3>2. Followed(b) /\ events[b].payload.datagram = d
      BY <3>1 DEF Followed
    <3>3. eventLog'[0] = Append(eventLog[0], d)
      BY <1>2, <3>2, EventTopic DEF WritesEvent, MonitoringPart!Arrive, MonitoringPart!Publish
    <3>4. n + 1 \in DOMAIN eventLog'[0] /\ eventLog'[0][n + 1] = d
      BY <2>2, <3>3, EventTopic
    <3> QED
      BY <2>1, <3>1, <3>4 DEF IsEvent
  <2> QED
    BY <2>1, <2>4, <2>5 DEF EventsArrive
<1> QED
  BY <1>1, <1>2 DEF LinksStep

LEMMA AlertsArriveNext ==
    ASSUME AlertsArrive, MonitoringKnown, Shape, LinksStep
    PROVE  AlertsArrive'
<1>1. CASE AlertLinkStays
  <2>1. \A i \in DOMAIN alerts' : MonitoringPart!Written(i)' => i \in DOMAIN alerts
    BY <1>1 DEF AlertLinkStays, MonitoringPart!PlacesStay
  <2>2. ASSUME NEW i \in DOMAIN alerts
        PROVE  alerts'[i].payload = alerts[i].payload /\ alerts'[i].offset = alerts[i].offset
    BY <1>1 DEF AlertLinkStays, MonitoringPart!PlacesStay
  <2>3. log'[0] = log[0]
    BY <1>1 DEF AlertLinkStays
  <2> QED
    BY <2>1, <2>2, <2>3 DEF AlertsArrive, IsAlert, MonitoringPart!Written
<1>2. ASSUME NEW b \in DOMAIN alerts, WritesAlert(b) PROVE AlertsArrive'
  <2>0. /\ MonitoringPart!DataAssumption /\ MonitoringPart!BoundsAssumption
        /\ MonitoringPart!AttemptsAssumption
        /\ MonitoringPart!TInv /\ MonitoringPart!PlacesFilled
    BY MonitoringAssumptions DEF MonitoringKnown
  <2>1. /\ DOMAIN alerts' = DOMAIN alerts
        /\ alerts'[b].payload = alerts[b].payload /\ MonitoringPart!Written(b)'
        /\ \A i \in DOMAIN alerts \ {b} : alerts'[i] = alerts[i]
    BY <1>2, <2>0, MonitoringPart!AppendGoesLast DEF WritesAlert
  <2>2. PICK n \in Nat : n = Len(log[0]) /\ DOMAIN log[0] = 1 .. n
    BY MainTopic
  <2>3. PICK r : r = <<b, alerts[b].payload>>
    OBVIOUS
  <2>4. r \in Records /\ log'[0] = Append(log[0], r)
    BY <1>2, <2>3, AlertsAreRecords, MainTopic DEF WritesAlert, Arrive, Publish
  <2>5. /\ \A x \in DOMAIN log[0] : x \in DOMAIN log'[0] /\ log'[0][x] = log[0][x]
        /\ n + 1 \in DOMAIN log'[0] /\ log'[0][n + 1] = r
    BY <2>2, <2>4, MainTopic
  <2>6. ASSUME NEW i \in DOMAIN alerts, i # b, MonitoringPart!Written(i)'
        PROVE  \E x \in DOMAIN log'[0] : IsAlert(x, i)'
    <3>1. MonitoringPart!Written(i)
      BY <2>1, <2>6 DEF MonitoringPart!Written
    <3>2. PICK x \in DOMAIN log[0] : IsAlert(x, i)
      BY <3>1 DEF AlertsArrive
    <3> QED
      BY <2>1, <2>5, <2>6, <3>2 DEF IsAlert
  <2>7. IsAlert(n + 1, b)'
    BY <2>1, <2>3, <2>5 DEF IsAlert
  <2> QED
    BY <2>1, <2>5, <2>6, <2>7 DEF AlertsArrive
<1> QED
  BY <1>1, <1>2 DEF LinksStep

LEMMA FlowInit == SystemInit => EventsFlow /\ AlertsFlow /\ EventsArrive /\ AlertsArrive
<1> SUFFICES ASSUME SystemInit PROVE EventsFlow /\ AlertsFlow /\ EventsArrive /\ AlertsArrive
  OBVIOUS
<1>1. log[0] = <<>>
  BY LevelsAreTopics DEF SystemInit, Init, LaneInit
<1>2. eventLog[0] = <<>>
  BY AttemptsAssumption DEF SystemInit, Monitoring!Init, Monitoring!LaneInit, Monitoring!Topics
<1>3. events = <<>> /\ alerts = <<>>
  BY DEF SystemInit, Gateway!Init, Gateway!ProducerInit, Monitoring!Init, Monitoring!ProducerInit
<1> QED
  BY <1>1, <1>2, <1>3 DEF EventsFlow, AlertsFlow, EventsArrive, AlertsArrive

\* All that is known, of the parts and of where they meet.
Known ==
    /\ GatewayKnown /\ MonitoringKnown /\ LInv
    /\ EventsFlow /\ AlertsFlow
    /\ EventsArrive /\ AlertsArrive

LEMMA KnownAlways == SystemSpec => []Known
<1>1. SystemSpec => []LInv
  BY AlertListenerImplemented, LInvAlways, PTL
<1>2. LInv => Shape
  BY DEF LInv
<1>3. SystemSpec => [](EventsFlow /\ AlertsFlow /\ EventsArrive /\ AlertsArrive)
  BY <1>1, <1>2, GatewayKnownAlways, MonitoringKnownAlways, FlowInit, StepsOfLinks, FlowNext,
     EventsArriveNext, AlertsArriveNext, PTL DEF SystemSpec
<1> QED
  BY <1>1, <1>3, GatewayKnownAlways, MonitoringKnownAlways, PTL DEF Known

-----------------------------------------------------------------------------
\* An alert is of a datagram that arrived, by way of a record of the
\* measurement topic and a message of the gateway.
LEMMA AlertOfArrived ==
    ASSUME Known, NEW i \in DOMAIN alerts
    PROVE  Gateway!Arrived(alerts[i].payload)
<1>1. PICK k \in DOMAIN eventLog[0] : alerts[i].payload = eventLog[0][k]
  BY AlertsDiffer DEF Known
<1>2. PICK p \in DOMAIN events : IsEvent(k, p)
  BY DEF Known, EventsFlow
<1>3. PICK e : e = alerts[i].payload
  OBVIOUS
<1>4. e = events[p].payload.datagram
  BY <1>1, <1>2, <1>3 DEF IsEvent
<1>5. e \in Datagrams /\ GatewayPart!Placed(e)
  BY <1>4, EventShape DEF Known, GatewayPart!Placed, GatewayPart!Sent
<1>6. GatewayPart!Arrived(e)
  BY <1>5 DEF Known, GatewayKnown, GatewayPart!GatewayInv, GatewayPart!PlacesInv
<1> QED
  BY <1>3, <1>6 DEF Gateway!Arrived, GatewayPart!Arrived, Gateway!Reached, GatewayPart!Reached

LEMMA AlertsCounted == Known => NoMoreAlertsThanDatagrams
<1> SUFFICES ASSUME Known, NEW d \in Exceeding
             PROVE  Cardinality(AlertsOf(d)) <=
                       Cardinality({e \in Readings : SameReading(d, e) /\ Gateway!Arrived(e)})
  BY DEF NoMoreAlertsThanDatagrams
<1> DEFINE S == {e \in Readings : SameReading(d, e) /\ Gateway!Arrived(e)}
           f == [i \in AlertsOf(d) |-> alerts[i].payload]
<1>1. AlertsOf(d) \subseteq DOMAIN alerts
  BY DEF AlertsOf
<1>2. ASSUME NEW i \in AlertsOf(d) PROVE alerts[i].payload \in S
  <2>1. alerts[i].payload \in Readings /\ Gateway!Arrived(alerts[i].payload)
    BY <1>1, AlertsDiffer, AlertOfArrived DEF Known
  <2> QED
    BY <2>1 DEF AlertsOf, SameReading
<1>3. f \in Injection(AlertsOf(d), S)
  BY <1>1, <1>2, AlertsDiffer DEF Injection, IsInjective, Known
<1>4. IsFiniteSet(S)
  BY RecordsAssumption, FS_Subset
<1> QED
  BY <1>3, <1>4, FS_Injection

\* No reading has more alerts in the topic than datagrams that arrived, for any
\* number of sensors, threads, crashes and datagrams: crashes of either service,
\* redeliveries and retries add none.
THEOREM AlertsPerReading == SystemSpec => []NoMoreAlertsThanDatagrams
BY KnownAlways, AlertsCounted, PTL

\* The order of two lines goes back, link by link, to the order of arrival.
LEMMA LinesInOrder == Known => AlarmInReadingOrder
<1> SUFFICES ASSUME Known, Processors <= Cardinality(Adapters),
                    NEW n \in DOMAIN logged, NEW m \in DOMAIN logged,
                    NEW d \in calm, NEW e \in Readings,
                    n < m, FirstLine(d, n), FirstLine(e, m), Sensor[d] = Sensor[e],
                    Gateway!CameBefore(e, d)
             PROVE  FALSE
  BY DEF AlarmInReadingOrder
<1>0. DOMAIN logged \subseteq Nat \ {0} /\ DOMAIN log[0] \subseteq Nat \ {0}
  BY MainTopic DEF Known, LInv
\* The alert topic.
<1>1. PICK x \in DOMAIN log[0] : logged[n] = log[0][x]
  BY DEF Known, LInv, Distinct, Published
<1>2. PICK y \in DOMAIN log[0] : logged[m] = log[0][y]
  BY DEF Known, LInv, Distinct, Published
<1>3. log[0][y] \notin PoisonPills
  BY <1>2 DEF Known, LInv, Distinct
<1>4. log[0][x][2] = d /\ log[0][y][2] = e
  BY <1>1, <1>2 DEF FirstLine
<1>5. ~LoggedBy(y, n)
  <2> SUFFICES ASSUME NEW k \in DOMAIN logged, k <= n, logged[k] = log[0][y] PROVE FALSE
    BY DEF LoggedBy
  <2>1. k \in 1 .. m - 1 /\ logged[k][2] = e
    BY <1>0, <1>4
  <2> QED
    BY <2>1 DEF FirstLine
<1>6. x < y
  <2>1. ~(y \in 1 .. x - 1)
    BY <1>1, <1>3, <1>5 DEF Known, LInv, FirstLinesInOrder
  <2>2. x # y
    BY <1>0, <1>1, <1>5 DEF LoggedBy
  <2> QED
    BY <1>0, <2>1, <2>2
\* The alerts.
<1>7. PICK i \in DOMAIN alerts : IsAlert(x, i)
  BY DEF Known, AlertsFlow
<1>8. PICK j \in DOMAIN alerts : IsAlert(y, j)
  BY DEF Known, AlertsFlow
<1>9. alerts[i].payload = d /\ alerts[j].payload = e
  BY <1>4, <1>7, <1>8 DEF IsAlert
<1>10. alerts[i].offset < alerts[j].offset
  BY <1>6, <1>7, <1>8, <1>9 DEF Known, AlertsFlow
<1>11. d \in Readings
  BY <1>9, AlertsDiffer DEF Known
<1>12. MonitoringPart!Precedes(i, j)
  <2>1. AdapterOf[d] = Type /\ AdapterOf[e] = Type
    BY <1>11 DEF Readings
  <2>2. j \in MonitoringPart!Queue(i)
    BY <1>9, <1>11, <2>1 DEF MonitoringPart!Queue, MonitoringPart!AlertQueue
  <2> QED
    BY <1>7, <1>8, <1>10, <2>2 DEF MonitoringPart!Precedes, IsAlert
<1>13. i < j
  BY <1>12 DEF Known, MonitoringKnown, MonitoringPart!PartitionsInOrder
\* The measurement topic.
<1>14. PICK k \in DOMAIN eventLog[0] : eventLog[0][k] = d
  BY <1>9, AlertsDiffer DEF Known
<1>15. PICK l \in DOMAIN eventLog[0] : eventLog[0][l] = e
  BY <1>9, AlertsDiffer DEF Known
<1>16. k < l
  BY <1>9, <1>13, <1>14, <1>15
     DEF Known, MonitoringKnown, MonitoringPart!Ordered, MonitoringPart!AlertsInOrder
\* The gateway's messages, and its sockets.
<1>17. PICK p \in DOMAIN events : IsEvent(k, p)
  BY DEF Known, EventsFlow
<1>18. PICK q \in DOMAIN events : IsEvent(l, q)
  BY DEF Known, EventsFlow
<1>19. events[p].offset < events[q].offset
  BY <1>14, <1>15, <1>16, <1>17, <1>18 DEF Known, EventsFlow
<1>20. /\ events[p].payload = [datagram |-> d, topic |-> Type]
       /\ events[q].payload = [datagram |-> e, topic |-> Type]
  BY <1>14, <1>15, <1>17, <1>18 DEF IsEvent
<1>21. GatewayPart!Precedes(p, q)
  <2>1. events[p].payload.topic = Type /\ events[q].payload.topic = Type
        /\ events[p].payload.datagram = d /\ events[q].payload.datagram = e
    BY <1>20
  <2>2. q \in GatewayPart!Queue(p)
    BY <2>1 DEF GatewayPart!Queue, GatewayPart!MessageQueue
  <2> QED
    BY <1>17, <1>18, <1>19, <2>2 DEF GatewayPart!Precedes, IsEvent
<1>22. Processors <= GatewayPart!Cardinality(Adapters)
  BY DEF GatewayPart!Cardinality, Cardinality
<1>23. ~GatewayPart!CameBefore(e, d)
  <2>1. events[p].payload.datagram = d /\ events[q].payload.datagram = e
    BY <1>20
  <2> QED
    BY <1>21, <1>22, <2>1 DEF Known, GatewayKnown, GatewayPart!QueueOnceListening
<1> QED
  BY <1>23 DEF Gateway!CameBefore, GatewayPart!CameBefore

\* From the socket to the alarm, the readings of a sensor keep their order, for
\* any numbers of sensors, threads, crashes and rebalances.
THEOREM AlarmFollowsReadings == SystemSpec => []AlarmInReadingOrder
BY KnownAlways, LinesInOrder, PTL

-----------------------------------------------------------------------------
(* No alarm is missed: link by link, what arrived is still there.          *)

\* An alert that is written is to be delivered, or logged, or in the DLT.
LEMMA WrittenIsAlarmed ==
    ASSUME Known, NothingSkipped, NEW i \in DOMAIN alerts, MonitoringPart!Written(i)
    PROVE  AtAlertListener(alerts[i].payload) \/ Alarmed(alerts[i].payload)
<1>1. PICK x \in DOMAIN log[0] : log[0][x] = <<i, alerts[i].payload>>
  BY DEF Known, AlertsArrive, IsAlert
<1>2. log[0][x][2] = alerts[i].payload
  BY <1>1
<1>3. x \in Nat /\ committed[0] \in Nat
  BY MainTopic DEF Known, LInv
<1>4. CASE x >= committed[0]
  BY <1>2, <1>4 DEF AtAlertListener
<1>5. CASE x < committed[0]
  BY <1>2, <1>5 DEF NothingSkipped, LoggedBy, Alarmed
<1> QED
  BY <1>3, <1>4, <1>5

LEMMA NoneMissed ==
    ASSUME Known, NothingSkipped, NEW d \in Exceeding, Gateway!Arrived(d)
    PROVE  \/ InGateway(d) \/ InMonitoring(d) \/ AtAlertListener(d) \/ Alarmed(d)
           \/ d \in taken
           \/ crashes > 0 /\ d \in processed /\ ~Monitoring!Delivered(d)
<1>0. /\ GatewayPart!DatagramAssumption /\ GatewayPart!ProcessorsAssumption
      /\ GatewayPart!BoundsAssumption /\ GatewayPart!NoTaskAssumption
      /\ MonitoringPart!DataAssumption /\ MonitoringPart!BoundsAssumption
      /\ MonitoringPart!AttemptsAssumption
  BY GatewayAssumptions, MonitoringAssumptions
<1>1. /\ d \in Readings /\ d \in Datagrams /\ AdapterOf[d] = Type
      /\ MonitoringPart!Exceeds(d)
  BY SameLane DEF Exceeding, Readings
<1>2. GatewayPart!MessageOf(d) = [datagram |-> d, topic |-> Type]
  BY <1>1 DEF Readings, GatewayPart!MessageOf
<1>3. GatewayPart!Arrived(d)
  BY DEF Gateway!Arrived, GatewayPart!Arrived, Gateway!Reached, GatewayPart!Reached
<1>4. \/ GatewayPart!Underway(d) \/ GatewayPart!Delivered(GatewayPart!MessageOf(d))
      \/ d \in taken
  <2>1. GatewayPart!GatewayInv /\ GatewayPart!AllAccounted
    BY DEF Known, GatewayKnown
  <2> QED
    BY <1>0, <1>1, <1>3, <2>1, GatewayPart!ArrivedIsSomewhere
<1>5. GatewayPart!Underway(d) => InGateway(d)
  BY SameUnderway DEF InGateway
<1>6. GatewayPart!Delivered(GatewayPart!MessageOf(d))
      => \E p \in DOMAIN events : /\ events[p].payload = GatewayPart!MessageOf(d)
                                 /\ GatewayPart!Written(p)
  BY DEF GatewayPart!Delivered
<1>7. ASSUME NEW p \in DOMAIN events, events[p].payload = GatewayPart!MessageOf(d),
             GatewayPart!Written(p)
      PROVE  \/ InMonitoring(d) \/ AtAlertListener(d) \/ Alarmed(d)
             \/ crashes > 0 /\ d \in processed /\ ~Monitoring!Delivered(d)
  <2>1. d \in MonitoringPart!Published(0)
    <3>1. Followed(p)
      BY <1>1, <1>2, <1>7 DEF Followed
    <3>2. PICK k \in DOMAIN eventLog[0] : IsEvent(k, p)
      BY <1>7, <3>1 DEF Known, EventsArrive
    <3>3. eventLog[0][k] = d
      BY <1>2, <1>7, <3>2 DEF IsEvent
    <3> QED
      BY <3>3 DEF MonitoringPart!Published
  <2>2. crashes \in Nat
    BY SystemBoundsAssumption DEF Known, MonitoringKnown, MonitoringPart!TInv, MonitoringPart!TypeOK
  <2>3. \/ \E l \in MonitoringPart!Levels : \E k \in DOMAIN eventLog[l] :
              eventLog[l][k] = d /\ k >= eventCommitted[l]
        \/ \E c \in MeasurementThreads : MonitoringPart!HoldsMark(c, d)
        \/ \E i \in DOMAIN alerts : /\ alerts[i].payload = d
                                    /\ (MonitoringPart!Waiting(i) \/ MonitoringPart!Written(i))
        \/ crashes > 0 /\ d \in processed
    <3>1. /\ MonitoringPart!NoFailure /\ MonitoringPart!NoEventLost
          /\ MonitoringPart!MarkMeansAlert /\ MonitoringPart!DltIsEarned
          /\ MonitoringPart!Quiet
      BY DEF Known, MonitoringKnown, MonitoringPart!Quiet
    <3> QED
      BY <1>0, <1>1, <2>1, <2>2, <3>1, MonitoringPart!ArrivedIsSomewhere
  <2>4. ASSUME NEW i \in DOMAIN alerts, alerts[i].payload = d, MonitoringPart!Written(i)
        PROVE  AtAlertListener(d) \/ Alarmed(d)
    BY <2>4, WrittenIsAlarmed
  <2>5. Monitoring!Delivered(d) => AtAlertListener(d) \/ Alarmed(d)
    BY <2>4 DEF Monitoring!Delivered, Monitoring!Written, MonitoringPart!Written
  <2>6. ASSUME NEW i \in DOMAIN alerts, alerts[i].payload = d, MonitoringPart!Waiting(i)
        PROVE  InMonitoring(d)
    BY <2>6 DEF InMonitoring, Monitoring!Waiting, MonitoringPart!Waiting, Monitoring!Written,
                MonitoringPart!Written
  <2>7. ASSUME NEW c \in MeasurementThreads, MonitoringPart!HoldsMark(c, d)
        PROVE  InMonitoring(d)
    BY <2>7, SameLane DEF InMonitoring, Monitoring!HoldsMark, MonitoringPart!HoldsMark
  <2>8. ASSUME NEW l \in MonitoringPart!Levels, NEW k \in DOMAIN eventLog[l],
               eventLog[l][k] = d, k >= eventCommitted[l]
        PROVE  InMonitoring(d)
    BY <2>8, SameLane DEF InMonitoring
  <2> QED
    BY <2>3, <2>4, <2>5, <2>6, <2>7, <2>8
<1> QED
  BY <1>4, <1>5, <1>6, <1>7

\* For any numbers of sensors, datagrams, threads, crashes and rebalances of the
\* alert listener, a reading above the threshold that reached the socket of its
\* adapter is on its way or has set off the alarm, unless a crash took it.
THEOREM NoReadingIsMissed == SystemSpec => []NoAlarmMissed
<1>1. Known /\ NothingSkipped => NoAlarmMissed
  BY NoneMissed DEF NoAlarmMissed
<1>2. SystemSpec => []NothingSkipped
  BY AlertListenerImplemented, ListenerSkipsNothing, PTL
<1> QED
  BY <1>1, <1>2, KnownAlways, PTL

\* The alert listener keeps its promises as part of the system, to which only
\* the alerts of the monitoring service are published.
THEOREM AlertsReachTheLog == SystemSpec => [](NothingSkipped /\ FirstLinesInOrder)
BY AlertListenerImplemented, ListenerSkipsNothing, FirstLinesStayInOrder, PTL

\* What the monitoring service promises of each event's alert, it promises as
\* part of the system.
THEOREM SystemKeepsPromise == SystemSpec => MonitoringPart!KeepsPromise
<1>1. /\ MonitoringPart!DataAssumption /\ MonitoringPart!BoundsAssumption
      /\ MonitoringPart!AttemptsAssumption
  BY MonitoringAssumptions
<1>2. MonitoringPart!Spec => MonitoringPart!KeepsPromise
  BY <1>1, MonitoringPart!ServiceKeepsPromise, PTL
<1> QED
  BY <1>2, MonitoringImplemented, PTL

\* The system is put together from implementations of its parts: everything
\* proved of the gateway, of the monitoring service without its own faults and
\* of the alert listener holds of them in it.
THEOREM SystemImplementsParts == SystemSpec => GatewayPart!Spec /\ MonitoringPart!Spec /\ Spec
BY GatewayImplemented, MonitoringImplemented, AlertListenerImplemented, PTL
=============================================================================
