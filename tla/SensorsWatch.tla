------------------------------ MODULE SensorsWatch ------------------------------
(***************************************************************************)
(* The system from the sensors to the alarm: the warehouse's UdpGateway,   *)
(* the monitoring service's ThresholdMonitoring, and its listener of the   *)
(* alerts, the LogListener this module extends. They meet in Kafka: what   *)
(* the gateway's producer gets written is what arrives at the measurement  *)
(* listener, and the monitoring service's alerts are what arrives at the   *)
(* alert listener. The two listeners run in one process and die together.  *)
(*                                                                         *)
(* What is followed is the way of the readings of one measurement type     *)
(* that share a partition; their alerts share one too, for both topics are *)
(* partitioned by warehouse and sensor. Failing sends and database         *)
(* statements are left to the modules of the two services.                 *)
(***************************************************************************)
EXTENDS LogListener, FiniteSets

CONSTANTS
    \* The gateway's; see UdpGateway.
    Adapters, Datagrams, AdapterOf, Sensor, Malformed, Processors, SocketBuffer,
    MaxGatewayCrashes,
    Type,        \* the measurement type followed, an adapter
    Value,       \* Value[d]: the value in datagram d
    Thresholds,  \* the rows of monitoring.thresholds
    MeasurementThreads  \* the measurement listener's; Consumers are the alert listener's

VARIABLES
    arrived, received, tasks, worker, started, calm,  \* of the gateway, and
    events, taken, gatewayCrashes,                    \* its producer
    eventLog, eventPos, eventCommitted, eventConsumer,  \* measurement listener
    processed, cached,                                  \* monitoring service
    alerts                                              \* and its producer

gatewayVars ==
    <<arrived, received, tasks, worker, started, calm, events, taken, gatewayCrashes>>
eventVars ==
    <<eventLog, eventPos, eventCommitted, eventConsumer, processed, cached, alerts>>
alertVars == <<laneVars, logged>>
systemVars == <<gatewayVars, eventVars, alertVars, listenerFaults>>

\* The well-formed datagrams of the type followed.
Readings == {d \in Datagrams \ Malformed : AdapterOf[d] = Type}

Gateway == INSTANCE UdpGateway WITH
    sends <- events,
    crashes <- gatewayCrashes,
    MaxCrashes <- MaxGatewayCrashes,
    kafkaFaults <- 0,
    MaxKafkaFaults <- 0

\* A measurement event is told by its datagram, of which there is one message
\* at most.
Monitoring == INSTANCE ThresholdMonitoring WITH
    Records <- Readings,
    Consumers <- MeasurementThreads,
    EventType <- [d \in Readings |-> AdapterOf[d]],
    EventValue <- [d \in Readings |-> Value[d]],
    EventKey <- [d \in Readings |-> Sensor[d]],
    PoisonPills <- {},
    Types <- Adapters,
    log <- eventLog,
    pos <- eventPos,
    committed <- eventCommitted,
    consumer <- eventConsumer,
    sends <- alerts,
    rebalances <- 0,   MaxRebalances <- 0,
    dbFaults <- 0,     MaxDbFaults <- 0,
    kafkaFaults <- 0,  MaxKafkaFaults <- 0

ASSUME GatewayAssumption ==
    /\ AdapterOf \in [Datagrams -> Adapters]
    /\ DOMAIN Sensor = Datagrams
    /\ Malformed \subseteq Datagrams
    /\ Datagrams \cap Adapters = {}
    /\ {Processors, SocketBuffer} \subseteq Nat \ {0}
    /\ Gateway!NoTask \notin Gateway!Tasks

ASSUME MonitoringAssumption ==
    /\ \A d \in Readings : Value[d] \in Int
    /\ DOMAIN Thresholds \subseteq Adapters
    /\ \A t \in DOMAIN Thresholds : Thresholds[t] \in Int

ASSUME SystemBoundsAssumption == {MaxGatewayCrashes, MaxCrashes} \subseteq Nat

\* An alert is told by its number and its datagram; there are records for as
\* many alerts as there may be.
ASSUME RecordsAssumption ==
    /\ IsFiniteSet(Readings)
    /\ (1 .. Cardinality(Readings)) \X Readings \subseteq Records

SystemInit == Gateway!Init /\ Monitoring!Init /\ Init

-----------------------------------------------------------------------------
(* The services by themselves.                                             *)

GatewayStep ==
    /\ \/ \E a \in Adapters : Gateway!StartAdapter(a)
       \/ \E d \in Datagrams : Gateway!Arrive(d)
       \/ \E w \in Gateway!Workers :
             \/ Gateway!Take(w) \/ Gateway!Handle(w)
             \/ \E a \in Adapters : Gateway!Receive(w, a)
       \/ \E i \in DOMAIN events : Gateway!Acknowledge(i)
       \/ Gateway!Crash
    /\ UNCHANGED <<eventVars, alertVars, listenerFaults>>

MonitoringStep ==
    /\ \/ \E c \in MeasurementThreads, l \in Levels : Monitoring!Poll(c, l)
       \/ \E c \in MeasurementThreads : Monitoring!ListenerStep(c)
       \/ \E i \in DOMAIN alerts : Monitoring!Acknowledge(i)
       \/ \E l \in Levels : Monitoring!Commit(l)
    /\ UNCHANGED <<gatewayVars, alertVars, rebalances, kafkaFaults>>

AlertListenerStep ==
    /\ \/ \E c \in Consumers, l \in Levels : Poll(c, l)
       \/ \E c \in Consumers : ListenerStep(c)
       \/ \E l \in Levels : Commit(l) \/ Rebalance(l)
    /\ UNCHANGED <<gatewayVars, eventVars>>

-----------------------------------------------------------------------------
(* Where they meet.                                                        *)

Followed(i) == events[i].payload \in {[datagram |-> d, topic |-> Type] : d \in Readings}

\* A message of the gateway is written: an event of the type followed arrives
\* at the measurement listener.
PublishEvent(i) ==
    /\ Gateway!BrokerAppend(i)
    /\ IF Followed(i)
       THEN Monitoring!Arrive(events[i].payload.datagram)
       ELSE UNCHANGED eventVars
    /\ UNCHANGED <<alertVars, listenerFaults>>

\* An alert is written, and arrives at the alert listener.
PublishAlert(i) ==
    /\ Monitoring!BrokerAppend(i)
    /\ Arrive(<<i, alerts[i].payload>>)
    /\ UNCHANGED gatewayVars

MonitoringCrash ==
    /\ Monitoring!Crash
    /\ Crash
    /\ UNCHANGED gatewayVars

AtRest ==
    /\ Gateway!Quiet
    /\ Monitoring!LaneAtRest
    /\ \A i \in DOMAIN alerts : ~Monitoring!Pending(i)
    /\ LaneAtRest
    /\ UNCHANGED systemVars

SystemNext ==
    \/ GatewayStep
    \/ MonitoringStep
    \/ AlertListenerStep
    \/ \E i \in DOMAIN events : PublishEvent(i)
    \/ \E i \in DOMAIN alerts : PublishAlert(i)
    \/ MonitoringCrash
    \/ AtRest

SystemSpec == SystemInit /\ [][SystemNext]_systemVars

-----------------------------------------------------------------------------
Exceeding == {d \in Readings : Monitoring!Exceeds(d)}

(***************************************************************************)
(* The system's idempotence begins at the gateway, which gives every       *)
(* datagram an id of its own: the alarm goes off once for a datagram above *)
(* the threshold that arrived, through crashes of either service and       *)
(* redeliveries. What the network duplicated is two datagrams, and may be  *)
(* two alerts; but no reading has more alerts than datagrams.              *)
(***************************************************************************)
SameReading(d, e) == Sensor[d] = Sensor[e] /\ Value[d] = Value[e]

AlertsOf(d) ==
    {i \in DOMAIN alerts : SameReading(alerts[i].payload, d) /\ Monitoring!Written(i)}

NoMoreAlertsThanDatagrams ==
    \A d \in Exceeding :
        Cardinality(AlertsOf(d)) <=
            Cardinality({e \in Readings : SameReading(d, e) /\ Gateway!Arrived(e)})

FirstLine(d, n) == logged[n][2] = d /\ \A m \in 1 .. n - 1 : logged[m][2] # d

(***************************************************************************)
(* From the socket to the alarm, the readings of a sensor keep their       *)
(* order: once all receive loops run, alerts are first logged as their     *)
(* datagrams arrived, through crashes of either service and rebalances of  *)
(* the alert listener; as UdpGateway!QueueOnceListening, with no more      *)
(* processors than adapters.                                               *)
(***************************************************************************)
AlarmInReadingOrder ==
    Processors <= Cardinality(Adapters) =>
    \A n, m \in DOMAIN logged : \A d \in calm, e \in Readings :
        /\ n < m /\ FirstLine(d, n) /\ FirstLine(e, m)
        /\ Sensor[d] = Sensor[e]
        => ~Gateway!CameBefore(e, d)

\* d is in its socket, in the executor's queue, on a thread, or waiting in the
\* producer's buffer.
InGateway(d) == Gateway!Underway(d)

\* d is yet to be delivered to the measurement listener, by the offsets, or its
\* mark is made and its alert not handed over, or its alert is in the buffer.
InMonitoring(d) ==
    \/ \E l \in Levels : \E k \in DOMAIN eventLog[l] :
          eventLog[l][k] = d /\ k >= eventCommitted[l]
    \/ \E c \in MeasurementThreads : Monitoring!HoldsMark(c, d)
    \/ \E i \in DOMAIN alerts : alerts[i].payload = d /\ Monitoring!Waiting(i)

\* An alert of d is yet to be delivered to the alert listener.
AtAlertListener(d) == \E k \in DOMAIN log[0] : log[0][k][2] = d /\ k >= committed[0]

\* An alert of d is logged, or in the DLT of alerts.
Alarmed(d) ==
    \/ \E n \in DOMAIN logged : logged[n][2] = d
    \/ \E r \in Published(Dlt) : r[2] = d

(***************************************************************************)
(* No reading is lost between the socket and the alarm: a datagram above   *)
(* the threshold that arrived is somewhere on the way until it has set off *)
(* the alarm. A crash of the gateway costs only what it held at that time, *)
(* one of the monitoring service only what was marked without an alert in  *)
(* the topic; rebalances and forwards that fail cost nothing.              *)
(***************************************************************************)
NoAlarmMissed ==
    \A d \in Exceeding : Gateway!Arrived(d) =>
        \/ InGateway(d) \/ InMonitoring(d) \/ AtAlertListener(d) \/ Alarmed(d)
        \/ d \in taken
        \/ crashes > 0 /\ d \in processed /\ ~Monitoring!Delivered(d)
=============================================================================
