------------------------------ MODULE UdpGateway ------------------------------
(***************************************************************************)
(* The warehouse service: two UDP adapters, MeasurementUdp and the Kafka   *)
(* producer. An adapter runs its receive loop as a task of the executor    *)
(* bean, and executes every datagram it receives as another task of the    *)
(* same executor, where MeasurementUdp.handle maps it and sends it to      *)
(* Kafka. Nothing is persisted: what is in the socket buffers, in the      *)
(* executor's queue or in the producer goes with the process.              *)
(***************************************************************************)
EXTENDS Integers, Sequences, FiniteSets

CONSTANTS
    Adapters,       \* one per measurement type
    Datagrams,      \* the datagrams sent, each different from the others
    AdapterOf,      \* AdapterOf[d]: the adapter whose port d is sent to
    Sensor,         \* Sensor[d]: the sensor_id in its payload
    Malformed,      \* datagrams MeasurementEventMapper.from rejects
    Processors,     \* availableProcessors()
    SocketBuffer,   \* datagrams the operating system holds for a socket
    MaxCrashes, MaxKafkaFaults  \* bounds on faults

ASSUME DatagramAssumption ==
    /\ AdapterOf \in [Datagrams -> Adapters]
    /\ DOMAIN Sensor = Datagrams
    /\ Malformed \subseteq Datagrams
    /\ Datagrams \cap Adapters = {}

ASSUME ProcessorsAssumption == {Processors, SocketBuffer} \subseteq Nat \ {0}

ASSUME BoundsAssumption == {MaxCrashes, MaxKafkaFaults} \subseteq Nat

\* Mutant: a thread for every loop, and the processors' threads besides.
WorkersPerLoop == 1 .. Processors + Cardinality(Adapters)

\* Mutant: the pool is as large as the machine.
WorkersWithoutSpare == 1 .. Processors

\* corePoolSize; the executor's queue has no bound, so that no thread is ever
\* added to these.
Workers == 1 .. Processors + 1

VARIABLES
    arrived,    \* arrived[a]: datagrams that reached adapter a's socket
    received,   \* received[a]: how many of them its loop has taken
    tasks,      \* the executor's queue: adapters (their loops) and datagrams
    worker,     \* worker[w]: the task thread w runs, or NoTask
    started,    \* adapters whose loop was given to the executor
    calm,       \* datagrams that arrived with every loop running (history)
    sends,      \* the producer; see KafkaProducer
    taken,      \* datagrams that a crash or a failed send took (history)
    crashes, kafkaFaults

poolVars == <<tasks, worker, started>>
socketVars == <<arrived, received, calm>>
vars == <<arrived, received, tasks, worker, started, calm, sends, taken, crashes, kafkaFaults>>

NoTask == "none"
Tasks == Adapters \cup Datagrams

ASSUME NoTaskAssumption == NoTask \notin Tasks

\* What handle() makes of a datagram. A measurement event goes to the topic of
\* its type under the key warehouseId-sensorId, a malformed one to the common
\* topic under the key warehouseId.
Message == [datagram : Datagrams, topic : Adapters \cup {"malformed"}]

\* Mutant: the topic is chosen by the sensor, not by the type.
MessageBySensor(d) ==
    [datagram |-> d, topic |-> IF d \in Malformed THEN "malformed" ELSE Sensor[d]]

MessageOf(d) == [datagram |-> d,
                 topic |-> IF d \in Malformed THEN "malformed" ELSE AdapterOf[d]]

MessageQueue(m) ==
    IF m.topic = "malformed" THEN <<m.topic>> ELSE <<m.topic, Sensor[m.datagram]>>

INSTANCE KafkaProducer WITH Payloads <- Message, QueueOf <- MessageQueue

\* One type invariant: the shape of every variable, and a bound per fault; what
\* is sent is an event to the topic of an adapter's type, or a malformed event.
TypeOK ==
    /\ arrived \in [Adapters -> Seq(Datagrams)]
    /\ received \in [Adapters -> Nat]
    /\ tasks \in Seq(Tasks)
    /\ worker \in [Workers -> Tasks \cup {NoTask}]
    /\ started \subseteq Adapters
    /\ calm \subseteq Datagrams
    /\ taken \subseteq Datagrams
    /\ ProducerTypeOK
    /\ crashes \in 0 .. MaxCrashes
    /\ kafkaFaults \in 0 .. MaxKafkaFaults

Init ==
    /\ arrived = [a \in Adapters |-> <<>>]
    /\ received = [a \in Adapters |-> 0]
    /\ tasks = <<>>
    /\ worker = [w \in Workers |-> NoTask]
    /\ started = {}
    /\ calm = {}
    /\ taken = {}
    /\ ProducerInit
    /\ crashes = 0 /\ kafkaFaults = 0

\* The loop of adapter a has a thread and its socket is open.
Listening(a) == \E w \in Workers : worker[w] = a

AllListening == \A a \in Adapters : Listening(a)

KafkaFault ==
    /\ kafkaFaults < MaxKafkaFaults
    /\ kafkaFaults' = kafkaFaults + 1
    /\ UNCHANGED crashes

Queued(d) == \E i \in DOMAIN tasks : tasks[i] = d

Handled(d) == \E w \in Workers : worker[w] = d

WaitsAt(d, i) ==
    /\ i \in DOMAIN arrived[AdapterOf[d]]
    /\ i > received[AdapterOf[d]]
    /\ arrived[AdapterOf[d]][i] = d

InSocket(d) == \E i \in DOMAIN arrived[AdapterOf[d]] : WaitsAt(d, i)

\* The process holds datagram d, and its message is in no topic yet.
Underway(d) ==
    \/ InSocket(d) \/ Queued(d) \/ Handled(d)
    \/ \E i \in DOMAIN sends : sends[i].payload.datagram = d /\ Waiting(i)

-----------------------------------------------------------------------------
(* The executor: its threads take the tasks in order.                      *)

Execute(t) == tasks' = Append(tasks, t)

Take(w) ==
    /\ worker[w] = NoTask
    /\ tasks # <<>>
    /\ worker' = [worker EXCEPT ![w] = Head(tasks)]
    /\ tasks' = Tail(tasks)
    /\ UNCHANGED <<socketVars, started, sends, taken, crashes, kafkaFaults>>

\* The application context starts the adapters, one after the other.
StartAdapter(a) ==
    /\ a \notin started
    /\ started' = started \cup {a}
    /\ Execute(a)
    /\ UNCHANGED <<socketVars, worker, sends, taken, crashes, kafkaFaults>>

-----------------------------------------------------------------------------
(* Datagrams.                                                              *)

\* A datagram gets to a socket that is open and has room. One that does not
\* is lost, as in the network; it then never arrives.
Arrive(d) ==
    LET a == AdapterOf[d] IN
    /\ \A b \in Adapters : \A i \in DOMAIN arrived[b] : arrived[b][i] # d
    /\ Listening(a)
    /\ Len(arrived[a]) - received[a] < SocketBuffer
    /\ arrived' = [arrived EXCEPT ![a] = Append(@, d)]
    /\ calm' = IF AllListening THEN calm \cup {d} ELSE calm
    /\ UNCHANGED <<received, poolVars, sends, taken, crashes, kafkaFaults>>

\* Mutant: the executor's queue has room for one task, and what it rejects
\* while its threads are busy is discarded.
ReceiveDiscarding(w, a) ==
    /\ worker[w] = a
    /\ received[a] < Len(arrived[a])
    /\ received' = [received EXCEPT ![a] = @ + 1]
    /\ IF tasks = <<>> THEN Execute(arrived[a][received[a] + 1]) ELSE UNCHANGED tasks
    /\ UNCHANGED <<arrived, calm, worker, started, sends, taken, crashes, kafkaFaults>>

\* Thread w, in the loop of adapter a, takes a packet from the socket and
\* executes its handling.
Receive(w, a) ==
    /\ worker[w] = a
    /\ received[a] < Len(arrived[a])
    /\ received' = [received EXCEPT ![a] = @ + 1]
    /\ Execute(arrived[a][received[a] + 1])
    /\ UNCHANGED <<arrived, calm, worker, started, sends, taken, crashes, kafkaFaults>>

\* MeasurementUdp.handle: the event, or the malformed event, is handed to the
\* producer, and the thread is free again.
Handle(w) ==
    /\ worker[w] \in Datagrams
    /\ Accept(MessageOf(worker[w]))
    /\ worker' = [worker EXCEPT ![w] = NoTask]
    /\ UNCHANGED <<socketVars, tasks, started, taken, crashes, kafkaFaults>>

\* KafkaTemplate.send throws: the adapter logs the exception.
HandleThrows(w) ==
    /\ worker[w] \in Datagrams
    /\ KafkaFault
    /\ taken' = taken \cup {worker[w]}
    /\ worker' = [worker EXCEPT ![w] = NoTask]
    /\ UNCHANGED <<socketVars, tasks, started, sends>>

BrokerAppend(i) ==
    /\ Write(i)
    /\ UNCHANGED <<socketVars, poolVars, taken, crashes, kafkaFaults>>

\* whenCompleteAsync has nothing to do, or logs the error.
Acknowledge(i) ==
    /\ SucceedSend(i)
    /\ UNCHANGED <<socketVars, poolVars, taken, crashes, kafkaFaults>>

SendFails(i) ==
    /\ FailSend(i)
    /\ KafkaFault
    /\ taken' = IF Written(i) THEN taken ELSE taken \cup {sends[i].payload.datagram}
    /\ UNCHANGED <<socketVars, poolVars>>

\* The process dies and starts again; what sat in the sockets is gone.
Crash ==
    /\ crashes < MaxCrashes
    /\ crashes' = crashes + 1
    /\ received' = [a \in Adapters |-> Len(arrived[a])]
    /\ tasks' = <<>>
    /\ worker' = [w \in Workers |-> NoTask]
    /\ started' = {}
    /\ LoseProducer
    /\ taken' = taken \cup {d \in Datagrams : Underway(d)}
    /\ UNCHANGED <<arrived, calm, kafkaFaults>>

\* The loops run and wait for packets, with no other task: the service idles.
Quiet ==
    /\ started = Adapters
    /\ \A d \in Datagrams : ~Queued(d) /\ ~Handled(d)
    /\ \A a \in Adapters : Listening(a) => received[a] = Len(arrived[a])
    /\ \A i \in DOMAIN sends : sends[i].phase # "inflight"
    /\ UNCHANGED vars

Next ==
    \/ \E a \in Adapters : StartAdapter(a)
    \/ \E d \in Datagrams : Arrive(d)
    \/ \E w \in Workers, a \in Adapters : Receive(w, a)
    \/ \E w \in Workers : Take(w) \/ Handle(w) \/ HandleThrows(w)
    \/ \E i \in DOMAIN sends : BrokerAppend(i) \/ Acknowledge(i) \/ SendFails(i)
    \/ Crash
    \/ Quiet

Spec == Init /\ [][Next]_vars

(***************************************************************************)
(* Fairness: the context starts every adapter, the operating system runs   *)
(* the threads, the loops keep receiving, and the producer completes every *)
(* send. Nothing makes a sensor send.                                      *)
(***************************************************************************)
Fairness ==
    /\ \A a \in Adapters : WF_vars(StartAdapter(a))
    /\ \A w \in Workers : WF_vars(Take(w) \/ Handle(w) \/ HandleThrows(w))
    /\ \A w \in Workers : WF_vars(\E a \in Adapters : Receive(w, a))
    /\ WF_vars(\E i \in DOMAIN sends : BrokerAppend(i) \/ Acknowledge(i) \/ SendFails(i))

FairSpec == Spec /\ Fairness

-----------------------------------------------------------------------------
Reached(a) == {arrived[a][i] : i \in DOMAIN arrived[a]}

Arrived(d) == d \in Reached(AdapterOf[d])

\* d reached the socket they share before e did.
CameBefore(d, e) ==
    \E i, j \in DOMAIN arrived[AdapterOf[d]] :
        i < j /\ arrived[AdapterOf[d]][i] = d /\ arrived[AdapterOf[d]][j] = e

Places(d) ==
    LET a == AdapterOf[d] IN
       {<<"socket", i>> : i \in {j \in DOMAIN arrived[a] : j > received[a] /\ arrived[a][j] = d}}
  \cup {<<"queue", i>> : i \in {j \in DOMAIN tasks : tasks[j] = d}}
  \cup {<<"thread", w>> : w \in {v \in Workers : worker[v] = d}}
  \cup {<<"producer", i>> : i \in {j \in DOMAIN sends : sends[j].payload.datagram = d}}

(***************************************************************************)
(* A datagram has one place: the socket, the executor's queue, a thread,   *)
(* or one message in the producer; it is not handled twice. And one that   *)
(* reached its socket is never lost on the way: the process still holds    *)
(* it, or a topic has its message, or it is one of those that a crash of   *)
(* the process, a send that threw or a send that failed took.              *)
(***************************************************************************)
NothingTwiceNothingLost ==
    \A d \in Datagrams :
        /\ Cardinality(Places(d)) <= 1
        /\ Arrived(d) => Underway(d) \/ Delivered(MessageOf(d)) \/ d \in taken

(***************************************************************************)
(* MeasurementEventRecipientKafka: "Ensure that events from same warehouse *)
(* and sensor will be processed like a queue": the topic has the events of *)
(* a sensor in the order in which its datagrams arrived.                   *)
(***************************************************************************)
EventsLikeAQueue ==
    \A i, j \in DOMAIN sends :
        Precedes(i, j) => ~CameBefore(sends[j].payload.datagram, sends[i].payload.datagram)

(***************************************************************************)
(* With as many processors as adapters, which is what the containers are   *)
(* given, that is so from the moment all loops run: one thread is left to  *)
(* handle datagrams. Before that moment two threads may.                   *)
(***************************************************************************)
QueueOnceListening ==
    Processors <= Cardinality(Adapters) =>
        \A i, j \in DOMAIN sends :
            Precedes(i, j) /\ sends[i].payload.datagram \in calm
            => ~CameBefore(sends[j].payload.datagram, sends[i].payload.datagram)

(***************************************************************************)
(* TemperatureSensorIT and HumiditySensorIT, "Should receive UDP messages  *)
(* and process it": a datagram that reached its socket ends up in a topic, *)
(* unless it was in the process when that crashed, or its own send threw   *)
(* or failed. What happens to other datagrams is no excuse: a crash or a   *)
(* failing send leaves the service as able to handle the next ones.        *)
(***************************************************************************)
EventuallyInTopic ==
    \A d \in Datagrams : Arrived(d) ~> (Delivered(MessageOf(d)) \/ d \in taken)
=============================================================================
