# Sensors Watch in TLA+

Sensors Watch is two Spring Boot services. The *warehouse service* receives sensor
readings as UDP datagrams and publishes measurement events to Kafka. The *monitoring
service* consumes them, compares each with the threshold of its type, and publishes an
alert event, at most one per measurement, when the threshold is exceeded. This directory
has TLA+ modules that model both, TLC runs that check small instances of them, and
theorems, checked by TLAPS, that hold for instances of any size.

    sensor --UDP--> warehouse service --> {temperature,humidity}-measurements-data --> monitoring service
                        |                                                                |        |
                        +--> malformed-measurements-data --> (log)       PostgreSQL <----+        v
                                                                            {temperature,humidity}-measurements-alert-data --> (log)

Paths below are relative to `src/warehouse-service/.../warehouse/` and
`src/monitoring-service/.../monitoring/`.

## 1. Inventory

| Component | State | Operations | Status |
|---|---|---|---|
| UDP adapters and executor, `config/UdpConfig.java` | sockets, the pool's threads and its unbounded queue | start, receive a datagram, execute a task, crash | `UdpGateway` |
| UDP handler, `adapter/udp/MeasurementUdp.java` | none | `handle` | `UdpGateway` |
| Warehouse event recipient, `adapter/kafka/MeasurementEventRecipientKafka.java` | the producer's buffer | two `send` methods, completion of the future | `UdpGateway`, `KafkaProducer` |
| Payload mappers, `adapter/mapper/` | none | the two `from`, pure | `MeasurementEventMapper` |
| Measurement listener, `adapter/kafka/KafkaConsumers.java` | topics, retry topics, DLTs, offsets, threads | deliver, forward, commit, rebalance, restart | `RetryTopic` |
| Threshold monitoring, `service/ThresholdMonitoringService.java` | none of its own | `handle`, `ensureIdempotence`, `handleUnprocessed`, `deleteProcessed` | `ThresholdMonitoring` |
| Processed events, `adapter/jdbc/ProcessedEventRepositoryJdbc.java` | table `monitoring.processed_events`, unique `eventId` | `save`, `delete` | `ThresholdMonitoring` |
| Alert recipient, `adapter/kafka/MeasurementAlertEventRecipientKafka.java` | the producer's buffer, pending `UnprocessedEvent`s | `send`, completion of the future | `ThresholdMonitoring`, `KafkaProducer` |
| Thresholds and cache, `adapter/jdbc/MeasurementThresholdRepositoryJdbc.java`, `config/CacheConfig.java` | table `monitoring.thresholds`, cache `thresholds` | `getByType` | `ThresholdCache`; with constant rows in `ThresholdMonitoring` |
| Alert and malformed-event listeners, `KafkaConsumers.java` | the log | `handleAlertEvent`, `handleMalformedEvent` | `LogListener` |
| Schema, `measurement-schema` | none | serialization | the fields the code decides on |
| `KafkaConfig`, `*Application`, `docker-compose.yaml` | none | bean definitions, bootstrapping | not modelled |
| Coverage reports, `src/doc/*/jacoco` | none | generated HTML with JaCoCo's scripts | not modelled |

How they interact. A receive loop is a task of the executor bean, and so is the handling
of each datagram; both adapters share that one bean. The handler calls the recipient,
which calls `KafkaTemplate.send` and learns of the result in an asynchronous callback.
A listener thread of the monitoring service calls `handle`, which calls the cache or the
threshold table, the processed-events table and the alert recipient, one after the other
and not in a transaction. When the send of an alert fails later on, a callback publishes
an `UnprocessedEvent`, which `ApplicationEventConfig` has handled on a virtual thread,
and which deletes the mark. A record whose listener throws goes to the next retry topic,
after three deliveries to the DLT (`@RetryableTopic`, default `attempts`); one that cannot
be deserialized goes to the DLT at once.

What is hard. The table and the topic are two stores without a common transaction: a
crash, a failing statement or a lost acknowledgement falls between any two steps. A record
may be in `handle` on several threads: a retry and a redelivery, or the old and the new
owner of a partition. `deleteProcessed` runs later and elsewhere. Retries are non-blocking
and so reorder. The executor is shared by loops that never end and the tasks they create.

What makes each part correct:

- *listener*: no record is lost between offset, retry topics and DLT; the DLT is the last
  resort; nothing is delivered for ever.
- *monitoring service*: at most one alert for an event; a marked event above its threshold
  has its alert; every event that arrives is settled; alerts of a sensor keep their order.
- *thresholds*: an answer is no older than the process; what threads race for settles.
- *warehouse service*: a datagram that reached the socket gives exactly one message, to the
  right topic; a sensor's readings keep their order; loops do not starve the handlers.
- *mapper*: it reads the language of `README.md:69-89`, each payload in one way.
- *alert listener*: no alert is skipped, and alerts are first logged in their order.
- *the whole*: no more alerts for a reading than datagrams, in the order of the readings; none
  above the threshold is missed.

The hazards, each at its line, are in `PROJECT.json`.

## 2. Modules

| Module | What it is |
|---|---|
| `RetryTopic` | one lane of a `@RetryableTopic` listener and the container's operations on it |
| `KafkaProducer` | the producer behind a `KafkaTemplate`; instantiated by both services |
| `ThresholdMonitoring` | the monitoring service on a lane (extends `RetryTopic`) |
| `Alerting` | the abstract specification: what the service promises of each event |
| `ThresholdMonitoringToAlerting` | the refinement mapping from the one to the other |
| `ThresholdCache` | `getByType` behind `@Cacheable`, several threads and an operator |
| `UdpGateway` | the warehouse service |
| `MeasurementEventMapper` | the mapper, over payloads of tokens |
| `LogListener` | the listeners that only log (extends `RetryTopic`) |
| `SensorsWatch` | composition of `UdpGateway`, `ThresholdMonitoring` and `LogListener` |
| `MC*` | the events, datagrams, payloads, rows and threads of the TLC instances |
| `RetryTopicProofs`, `KafkaProducerProofs`, `ThresholdMonitoringProofs` (with the refinement), `ThresholdCacheProofs`, `LogListenerProofs`, `UdpGatewayProofs`, `MeasurementEventMapperProofs`, `SensorsWatchProofs` | theorems and their lemmas |

### RetryTopic

A lane is a partition of the main topic with the same partition of `-retry-0`, `-retry-1`
and `-dlt`. All have three partitions and a forwarded record keeps its partition, so that
lanes do not meet. `log[t]` is the partition of topic `t` (0 is the main topic, `Attempts`
the DLT), `pos` the container's position, `committed` the committed offset, `consumer[c]`
the record thread `c` has and whether its container still owns the partition.
The module is Spring Kafka's and Kafka's behaviour, modelled from how `KafkaConsumers` and
`application.yml` use them: `Deliver`, `Finish`, `Forward` (the recoverer publishes to the
next topic), `SeekBack` (the recoverer cannot), `ForwardUnconfirmed` (it only seems so: the
topic has the record, its acknowledgement was lost, and the record is delivered again all the
same), `CommitOffset`, `Reassign` (a rebalance,
which leaves the thread in the listener, and lets it go on to the next record of the batch it
had polled, which may end at any record: `NextInBatch`), `Restart`. Offsets are committed at any time after
the record was left. The backoff is an arbitrary delay before a retry record is polled.

### KafkaProducer

`sends` lists what was handed to the producer: payload, `offset` (its place in its
partition's queue, 0 until the broker has it) and `phase`. `FailSend` happens with the
payload written or not, as a timeout does. With `enable.idempotence` the broker keeps the
order of sends within a partition (`Write`). `LoseProducer` is the end of the process.

### ThresholdMonitoring

`processed` is the table of marks, `cached` the types in the cache. A thread's `pc` follows
the code:

| `pc` | Code | Actions |
|---|---|---|
| `getByType` | `thresholdRepository.getByType(..).orElseThrow()` | `GetByType`, `GetByTypeFails` |
| `save` | `ensureIdempotence`, outside the try block within the threshold, inside above it | `RecordOrdinary`, `ClaimAlert`, `SkipDuplicate`, `SaveFails` |
| `send` | `alertEventRecipient.send` | `SendAlert`, `SendThrows` |
| `delete` | the catch block's `deleteProcessed` | `DeleteProcessed`, `DeleteProcessedFails` |
| `failed`, `fatal` | the listener threw; the value could not be deserialized | `Recover`, `RecoverFails` |

`Acknowledge` and `SendFails` are the two completions of the alert's future,
`HandleUnprocessed` is the `@EventListener` on its virtual thread. A database statement that
fails may have taken effect or not. An event's id is that of the Spring message its
datagram became, a random UUID, hence an event is its id. The value of `event.getValue() <= threshold.getValue()` is kept, with the
boundary; the text of alerts is not.

### Alerting and its refinement

An event is open, claimed (a thread has made its mark and not handed the alert over), sent,
written, alerted, failed, abandoned by a crash, or dismissed; `topic` has the alerts that are
out. There is no listener, retry topic, table or thread. After the first failing database
statement (`disturbed`) the promise is weak: an alert that is out stays out and belongs to an
event above its threshold. `ThresholdMonitoringToAlerting` tells an event's status by its mark,
by a thread that holds it and else by its alert in the producer.

### ThresholdCache

A call is lookup, query and put, without a lock between them (`@Cacheable` has `sync` false by
default), on `Threads` at once; the cache holds rows and absences (`Optional.empty()` is cached
as a null). `Update` is an operator's statement. `held[t]` and `asked` are history variables:
the rows type `t` has had since the process started, and who has queried what.

### UdpGateway

`arrived` and `received` are the sockets, `tasks` and `worker` the executor: `availableProcessors() + 1`
core threads and a queue without bound, so that no thread is ever added. A datagram that
reaches a closed or full socket is lost as in the network and does not count as arrived.
`Handle` is `MeasurementUdp.handle` with the verdict of the mapper as the constant
`Malformed`. A `send` that throws is logged by the adapter (`HandleThrows`), as is a
failed future (`SendFails`). `calm` is a history variable: the datagrams that arrived while
all loops were running. So is `taken`: the datagrams a failure has cost, which are those the process
held when it died (`Underway`), the one whose `send` threw, and the one whose send failed unwritten.

### MeasurementEventMapper

A payload is a sequence of tokens: `Semicolon`, `Equals`, `Blank`, and words, which stand for maximal
runs of other characters. The blank stands for every character up to U+0020, also the newline that
`echo` sends. `Split` has the rules of `String.split`: empty pieces are kept but for those at
the end. It is written without recursion, so that it can be proved about: the pieces lie between
the `Cuts`, and the k-th cut is the one with k cuts before it (`Nth`). The state machine edits a well-formed payload; what it meets are all payloads within
`MaxEdits` edits. Two observations the language in `ReadsItsLanguage` makes explicit: a sensor
id of blanks is accepted as the empty id, and a semicolon at the end is accepted unless a
blank or newline follows it.

### LogListener

A listener whose handler writes a line (`logged`, which outlives the process) and cannot fail:
the retry topics stay empty, and what cannot be deserialized goes to the DLT. It stands for
`handleAlertEvent` and for `handleMalformedEvent`, which differ in the topic alone.

### SensorsWatch

`PublishEvent` is the gateway's `BrokerAppend` and the measurement listener's `Arrive` in one
step, `PublishAlert` the same for alerts; `MonitoringCrash` takes both listeners, the cache and
the producer down at once. Followed are the readings of one type that share a partition: both
topics are keyed by warehouse and sensor, so their alerts share one too. An alert is told by
its number in the producer and its event, since a second alert of an event is another record;
the constant `Records` has records for as many alerts as there are readings
(`RecordsAssumption`), and `AlertsAreRecords` proves that no more are ever needed.

`NoAlarmMissed` says where a reading above the threshold can be: `InGateway` (socket, queue, thread
or producer's buffer), `InMonitoring` (a record not yet committed, a mark whose alert is not yet
handed over, or an alert in the buffer), `AtAlertListener` (an alert not yet committed), or `Alarmed`.

## 3. What is checked

### Runs that pass

| Run | Question | Bounds | Properties |
|---|---|---|---|
| `alert` | do marks, alerts, offsets and DLT agree under any fault, and does the service keep its promise? | 2 events (above and at the threshold), 2 threads, 2 deliveries, one each of crash, rebalance, database and Kafka fault | `TypeOK`, `AtMostOneAlert`, `MarkMeansAlert`, `NoEventLost`, `DltIsEarned`, `OrdinaryStaysMarked`, `KeepsPromise` |
| `retry` | does what can never be handled go to the DLT, and hold nobody up? | empty threshold table, a poison pill, 3 deliveries as in the code, crash, Kafka fault | `DltIsEarned`, `EventuallySettled` |
| `notified` | is every exceeding event notified, and a sensor's alerts in order? | 2 exceeding events of a sensor, 2 deliveries, crash, 2 Kafka faults, enough to send a record to the DLT | `QueueUntilFirstFault`, `EventuallySettled`, `EventuallyNotified` |
| `gateway` | one message per datagram, in order, and every datagram handled? | 2 readings of a sensor and a malformed datagram, 2 processors, crash, Kafka fault | `TypeOK`, `NothingTwiceNothingLost`, `QueueOnceListening`, `EventuallyInTopic` |
| `mapper` | which payloads are readings, and of what? | all payloads within 3 edits of `sensor_id=t1;value=30` and a line feed, over two keys, a sensor, an int and a word that is none | `ReadsItsLanguage` |
| `cache` | how old may a threshold be? | 2 threads, 2 types, 2 values or no row, 2 updates, a failing query, a restart | `AnswersSinceStart`, `AskedOnce`, `SettledForGood` |
| `sensors_watch` | what does the system do from socket to alarm? | one adapter on one processor, a reading sent or duplicated (2 datagrams), a crash of each process, a rebalance of the alert listener, a failing forward | `NothingSkipped`, `FirstLinesInOrder`, `NoMoreAlertsThanDatagrams`, `AlarmInReadingOrder`, `NoAlarmMissed` |

Why the bounds are enough. The properties relate two alerts or an alert and a mark, so two
events and two threads give every conflict: two threads may be at the same record (after a
rebalance, or at two levels), and a third would only repeat one of them. Two deliveries
have both kinds of forwarding, to a retry topic and to the DLT; `retry` uses
the three of the code. A single fault of each kind meets every step, and all kinds mix.
`SYMMETRY` permutes the threads, in runs without liveness only. The datagrams of `gateway`
suffice for two threads to overtake each other; two processors are what
`src/docker-compose.yaml:80,103,121` gives each container, for its two adapters;
`sensors_watch` has one of either, which leaves one thread over just the same. Three edits
reach, from the well-formed payload, each ambiguity of two separators and a repeated key. The
composition is as small as its properties allow (two datagrams are needed for a copy and for
an order): at 2.1 million states it is the largest run, for which reason faults that a
service's own run has (database, sends) are left out, and so is its liveness, which is that
of the parts: `EventuallyInTopic` up to the measurement topic, `EventuallyNotified` up to the
alert topic. For the properties proved in section 4 no bound matters.

Several properties have a premise, because the code does not keep more:

- `AtMostOneAlert` excludes database faults (see `duplicate` below) and an alert whose send
  was reported as failed, which the code means to send again.
- `MarkMeansAlert` holds until the first crash or database fault. A process that dies between
  `save` and `send` leaves a mark without an alert, and the redelivered event is skipped.
- `NoEventLost` is without rebalances: a thread that lost its partition may fail after the new
  owner skipped its record as a duplicate, and if then its recoverer cannot publish, nobody has
  the record any more.
- `QueueUntilFirstFault`, `QueueOnceListening` and `AlarmInReadingOrder` say how much is left of
  the comments about queues: order until a record goes to a retry topic, and for datagrams
  that came when all loops were running, with no more processors than adapters.
- `KeepsPromise` promises little after a database fault, because `duplicate` shows what the code
  does then.
- `NothingTwiceNothingLost` and `EventuallyInTopic` excuse the datagrams in `taken`, one by one. That a
  crash or a failing send has happened excuses no other: a datagram that comes after a restart, or
  after a handler that threw, still has to get to its topic. A throwing handler that cost the pool its
  last thread, or a restart with a thread too few, would violate `EventuallyInTopic`.
- `NoAlarmMissed` excuses two crashes for what they took: the gateway's for the datagrams it held
  (`taken`), the monitoring service's for an event that is marked and has no alert in the topic. When the system is at rest after no crash, every reading above the threshold that reached
  its socket has set off the alarm.
- `FirstLinesInOrder` is about first lines: a line may come again out of turn.
- `AskedOnce` excepts a query that failed.

### Runs that show a disagreement with a comment, a test or the documentation

| Run | Says | What the code does |
|---|---|---|
| `unprocessed` | `src/README.md:30`: the DLTs "receive unprocessed messages" | when the send of an alert fails after `handle` returned, the mark is deleted but nothing delivers the event again: no alert, no DLT |
| `duplicate` | `ThresholdMonitoringServiceTest.groovy:123`: "Shouldn't notify when event is duplicated" | a redelivery whose `save` fails with another exception than the duplicate key deletes the first delivery's mark; the retry alerts again |
| `like_a_queue` | `MeasurementAlertEventRecipientKafka.java:27`: "processed like a queue" | a record in a retry topic is overtaken by the next one of its sensor |
| `reordered` | `MeasurementEventRecipientKafka.java:23`: "processed like a queue" | with three processors two pool threads handle two datagrams of a sensor in any order |
| `starved` | `TemperatureSensorIT.groovy:29`: UDP messages are received and processed | on one processor the two receive loops take both threads and no datagram is ever handled |

### Fairness

`ThresholdMonitoring`: weak fairness of each listener thread, of polling and of committing
at each level (containers poll in a loop), of the producer (`delivery.timeout.ms` completes
every future) and of the unprocessed-event listener (virtual threads are scheduled). It is
fairness of the *disjunction* of success and failure: nothing says that a step succeeds, the
bounds on faults do. Arrivals, rebalances and crashes are not fair. `UdpGateway`: weak
fairness of starting an adapter, of each thread, and of the producer; no sensor has to send.
The thread that handles a datagram does not block on anything but `send`, whose failure is
`HandleThrows`. The other modules state safety only, and no fairness.

`CHECK_DEADLOCK FALSE` appears in `starved` only: the service really gets stuck there.
Elsewhere `AtRest` and `Quiet` are the states in which the services wait for input.

## 4. What is proved

TLAPS checks, for every set of events, datagrams, threads, levels and thresholds, any values and
any bounds on faults:

| Theorem | Statement |
|---|---|
| `TypeCorrect` | `Spec => []TypeOK` |
| `OneAlert` | `Spec => []AtMostOneAlert` |
| `MarkedIsAlerted` | `Spec => []MarkMeansAlert` |
| `OrdinaryMarksStay` | `Spec => OrdinaryStaysMarked` |
| `DltEarned` | `Spec => []DltIsEarned` |
| `NothingLost` | `Spec => []NoEventLost` |
| `LikeAQueue` | `Spec => []QueueUntilFirstFault` |
| `ServiceKeepsPromise` | `Spec => KeepsPromise`, the refinement of `Alerting` |
| `CachedSinceStart`, `QueriedOnce`, `SettledStays` | `AnswersSinceStart`, `AskedOnce`, `SettledForGood` of `ThresholdCache` |
| `ListenerTypeCorrect`, `ListenerSkipsNothing`, `FirstLinesStayInOrder` | `TypeOK`, `NothingSkipped`, `FirstLinesInOrder` of `LogListener` |
| `GatewayTypeCorrect`, `NothingTwiceNothingLostEver`, `LikeAQueueOnceListening` | `TypeOK`, `NothingTwiceNothingLost`, `QueueOnceListening` of `UdpGateway` |
| `MapperReadsItsLanguage` | `Spec => []ReadsItsLanguage` of `MeasurementEventMapper` |
| `SendsKeepOrder` | `ProducerSpec => []PartitionsKeepOrder` of any `KafkaProducer` |
| `SystemImplementsParts` | `SensorsWatch` implements `UdpGateway`, `ThresholdMonitoring` and `LogListener` |
| `AlertsPerReading` | `SystemSpec => []NoMoreAlertsThanDatagrams` |
| `AlarmFollowsReadings` | `SystemSpec => []AlarmInReadingOrder` |
| `NoReadingIsMissed` | `SystemSpec => []NoAlarmMissed` |
| `SystemKeepsPromise` | `SystemSpec` implies `KeepsPromise` of the monitoring service in it |
| `AlertsReachTheLog` | `SystemSpec => [](NothingSkipped /\ FirstLinesInOrder)` |

Assumptions: those the modules state on their constants (`AttemptsAssumption`: at least one
delivery; `DataAssumption`: types and integer values; `BoundsAssumption`; `CacheAssumption`: the
values for "no row" and "no entry" are different; in `UdpGateway`, that the adapter of each
datagram is known, that datagrams, adapters and "no task" differ, and at least one processor; in
`MeasurementEventMapper`, that the two keys are words and the separators and the blank are not
(`WordsAssumption`), that what parses as an int is a word and its value an int (`IntOfAssumption`), and that
the edits start from a payload (`WellFormedAssumption`, which does not ask that it is a reading); in
`SensorsWatch`, the same of its parts, and finitely many readings (`RecordsAssumption`)). TLC evaluates them on every run of the module.

`TypeOK` is not inductive: `EventOf(c)` has to be a record. `TInv` adds `InLog`, that a busy
thread stands at an index its topic has. `RetryTopicProofs` shows that each operation of a
lane keeps both, for any set of program counters, and that topics only grow (`Grows`), so
that a thread keeps its record while others move.

`AtMostOneAlert` follows from `OneOwner`, the invariant behind `ensureIdempotence`: without
database faults a mark has *one* owner. The owner is a thread between `save` and `send` or
`delete` (`Claims`), or an alert whose failure has not been handled (`Holds`). Owners are
marked (`AlertsMarked`, `ClaimsMarked`), and no two owners have the same event
(`OnlyLastHolds`, `ClaimExcludesAlert`, `ClaimExcludesClaim`). The unique key lets
`ClaimAlert` in only when the event has no owner; `SendAlert` hands the claim over to the
alert; the two deletions end the ownership and take the mark along. None of the five parts is
inductive alone: that a deletion does not take another owner's mark needs the exclusions, and
those need the marks.

`MarkMeansAlert` is the converse, that a mark above the threshold has an owner; it is inductive
on top of `TInv`. `OrdinaryStaysMarked` needs that only events above their threshold are ever
claimed or alerted (`OnlyExceeding`), whatever fails.

`KeepsPromise` is proved one action at a time: under the invariants above (`TInv`,
`OneOwner` and `OnlyExceeding`), each action of the service leaves `StatusOf` of all events but one alone,
and moves that one as an action of `Alerting` does. That no other event moves needs that ownership
is exclusive: an event that a thread claims has no alert under way, and only the last of its alerts
can be. A step after a database fault is `Disturb`, for which it is enough that alerts are
never unwritten and belong to events above their threshold.

`DltIsEarned` counts: a record that is at level `l`, and has a threshold, has met `l` faults, one
more if a thread is about to forward it (`EveryLevelFailed`, `Failing`). The counters of faults are
shared, but that is no obstacle, for `Faults` never falls and the step that fails raises it. With
them go the order of the topics (`RetriesInTurn`) and where the DLT's records come from
(`DltAfterLast`).

`NoEventLost` needs to know where the lane stands. Without rebalances every thread owns its partition
and stands at its position, which is not behind the committed offset (`Stationed`). Then each event
that arrived is settled (`Settled`: marked, in the DLT, or its failed alert was dealt with) or *due*
(`Due`): some level has a record of it which the position has not passed and, if it is the record at
the position, no thread there is about to send its alert (`WaitsFor`, `AtSend`). A step can take
away the place of its own record only (`DueElsewhere`). That one stays due until its thread is about
to send, when it is marked (`InHandIsDue`), or is appended to the next level (`AppendedIsDue`) or
the DLT. A deletion of the mark leaves the event in hand, and so due, or is of an alert that failed,
which stays on record (`HandledStays`). Since the committed offset is never ahead of the position,
what is due is not lost (`KeptMeansNotLost`).

`QueueUntilFirstFault` rests on `Ordered`: everything the position of the main topic has passed is
marked if it is to be alerted of (`MarkedBelow`), each alert is of a record behind which nothing is
left unmarked, and so is the one about to be sent. A restart moves the position back,
over marked records only, which are skipped; that is why crashes do no harm. It ends with
the first fault, after which a record may be behind in a retry topic. The topic then has the order of
the sends, by `SendsKeepOrder`: within a partition, what is written has nothing waiting in front of
it, and places go up. `KafkaProducerProofs` proves it once for any payloads; each
service shows that its steps are the producer's (`ProducerImplemented`).

`ThresholdCache` needs for each property what threads in the middle of a call have: that a
result to be put is a row since the start, and that a thread which has queried a type is either
about to put it, or the type is cached.

`LogListener` rests on *covered places*: wherever the container stands, its committed offset, or a
thread, owner or not, all records before that place are logged or in the DLT (`CoveredInv`). It is
inductive because a new place is always an old one, or one past a record that this step has done
(`Places`), and what is done stays done since topics and log only grow. `NothingSkipped` is the
part of it about the container. `FirstLinesInOrder` follows for the line just written, whose
record's place is covered; that it has one place needs that records arrive once (`Distinct`), and
that those before it which are in the DLT are poison pills is `DltHasPoison`.

`UdpGateway`: `PlacesInv` says that a socket has a datagram once, and the right adapter's socket;
that a datagram is at most once in the executor's queue, on a thread and in the producer (`Once`)
and in one of the four only (`Apart`); and that what is anywhere has arrived, without which a
datagram could arrive while it is handled. The lemmas for the actions say of each datagram that
it stays where it is (`Kept`) or has one place after the step (`Moved`); hence a datagram loses
its place in `HandleThrows` and in a crash only, which both add it to `taken` (`MissingInv`). What is
in the producer is accounted for separately (`AllAccounted`): each message is written, or waits to be,
or its datagram was taken, by a crash or by `SendFails`. As nothing leaves `taken` (`TakenStays`) and
nothing written is unwritten, that is inductive, and the two give `ArrivedIsSomewhere`.

`QueueOnceListening`: while every loop has a thread, one thread at most is left for datagrams
(`OneThreadLeft`, by counting: `Processors + 1` threads, no fewer adapters than processors). So a calm
datagram and one that came before it to its socket are never both on threads, and stay in turn from
socket to queue to thread to producer (`InTurn`). Loops keep their threads until a crash, and a
crash leaves nothing in socket, queue and threads (`CalmHolds`).

`ReadsItsLanguage` is proved by counting where induction over the payload is out of reach. The k-th
member of a finite set of places is the one with k members below it (`Below`, `NthInPlace`, `NthAscends`), so
that neighbouring cuts have no separator between them (`BetweenNeighbours`, `PiecesBetweenCuts`). A split has
two parts exactly if the payload is *in two* (`InTwo`: a separator, something after it that has none,
and nothing but separators behind), which takes a lemma for each direction (`SplitTwoOnly`,
`SplitTwoWhenInTwo`). `Trim` is the text that is padded (`TrimIsPadded`). Hence an
assignment is what splits at `=` (`AssignsIsSplit`), a reading is two of them (`ReadsIsSplit`), which are the
entries of the map (`ReadsItsParameters`; a repeated key leaves one entry, and no reading), and
`ParameterIsSubtext` says that the sensor is among the texts the language is searched over.
`HandlesWhatItReads` puts this together for any payload; the theorem adds that edits keep it one.

`SensorsWatch`: each step of the system is one of each part or leaves it alone (`StepsOfParts`), so what
is proved of the parts holds in the system (`GatewayKnown`, `MonitoringKnown`, `LInv`).
That the alert listener is only given records it has needs the monitoring service's order: no
datagram has two alerts (`AlertsDiffer`). What is added is where the parts meet: each record of the
measurement topic is a written message of the gateway, each record of the alert topic a written
alert, and records of one sensor have the order of the places of their messages (`EventsFlow`,
`AlertsFlow`). `AlertsPerReading` maps alerts one to one to arrived datagrams along that way, and
`AlarmFollowsReadings` follows two lines of the log back along it, through six orders that agree. What
a step can do to either meeting point is `LinksStep`: leave it, or write one message on both sides.

`NoReadingIsMissed` goes the same way forward, for which the flows need their converses: what a producer
has written has arrived at the other end (`EventsArrive`, `AlertsArrive`). Each part then accounts for
what reached it. In the gateway that is its own theorem: a datagram is in the process, in
the topic, or was taken (`ArrivedIsSomewhere`). In the monitoring service
(a lemma of the same name) an event that arrived is kept, marked or in the DLT (`NoEventLost`), a mark has its
alert in hand or sent (`MarkMeansAlert`), no alert has failed (`NoFailure`), and the DLT has nothing but
poison pills (`DltIsEarned`). An alert that is written is logged or to be delivered by `NothingSkipped`
(`WrittenIsAlarmed`). Only the conjunction of the three is a safety net without holes, and the
excuses of `NoAlarmMissed` are where one of them ends with a crash.

Only model-checked are the liveness properties `EventuallySettled`, `EventuallyNotified` and
`EventuallyInTopic`: fairness is stated with `ENABLED`, which is beyond this proof system. The proofs about `SensorsWatch` say nothing of what that
module leaves out (section 5): there the monitoring service has crashes but no faults of its own.

## 5. What the models leave out

- One lane. Events of another partition share with it only the table (other ids), the cache
  and the producer (other keys). The lane's events have one topic and so one type.
- Thresholds are constant in `ThresholdMonitoring`; the cache matters there only in that a hit
  cannot fail. `AnswersSinceStart` is why that is sound while rows do not change. When they do, the
  threshold an event is compared with may differ between its deliveries, which is not followed
  further. An empty table is the instance `NoThresholds`.
- The producer's buffer has no limit (`max.block.ms` is part of "send throws").
- Transport loss before the socket. Datagrams the network duplicates are two datagrams.
- Kafka and PostgreSQL keep what they acknowledged; a line that was logged stays in the log.
- In `SensorsWatch`: failing sends and database statements, rebalances of the measurement
  listener, other partitions and types, liveness (see section 3).
- Payloads as characters: words are tokens, and which of them are ints is a constant. Moments,
  warehouse ids and the text of log lines are left out.

Not modelled: topic and serializer beans (`KafkaConfig`), the `*Application` classes and
container files, which have no behaviour of their own; and the reports under
`src/doc/*/jacoco`, which JaCoCo generated. The JavaScript files of this repository are all among
the latter (`prettify.js`, `sort.js`, which colour and sort report pages): the program is Java,
and the models are of its Java, SQL, protobuf and configuration files.

## 6. What could follow

A composition with the faults of the monitoring service in it, where `AtMostOneAlert` replaces
`AlertsDiffer`: no more alerts than datagrams should still be true without database faults if
none is reported failed. A composition of `ThresholdCache` with `ThresholdMonitoring` would tell what a
change of a row means for the retries of one event.
