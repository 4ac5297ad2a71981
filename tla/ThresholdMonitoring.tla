------------------------- MODULE ThresholdMonitoring --------------------------
(***************************************************************************)
(* The monitoring service: KafkaConsumers.handleMeasurementEvent hands a   *)
(* record to ThresholdMonitoringService.handle, which looks the threshold  *)
(* up, marks the event in monitoring.processed_events and, above the       *)
(* threshold, sends an alert to Kafka. The send completes asynchronously:  *)
(* a failure publishes an UnprocessedEvent, handled on another thread,     *)
(* which removes the mark again.                                           *)
(*                                                                         *)
(* Several records are in handle() at once, at the levels of the lane and  *)
(* on threads that lost their partition; the table, the threshold cache    *)
(* and the producer are shared. Every database statement and every Kafka   *)
(* call is a step of its own, and may fail.                                *)
(***************************************************************************)
EXTENDS RetryTopic

CONSTANTS
    EventType,       \* EventType[e]: MeasurementEvent.type
    EventValue,      \* EventValue[e]: MeasurementEvent.value
    EventKey,        \* EventKey[e]: warehouseId-sensorId
    PoisonPills,     \* records whose value cannot be deserialized
    Types,           \* MeasurementType
    Thresholds,      \* the rows of monitoring.thresholds: type -> value
    MaxCrashes, MaxRebalances, MaxDbFaults, MaxKafkaFaults  \* bounds on faults

Events == Records

ASSUME DataAssumption ==
    /\ EventType \in [Events -> Types]
    /\ EventValue \in [Events -> Int]
    /\ DOMAIN Thresholds \subseteq Types
    /\ \A t \in DOMAIN Thresholds : Thresholds[t] \in Int
    /\ PoisonPills \subseteq Events

ASSUME BoundsAssumption ==
    {MaxCrashes, MaxRebalances, MaxDbFaults, MaxKafkaFaults} \subseteq Nat

VARIABLES
    processed,    \* event ids in monitoring.processed_events
    cached,       \* types whose row (or its absence) is in the cache "thresholds"
    sends,        \* alerts handed to the producer, by their event
    crashes, rebalances, dbFaults, kafkaFaults

serviceVars == <<processed, cached, sends>>
faultVars == <<crashes, rebalances, dbFaults, kafkaFaults>>
vars == <<laneVars, serviceVars, faultVars>>

PC == {"next", "getByType", "save", "send", "delete", "failed", "fatal"}

\* An alert goes to the alert topic of its type, under the key of its
\* measurement, warehouseId-sensorId.
AlertQueue(e) == <<EventType[e], EventKey[e]>>

INSTANCE KafkaProducer WITH Payloads <- Events, QueueOf <- AlertQueue

\* One type invariant: the shape of every variable, and a bound per fault.
TypeOK ==
    /\ LaneTypeOK(PC)
    /\ processed \subseteq Events
    /\ cached \subseteq Types
    /\ ProducerTypeOK
    /\ crashes \in 0 .. MaxCrashes
    /\ rebalances \in 0 .. MaxRebalances
    /\ dbFaults \in 0 .. MaxDbFaults
    /\ kafkaFaults \in 0 .. MaxKafkaFaults

Init ==
    /\ LaneInit
    /\ processed = {}
    /\ cached = {}
    /\ ProducerInit
    /\ crashes = 0 /\ rebalances = 0 /\ dbFaults = 0 /\ kafkaFaults = 0

DbFault ==
    /\ dbFaults < MaxDbFaults
    /\ dbFaults' = dbFaults + 1
    /\ UNCHANGED <<crashes, rebalances, kafkaFaults>>

KafkaFault ==
    /\ kafkaFaults < MaxKafkaFaults
    /\ kafkaFaults' = kafkaFaults + 1
    /\ UNCHANGED <<crashes, rebalances, dbFaults>>

EventOf(c) == RecordOf(c)

HasThreshold(e) == EventType[e] \in DOMAIN Thresholds

Exceeds(e) == HasThreshold(e) /\ EventValue[e] > Thresholds[EventType[e]]

-----------------------------------------------------------------------------
(* The listener, on consumer thread c.                                     *)

\* The warehouse publishes event e; ids are fresh, so e arrives once.
Arrive(e) ==
    /\ e \notin Published(0)
    /\ Publish(e)
    /\ UNCHANGED <<serviceVars, faultVars>>

\* Mutant: without ErrorHandlingDeserializer's fatal classification, a poison
\* pill is retried as any other failure.
FirstStepRetries(e) == IF e \in PoisonPills THEN "failed" ELSE "getByType"

\* A record that cannot be deserialized never reaches the listener and is not
\* retried.
FirstStep(e) == IF e \in PoisonPills THEN "fatal" ELSE "getByType"

\* The container delivers a record.
Poll(c, l) ==
    /\ HasNext(l)
    /\ Deliver(c, l, FirstStep(log[l][pos[l]]))
    /\ UNCHANGED <<serviceVars, faultVars>>

\* A thread that lost its partition takes the next record of its batch.
Resume(c) ==
    /\ consumer[c].pc = "next"
    /\ Goto(c, FirstStep(EventOf(c)))
    /\ UNCHANGED <<serviceVars, faultVars>>

\* getByType answers, from the cache or by a query whose result, a row or
\* none, is then cached; orElseThrow throws when there is no row.
GetByType(c) ==
    /\ consumer[c].pc = "getByType"
    /\ cached' = cached \cup {EventType[EventOf(c)]}
    /\ Goto(c, IF HasThreshold(EventOf(c)) THEN "save" ELSE "failed")
    /\ UNCHANGED <<processed, sends, faultVars>>

\* The query fails; only a cache miss asks the database.
GetByTypeFails(c) ==
    /\ consumer[c].pc = "getByType"
    /\ EventType[EventOf(c)] \notin cached
    /\ DbFault
    /\ Goto(c, "failed")
    /\ UNCHANGED serviceVars

\* Mutant: ensureIdempotence saves the sensor's key for the event's id.
RecordKey(c) ==
    /\ consumer[c].pc = "save"
    /\ ~Exceeds(EventOf(c))
    /\ processed' = processed \cup {EventKey[EventOf(c)]}
    /\ Finish(c)
    /\ UNCHANGED <<cached, sends, faultVars>>

\* A value within the threshold: ensureIdempotence, and handle returns.
RecordOrdinary(c) ==
    /\ consumer[c].pc = "save"
    /\ EventOf(c) \notin processed
    /\ ~Exceeds(EventOf(c))
    /\ processed' = processed \cup {EventOf(c)}
    /\ Finish(c)
    /\ UNCHANGED <<cached, sends, faultVars>>

\* Mutant: the insert overwrites on conflict and reports one row.
ClaimAlertAgain(c) ==
    /\ consumer[c].pc = "save"
    /\ Exceeds(EventOf(c))
    /\ processed' = processed \cup {EventOf(c)}
    /\ Goto(c, "send")
    /\ UNCHANGED <<cached, sends, faultVars>>

\* A value above the threshold: ensureIdempotence, and on to the alert.
ClaimAlert(c) ==
    /\ consumer[c].pc = "save"
    /\ EventOf(c) \notin processed
    /\ Exceeds(EventOf(c))
    /\ processed' = processed \cup {EventOf(c)}
    /\ Goto(c, "send")
    /\ UNCHANGED <<cached, sends, faultVars>>

\* The insert hits the unique key: DuplicatedEventException, which the
\* listener swallows.
SkipDuplicate(c) ==
    /\ consumer[c].pc = "save"
    /\ EventOf(c) \in processed
    /\ Finish(c)
    /\ UNCHANGED <<serviceVars, faultVars>>

\* Mutant: one try block around both calls of ensureIdempotence.
SaveFailsInTry(c) ==
    /\ consumer[c].pc = "save"
    /\ DbFault
    /\ processed' \in {processed, processed \cup {EventOf(c)}}
    /\ Goto(c, "delete")
    /\ UNCHANGED <<cached, sends>>

\* The insert fails for another reason, before or after the row got stored.
\* Above the threshold the call sits in the try block, whose handler deletes.
SaveFails(c) ==
    /\ consumer[c].pc = "save"
    /\ DbFault
    /\ processed' \in {processed, processed \cup {EventOf(c)}}
    /\ Goto(c, IF Exceeds(EventOf(c)) THEN "delete" ELSE "failed")
    /\ UNCHANGED <<cached, sends>>

\* The producer accepts the alert and handle returns: the record is done,
\* whatever becomes of the alert.
SendAlert(c) ==
    /\ consumer[c].pc = "send"
    /\ Accept(EventOf(c))
    /\ Finish(c)
    /\ UNCHANGED <<processed, cached, faultVars>>

\* KafkaTemplate.send throws.
SendThrows(c) ==
    /\ consumer[c].pc = "send"
    /\ KafkaFault
    /\ Goto(c, "delete")
    /\ UNCHANGED serviceVars

\* Mutant: the catch block rethrows without removing the mark.
RethrowOnly(c) ==
    /\ consumer[c].pc = "delete"
    /\ Goto(c, "failed")
    /\ UNCHANGED <<serviceVars, faultVars>>

\* handle's catch block removes the mark and rethrows.
DeleteProcessed(c) ==
    /\ consumer[c].pc = "delete"
    /\ processed' = processed \ {EventOf(c)}
    /\ Goto(c, "failed")
    /\ UNCHANGED <<cached, sends, faultVars>>

\* The delete fails too, before or after the row is gone.
DeleteProcessedFails(c) ==
    /\ consumer[c].pc = "delete"
    /\ DbFault
    /\ processed' \in {processed, processed \ {EventOf(c)}}
    /\ Goto(c, "failed")
    /\ UNCHANGED <<cached, sends>>

\* Mutant: every failure is fatal, the retry topics are never used.
RecoverAllFatal(c) ==
    /\ consumer[c].pc \in {"failed", "fatal"}
    /\ Forward(c, Dlt)
    /\ UNCHANGED <<serviceVars, faultVars>>

\* Mutant: no DLT (NO_DLT), the last failure drops the record.
RecoverWithoutDlt(c) ==
    /\ \/ /\ consumer[c].pc = "failed" /\ consumer[c].level + 1 < Dlt
          /\ Forward(c, consumer[c].level + 1)
       \/ /\ consumer[c].pc = "failed" => consumer[c].level + 1 = Dlt
          /\ consumer[c].pc \in {"failed", "fatal"}
          /\ Finish(c)
    /\ UNCHANGED <<serviceVars, faultVars>>

\* Mutant: the listener's catch block takes every exception, not only
\* DuplicatedEventException.
RecoverSwallowed(c) ==
    /\ \/ consumer[c].pc = "failed" /\ Finish(c)
       \/ consumer[c].pc = "fatal" /\ Forward(c, Dlt)
    /\ UNCHANGED <<serviceVars, faultVars>>

\* Mutant: a poison pill is sought back to and delivered again.
RecoverBlocking(c) ==
    /\ \/ consumer[c].pc = "failed" /\ Forward(c, consumer[c].level + 1)
       \/ consumer[c].pc = "fatal" /\ SeekBack(c)
    /\ UNCHANGED <<serviceVars, faultVars>>

\* The container forwards a failed record to the next topic of the lane, and
\* one that could not be deserialized to the DLT at once.
Recover(c) ==
    /\ \/ consumer[c].pc = "failed" /\ Forward(c, consumer[c].level + 1)
       \/ consumer[c].pc = "fatal" /\ Forward(c, Dlt)
    /\ UNCHANGED <<serviceVars, faultVars>>

RecoverFails(c) ==
    /\ \/ consumer[c].pc \in {"failed", "fatal"} /\ SeekBack(c)
       \/ consumer[c].pc = "failed" /\ ForwardUnconfirmed(c, consumer[c].level + 1)
       \/ consumer[c].pc = "fatal" /\ ForwardUnconfirmed(c, Dlt)
    /\ KafkaFault
    /\ UNCHANGED serviceVars

Commit(l) ==
    /\ CommitOffset(l)
    /\ UNCHANGED <<serviceVars, faultVars>>

-----------------------------------------------------------------------------
(* The alert's way through the producer, and what follows its completion.  *)

\* Mutant: idempotence is off in the producer's configuration.
BrokerAppendUnordered(i) ==
    /\ WriteUnordered(i)
    /\ UNCHANGED <<laneVars, processed, cached, faultVars>>

BrokerAppend(i) ==
    /\ Write(i)
    /\ UNCHANGED <<laneVars, processed, cached, faultVars>>

\* Mutant: whenCompleteAsync tests for no error, and the listener of its event
\* removes the mark of an alert that is out.
AcknowledgeUnmarks(i) ==
    /\ SucceedSend(i)
    /\ processed' = processed \ {sends[i].payload}
    /\ UNCHANGED <<laneVars, cached, faultVars>>

\* The future completes normally: whenCompleteAsync does nothing.
Acknowledge(i) ==
    /\ SucceedSend(i)
    /\ UNCHANGED <<laneVars, processed, cached, faultVars>>

\* The future completes with an error, be it that the acknowledgement was
\* lost: whenCompleteAsync publishes an UnprocessedEvent.
SendFails(i) ==
    /\ KafkaFault
    /\ FailSend(i)
    /\ UNCHANGED <<laneVars, processed, cached>>

\* Mutant: the listener logs the event and leaves the mark.
LogUnprocessed(i) ==
    /\ MarkHandled(i)
    /\ UNCHANGED <<laneVars, processed, cached, faultVars>>

\* The event's listener, on a virtual thread, removes the mark.
HandleUnprocessed(i) ==
    /\ MarkHandled(i)
    /\ processed' = processed \ {sends[i].payload}
    /\ UNCHANGED <<laneVars, cached, faultVars>>

\* Its delete fails, and the multicaster has no error handler.
HandleUnprocessedFails(i) ==
    /\ MarkHandled(i)
    /\ DbFault
    /\ processed' \in {processed, processed \ {sends[i].payload}}
    /\ UNCHANGED <<laneVars, cached>>

-----------------------------------------------------------------------------
(* Rebalances and crashes.                                                 *)

Rebalance(l) ==
    /\ rebalances < MaxRebalances
    /\ rebalances' = rebalances + 1
    /\ Reassign(l)
    /\ UNCHANGED <<serviceVars, crashes, dbFaults, kafkaFaults>>

\* The cache, the producer's buffer and the pending UnprocessedEvents go with
\* the process; the topics and the table stay.
Crash ==
    /\ crashes < MaxCrashes
    /\ crashes' = crashes + 1
    /\ Restart
    /\ cached' = {}
    /\ LoseProducer
    /\ UNCHANGED <<processed, rebalances, dbFaults, kafkaFaults>>

\* Every record has arrived and been dealt with: the service waits.
AtRest ==
    /\ Published(0) = Events
    /\ LaneAtRest
    /\ \A i \in DOMAIN sends : ~Pending(i)
    /\ UNCHANGED vars

ListenerStep(c) ==
    \/ Resume(c)
    \/ GetByType(c) \/ GetByTypeFails(c)
    \/ RecordOrdinary(c) \/ ClaimAlert(c) \/ SkipDuplicate(c) \/ SaveFails(c)
    \/ SendAlert(c) \/ SendThrows(c)
    \/ DeleteProcessed(c) \/ DeleteProcessedFails(c)
    \/ Recover(c) \/ RecoverFails(c)

ProducerStep(i) == BrokerAppend(i) \/ Acknowledge(i) \/ SendFails(i)

UnprocessedStep(i) == HandleUnprocessed(i) \/ HandleUnprocessedFails(i)

Next ==
    \/ \E e \in Events : Arrive(e)
    \/ \E c \in Consumers, l \in Levels : Poll(c, l)
    \/ \E c \in Consumers : ListenerStep(c)
    \/ \E i \in DOMAIN sends : ProducerStep(i) \/ UnprocessedStep(i)
    \/ \E l \in Levels : Commit(l) \/ Rebalance(l)
    \/ Crash
    \/ AtRest

Spec == Init /\ [][Next]_vars

(***************************************************************************)
(* Fairness. Listener containers keep polling, running the listener and    *)
(* committing; the producer's delivery timeout completes every future one  *)
(* way or the other; the executor of the event multicaster runs its tasks. *)
(* A step may be a failing one: only the bounds on faults end those.       *)
(***************************************************************************)
Fairness ==
    /\ \A c \in Consumers : WF_vars(ListenerStep(c))
    /\ \A l \in Levels : WF_vars(\E c \in Consumers : Poll(c, l))
    /\ \A l \in Levels : WF_vars(Commit(l))
    /\ WF_vars(\E i \in DOMAIN sends : ProducerStep(i))
    /\ WF_vars(\E i \in DOMAIN sends : UnprocessedStep(i))

FairSpec == Spec /\ Fairness

-----------------------------------------------------------------------------
Arrived(e) == e \in Published(0)

\* The producer reported the failure of an alert of e after accepting it.
SendFailed(e) ==
    \E i \in DOMAIN sends : sends[i].payload = e /\ sends[i].phase \in {"failed", "handled"}

\* Thread c is between marking e and either sending its alert or taking the
\* mark back.
HoldsMark(c, e) ==
    /\ consumer[c].pc \in {"send", "delete"}
    /\ EventOf(c) = e

(***************************************************************************)
(* ensureIdempotence, with the unique key on eventId: the alert topic gets *)
(* at most one alert of an event, through redeliveries, retries, threads   *)
(* that lost their partition and crashes. Two exceptions: a first alert    *)
(* the producer had reported as failed, and a database fault, which makes  *)
(* handle() delete a mark that is not its own.                             *)
(***************************************************************************)
AtMostOneAlert ==
    dbFaults = 0 =>
        \A i, j \in DOMAIN sends :
            /\ i < j
            /\ sends[i].payload = sends[j].payload
            /\ Written(i) /\ Written(j)
            => sends[i].phase = "handled"

(***************************************************************************)
(* The mark and the alert go together: as long as no crash and no database *)
(* fault got in between, an event above its threshold that is marked has   *)
(* its alert in the topic, under way, or about to be unmarked again. (What *)
(* duplicates skip must not be lost.)                                      *)
(***************************************************************************)
MarkMeansAlert ==
    (crashes = 0 /\ dbFaults = 0) =>
        \A e \in processed : Exceeds(e) =>
            \/ \E c \in Consumers : HoldsMark(c, e)
            \/ \E i \in DOMAIN sends :
                   /\ sends[i].payload = e
                   /\ \/ Pending(i)
                      \/ sends[i].phase = "acked" /\ Written(i)

(***************************************************************************)
(* Whatever fails, crashes included, a measurement is never dropped while  *)
(* partitions stay with their owners: it is still to be delivered at some  *)
(* level, or marked, or in the DLT, or its alert failed after the producer *)
(* had accepted it. The offset is committed only after one of those.       *)
(***************************************************************************)
NoEventLost ==
    rebalances = 0 =>
        \A e \in Published(0) :
            \/ \E l \in Levels : \E k \in DOMAIN log[l] : log[l][k] = e /\ k >= committed[l]
            \/ e \in processed
            \/ e \in Published(Dlt)
            \/ SendFailed(e)

(***************************************************************************)
(* The retry topics are gone through in turn, and the DLT is earned: apart *)
(* from poison pills, which go there at once, a record in it has been in   *)
(* every retry topic; and if there was a threshold for it, there have been *)
(* at least as many faults as levels.                                      *)
(***************************************************************************)
DltIsEarned ==
    /\ \A l \in 1 .. Attempts - 1 : Published(l) \subseteq Published(l - 1) \ PoisonPills
    /\ \A e \in Published(Dlt) \ PoisonPills :
          /\ e \in Published(Attempts - 1)
          /\ HasThreshold(e) => dbFaults + kafkaFaults >= Attempts

(***************************************************************************)
(* The mark of a measurement within its threshold, once set, is never      *)
(* removed: both deletions of marks are on the alert path, so a redelivery *)
(* cannot have it handled a second time.                                   *)
(***************************************************************************)
OrdinaryStaysMarked ==
    [][\A e \in processed : ~Exceeds(e) => e \in processed']_vars

OffsetOf(e) == CHOOSE k \in DOMAIN log[0] : log[0][k] = e

(***************************************************************************)
(* MeasurementAlertEventRecipientKafka promises of the alerts of one       *)
(* warehouse and sensor that they are processed like a queue: the alert    *)
(* topic has them in the order of their measurements.                      *)
(***************************************************************************)
ProcessedLikeAQueue ==
    \A i, j \in DOMAIN sends :
        Precedes(i, j) => OffsetOf(sends[i].payload) <= OffsetOf(sends[j].payload)

\* What is left of that promise: it holds until the first fault that sends
\* a record to a retry topic and the first rebalance; a crash does no harm.
QueueUntilFirstFault ==
    (dbFaults = 0 /\ kafkaFaults = 0 /\ rebalances = 0) => ProcessedLikeAQueue

(***************************************************************************)
(* A measurement that arrived is eventually marked or in the DLT (or its   *)
(* alert failed); a poison pill or a missing threshold holds nobody up.    *)
(***************************************************************************)
EventuallySettled ==
    \A e \in Events :
        Arrived(e) ~> (e \in processed \/ e \in Published(Dlt) \/ SendFailed(e))

(***************************************************************************)
(* Without crashes and database faults, every measurement above its        *)
(* threshold is eventually notified, or in the DLT, or its alert failed    *)
(* after the producer had accepted it.                                     *)
(***************************************************************************)
EventuallyNotified ==
    \A e \in Events :
        Arrived(e) /\ Exceeds(e) ~> \/ Delivered(e) \/ e \in Published(Dlt) \/ SendFailed(e)
                                    \/ crashes > 0 \/ dbFaults > 0

(***************************************************************************)
(* README: the DLTs "receive unprocessed messages". An event whose alert   *)
(* failed is one (the code calls it UnprocessedEvent) and should end there *)
(* or be notified after all.                                               *)
(***************************************************************************)
UnprocessedReachDlt ==
    \A e \in Events : SendFailed(e) ~> (Delivered(e) \/ e \in Published(Dlt))

(***************************************************************************)
(* ThresholdMonitoringServiceTest: "Shouldn't notify when event is         *)
(* duplicated". An event whose alert the broker acknowledged is not        *)
(* notified again.                                                         *)
(***************************************************************************)
DuplicateNotNotified ==
    \A i, j \in DOMAIN sends :
        i < j /\ sends[i].payload = sends[j].payload => sends[i].phase # "acked"
=============================================================================
