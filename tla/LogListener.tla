------------------------------ MODULE LogListener ------------------------------
(***************************************************************************)
(* KafkaConsumers.handleAlertEvent and handleMalformedEvent: listeners     *)
(* with retry topics whose handler does no more than write the record to   *)
(* the log. It cannot fail, so that the retry topics stay empty; what      *)
(* cannot be deserialized goes to the DLT. The log file survives a crash   *)
(* of the process.                                                         *)
(***************************************************************************)
EXTENDS RetryTopic

CONSTANTS
    PoisonPills,  \* records whose value cannot be deserialized
    MaxCrashes, MaxRebalances, MaxKafkaFaults  \* bounds on faults

VARIABLES
    logged,  \* the lines written, oldest first, by their record
    crashes, rebalances, kafkaFaults

listenerFaults == <<crashes, rebalances, kafkaFaults>>
vars == <<laneVars, logged, listenerFaults>>

PC == {"next", "log", "fatal"}

TypeOK ==
    /\ LaneTypeOK(PC)
    /\ logged \in Seq(Records)

Init ==
    /\ LaneInit
    /\ logged = <<>>
    /\ crashes = 0 /\ rebalances = 0 /\ kafkaFaults = 0

\* A record is published, once, to the listener's topic.
Arrive(r) ==
    /\ r \notin Published(0)
    /\ Publish(r)
    /\ UNCHANGED <<logged, listenerFaults>>

FirstStep(r) == IF r \in PoisonPills THEN "fatal" ELSE "log"

Poll(c, l) ==
    /\ HasNext(l)
    /\ Deliver(c, l, FirstStep(log[l][pos[l]]))
    /\ UNCHANGED <<logged, listenerFaults>>

\* A thread that lost its partition takes the next record of its batch.
Resume(c) ==
    /\ consumer[c].pc = "next"
    /\ Goto(c, FirstStep(RecordOf(c)))
    /\ UNCHANGED <<logged, listenerFaults>>

\* Mutant: the handler is executed on another thread, and the record is done
\* before the line is out.
LogLater(c) ==
    /\ consumer[c].pc = "log"
    /\ \/ logged' = Append(logged, RecordOf(c))
       \/ logged' = logged
    /\ Finish(c)
    /\ UNCHANGED listenerFaults

\* Mutant: the handler may throw, as one would that looks into a record without
\* a value, and the container forwards the record.
LogOrThrow(c) ==
    /\ consumer[c].pc = "log"
    /\ \/ logged' = Append(logged, RecordOf(c)) /\ Finish(c)
       \/ logged' = logged /\ Forward(c, consumer[c].level + 1)
    /\ UNCHANGED listenerFaults

\* The handler: log.warn.
Log(c) ==
    /\ consumer[c].pc = "log"
    /\ logged' = Append(logged, RecordOf(c))
    /\ Finish(c)
    /\ UNCHANGED listenerFaults

\* The record could not be deserialized: the container publishes it to the DLT.
Recover(c) ==
    /\ consumer[c].pc = "fatal"
    /\ Forward(c, Dlt)
    /\ UNCHANGED <<logged, listenerFaults>>

RecoverFails(c) ==
    /\ consumer[c].pc = "fatal"
    /\ kafkaFaults < MaxKafkaFaults
    /\ kafkaFaults' = kafkaFaults + 1
    /\ SeekBack(c) \/ ForwardUnconfirmed(c, Dlt)
    /\ UNCHANGED <<logged, crashes, rebalances>>

Commit(l) ==
    /\ CommitOffset(l)
    /\ UNCHANGED <<logged, listenerFaults>>

Rebalance(l) ==
    /\ rebalances < MaxRebalances
    /\ rebalances' = rebalances + 1
    /\ Reassign(l)
    /\ UNCHANGED <<logged, crashes, kafkaFaults>>

Crash ==
    /\ crashes < MaxCrashes
    /\ crashes' = crashes + 1
    /\ Restart
    /\ UNCHANGED <<logged, rebalances, kafkaFaults>>

ListenerStep(c) == Resume(c) \/ Log(c) \/ Recover(c) \/ RecoverFails(c)

Next ==
    \/ \E r \in Records : Arrive(r)
    \/ \E c \in Consumers, l \in Levels : Poll(c, l)
    \/ \E c \in Consumers : ListenerStep(c)
    \/ \E l \in Levels : Commit(l) \/ Rebalance(l)
    \/ Crash

Spec == Init /\ [][Next]_vars

-----------------------------------------------------------------------------
\* The line of the record at offset i is among the first n lines.
LoggedBy(i, n) == \E m \in DOMAIN logged : m <= n /\ logged[m] = log[0][i]

(***************************************************************************)
(* No alert is skipped: what the container has gone past, or committed, is *)
(* in the log, or in the DLT if it could not be read, through crashes,     *)
(* rebalances and redeliveries by a thread that lost its partition.        *)
(***************************************************************************)
NothingSkipped ==
    \A i \in DOMAIN log[0] :
        i < pos[0] \/ i < committed[0] =>
            \/ LoggedBy(i, Len(logged))
            \/ log[0][i] \in Published(Dlt)

(***************************************************************************)
(* The alerts of a partition are first logged in their order. A line may   *)
(* come again, late and out of turn, from a redelivery or from a thread    *)
(* that lost its partition; it never runs ahead of an earlier alert.       *)
(***************************************************************************)
FirstLinesInOrder ==
    \A n \in DOMAIN logged : \A j \in DOMAIN log[0] :
        log[0][j] = logged[n] =>
            \A i \in 1 .. j - 1 : LoggedBy(i, n) \/ log[0][i] \in PoisonPills
=============================================================================
