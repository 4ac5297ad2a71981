------------------------------ MODULE RetryTopic ------------------------------
(***************************************************************************)
(* One lane of a listener annotated with @RetryableTopic (KafkaConsumers): *)
(* a partition of the main topic together with the same partition of its   *)
(* retry topics and of its dead letter topic (DLT). The annotation asks    *)
(* for non-blocking retries: a record whose handler throws is published    *)
(* to the next topic of the lane and its offset is committed, so that the  *)
(* records behind it are not held up. All these topics have three          *)
(* partitions and a forwarded record keeps its partition number, so lanes  *)
(* are independent of each other.                                          *)
(*                                                                         *)
(* This module is the container around the handler: it delivers, forwards, *)
(* commits and redelivers. The handler itself belongs to the module that   *)
(* extends this one, which tells by "pc" where a consumer thread stands.   *)
(***************************************************************************)
EXTENDS Integers, Sequences

CONSTANTS
    Records,    \* what can be published to the lane
    Consumers,  \* listener container threads
    Attempts    \* deliveries before the DLT; @RetryableTopic's default is 3

ASSUME AttemptsAssumption == Attempts \in Nat \ {0}

\* Topic 0 is the main topic, topic l in 1..Attempts-1 is "-retry-(l-1)".
Levels == 0 .. Attempts - 1
Dlt == Attempts
Topics == 0 .. Attempts

VARIABLES
    log,        \* log[t]: the records of topic t's partition, oldest first
    pos,        \* pos[l]: index of the next record the container delivers
    committed,  \* committed[l]: index a new owner of the partition starts at
    consumer    \* consumer[c]: what thread c is doing

laneVars == <<log, pos, committed, consumer>>

Idle == [pc |-> "idle", level |-> 0, offset |-> 0, owns |-> FALSE]

\* Thread c runs the listener for the record at offset of level, or is about to
\* (pc "next"); owns tells whether its container still owns the partition.
Running(PC) == [pc : PC, level : Levels, offset : Nat \ {0}, owns : BOOLEAN]

Busy(c) == consumer[c] # Idle

RecordOf(c) == log[consumer[c].level][consumer[c].offset]

\* A partition has one owner: no second record of it is handed out while its
\* owner is in the listener.
Owned(l) == \E c \in Consumers : Busy(c) /\ consumer[c].level = l /\ consumer[c].owns

Published(t) == {log[t][i] : i \in DOMAIN log[t]}

LaneTypeOK(PC) ==
    /\ log \in [Topics -> Seq(Records)]
    /\ pos \in [Levels -> Nat \ {0}]
    /\ committed \in [Levels -> Nat \ {0}]
    /\ consumer \in [Consumers -> Running(PC) \cup {Idle}]

LaneInit ==
    /\ log = [t \in Topics |-> <<>>]
    /\ pos = [l \in Levels |-> 1]
    /\ committed = [l \in Levels |-> 1]
    /\ consumer = [c \in Consumers |-> Idle]

-----------------------------------------------------------------------------
\* A producer outside the lane publishes r to the main topic.
Publish(r) ==
    /\ log' = [log EXCEPT ![0] = Append(@, r)]
    /\ UNCHANGED <<pos, committed, consumer>>

HasNext(l) == pos[l] <= Len(log[l])

\* The container of level l hands its next record to thread c, whose
\* listener starts at pc = start.
Deliver(c, l, start) ==
    /\ ~Busy(c)
    /\ ~Owned(l)
    /\ HasNext(l)
    /\ consumer' = [consumer EXCEPT ![c] =
                       [pc |-> start, level |-> l, offset |-> pos[l], owns |-> TRUE]]
    /\ UNCHANGED <<log, pos, committed>>

\* The listener moves on without leaving the record.
Goto(c, pc) ==
    /\ consumer' = [consumer EXCEPT ![c].pc = pc]
    /\ UNCHANGED <<log, pos, committed>>

NextInBatch(c) ==
    [pc |-> "next", level |-> consumer[c].level, offset |-> consumer[c].offset + 1,
     owns |-> FALSE]

\* Thread c is done with its record. The partition's owner advances. A thread
\* that lost the partition goes on with the next record of the batch it had
\* polled, which may end at any record.
Leave(c) ==
    \/ /\ consumer[c].owns
       /\ consumer' = [consumer EXCEPT ![c] = Idle]
       /\ pos' = [pos EXCEPT ![consumer[c].level] = consumer[c].offset + 1]
    \/ /\ ~consumer[c].owns
       /\ \/ consumer' = [consumer EXCEPT ![c] = Idle]
          \/ /\ consumer[c].offset < Len(log[consumer[c].level])
             /\ consumer' = [consumer EXCEPT ![c] = NextInBatch(c)]
       /\ pos' = pos

\* The listener returned normally.
Finish(c) ==
    /\ Leave(c)
    /\ UNCHANGED <<log, committed>>

\* The listener threw and the recoverer published the record to topic t.
Forward(c, t) ==
    /\ log' = [log EXCEPT ![t] = Append(@, RecordOf(c))]
    /\ Leave(c)
    /\ UNCHANGED committed

\* The listener threw and the recoverer could not publish: the container
\* seeks back and the record is delivered again.
SeekBack(c) ==
    /\ consumer' = [consumer EXCEPT ![c] = Idle]
    /\ UNCHANGED <<log, pos, committed>>

\* The same, but the topic has the record: only the acknowledgement was lost.
ForwardUnconfirmed(c, t) ==
    /\ log' = [log EXCEPT ![t] = Append(@, RecordOf(c))]
    /\ consumer' = [consumer EXCEPT ![c] = Idle]
    /\ UNCHANGED <<pos, committed>>

\* Mutant: the offset of a record is committed while its listener runs.
CommitInHand(l) ==
    /\ Owned(l) \/ committed[l] < pos[l]
    /\ committed' = [committed EXCEPT ![l] = IF Owned(l) THEN pos[l] + 1 ELSE pos[l]]
    /\ UNCHANGED <<log, pos, consumer>>

\* The container commits what it has been through, at some time after.
CommitOffset(l) ==
    /\ committed[l] < pos[l]
    /\ committed' = [committed EXCEPT ![l] = pos[l]]
    /\ UNCHANGED <<log, pos, consumer>>

\* The group takes the partition of level l from its owner, who may be in
\* the listener and stays there; the new owner starts at the committed offset.
Reassign(l) ==
    /\ Owned(l) \/ pos[l] # committed[l]
    /\ pos' = [pos EXCEPT ![l] = committed[l]]
    /\ consumer' = [c \in Consumers |->
                       IF Busy(c) /\ consumer[c].level = l
                       THEN [consumer[c] EXCEPT !.owns = FALSE]
                       ELSE consumer[c]]
    /\ UNCHANGED <<log, committed>>

\* The process dies with its threads and starts again from the offsets.
Restart ==
    /\ consumer' = [c \in Consumers |-> Idle]
    /\ pos' = committed
    /\ UNCHANGED <<log, committed>>

\* Nothing is left to deliver or to commit.
LaneAtRest ==
    /\ \A c \in Consumers : ~Busy(c)
    /\ \A l \in Levels : pos[l] = Len(log[l]) + 1 /\ committed[l] = pos[l]
=============================================================================
