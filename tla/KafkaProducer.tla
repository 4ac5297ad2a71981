----------------------------- MODULE KafkaProducer -----------------------------
(***************************************************************************)
(* The producer behind a KafkaTemplate, as both services configure it:     *)
(* acks=all, enable.idempotence. send() hands a payload over and returns a *)
(* future; the broker appends it later; the future completes with the      *)
(* acknowledgement, or with an error that does not tell whether the broker *)
(* has the payload.                                                        *)
(*                                                                         *)
(* Modelled from how the recipients use it: a module with a producer       *)
(* instantiates this one and says which payloads share a partition.        *)
(***************************************************************************)
EXTENDS Integers, Sequences, FiniteSets

CONSTANTS
    Payloads,
    QueueOf(_)  \* the topic and message key of a payload

VARIABLE sends  \* what was handed to the producer, in order

(***************************************************************************)
(* offset: the payload's place in its partition's queue, 0 while the       *)
(* broker does not have it. phase: "inflight" until the future completes,  *)
(* then "acked" or "failed"; "handled" once the application has dealt with *)
(* the failure; "dead" when the process died before that.                  *)
(***************************************************************************)
Phase == {"inflight", "acked", "failed", "handled", "dead"}
Send == [payload : Payloads, offset : Nat, phase : Phase]

ProducerTypeOK == sends \in Seq(Send)

ProducerInit == sends = <<>>

Accept(p) == sends' = Append(sends, [payload |-> p, offset |-> 0, phase |-> "inflight"])

Written(i) == sends[i].offset > 0

Waiting(i) == sends[i].phase = "inflight" /\ ~Written(i)

Queue(i) == {j \in DOMAIN sends : QueueOf(sends[j].payload) = QueueOf(sends[i].payload)}

\* Part of a mutant: without idempotence, a retried batch is overtaken by the
\* next.
WriteUnordered(i) ==
    /\ Waiting(i)
    /\ sends' = [sends EXCEPT ![i].offset = 1 + Cardinality({j \in Queue(i) : Written(j)})]

\* The broker appends the payload. An idempotent producer keeps, in a
\* partition, the order of the sends.
Write(i) ==
    /\ Waiting(i)
    /\ \A j \in Queue(i) : j < i => ~Waiting(j)
    /\ sends' = [sends EXCEPT ![i].offset = 1 + Cardinality({j \in Queue(i) : Written(j)})]

SucceedSend(i) ==
    /\ sends[i].phase = "inflight" /\ Written(i)
    /\ sends' = [sends EXCEPT ![i].phase = "acked"]

\* The delivery timeout, or an error, with the payload written or not.
FailSend(i) ==
    /\ sends[i].phase = "inflight"
    /\ sends' = [sends EXCEPT ![i].phase = "failed"]

MarkHandled(i) ==
    /\ sends[i].phase = "failed"
    /\ sends' = [sends EXCEPT ![i].phase = "handled"]

\* The process dies with its buffer and the callbacks that have not run.
Pending(i) == sends[i].phase \in {"inflight", "failed"}

LoseProducer ==
    sends' = [i \in DOMAIN sends |-> IF Pending(i)
                                     THEN [sends[i] EXCEPT !.phase = "dead"]
                                     ELSE sends[i]]

\* i comes before j in the partition they share.
Precedes(i, j) ==
    /\ Written(i) /\ Written(j)
    /\ j \in Queue(i)
    /\ sends[i].offset < sends[j].offset

\* The topics have p: some send of it was written.
Delivered(p) == \E i \in DOMAIN sends : sends[i].payload = p /\ Written(i)
=============================================================================
