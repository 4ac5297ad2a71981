--------------------- MODULE ThresholdMonitoringToAlerting ---------------------
(***************************************************************************)
(* ThresholdMonitoring implements Alerting: where an event stands is told  *)
(* by its mark, by a thread that made the mark and has not handed the      *)
(* alert over, and else by its alert in the producer.                      *)
(***************************************************************************)
EXTENDS ThresholdMonitoring

Claimed(e) == \E c \in Consumers : HoldsMark(c, e)

\* Some alert of e is with the producer; is written, its future open; has
\* completed in the given way.
AlertSent(e) == \E i \in DOMAIN sends : sends[i].payload = e /\ Waiting(i)

AlertWritten(e) ==
    \E i \in DOMAIN sends :
        sends[i].payload = e /\ sends[i].phase = "inflight" /\ Written(i)

AlertIn(e, phase) == \E i \in DOMAIN sends : sends[i].payload = e /\ sends[i].phase = phase

StatusOf(e) ==
    IF e \notin processed THEN "open"
    ELSE IF ~Exceeds(e) THEN "dismissed"
    ELSE IF Claimed(e) THEN "claimed"
    ELSE IF AlertSent(e) THEN "sent"
    ELSE IF AlertWritten(e) THEN "written"
    ELSE IF AlertIn(e, "acked") THEN "alerted"
    ELSE IF AlertIn(e, "failed") THEN "failed"
    ELSE "abandoned"

ExceedingEvents == {e \in Events : Exceeds(e)}

StatusBar == [e \in Events |-> StatusOf(e)]

TopicBar == {<<i, sends[i].payload>> : i \in {j \in DOMAIN sends : Written(j)}}

Promise == INSTANCE Alerting WITH
    Exceeding <- ExceedingEvents,
    status <- StatusBar,
    topic <- TopicBar,
    disturbed <- (dbFaults > 0)

(***************************************************************************)
(* The service keeps Alerting's promise: through retries, redeliveries,    *)
(* rebalances, failing sends and crashes, each of its steps is one step of *)
(* one event there, or none.                                               *)
(***************************************************************************)
KeepsPromise == Promise!Spec
=============================================================================
