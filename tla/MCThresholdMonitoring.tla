----------------------- MODULE MCThresholdMonitoring --------------------------
(***************************************************************************)
(* Small instances of ThresholdMonitoring: one partition of the humidity   *)
(* topic. hum51 and hum52 exceed the threshold of 50, hum50 is the         *)
(* boundary value, which does not. other51 exceeds it too, and comes from  *)
(* a sensor of its own.                                                    *)
(***************************************************************************)
EXTENDS ThresholdMonitoringToAlerting, TLC

CONSTANTS
    hum50, hum51, hum52, other51,  \* events
    pill,                          \* a record that cannot be deserialized
    c1, c2                         \* threads

MCType == [e \in Events |-> "HUMIDITY"]

MCValue == [e \in Events |-> CASE e = hum50 -> 50
                               [] e = hum52 -> 52
                               [] OTHER -> 51]

MCKey == [e \in Events |-> IF e = other51 THEN "2-2" ELSE "1-1"]

MCTypes == {"TEMPERATURE", "HUMIDITY"}

\* V1__create_thresholds.sql, and the same table emptied.
MCThresholds == "HUMIDITY" :> 50 @@ "TEMPERATURE" :> 35
NoThresholds == [t \in {} |-> 0]

ConsumerSymmetry == Permutations(Consumers)
=============================================================================
