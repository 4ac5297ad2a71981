---------------------- MODULE MCMeasurementEventMapper ------------------------
(***************************************************************************)
(* A small instance of MeasurementEventMapper. The word 2147483648 is no    *)
(* int.                                                                     *)
(***************************************************************************)
EXTENDS MeasurementEventMapper, TLC

MCWords == {"sensor_id", "value", "t1", "30", "2147483648"}

MCIntOf == "30" :> 30

\* echo "sensor_id=t1;value=30" | nc -u, as README.md has it; the blank is the
\* line feed.
MCWellFormed == <<"sensor_id", "=", "t1", ";", "value", "=", "30", " ">>
=============================================================================
