----------------------------- MODULE MCUdpGateway -----------------------------
(***************************************************************************)
(* Small instances of UdpGateway: both adapters, two readings of one       *)
(* temperature sensor, one of a humidity sensor, and a malformed datagram  *)
(* at each port.                                                           *)
(***************************************************************************)
EXTENDS UdpGateway, TLC

CONSTANTS
    temperature, humidity,            \* adapters
    temp1, temp2, hum1, junkT, junkH  \* datagrams

MCAdapterOf == [d \in Datagrams |-> IF d \in {hum1, junkH} THEN humidity ELSE temperature]

\* A malformed datagram has no sensor; one that handle() never looks at.
MCSensor == [d \in Datagrams |-> CASE d \in {temp1, temp2} -> "t1"
                                   [] d = hum1 -> "h1"
                                   [] OTHER -> "none"]
=============================================================================
