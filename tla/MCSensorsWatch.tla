----------------------------- MODULE MCSensorsWatch -----------------------------
(***************************************************************************)
(* A small instance of SensorsWatch: README's temperature sensor sends a   *)
(* reading above the threshold of 35, twice or duplicated by the network.  *)
(* If the alert of temp1 is the first, it cannot be deserialized.          *)
(***************************************************************************)
EXTENDS SensorsWatch, TLC

CONSTANTS
    temperature,        \* adapter
    temp1, temp1again,  \* datagrams
    m1, c1, c2          \* threads

MCAdapterOf == [d \in Datagrams |-> temperature]

MCSensor == [d \in Datagrams |-> "temp1"]

MCValue == [d \in Datagrams |-> 36]

MCThresholds == temperature :> 35

MCRecords == (1 .. 2) \X Datagrams

MCPoisonPills == {<<1, temp1>>}

ConsumerSymmetry == Permutations(Consumers)
=============================================================================
