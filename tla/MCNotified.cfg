SPECIFICATION FairSpec
CONSTANTS
    hum50 = hum50  hum51 = hum51  hum52 = hum52  other51 = other51  pill = pill
    c1 = c1  c2 = c2
    Records = {hum51, hum52}
    Consumers = {c1, c2}
    Attempts = 2
    PoisonPills = {}
    EventType <- MCType
    EventValue <- MCValue
    EventKey <- MCKey
    Types <- MCTypes
    Thresholds <- MCThresholds
    MaxCrashes = 1
    MaxRebalances = 0
    MaxDbFaults = 0
    MaxKafkaFaults = 2
INVARIANTS
    QueueUntilFirstFault
PROPERTIES
    EventuallyNotified
    EventuallySettled
