SPECIFICATION SystemSpec
CONSTANTS
    temperature = temperature  temp1 = temp1  temp1again = temp1again
    m1 = m1  c1 = c1  c2 = c2
    Adapters = {temperature}
    Datagrams = {temp1, temp1again}
    AdapterOf <- MCAdapterOf
    Sensor <- MCSensor
    Malformed = {}
    Processors = 1
    SocketBuffer = 2
    MaxGatewayCrashes = 1
    Type = temperature
    Value <- MCValue
    Thresholds <- MCThresholds
    MeasurementThreads = {m1}
    Records <- MCRecords
    Consumers = {c1, c2}
    Attempts = 2
    PoisonPills <- MCPoisonPills
    MaxCrashes = 1
    MaxRebalances = 1
    MaxKafkaFaults = 1
SYMMETRY ConsumerSymmetry
INVARIANTS
    NothingSkipped
    FirstLinesInOrder
    NoMoreAlertsThanDatagrams
    AlarmInReadingOrder
    NoAlarmMissed
