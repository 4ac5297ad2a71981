SPECIFICATION FairSpec
CONSTANTS
    temperature = temperature  humidity = humidity
    temp1 = temp1  temp2 = temp2  hum1 = hum1  junkT = junkT  junkH = junkH
    Adapters = {temperature, humidity}
    Datagrams = {temp1, temp2, junkT}
    AdapterOf <- MCAdapterOf
    Sensor <- MCSensor
    Malformed = {junkT}
    Processors = 2
    SocketBuffer = 2
    MaxCrashes = 1
    MaxKafkaFaults = 1
INVARIANTS
    TypeOK
    NothingTwiceNothingLost
    QueueOnceListening
PROPERTIES
    EventuallyInTopic
