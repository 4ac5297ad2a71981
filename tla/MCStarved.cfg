SPECIFICATION FairSpec
CONSTANTS
    temperature = temperature  humidity = humidity
    temp1 = temp1  temp2 = temp2  hum1 = hum1  junkT = junkT  junkH = junkH
    Adapters = {temperature, humidity}
    Datagrams = {temp1, hum1}
    AdapterOf <- MCAdapterOf
    Sensor <- MCSensor
    Malformed = {}
    Processors = 1
    SocketBuffer = 2
    MaxCrashes = 0
    MaxKafkaFaults = 0
CHECK_DEADLOCK FALSE
PROPERTIES
    EventuallyInTopic
