SPECIFICATION Spec
CONSTANTS
    Devices = {dev1, dev2}
    NoDevice = NoDevice
    Clients = {c1}
    Packets <- MCPackets
    SeqSpace = 8
    Retention = 0
    Torn = Torn
    Stub = Stub
    NoPacket = NoPacket
    MaxTime = 1
    MaxReceived = 2
    MaxRecords = 3
    MaxFaults = 1
    dev1 = dev1
    dev2 = dev2
    c1 = c1
    c2 = c2
INVARIANT ClearedStaysCleared
