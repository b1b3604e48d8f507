SPECIFICATION TelemetrySpec
CONSTANTS
    Devices = {dev1}
    NoDevice = NoDevice
    Device = dev1
    Clients = {c1}
    Packets <- MCPackets
    SeqSpace = 8
    FirstSeq = 7
    FirstUp = 3
    Retention = 0
    Torn = Torn
    Stub = Stub
    NoPacket = NoPacket
    MaxTime = 0
    MaxReceived = 3
    MaxRecords = 2
    MaxFaults = 0
    MaxUp = 6
    MaxEvents = 2
    MaxSends = 3
    MaxInFlight = 2
    dev1 = dev1
    c1 = c1
INVARIANTS
  CountsInv
  HistoryInSendingOrder
  ClearReachesServer
