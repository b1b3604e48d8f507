SPECIFICATION Spec
CONSTANTS
    ConfigServers <- MCServers
    Leases <- MCLeases
    Samples <- MCSamples
    MaxConfig = 1
    NoGateway = NoGateway
    None = None
    MaxRounds = 2
    MaxChanges = 3
    MaxLate = 1
    c1 = c1
    g1 = g1
INVARIANTS
  TableInv
  AnswersInv
  GatewaysEntitled
PROPERTIES NoServerShutOut
