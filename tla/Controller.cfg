SPECIFICATION FairSpec
CONSTANTS
  Temps <- MCTemps
  Targets <- MCTargets
  HalfBand = 5
  Tolerance = 1
  WindowSteps = 3
  SensorCount = 2
  ControlProbe = 5
  NoReading = NoReading
INVARIANTS
  LoopInv
  RelaysExclusive
  RelayJustified
  NoIntegralCarryOver
PROPERTIES
  NoReversalInDeadband StopReleasesRelays
