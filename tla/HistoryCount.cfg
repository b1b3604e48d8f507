SPECIFICATION Spec
CONSTANTS
  Sectors = 3
  PerSector = 2
  MaxSeq = 10
INVARIANTS
  CountIsExact
