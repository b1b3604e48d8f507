SPECIFICATION FairSpec
CONSTANTS
    Requests <- MCRequests
    DigitValue <- MCDigits
    NameParts <- MCNames
    MaxTarget = 100
    HttpHold = 3
    LoopTicks = 2
    ScanEvery = 2
    MaxAttempts = 3
    MaxOutages = 1
    None = None
INVARIANTS
  LedInv
  EveryExchangeShown
  AppliedAsAsked
PROPERTIES ServesAgain
