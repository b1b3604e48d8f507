SPECIFICATION MCSpec
CONSTANTS
    Inputs <- MCInputs
    GapThreshold = 5
    MaxRoms = 6
    HostLen = 3
    MinPoll = 60
    MaxPoll = 1800
    Ramp = 600
    Unknown <- MCUnknown
    NameInputs <- MCNameInputs
INVARIANTS
  ConversionsInv
  DownsamplingInv
  SearchFindsAll
  NameWalksAgree
