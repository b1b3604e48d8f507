SPECIFICATION SettingsSpec
CONSTANTS
  Targets <- MCTargets
  DefaultTarget = 2111
  Absent = Absent
INVARIANTS
  FlagsInv
  SavedSettingsReturn
