SPECIFICATION BootSpec
CONSTANTS
  Regions <- SomeRegions
  Sources <- SomeSources
  MaxFirmware = 1
  Versioned = {1}
  MaxLosses = 1
CHECK_DEADLOCK FALSE
INVARIANTS
  CompletedIsComplete
