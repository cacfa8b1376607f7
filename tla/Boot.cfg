SPECIFICATION BootSpec
CONSTANTS
  Regions <- SomeRegions
  Sources <- SomeSources
  MaxFirmware = 3
  Versioned = {1, 2}
  MaxLosses = 3
CHECK_DEADLOCK FALSE
INVARIANTS
  BootTypeOK
  NamesAgree
  NfcNeedsRaphael
  MarkVouches
  FlagVouches
PROPERTIES
  NfcOnRaphael
  CopyCompletes
