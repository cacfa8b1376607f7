\* A removal that the power cuts short, and the firmware of before flashed back.
SPECIFICATION BootSpec
CONSTANTS
  Regions <- SomeRegions
  Sources <- SomeSources
  MaxFirmware = 2
  Versioned = {1, 2}
  MaxLosses = 2
CHECK_DEADLOCK FALSE
INVARIANTS
  ConfigsAreCopied
