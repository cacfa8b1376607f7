\* Lights set and effects played, file by file.
SPECIFICATION Spec
CONSTANTS
  MaxLed = 255
  MaxPending = 2
  LightStates <- SomeStates
INVARIANTS
  TypeOK
  LightIsBack
  EffectIsOver
