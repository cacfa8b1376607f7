\* PopupCameraService.java: restore default breath parameters.
SPECIFICATION Spec
CONSTANTS
  MaxLed = 255
  MaxPending = 2
  LightStates <- SomeStates
INVARIANT
  ParametersRestored
