\* PopupCameraService.java: unmark the LED as busy since our effect is done.
SPECIFICATION Spec
CONSTANTS
  Horizon = 14
  EventDelay = 1
  PollDelay = 1
  BusyDelay = 12
  LedDelay = 14
  CalibDelay = 14
  MotionTime = 10
  CalibTime = 10
  LastGap = 0
  Pages = {}
  UserLights = {"off"}
  LedAllowed = {TRUE}
  AlwaysOn = {FALSE}
  ThemeChanges = {FALSE}
  InitStatus = {"TAKEBACK_OK"}
  Budgets <- BurstBudgets
  Punctual = TRUE
INVARIANTS
  FreeLedHasNoEffect
