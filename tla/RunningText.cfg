\* strings.xml: the running text after the calibration has ended.
SPECIFICATION Spec
CONSTANTS
  Horizon = 14
  EventDelay = 1
  PollDelay = 1
  BusyDelay = 12
  LedDelay = 14
  CalibDelay = 14
  MotionTime = 10
  CalibTime = 10
  LastGap = 0
  Pages = {}
  UserLights = {"off"}
  LedAllowed = {FALSE}
  AlwaysOn = {FALSE}
  ThemeChanges = {FALSE}
  InitStatus = {"REQUEST_CALIB"}
  Budgets <- CalibrationBudgets
  Punctual = TRUE
PROPERTIES
  RunningTextWhileRunning
