\* Reports and questions; jams, dead proxies, a crash, late threads; light
\* effects; calibrations.  Scaled delays.
SPECIFICATION Spec
CONSTANTS
  Horizon = 7
  EventDelay = 2
  PollDelay = 2
  BusyDelay = 4
  LedDelay = 5
  CalibDelay = 7
  MotionTime = 3
  CalibTime = 5
  LastGap = 0
  Pages = {p1}
  UserLights = {"off", "blink"}
  LedAllowed = {TRUE}
  AlwaysOn = {FALSE, TRUE}
  ThemeChanges = {FALSE, TRUE}
  InitStatus = {"TAKEBACK_OK", "POPUP_OK", "TAKEBACK_JAMMED", "REQUEST_CALIB"}
  Budgets <- SafetyBudgets
  Punctual = FALSE
INVARIANTS
  TypeOK
  LatestEventWins
  QuestionIsFresh
  BusyBacked
  ProtectedWhileUp
  DialogBacked
  LedSound
  CalibrationBacked
PROPERTIES
  OnlyFallsReverse
  MotorIsControlled
