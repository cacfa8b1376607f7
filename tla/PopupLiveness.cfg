\* Bursts of camera reports with light effects, the last report after a pause;
\* reports further apart than the busy window; calibrations and a dead HAL.
\* One tick is 100 ms.
SPECIFICATION FairSpec
CONSTANTS
  Horizon = 14
  EventDelay = 1
  PollDelay = 1
  BusyDelay = 12
  LedDelay = 14
  CalibDelay = 14
  MotionTime = 10
  CalibTime = 10
  LastGap = 24
  Pages = {p1, p2}
  UserLights = {"off"}
  LedAllowed = {FALSE, TRUE}
  AlwaysOn = {FALSE}
  ThemeChanges = {FALSE}
  InitStatus = {"TAKEBACK_OK"}
  Budgets <- LivenessBudgets
  Punctual = TRUE
PROPERTIES
  EffectEnds
  LastReportObeyed
  ObeyedInTime
  BusyEnds
  RequestsRun
  CalibrationEnds
