\* Touches, reports of the library, calls and crashes of the fingerprint HAL.
SPECIFICATION FairSpec
CONSTANTS
  Clients = {c1, c2}
  Messages <- SomeMessages
  VendorBase = 1000
  MaxCode = 1001
  MaxTouches = 2
  MaxEvents = 2
  MaxFaults = 2
INVARIANTS
  TypeOK
  OneInstance
  OldClientIsSilent
  LockIsLeft
  RestAgrees
PROPERTIES
  UiIsFollowed
  ReportsReachTheClient
