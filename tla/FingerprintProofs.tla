-------------------------- MODULE FingerprintProofs --------------------------
(***************************************************************************)
(* Proofs about Fingerprint, for any clients, reports and bounds.          *)
(***************************************************************************)
EXTENDS Fingerprint, TLAPS

(***************************************************************************)
(* The types, in four parts that the actions change apart.                 *)
(***************************************************************************)
ProcessTypes ==
  /\ main \in {"dead", "new", "opened", "notified", "built", "started", "serving", "inVendor"}
  /\ sInstance \in BOOLEAN /\ instances \in Nat /\ mDevice \in BOOLEAN
  /\ listening \in BOOLEAN /\ vendorProp \in {"goodix_fod", "none"}
  /\ faults \in 0..MaxFaults

ClientTypes ==
  /\ mClientCallback \in Clients \union {NoClient} /\ mutex \in Threads \union {"free"}
  /\ notifying \in [Threads -> Notice]
  /\ heard = NoEvent \/ heard \in [to : Clients, told : TellResult]
  /\ events \in 0..MaxEvents

FodTypes ==
  /\ poll \in {"none", "opening", "gone", "polling", "command", "off"}
  /\ fingerDown \in BOOLEAN /\ nit \in {"FOD", "NONE"} /\ nitByPoll \in BOOLEAN
  /\ fodUi \in BOOLEAN /\ uiEvent \in BOOLEAN /\ fodStatus \in {"ON", "OFF"}
  /\ lifted \in BOOLEAN

TouchTypes ==
  finger \in {"up", "down"} /\ downs \in 0..touches /\ touches \in 0..MaxTouches

LEMMA TypesTogether ==
  TypeOK <=> ProcessTypes /\ ClientTypes /\ FodTypes /\ TouchTypes
BY DEF TypeOK, ProcessTypes, ClientTypes, FodTypes, TouchTypes

(***************************************************************************)
(* Facts about the records of a thread in notify.                          *)
(***************************************************************************)
LEMMA NoticeFields ==
  ASSUME NEW r \in Notice
  PROVE  /\ r.at \in {"idle", "begun", "telling"}
         /\ r.at # "idle" => r.msg \in Messages
         /\ r.at = "telling" => r.to \in Clients
BY DEF Notice, NotInNotify

LEMMA NoticeMade ==
  /\ NotInNotify \in Notice /\ NotInNotify.at = "idle"
  /\ \A m \in Messages : [at |-> "begun", msg |-> m] \in Notice
  /\ \A m \in Messages, c \in Clients : [at |-> "telling", msg |-> m, to |-> c] \in Notice
BY DEF Notice, NotInNotify

LEMMA TranslatedType ==
  ASSUME NEW msg \in Messages
  PROVE  Translated(msg) \in TellResult
<1>1. msg.type \in {"error", "acquired", "other"} /\ msg.code \in 0..MaxCode
  BY CodesAssumption
<1>2. \A name \in Results, v \in 0..(MaxCode - VendorBase) : Told(name, v) \in TellResult
  BY DEF Told, TellResult
<1>3. 0 \in 0..(MaxCode - VendorBase)
  BY CodesAssumption
<1>4. msg.code >= VendorBase => msg.code - VendorBase \in 0..(MaxCode - VendorBase)
  BY <1>1, CodesAssumption
<1>5. /\ \A k \in 1..7 : ErrorNames[k] \in Results
      /\ "ERROR_VENDOR" \in Results /\ "relayed" \in Results
      /\ \A k \in 0..5 : AcquiredNames[k] \in Results
  BY DEF Results
<1>6. "ERROR_UNABLE_TO_PROCESS" = ErrorNames[2]
  BY DEF ErrorNames
<1>7. AcquiredNames[0] = "ACQUIRED_GOOD" /\ AcquiredNames[2] = "ACQUIRED_INSUFFICIENT"
  BY DEF AcquiredNames
<1>8. VendorErrorFilter(msg.code) \in TellResult
  <2>1. CASE msg.code \in 1..7
    BY <2>1, <1>2, <1>3, <1>5, CodesAssumption DEF VendorErrorFilter
  <2>2. CASE msg.code >= VendorBase
    BY <2>2, <1>1, <1>2, <1>4, <1>5, CodesAssumption DEF VendorErrorFilter
  <2>3. CASE msg.code \notin 1..7 /\ ~(msg.code >= VendorBase)
    BY <2>3, <1>2, <1>3, <1>5, <1>6 DEF VendorErrorFilter
  <2>. QED
    BY <2>1, <2>2, <2>3
<1>9. VendorAcquiredFilter(msg.code) \in TellResult
  <2>1. CASE msg.code \in 0..5
    BY <2>1, <1>2, <1>3, <1>5, CodesAssumption DEF VendorAcquiredFilter
  <2>2. CASE msg.code >= VendorBase
    <3>1. VendorAcquiredFilter(msg.code) = Told("ACQUIRED_GOOD", msg.code - VendorBase)
      BY <2>2, <1>1, CodesAssumption DEF VendorAcquiredFilter
    <3>. QED
      BY <2>2, <3>1, <1>2, <1>4, <1>5, <1>7
  <2>3. CASE msg.code \notin 0..5 /\ ~(msg.code >= VendorBase)
    <3>1. VendorAcquiredFilter(msg.code) = Told("ACQUIRED_INSUFFICIENT", 0)
      BY <2>3 DEF VendorAcquiredFilter
    <3>. QED
      BY <3>1, <1>2, <1>3, <1>5, <1>7
  <2>. QED
    BY <2>1, <2>2, <2>3
<1>10. Told("relayed", 0) \in TellResult
  BY <1>2, <1>3, <1>5
<1>11. CASE msg.type = "error"
  BY <1>8, <1>11 DEF Translated
<1>12. CASE msg.type = "acquired"
  BY <1>9, <1>12 DEF Translated
<1>13. CASE msg.type = "other"
  BY <1>10, <1>13 DEF Translated
<1>. QED
  BY <1>1, <1>11, <1>12, <1>13

(***************************************************************************)
(* Every action keeps the types: the parts that it leaves alone, and the   *)
(* others, on which it is looked at.                                       *)
(***************************************************************************)
Types == ProcessTypes /\ ClientTypes /\ FodTypes /\ TouchTypes

LEMMA KeptTypes ==
  /\ ProcessTypes /\ UNCHANGED <<main, instanceVars, faults>> => ProcessTypes'
  /\ ClientTypes /\ UNCHANGED clientVars => ClientTypes'
  /\ FodTypes /\ UNCHANGED fodVars => FodTypes'
  /\ TouchTypes /\ UNCHANGED touchVars => TouchTypes'
BY DEF ProcessTypes, ClientTypes, FodTypes, TouchTypes, instanceVars, clientVars, fodVars,
       touchVars

LEMMA FailsType ==
  ASSUME faults \in 0..MaxFaults, Fails
  PROVE  faults' \in 0..MaxFaults
BY BoundsAssumption DEF Fails

LEMMA EndKeepsTypes ==
  ASSUME Types, ProcessEnds, faults' \in 0..MaxFaults
  PROVE  Types'
<1>1. ProcessTypes'
  BY DEF Types, ProcessTypes, ProcessEnds
<1>2. ClientTypes'
  BY NoticeMade DEF Types, ClientTypes, ProcessEnds
<1>3. FodTypes'
  BY DEF Types, FodTypes, ProcessEnds
<1>4. TouchTypes'
  BY DEF Types, TouchTypes, ProcessEnds
<1>. QED
  BY <1>1, <1>2, <1>3, <1>4 DEF Types

LEMMA StartTypes ==
  ASSUME Types, Start
  PROVE  Types'
<1>1. ProcessTypes'
  BY DEF Types, ProcessTypes, Start, instanceVars
<1>. QED
  BY <1>1, KeptTypes DEF Types, Start, instanceVars, clientVars, fodVars, touchVars

LEMMA OpenModuleTypes ==
  ASSUME Types, OpenModule
  PROVE  Types'
<1>1. faults' \in 0..MaxFaults
  BY FailsType DEF Types, ProcessTypes, OpenModule
<1>2. ProcessTypes'
  BY <1>1 DEF Types, ProcessTypes, OpenModule, instanceVars
<1>. QED
  BY <1>2, KeptTypes DEF Types, OpenModule, instanceVars, clientVars, fodVars, touchVars

LEMMA SetVendorNotifyTypes ==
  ASSUME Types, SetVendorNotify
  PROVE  Types'
<1>1. faults' \in 0..MaxFaults
  BY FailsType DEF Types, ProcessTypes, SetVendorNotify
<1>2. ProcessTypes'
  BY <1>1 DEF Types, ProcessTypes, SetVendorNotify, instanceVars
<1>. QED
  BY <1>2, KeptTypes DEF Types, SetVendorNotify, instanceVars, clientVars, fodVars, touchVars

LEMMA KeepDeviceTypes ==
  ASSUME Types, KeepDevice
  PROVE  Types'
<1>1. ProcessTypes'
  BY DEF Types, ProcessTypes, KeepDevice, instanceVars
<1>. QED
  BY <1>1, KeptTypes DEF Types, KeepDevice, instanceVars, clientVars, fodVars, touchVars

LEMMA StartPollingTypes ==
  ASSUME Types, StartPolling
  PROVE  Types'
<1>1. ProcessTypes'
  BY DEF Types, ProcessTypes, StartPolling, instanceVars
<1>2. FodTypes'
  BY DEF Types, FodTypes, StartPolling, fodVars
<1>. QED
  BY <1>1, <1>2, KeptTypes DEF Types, StartPolling, instanceVars, clientVars, fodVars, touchVars

LEMMA RegisterServiceTypes ==
  ASSUME Types, RegisterService
  PROVE  Types'
<1>1. faults' \in 0..MaxFaults
  BY FailsType DEF Types, ProcessTypes, RegisterService
<1>2. CASE ProcessEnds
  BY <1>1, <1>2, EndKeepsTypes
<1>3. CASE ~ProcessEnds
  <2>1. ProcessTypes'
    BY <1>1, <1>3 DEF Types, ProcessTypes, RegisterService, instanceVars
  <2>. QED
    BY <2>1, <1>3, KeptTypes DEF Types, RegisterService, instanceVars, clientVars, fodVars, touchVars
<1>. QED
  BY <1>2, <1>3

LEMMA VendorReturnsTypes ==
  ASSUME Types, VendorReturns
  PROVE  Types'
<1>1. ProcessTypes'
  BY DEF Types, ProcessTypes, VendorReturns, instanceVars
<1>. QED
  BY <1>1, KeptTypes DEF Types, VendorReturns, instanceVars, clientVars, fodVars, touchVars

LEMMA OnFingerDownTypes ==
  ASSUME Types, OnFingerDown
  PROVE  Types'
<1>1. FodTypes'
  BY BoundsAssumption DEF Types, FodTypes, OnFingerDown, fodVars
<1>2. TouchTypes'
  BY BoundsAssumption DEF Types, TouchTypes, OnFingerDown, touchVars
<1>. QED
  BY <1>1, <1>2, KeptTypes DEF Types, OnFingerDown, instanceVars, clientVars, fodVars, touchVars

LEMMA OpenUiTypes ==
  ASSUME Types, OpenUi
  PROVE  Types'
<1>1. faults' \in 0..MaxFaults
  BY FailsType DEF Types, ProcessTypes, OpenUi
<1>2. ProcessTypes'
  BY <1>1 DEF Types, ProcessTypes, OpenUi, instanceVars
<1>3. FodTypes'
  BY <1>1 DEF Types, FodTypes, OpenUi, fodVars
<1>. QED
  BY <1>2, <1>3, KeptTypes DEF Types, OpenUi, instanceVars, clientVars, fodVars, touchVars

LEMMA ReadUiTypes ==
  ASSUME Types, ReadUi
  PROVE  Types'
<1>1. faults' \in 0..MaxFaults
  BY FailsType DEF Types, ProcessTypes, ReadUi
<1>2. ProcessTypes'
  BY <1>1 DEF Types, ProcessTypes, ReadUi, instanceVars
<1>3. FodTypes'
  BY <1>1 DEF Types, FodTypes, ReadUi, fodVars
<1>. QED
  BY <1>2, <1>3, KeptTypes DEF Types, ReadUi, instanceVars, clientVars, fodVars, touchVars

LEMMA CommandNitTypes ==
  ASSUME Types, CommandNit
  PROVE  Types'
<1>1. faults' \in 0..MaxFaults
  BY DEF Types, ProcessTypes, CommandNit
<1>2. CASE ProcessEnds
  BY <1>1, <1>2, EndKeepsTypes
<1>3. CASE ~ProcessEnds
  <2>1. ProcessTypes'
    BY <1>1, <1>3 DEF Types, ProcessTypes, CommandNit, instanceVars
  <2>2. FodTypes'
    BY <1>1, <1>3 DEF Types, FodTypes, CommandNit, fodVars
  <2>. QED
    BY <2>1, <2>2, <1>3, KeptTypes DEF Types, CommandNit, instanceVars, clientVars, fodVars, touchVars
<1>. QED
  BY <1>2, <1>3

LEMMA FodOffTypes ==
  ASSUME Types, FodOff
  PROVE  Types'
<1>1. FodTypes'
  BY DEF Types, FodTypes, FodOff, fodVars
<1>. QED
  BY <1>1, KeptTypes DEF Types, FodOff, instanceVars, clientVars, fodVars, touchVars

LEMMA CallVendorTypes ==
  ASSUME Types, CallVendor
  PROVE  Types'
<1>1. faults' \in 0..MaxFaults
  BY DEF Types, ProcessTypes, CallVendor
<1>2. CASE ProcessEnds
  BY <1>1, <1>2, EndKeepsTypes
<1>3. CASE ~ProcessEnds
  <2>1. ProcessTypes'
    BY <1>1, <1>3 DEF Types, ProcessTypes, CallVendor, instanceVars
  <2>. QED
    BY <2>1, <1>3, KeptTypes DEF Types, CallVendor, instanceVars, clientVars, fodVars, touchVars
<1>. QED
  BY <1>2, <1>3

LEMMA TouchBeginsTypes ==
  ASSUME Types, TouchBegins
  PROVE  Types'
<1>1. TouchTypes'
  BY BoundsAssumption DEF Types, TouchTypes, TouchBegins, touchVars
<1>. QED
  BY <1>1, KeptTypes DEF Types, TouchBegins, instanceVars, clientVars, fodVars, touchVars

LEMMA TouchEndsTypes ==
  ASSUME Types, TouchEnds
  PROVE  Types'
<1>1. TouchTypes'
  BY DEF Types, TouchTypes, TouchEnds, touchVars
<1>. QED
  BY <1>1, KeptTypes DEF Types, TouchEnds, instanceVars, clientVars, fodVars, touchVars

LEMMA UiSwitchedTypes ==
  ASSUME Types, UiSwitched
  PROVE  Types'
<1>1. FodTypes'
  BY DEF Types, FodTypes, UiSwitched, fodVars
<1>. QED
  BY <1>1, KeptTypes DEF Types, UiSwitched, instanceVars, clientVars, fodVars, touchVars

LEMMA CrashTypes ==
  ASSUME Types, Crash
  PROVE  Types'
<1>1. faults' \in 0..MaxFaults
  BY FailsType DEF Types, ProcessTypes, Crash
<1>. QED
  BY <1>1, EndKeepsTypes DEF Crash

LEMMA SetNotifyTypes ==
  ASSUME NEW c \in Clients \union {NoClient}, Types, SetNotify(c)
  PROVE  Types'
<1>1. ClientTypes'
  BY DEF Types, ClientTypes, SetNotify, clientVars
<1>. QED
  BY <1>1, KeptTypes DEF Types, SetNotify, instanceVars, clientVars, fodVars, touchVars

LEMMA ExtCmdTypes ==
  ASSUME NEW param \in {"FOD", "NONE"}, Types, ExtCmd(param)
  PROVE  Types'
<1>1. faults' \in 0..MaxFaults
  BY DEF Types, ProcessTypes, ExtCmd
<1>2. CASE ProcessEnds
  BY <1>1, <1>2, EndKeepsTypes
<1>3. CASE ~ProcessEnds
  <2>1. FodTypes'
    BY <1>1, <1>3 DEF Types, FodTypes, ExtCmd, fodVars
  <2>. QED
    BY <2>1, <1>3, KeptTypes DEF Types, ExtCmd, instanceVars, clientVars, fodVars, touchVars
<1>. QED
  BY <1>2, <1>3

LEMMA NotifyBeginsTypes ==
  ASSUME NEW t \in Threads, NEW msg \in Messages, Types, NotifyBegins(t, msg)
  PROVE  Types'
<1>1. events' \in 0..MaxEvents /\ instances' \in Nat
  BY BoundsAssumption DEF Types, ClientTypes, ProcessTypes, NotifyBegins
<1>2. notifying' \in [Threads -> Notice]
  BY NoticeMade DEF Types, ClientTypes, NotifyBegins
<1>3. ProcessTypes'
  BY <1>1, <1>2 DEF Types, ProcessTypes, NotifyBegins, instanceVars
<1>4. ClientTypes'
  BY <1>1, <1>2 DEF Types, ClientTypes, NotifyBegins, clientVars
<1>. QED
  BY <1>3, <1>4, KeptTypes DEF Types, NotifyBegins, instanceVars, clientVars, fodVars, touchVars

LEMMA NotifyLocksTypes ==
  ASSUME NEW t \in Threads, Types, NotifyLocks(t)
  PROVE  Types'
<1>1. notifying[t].msg \in Messages
  BY NoticeFields DEF Types, ClientTypes, NotifyLocks
<1>2. notifying' \in [Threads -> Notice]
  BY <1>1, NoticeMade DEF Types, ClientTypes, NotifyLocks
<1>3. ClientTypes'
  BY <1>2 DEF Types, ClientTypes, NotifyLocks, clientVars
<1>. QED
  BY <1>3, KeptTypes DEF Types, NotifyLocks, instanceVars, clientVars, fodVars, touchVars

LEMMA NotifyTellsTypes ==
  ASSUME NEW t \in Threads, Types, NotifyTells(t)
  PROVE  Types'
<1>1. notifying[t].msg \in Messages /\ notifying[t].to \in Clients
  BY NoticeFields DEF Types, ClientTypes, NotifyTells
<1>2. heard' \in [to : Clients, told : TellResult]
  BY <1>1, TranslatedType DEF Types, ClientTypes, NotifyTells
<1>3. notifying' \in [Threads -> Notice]
  BY NoticeMade DEF Types, ClientTypes, NotifyTells
<1>4. ClientTypes'
  BY <1>2, <1>3 DEF Types, ClientTypes, NotifyTells, clientVars
<1>. QED
  BY <1>4, KeptTypes DEF Types, NotifyTells, instanceVars, clientVars, fodVars, touchVars

LEMMA NextKeepsTypes ==
  ASSUME Types, [Next]_vars
  PROVE  Types'
<1>1. CASE UNCHANGED vars
  BY <1>1, KeptTypes DEF Types, vars
<1>2. CASE MainThread
  BY <1>2, StartTypes, OpenModuleTypes, SetVendorNotifyTypes, KeepDeviceTypes,
     StartPollingTypes, RegisterServiceTypes, VendorReturnsTypes, OnFingerDownTypes
     DEF MainThread
<1>3. CASE PollThread
  BY <1>3, OpenUiTypes, ReadUiTypes, CommandNitTypes, FodOffTypes DEF PollThread
<1>4. CASE Framework
  BY <1>4, SetNotifyTypes, CallVendorTypes, ExtCmdTypes, TouchBeginsTypes, TouchEndsTypes
     DEF Framework
<1>5. CASE UiSwitched \/ Crash
  BY <1>5, UiSwitchedTypes, CrashTypes
<1>6. CASE \E t \in Threads :
             NotifyLocks(t) \/ NotifyTells(t) \/ \E msg \in Messages : NotifyBegins(t, msg)
  BY <1>6, NotifyLocksTypes, NotifyTellsTypes, NotifyBeginsTypes
<1>. QED
  BY <1>1, <1>2, <1>3, <1>4, <1>5, <1>6 DEF Next

(* Every reachable state is typed: the codes of the library reach the      *)
(* client without their base, and no more touches wait than were sent      *)
(* (BiometricsFingerprint).                                                *)
THEOREM TypeCorrect == Spec => []TypeOK
<1>1. Init => Types
  <2>1. Init => ProcessTypes
    <3>1. 0 \in Nat /\ 0 \in 0..MaxFaults
      BY BoundsAssumption
    <3>. QED
      BY <3>1, Zenon DEF Init, ProcessTypes
  <2>2. Init => ClientTypes
    BY NoticeMade, BoundsAssumption DEF Init, ClientTypes
  <2>3. Init => FodTypes
    BY DEF Init, FodTypes
  <2>4. Init => TouchTypes
    BY BoundsAssumption DEF Init, TouchTypes
  <2>. QED
    BY <2>1, <2>2, <2>3, <2>4 DEF Types
<1>2. Types /\ [Next]_vars => Types'
  BY NextKeepsTypes
<1>3. Types => TypeOK
  BY TypesTogether DEF Types
<1>. QED
  BY <1>1, <1>2, <1>3, PTL DEF Spec

(***************************************************************************)
(* One service.  A library that has been given notify speaks to a process  *)
(* that has published its instance: that is why the constructor does so    *)
(* before openHal.                                                         *)
(***************************************************************************)
InstanceInv ==
  IF main = "dead" THEN instances = 0 /\ ~listening ELSE instances = 1 /\ sInstance

LEMMA InstanceStep ==
  ASSUME InstanceInv, [Next]_vars
  PROVE  InstanceInv'
<1>. USE DEF InstanceInv, instanceVars
<1>1. CASE UNCHANGED vars
  BY <1>1 DEF vars
<1>2. CASE ProcessEnds
  BY <1>2 DEF ProcessEnds
<1>3. CASE MainThread /\ ~ProcessEnds
  BY <1>3 DEF MainThread, Start, OpenModule, SetVendorNotify, KeepDevice, StartPolling,
       RegisterService, VendorReturns, OnFingerDown
<1>4. CASE PollThread /\ ~ProcessEnds
  BY <1>4 DEF PollThread, OpenUi, ReadUi, CommandNit, FodOff
<1>5. CASE Framework /\ ~ProcessEnds
  BY <1>5 DEF Framework, SetNotify, CallVendor, ExtCmd, TouchBegins, TouchEnds
<1>6. CASE UiSwitched \/ Crash
  BY <1>2, <1>6 DEF UiSwitched, Crash
<1>7. ASSUME NEW t \in Threads, NotifyLocks(t) \/ NotifyTells(t)
      PROVE  InstanceInv'
  BY <1>7 DEF NotifyLocks, NotifyTells
<1>8. ASSUME NEW t \in Threads, NEW msg \in Messages, NotifyBegins(t, msg)
      PROVE  InstanceInv'
  BY <1>8 DEF NotifyBegins
<1>. QED
  BY <1>1, <1>2, <1>3, <1>4, <1>5, <1>6, <1>7, <1>8 DEF Next

(* A notify that comes while the constructor runs never builds a second    *)
(* service (BiometricsFingerprint, getInstance).                           *)
THEOREM NoSecondInstance == Spec => []OneInstance
<1>1. Init => InstanceInv
  BY DEF Init, InstanceInv
<1>2. InstanceInv /\ [Next]_vars => InstanceInv'
  BY InstanceStep
<1>3. InstanceInv => OneInstance
  BY DEF InstanceInv, OneInstance
<1>. QED
  BY <1>1, <1>2, <1>3, PTL DEF Spec

(***************************************************************************)
(* The lock of the client.  A thread that tells a client something holds   *)
(* the lock, and the client is still the registered one.                   *)
(***************************************************************************)
LockInv ==
  /\ \A t \in Threads :
       notifying[t].at = "telling" => mutex = t /\ notifying[t].to = mClientCallback
  /\ LockIsLeft
  /\ OldClientIsSilent

LEMMA LockKept == LockInv /\ UNCHANGED clientVars => LockInv'
BY DEF LockInv, LockIsLeft, OldClientIsSilent, clientVars

LEMMA LockStep ==
  ASSUME ClientTypes, LockInv, [Next]_vars
  PROVE  LockInv'
<1>. USE DEF LockInv, LockIsLeft, OldClientIsSilent
<1>1. CASE UNCHANGED vars
  BY <1>1, LockKept DEF vars
<1>2. CASE ProcessEnds
  BY <1>2, NoticeMade DEF ProcessEnds
<1>3. CASE MainThread /\ ~ProcessEnds
  BY <1>3, LockKept DEF MainThread, Start, OpenModule, SetVendorNotify, KeepDevice,
       StartPolling, RegisterService, VendorReturns, OnFingerDown
<1>4. CASE PollThread /\ ~ProcessEnds
  BY <1>4, LockKept DEF PollThread, OpenUi, ReadUi, CommandNit, FodOff
<1>5. ASSUME NEW c \in Clients \union {NoClient}, SetNotify(c)
      PROVE  LockInv'
  <2>1. \A t \in Threads : t # "free"
    BY DEF Threads
  <2>. QED
    BY <1>5, <2>1 DEF SetNotify, ClientTypes
<1>6. CASE (CallVendor \/ TouchBegins \/ TouchEnds) /\ ~ProcessEnds
  BY <1>6, LockKept DEF CallVendor, TouchBegins, TouchEnds
<1>7. ASSUME NEW param \in {"FOD", "NONE"}, ExtCmd(param), ~ProcessEnds
      PROVE  LockInv'
  BY <1>7, LockKept DEF ExtCmd
<1>8. CASE UiSwitched \/ Crash
  BY <1>2, <1>8, LockKept DEF UiSwitched, Crash
<1>9. ASSUME NEW t \in Threads, NEW msg \in Messages, NotifyBegins(t, msg)
      PROVE  LockInv'
  <2>1. \A u \in Threads : notifying'[u].at = "telling" =>
          notifying[u].at = "telling" /\ notifying'[u] = notifying[u]
    BY <1>9 DEF NotifyBegins, ClientTypes
  <2>2. notifying[t].at = "idle"
    BY <1>9, NoticeMade DEF NotifyBegins
  <2>3. \A u \in Threads : notifying[u].at = "telling" => notifying'[u] = notifying[u]
    BY <1>9, <2>2 DEF NotifyBegins, ClientTypes
  <2>4. UNCHANGED <<mutex, mClientCallback, heard>>
    BY <1>9 DEF NotifyBegins
  <2>. QED
    BY <2>1, <2>3, <2>4 DEF ClientTypes
<1>10. ASSUME NEW t \in Threads, NotifyLocks(t)
       PROVE  LockInv'
  <2>1. mutex = "free" /\ UNCHANGED <<mClientCallback, heard>>
    BY <1>10 DEF NotifyLocks
  <2>2. \A u \in Threads : u # "free" /\ notifying[u].at # "telling"
    BY <2>1 DEF Threads
  <2>3. CASE mClientCallback = NoClient
    <3>1. mutex' = "free" /\ notifying' = [notifying EXCEPT ![t] = NotInNotify]
      BY <1>10, <2>3 DEF NotifyLocks
    <3>2. \A u \in Threads : notifying'[u].at # "telling"
      BY <2>2, <3>1, NoticeMade DEF ClientTypes
    <3>. QED
      BY <2>1, <3>1, <3>2
  <2>4. CASE mClientCallback # NoClient
    <3>. DEFINE r == [at |-> "telling", msg |-> notifying[t].msg, to |-> mClientCallback]
    <3>1. mutex' = t /\ notifying' = [notifying EXCEPT ![t] = r]
      BY <1>10, <2>4 DEF NotifyLocks
    <3>2. /\ notifying'[t].at = "telling" /\ notifying'[t].to = mClientCallback
          /\ \A u \in Threads \ {t} : notifying'[u].at # "telling"
      BY <2>2, <3>1 DEF ClientTypes
    <3>. QED
      BY <2>1, <3>1, <3>2
  <2>. QED
    BY <2>3, <2>4
<1>11. ASSUME NEW t \in Threads, NotifyTells(t)
       PROVE  LockInv'
  <2>1. mutex = t /\ notifying[t].to = mClientCallback
    BY <1>11 DEF NotifyTells
  <2>2. mutex' = "free" /\ heard'.to = mClientCallback /\ UNCHANGED mClientCallback
    BY <1>11, <2>1 DEF NotifyTells
  <2>3. \A u \in Threads : notifying'[u].at # "telling"
    BY <1>11, <2>1, NoticeMade DEF NotifyTells, ClientTypes
  <2>. QED
    BY <2>2, <2>3
<1>. QED
  BY <1>1, <1>2, <1>3, <1>4, <1>5, <1>6, <1>7, <1>8, <1>9, <1>10, <1>11
     DEF Next, Framework

LEMMA LockInvariant == Spec => []LockInv
<1>1. Init => LockInv
  BY NoticeMade DEF Init, LockInv, LockIsLeft, OldClientIsSilent
<1>2. TypeOK /\ LockInv /\ [Next]_vars => LockInv'
  BY LockStep, TypesTogether
<1>. QED
  BY <1>1, <1>2, TypeCorrect, PTL DEF Spec

(* A client that has been replaced hears nothing more (setNotify, notify). *)
THEOREM ReplacedClientIsSilent == Spec => []OldClientIsSilent
<1>1. LockInv => OldClientIsSilent
  BY DEF LockInv
<1>. QED
  BY <1>1, LockInvariant, PTL

(* mClientCallbackMutex is only held by a thread whose next step leaves    *)
(* it, whatever thread the library answers on (notify, setNotify).         *)
THEOREM LockIsShort == Spec => []LockIsLeft
<1>1. LockInv => LockIsLeft
  BY DEF LockInv
<1>. QED
  BY <1>1, LockInvariant, PTL

(***************************************************************************)
(* The poll thread.  RestAgrees is about a thread at rest; on the way      *)
(* there, unless the file has been switched again, the thread holds what   *)
(* the file says, or has only fod_status left to write.                    *)
(***************************************************************************)
NitAgrees == nitByPoll => (nit = "FOD" <=> fodUi)

FodInv ==
  /\ poll = "command" /\ ~uiEvent => (fingerDown <=> fodUi)
  /\ poll = "off" /\ ~uiEvent => NitAgrees /\ ~fodUi
  /\ RestAgrees

LEMMA FodKept == FodInv /\ UNCHANGED fodVars => FodInv'
BY DEF FodInv, NitAgrees, RestAgrees, fodVars

LEMMA FodStep ==
  ASSUME FodTypes, FodInv, [Next]_vars
  PROVE  FodInv'
<1>. USE DEF FodInv, NitAgrees, RestAgrees, FodTypes
<1>1. CASE UNCHANGED vars
  BY <1>1, FodKept DEF vars
<1>2. CASE ProcessEnds
  BY <1>2 DEF ProcessEnds
<1>3. CASE Start \/ OpenModule \/ SetVendorNotify \/ KeepDevice \/ VendorReturns
  BY <1>3, FodKept DEF Start, OpenModule, SetVendorNotify, KeepDevice, VendorReturns
<1>4. CASE RegisterService /\ ~ProcessEnds
  BY <1>4, FodKept DEF RegisterService
<1>5. CASE OnFingerDown
  BY <1>5 DEF OnFingerDown
<1>6. CASE StartPolling
  BY <1>6 DEF StartPolling
<1>7. CASE OpenUi
  BY <1>7 DEF OpenUi
<1>8. CASE ReadUi
  <2>1. poll' = "command" /\ UNCHANGED <<fodUi, nit, nitByPoll, fodStatus, lifted>>
    BY <1>8 DEF ReadUi
  <2>2. (fingerDown' = fodUi) \/ uiEvent'
    BY <1>8 DEF ReadUi
  <2>3. ~uiEvent' => (fingerDown' <=> fodUi')
    BY <2>1, <2>2, Zenon
  <2>. QED
    BY <2>1, <2>3
<1>9. CASE CommandNit /\ ~ProcessEnds
  BY <1>9 DEF CommandNit
<1>10. CASE FodOff
  BY <1>10 DEF FodOff
<1>11. CASE UiSwitched
  BY <1>11 DEF UiSwitched
<1>12. CASE (CallVendor \/ TouchBegins \/ TouchEnds \/ Crash) /\ ~ProcessEnds
  BY <1>12, FodKept DEF CallVendor, TouchBegins, TouchEnds, Crash
<1>13. ASSUME NEW c \in Clients \union {NoClient}, SetNotify(c)
       PROVE  FodInv'
  BY <1>13, FodKept DEF SetNotify
<1>14. ASSUME NEW param \in {"FOD", "NONE"}, ExtCmd(param), ~ProcessEnds
       PROVE  FodInv'
  BY <1>14 DEF ExtCmd
<1>15. ASSUME NEW t \in Threads, NotifyLocks(t) \/ NotifyTells(t)
       PROVE  FodInv'
  BY <1>15, FodKept DEF NotifyLocks, NotifyTells
<1>16. ASSUME NEW t \in Threads, NEW msg \in Messages, NotifyBegins(t, msg)
       PROVE  FodInv'
  BY <1>16, FodKept DEF NotifyBegins
<1>. QED
  BY <1>1, <1>2, <1>3, <1>4, <1>5, <1>6, <1>7, <1>8, <1>9, <1>10, <1>11, <1>12, <1>13,
     <1>14, <1>15, <1>16
     DEF Next, MainThread, PollThread, Framework

(* The sensor and fod_status agree with fod_ui whenever the poll thread is *)
(* at rest, however many switches it has missed, and across restarts       *)
(* (BiometricsFingerprint).                                                *)
THEOREM AtRestFodAgrees == Spec => []RestAgrees
<1>1. Init => FodInv
  BY DEF Init, FodInv, NitAgrees, RestAgrees
<1>2. TypeOK /\ FodInv /\ [Next]_vars => FodInv'
  BY FodStep, TypesTogether
<1>3. FodInv => RestAgrees
  BY DEF FodInv
<1>. QED
  BY <1>1, <1>2, <1>3, TypeCorrect, PTL DEF Spec

(***************************************************************************)
(* Fingerprint implements ClientReports: the mutex makes one step of it    *)
(* that the client is looked up and that it is told.                       *)
(***************************************************************************)
ReportVars == <<mClientCallback, heard, Owed>>

(* A step that leaves notify and the client alone is a stutter.            *)
LEMMA NothingReported ==
  ASSUME UNCHANGED <<mClientCallback, heard, notifying>>
  PROVE  UNCHANGED ReportVars
BY DEF ReportVars, Owed

LEMMA EndEndsReports ==
  ASSUME ProcessEnds
  PROVE  Reports!Ended
BY NoticeMade DEF ProcessEnds, Reports!Ended, Reports!Nothing, NoEvent, Owed

(* The reports of the other threads stay; that of t is what it holds now.  *)
LEMMA OwedChanges ==
  ASSUME ClientTypes, NEW t \in Threads, NEW r,
         notifying' = [notifying EXCEPT ![t] = r]
  PROVE  /\ r.at = "idle" => Owed' = {p \in Owed : p[1] # t}
         /\ r.at # "idle" => Owed' = {p \in Owed : p[1] # t} \cup {<<t, r.msg>>}
<1>1. notifying'[t] = r /\ \A u \in Threads : u # t => notifying'[u] = notifying[u]
  BY DEF ClientTypes
<1>2. Owed' = {<<u, notifying'[u].msg>> : u \in {v \in Threads : notifying'[v].at # "idle"}}
  BY DEF Owed
<1>. QED
  BY <1>1, <1>2 DEF Owed

LEMMA LocksReports ==
  ASSUME ClientTypes, NEW t \in Threads, NotifyLocks(t)
  PROVE  (\E p \in Owed : Reports!Drop(p)) \/ UNCHANGED ReportVars
<1>1. notifying[t] \in Notice /\ notifying[t].at = "begun"
  BY DEF ClientTypes, NotifyLocks
<1>2. UNCHANGED <<mClientCallback, heard>>
  BY DEF NotifyLocks
<1>. DEFINE p == <<t, notifying[t].msg>>
<1>3. p \in Owed /\ \A q \in Owed : q[1] = t => q = p
  BY <1>1 DEF Owed
<1>4. CASE mClientCallback = NoClient
  <2>1. notifying' = [notifying EXCEPT ![t] = NotInNotify]
    BY <1>4 DEF NotifyLocks
  <2>2. Owed' = {q \in Owed : q[1] # t}
    BY <2>1, OwedChanges, NoticeMade
  <2>3. Owed' = Owed \ {p}
    BY <2>2, <1>3
  <2>. QED
    BY <1>2, <1>3, <1>4, <2>3 DEF Reports!Drop
<1>5. CASE mClientCallback # NoClient
  <2>. DEFINE r == [at |-> "telling", msg |-> notifying[t].msg, to |-> mClientCallback]
  <2>1. notifying' = [notifying EXCEPT ![t] = r]
    BY <1>5 DEF NotifyLocks
  <2>2. Owed' = {q \in Owed : q[1] # t} \cup {p}
    <3>1. r.at # "idle" /\ r.msg = notifying[t].msg
      OBVIOUS
    <3>. HIDE DEF r
    <3>. QED
      BY <2>1, <3>1, OwedChanges
  <2>3. Owed' = Owed
    BY <2>2, <1>3
  <2>. QED
    BY <1>2, <2>3 DEF ReportVars
<1>. QED
  BY <1>4, <1>5

LEMMA TellsReports ==
  ASSUME ClientTypes, LockInv, NEW t \in Threads, NotifyTells(t)
  PROVE  \E p \in Owed : Reports!Tell(p)
<1>1. notifying[t] \in Notice /\ notifying[t].at = "telling"
  BY DEF ClientTypes, NotifyTells
<1>. DEFINE p == <<t, notifying[t].msg>>
<1>2. p \in Owed /\ \A q \in Owed : q[1] = t => q = p
  BY <1>1 DEF Owed
<1>3. mClientCallback = notifying[t].to /\ mClientCallback \in Clients
  BY <1>1, NoticeFields DEF LockInv
<1>4. mClientCallback # NoClient /\ UNCHANGED mClientCallback
  BY <1>3, ClientsAssumption DEF NotifyTells
<1>5. notifying' = [notifying EXCEPT ![t] = NotInNotify]
  BY DEF NotifyTells
<1>6. Owed' = Owed \ {p}
  <2>1. Owed' = {q \in Owed : q[1] # t}
    BY <1>5, OwedChanges, NoticeMade
  <2>. QED
    BY <2>1, <1>2
<1>7. notifying[t].msg \in Messages
  BY <1>1, NoticeFields
<1>8. heard' = [to |-> mClientCallback,
                told |-> [m \in Messages |-> Translated(m)][p[2]]]
  BY <1>3, <1>7 DEF NotifyTells
<1>. QED
  BY <1>2, <1>4, <1>6, <1>8 DEF Reports!Tell

LEMMA BeginsReports ==
  ASSUME ClientTypes, NEW t \in Threads, NEW msg \in Messages, NotifyBegins(t, msg)
  PROVE  (\E p \in Owed' \ Owed : Reports!Report(p)) \/ UNCHANGED ReportVars
<1>1. notifying[t].at = "idle" /\ UNCHANGED <<mClientCallback, heard>>
  BY NoticeMade DEF NotifyBegins
<1>2. CASE sInstance
  <2>. DEFINE p == <<t, msg>>
              r == [at |-> "begun", msg |-> msg]
  <2>1. notifying' = [notifying EXCEPT ![t] = r]
    BY <1>2 DEF NotifyBegins
  <2>2. \A q \in Owed : q[1] # t
    BY <1>1 DEF Owed
  <2>3. Owed' = {q \in Owed : q[1] # t} \cup {p}
    <3>1. r.at # "idle" /\ r.msg = msg
      OBVIOUS
    <3>. HIDE DEF r
    <3>. QED
      BY <2>1, <3>1, OwedChanges
  <2>4. Owed' = Owed \cup {p} /\ p \in Owed' \ Owed
    BY <2>2, <2>3
  <2>. QED
    BY <1>1, <2>2, <2>4 DEF Reports!Report
<1>3. CASE ~sInstance
  BY <1>1, <1>3, NothingReported DEF NotifyBegins
<1>. QED
  BY <1>2, <1>3

LEMMA ReportsStep ==
  ASSUME ClientTypes, LockInv, [Next]_vars
  PROVE  [Reports!Next]_ReportVars
<1>. USE DEF Reports!Next
<1>1. CASE UNCHANGED vars
  BY <1>1, NothingReported DEF vars, clientVars
<1>2. CASE ProcessEnds
  BY <1>2, EndEndsReports
<1>3. CASE MainThread /\ ~ProcessEnds
  BY <1>3, NothingReported DEF MainThread, Start, OpenModule, SetVendorNotify, KeepDevice,
       StartPolling, RegisterService, VendorReturns, OnFingerDown, clientVars
<1>4. CASE PollThread /\ ~ProcessEnds
  BY <1>4, NothingReported DEF PollThread, OpenUi, ReadUi, CommandNit, FodOff, clientVars
<1>5. ASSUME NEW c \in Clients \union {NoClient}, SetNotify(c)
      PROVE  Reports!Register(c)
  BY <1>5 DEF SetNotify, Reports!Register, Reports!Nothing, NoEvent, Owed
<1>6. CASE (CallVendor \/ TouchBegins \/ TouchEnds) /\ ~ProcessEnds
  BY <1>6, NothingReported DEF CallVendor, TouchBegins, TouchEnds, clientVars
<1>7. ASSUME NEW param \in {"FOD", "NONE"}, ExtCmd(param), ~ProcessEnds
      PROVE  UNCHANGED ReportVars
  BY <1>7, NothingReported DEF ExtCmd, clientVars
<1>8. CASE UiSwitched \/ Crash
  BY <1>2, <1>8, NothingReported DEF UiSwitched, Crash, clientVars
<1>9. ASSUME NEW t \in Threads, NEW msg \in Messages, NotifyBegins(t, msg)
      PROVE  [Reports!Next]_ReportVars
  BY <1>9, BeginsReports
<1>10. ASSUME NEW t \in Threads, NotifyLocks(t)
       PROVE  [Reports!Next]_ReportVars
  BY <1>10, LocksReports
<1>11. ASSUME NEW t \in Threads, NotifyTells(t)
       PROVE  [Reports!Next]_ReportVars
  BY <1>11, TellsReports
<1>. QED
  BY <1>1, <1>2, <1>3, <1>4, <1>5, <1>6, <1>7, <1>8, <1>9, <1>10, <1>11
     DEF Next, Framework

(* A report is told once at most, and to the client of the moment, or it   *)
(* is dropped because there is none (setNotify, notify).                   *)
THEOREM ReportsAreTold == Spec => ReportsReachTheClient
<1>1. Init => Reports!Init
  BY NoticeMade DEF Init, Reports!Init, Reports!Nothing, NoEvent, Owed
<1>2. TypeOK /\ LockInv /\ [Next]_vars => [Reports!Next]_(Reports!vars)
  BY ReportsStep, TypesTogether DEF Reports!vars, ReportVars
<1>. QED
  BY <1>1, <1>2, TypeCorrect, LockInvariant, PTL
     DEF Spec, ReportsReachTheClient, Reports!Spec
=============================================================================
