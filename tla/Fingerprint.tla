----------------------------- MODULE Fingerprint -----------------------------
(***************************************************************************)
(* The fingerprint HAL (fingerprint/BiometricsFingerprint.cpp): its main   *)
(* thread, which builds the service and then serves the calls of binder    *)
(* one at a time; the thread that polls fod_ui; and the threads on which   *)
(* the vendor library calls notify.  The library, the display driver that  *)
(* switches fod_ui, the framework that sends touches, and init, which      *)
(* starts the service again, are external.                                 *)
(***************************************************************************)
EXTENDS Integers

CONSTANTS
  Clients,       \* client callbacks the framework may register
  Messages,      \* what the vendor library may report
  VendorBase,    \* FINGERPRINT_ERROR_VENDOR_BASE, FINGERPRINT_ACQUIRED_VENDOR_BASE
  MaxCode,       \* bound: the largest code the library reports
  MaxTouches,    \* bound: touches of the sensor
  MaxEvents,     \* bound: calls of notify
  MaxFaults      \* bound: crashes, failed opens, reads and registrations

NoClient == "none"

ASSUME ClientsAssumption == NoClient \notin Clients
ASSUME CodesAssumption ==
  /\ VendorBase \in Nat /\ MaxCode \in Nat /\ 7 < VendorBase /\ VendorBase <= MaxCode
  /\ Messages \subseteq [type : {"error", "acquired", "other"}, code : 0..MaxCode]
ASSUME BoundsAssumption ==
  MaxTouches \in Nat /\ MaxEvents \in Nat /\ MaxFaults \in Nat

(* Threads that call notify: one of the library, and the binder thread     *)
(* when the library answers from inside a call.                            *)
Threads == {"vendor", "binder"}

VARIABLES
  main,             \* where the main thread is
  sInstance, instances,
  mDevice,          \* whether mDevice is set
  mClientCallback,
  mutex,            \* the thread in mClientCallbackMutex
  notifying,        \* what each thread does in notify
  listening,        \* the library has been given notify
  heard,            \* history: the last event sent since setNotify
  vendorProp,       \* persist.vendor.sys.fp.vendor
  poll, fingerDown, \* the poll thread and its variable
  nit, nitByPoll,   \* the library's COMMAND_NIT, and whether the thread sent it
  fodUi, uiEvent,   \* fod_ui, and whether poll would return
  fodStatus,        \* fod_status
  finger, downs,    \* the finger, and onFingerDown calls waiting for the binder thread
  lifted,           \* history: fod_ui has been switched off since the last onFingerDown
  touches, events, faults

instanceVars == <<sInstance, instances, mDevice, listening, vendorProp>>
clientVars   == <<mClientCallback, mutex, notifying, heard, events>>
fodVars      == <<poll, fingerDown, nit, nitByPoll, fodUi, uiEvent, fodStatus, lifted>>
touchVars    == <<finger, downs, touches>>
vars == <<main, instanceVars, clientVars, fodVars, touchVars, faults>>

NotInNotify == [at |-> "idle"]
NoEvent     == [to |-> NoClient]
Fails       == faults < MaxFaults /\ faults' = faults + 1

-----------------------------------------------------------------------------
(* What the client is told.                                                *)

ErrorNames ==
  <<"ERROR_HW_UNAVAILABLE", "ERROR_UNABLE_TO_PROCESS", "ERROR_TIMEOUT", "ERROR_NO_SPACE",
    "ERROR_CANCELED", "ERROR_UNABLE_TO_REMOVE", "ERROR_LOCKOUT">>

AcquiredNames ==
  [c \in 0..5 |-> <<"ACQUIRED_GOOD", "ACQUIRED_PARTIAL", "ACQUIRED_INSUFFICIENT",
                    "ACQUIRED_IMAGER_DIRTY", "ACQUIRED_TOO_SLOW", "ACQUIRED_TOO_FAST">>[c + 1]]

Told(name, vendorCode) == [result |-> name, vendorCode |-> vendorCode]

(* A fault: the base of the vendor codes is not taken off.                 *)
VendorErrorFilterRaw(error) ==
  CASE error \in 1..7      -> Told(ErrorNames[error], 0)
    [] error >= VendorBase -> Told("ERROR_VENDOR", error)
    [] OTHER               -> Told("ERROR_UNABLE_TO_PROCESS", 0)

VendorErrorFilter(error) ==
  CASE error \in 1..7      -> Told(ErrorNames[error], 0)
    [] error >= VendorBase -> Told("ERROR_VENDOR", error - VendorBase)
    [] OTHER               -> Told("ERROR_UNABLE_TO_PROCESS", 0)

VendorAcquiredFilter(info) ==
  CASE info \in 0..5      -> Told(AcquiredNames[info], 0)
    [] info >= VendorBase -> Told("ACQUIRED_GOOD", info - VendorBase)
    [] OTHER              -> Told("ACQUIRED_INSUFFICIENT", 0)

Translated(msg) ==
  CASE msg.type = "error"    -> VendorErrorFilter(msg.code)
    [] msg.type = "acquired" -> VendorAcquiredFilter(msg.code)
    [] msg.type = "other"    -> Told("relayed", 0)

-----------------------------------------------------------------------------
(* The process.                                                            *)

Init ==
  /\ main = "dead"
  /\ sInstance = FALSE /\ instances = 0 /\ mDevice = FALSE /\ listening = FALSE
  /\ vendorProp = "none"
  /\ mClientCallback = NoClient /\ mutex = "free" /\ heard = NoEvent
  /\ notifying = [t \in Threads |-> NotInNotify]
  /\ poll = "none" /\ fingerDown = FALSE
  /\ nit = "NONE" /\ nitByPoll = TRUE
  /\ fodUi = FALSE /\ uiEvent = FALSE /\ fodStatus = "OFF" /\ lifted = FALSE
  /\ finger = "up" /\ downs = 0
  /\ touches = 0 /\ events = 0 /\ faults = 0

(* The process is gone, whatever it was doing.  What is in the library's   *)
(* hardware, in the kernel's files and in the property store stays.        *)
ProcessEnds ==
  /\ main' = "dead"
  /\ sInstance' = FALSE /\ instances' = 0 /\ mDevice' = FALSE /\ listening' = FALSE
  /\ mClientCallback' = NoClient /\ mutex' = "free" /\ heard' = NoEvent
  /\ notifying' = [t \in Threads |-> NotInNotify]
  /\ poll' = "none" /\ fingerDown' = FALSE /\ uiEvent' = FALSE
  /\ downs' = 0
  /\ UNCHANGED <<vendorProp, events, nit, nitByPoll, fodUi, fodStatus, lifted, finger,
                 touches>>

Crash == main # "dead" /\ Fails /\ ProcessEnds

(* A fault: the constructor publishes the instance when it is complete.    *)
StartUnpublished ==
  /\ main = "dead" /\ main' = "new"
  /\ instances' = instances + 1
  /\ UNCHANGED <<sInstance, mDevice, listening, vendorProp, clientVars, fodVars, touchVars,
                 faults>>

(* init starts the service; the constructor keeps track of the instance.   *)
Start ==
  /\ main = "dead" /\ main' = "new"
  /\ sInstance' = TRUE /\ instances' = instances + 1
  /\ UNCHANGED <<mDevice, listening, vendorProp, clientVars, fodVars, touchVars, faults>>

(* openHal: getFingerprintDevice finds the module or does not.             *)
OpenModule ==
  /\ main = "new"
  /\ \/ main' = "opened" /\ vendorProp' = "goodix_fod" /\ UNCHANGED faults
     \/ main' = "built" /\ vendorProp' = "none" /\ Fails
  /\ UNCHANGED <<sInstance, instances, mDevice, listening, clientVars, fodVars, touchVars>>

(* openHal: set_notify; from here on the library may call notify.          *)
SetVendorNotify ==
  /\ main = "opened"
  /\ \/ main' = "notified" /\ listening' = TRUE /\ UNCHANGED faults
     \/ main' = "built" /\ UNCHANGED listening /\ Fails
  /\ UNCHANGED <<sInstance, instances, mDevice, vendorProp, clientVars, fodVars, touchVars>>

(* openHal returns the device to the constructor.                          *)
KeepDevice ==
  /\ main = "notified" /\ main' = "built"
  /\ mDevice' = TRUE
  /\ UNCHANGED <<sInstance, instances, listening, vendorProp, clientVars, fodVars, touchVars,
                 faults>>

StartPolling ==
  /\ main = "built" /\ main' = "started"
  /\ poll' = "opening"
  /\ UNCHANGED <<instanceVars, clientVars, fingerDown, nit, nitByPoll, fodUi, uiEvent,
                 fodStatus, lifted, touchVars, faults>>

(* registerAsSystemService; main returns when it fails.                    *)
RegisterService ==
  /\ main = "started"
  /\ \/ /\ main' = "serving"
        /\ UNCHANGED <<instanceVars, clientVars, fodVars, touchVars, faults>>
     \/ Fails /\ ProcessEnds
-----------------------------------------------------------------------------
(* Calls of binder, one at a time.                                         *)

SetNotify(c) ==
  /\ main = "serving" /\ mutex = "free"
  /\ mClientCallback' = c /\ heard' = NoEvent
  /\ UNCHANGED <<main, instanceVars, mutex, notifying, events, fodVars, touchVars,
                 faults>>

(* A fault: calls are serialized with notify by its mutex.                 *)
CallVendorLocked ==
  /\ main = "serving" /\ mutex = "free"
  /\ main' = "inVendor" /\ mutex' = "binder"
  /\ UNCHANGED <<instanceVars, mClientCallback, notifying, heard, events, fodVars, touchVars,
                 faults>>

(* preEnroll, enroll, authenticate, cancel and the others that pass the    *)
(* call on to the device: without one they crash.                          *)
CallVendor ==
  /\ main = "serving"
  /\ \/ /\ mDevice /\ main' = "inVendor"
        /\ UNCHANGED <<instanceVars, clientVars, fodVars, touchVars>>
     \/ ~mDevice /\ ProcessEnds
  /\ UNCHANGED faults

VendorReturns ==
  /\ main = "inVendor" /\ notifying["binder"] = NotInNotify
  /\ main' = "serving"
  /\ UNCHANGED <<instanceVars, clientVars, fodVars, touchVars, faults>>

(* extCmd of IXiaomiFingerprint, with the command the poll thread uses.    *)
ExtCmd(param) ==
  /\ main = "serving"
  /\ \/ /\ mDevice /\ nit' = param /\ nitByPoll' = FALSE
        /\ UNCHANGED <<main, instanceVars, clientVars, poll, fingerDown, fodUi, uiEvent,
                       fodStatus, lifted, touchVars>>
     \/ ~mDevice /\ ProcessEnds
  /\ UNCHANGED faults

OnFingerDown ==
  /\ main = "serving" /\ downs > 0
  /\ downs' = downs - 1
  /\ fodStatus' = "ON" /\ lifted' = FALSE
  /\ UNCHANGED <<main, instanceVars, clientVars, poll, fingerDown, nit, nitByPoll, fodUi,
                 uiEvent, finger, touches, faults>>

-----------------------------------------------------------------------------
(* The library reports.                                                    *)

(* notify begins: getInstance would build an instance if there were none,  *)
(* and that one would have no client to tell.                              *)
NotifyBegins(t, msg) ==
  /\ listening /\ notifying[t] = NotInNotify
  /\ t = "binder" => main = "inVendor"
  /\ events < MaxEvents /\ events' = events + 1
  /\ sInstance' = TRUE
  /\ IF sInstance
     THEN /\ notifying' = [notifying EXCEPT ![t] = [at |-> "begun", msg |-> msg]]
          /\ UNCHANGED instances
     ELSE instances' = instances + 1 /\ UNCHANGED notifying
  /\ UNCHANGED <<main, mDevice, listening, vendorProp, mClientCallback, mutex, heard, fodVars,
                 touchVars, faults>>

(* A fault: the client is copied under the lock, and told without it.      *)
NotifyLocksShortly(t) ==
  /\ notifying[t].at = "begun" /\ mutex = "free"
  /\ notifying' = [notifying EXCEPT ![t] =
       IF mClientCallback = NoClient THEN NotInNotify
       ELSE [at |-> "telling", msg |-> @.msg, to |-> mClientCallback]]
  /\ UNCHANGED <<main, instanceVars, mClientCallback, mutex, heard, events, fodVars, touchVars,
                 faults>>

(* notify has the lock; without a client it returns at once.               *)
NotifyLocks(t) ==
  /\ notifying[t].at = "begun" /\ mutex = "free"
  /\ mutex' = IF mClientCallback = NoClient THEN "free" ELSE t
  /\ notifying' = [notifying EXCEPT ![t] =
       IF mClientCallback = NoClient THEN NotInNotify
       ELSE [at |-> "telling", msg |-> @.msg, to |-> mClientCallback]]
  /\ UNCHANGED <<main, instanceVars, mClientCallback, heard, events, fodVars, touchVars,
                 faults>>

NotifyTells(t) ==
  /\ notifying[t].at = "telling"
  /\ heard' = [to |-> notifying[t].to, told |-> Translated(notifying[t].msg)]
  /\ notifying' = [notifying EXCEPT ![t] = NotInNotify]
  /\ mutex' = "free"
  /\ UNCHANGED <<main, instanceVars, mClientCallback, events, fodVars, touchVars, faults>>

-----------------------------------------------------------------------------
(* The poll thread.                                                        *)

(* The first poll of a file just opened returns at once.                   *)
OpenUi ==
  /\ poll = "opening"
  /\ \/ poll' = "polling" /\ uiEvent' = TRUE /\ UNCHANGED faults
     \/ poll' = "gone" /\ UNCHANGED uiEvent /\ Fails
  /\ UNCHANGED <<main, instanceVars, clientVars, fingerDown, nit, nitByPoll, fodUi, fodStatus,
                 lifted, touchVars>>

(* poll returns and readBool reads the file, which takes the event, or     *)
(* fails, and says FALSE.                                                  *)
ReadUi ==
  /\ poll = "polling" /\ uiEvent
  /\ poll' = "command"
  /\ \/ fingerDown' = fodUi /\ uiEvent' = FALSE /\ UNCHANGED faults
     \/ fingerDown' = FALSE /\ UNCHANGED uiEvent /\ Fails
  /\ UNCHANGED <<main, instanceVars, clientVars, nit, nitByPoll, fodUi, fodStatus, lifted,
                 touchVars>>

(* A fault: the command is sent for a finger that comes only.              *)
CommandNitOnDown ==
  /\ poll = "command"
  /\ \/ /\ mDevice
        /\ nit' = IF fingerDown THEN "FOD" ELSE nit
        /\ nitByPoll' = TRUE
        /\ poll' = IF fingerDown THEN "polling" ELSE "off"
        /\ UNCHANGED <<main, instanceVars, clientVars, fingerDown, fodUi, uiEvent, fodStatus,
                       lifted, touchVars>>
     \/ ~mDevice /\ ProcessEnds
  /\ UNCHANGED faults

(* A fault: a thread that finds no device goes on polling.                 *)
CommandNitIfDevice ==
  /\ poll = "command"
  /\ IF mDevice
     THEN /\ nit' = IF fingerDown THEN "FOD" ELSE "NONE"
          /\ nitByPoll' = TRUE
     ELSE UNCHANGED <<nit, nitByPoll>>
  /\ poll' = IF fingerDown THEN "polling" ELSE "off"
  /\ UNCHANGED <<main, instanceVars, clientVars, fingerDown, fodUi, uiEvent, fodStatus, lifted,
                 touchVars, faults>>

(* extCmd to the device: without one the thread takes the process down.    *)
CommandNit ==
  /\ poll = "command"
  /\ \/ /\ mDevice
        /\ nit' = IF fingerDown THEN "FOD" ELSE "NONE"
        /\ nitByPoll' = TRUE
        /\ poll' = IF fingerDown THEN "polling" ELSE "off"
        /\ UNCHANGED <<main, instanceVars, clientVars, fingerDown, fodUi, uiEvent, fodStatus,
                       lifted, touchVars>>
     \/ ~mDevice /\ ProcessEnds
  /\ UNCHANGED faults

FodOff ==
  /\ poll = "off" /\ poll' = "polling"
  /\ fodStatus' = "OFF"
  /\ UNCHANGED <<main, instanceVars, clientVars, fingerDown, nit, nitByPoll, fodUi, uiEvent,
                 lifted, touchVars, faults>>

-----------------------------------------------------------------------------
(* The framework and the display driver.                                   *)

(* A touch is sent as a one-way call, if there is a service.               *)
TouchBegins ==
  /\ finger = "up" /\ touches < MaxTouches
  /\ finger' = "down" /\ touches' = touches + 1
  /\ downs' = IF main \in {"serving", "inVendor"} THEN downs + 1 ELSE downs
  /\ UNCHANGED <<main, instanceVars, clientVars, fodVars, faults>>

(* onFingerUp changes nothing.                                             *)
TouchEnds ==
  /\ finger = "down" /\ finger' = "up"
  /\ UNCHANGED <<main, instanceVars, clientVars, fodVars, downs, touches, faults>>

(* The driver switches fod_ui after the finger and wakes who polls it.     *)
UiSwitched ==
  /\ fodUi # (finger = "down") /\ fodUi' = (finger = "down")
  /\ uiEvent' = (poll \in {"polling", "command", "off"})
  /\ lifted' = (lifted \/ fodUi)
  /\ UNCHANGED <<main, instanceVars, clientVars, poll, fingerDown, nit, nitByPoll, fodStatus,
                 touchVars, faults>>

-----------------------------------------------------------------------------
MainThread ==
  \/ Start \/ OpenModule \/ SetVendorNotify \/ KeepDevice \/ StartPolling \/ RegisterService
  \/ VendorReturns \/ OnFingerDown

PollThread == OpenUi \/ ReadUi \/ CommandNit \/ FodOff

Framework ==
  \/ \E c \in Clients \union {NoClient} : SetNotify(c)
  \/ CallVendor
  \/ \E param \in {"FOD", "NONE"} : ExtCmd(param)
  \/ TouchBegins \/ TouchEnds

Next ==
  \/ MainThread \/ PollThread \/ Framework \/ UiSwitched \/ Crash
  \/ \E t \in Threads :
       NotifyLocks(t) \/ NotifyTells(t) \/ \E msg \in Messages : NotifyBegins(t, msg)

Spec == Init /\ [][Next]_vars

(* init starts a service that has ended, threads get the processor, and    *)
(* the library returns from its calls.                                     *)
FairSpec ==
  /\ Spec
  /\ WF_vars(MainThread) /\ WF_vars(PollThread)
  /\ \A t \in Threads : WF_vars(NotifyLocks(t)) /\ WF_vars(NotifyTells(t))

-----------------------------------------------------------------------------
Notice ==
  {NotInNotify}
    \union [at : {"begun"}, msg : Messages]
    \union [at : {"telling"}, msg : Messages, to : Clients]

Results ==
  {ErrorNames[k] : k \in 1..7} \union {AcquiredNames[k] : k \in 0..5}
    \union {"ERROR_VENDOR", "relayed"}

TellResult == [result : Results, vendorCode : 0..(MaxCode - VendorBase)]

TypeOK ==
  /\ main \in {"dead", "new", "opened", "notified", "built", "started", "serving", "inVendor"}
  /\ sInstance \in BOOLEAN /\ instances \in Nat /\ mDevice \in BOOLEAN
  /\ listening \in BOOLEAN /\ vendorProp \in {"goodix_fod", "none"}
  /\ mClientCallback \in Clients \union {NoClient} /\ mutex \in Threads \union {"free"}
  /\ notifying \in [Threads -> Notice]
  /\ heard = NoEvent \/ heard \in [to : Clients, told : TellResult]
  /\ poll \in {"none", "opening", "gone", "polling", "command", "off"}
  /\ fingerDown \in BOOLEAN /\ nit \in {"FOD", "NONE"} /\ nitByPoll \in BOOLEAN
  /\ fodUi \in BOOLEAN /\ uiEvent \in BOOLEAN /\ fodStatus \in {"ON", "OFF"}
  /\ lifted \in BOOLEAN /\ finger \in {"up", "down"} /\ downs \in 0..touches
  /\ touches \in 0..MaxTouches /\ events \in 0..MaxEvents /\ faults \in 0..MaxFaults

(* The library may call notify while the constructor is still in openHal:  *)
(* getInstance must not build a second service, with a device and a poll   *)
(* thread of its own (BiometricsFingerprint.cpp, notify, getInstance).     *)
OneInstance == instances <= 1

(* Once setNotify has returned, the client before hears nothing more, not  *)
(* even what the library had reported by then (mClientCallbackMutex).      *)
OldClientIsSilent == heard # NoEvent => heard.to = mClientCallback

(* When the poll thread waits and nothing would wake it, the sensor is lit *)
(* if and only if fod_ui says so, unless a client has sent a command of    *)
(* its own since, and fod_status is off after a touch: whatever the        *)
(* switches it has missed, the crashes and the failed reads                *)
(* (BiometricsFingerprint).                                                *)
RestAgrees ==
  poll = "polling" /\ ~uiEvent =>
    /\ nitByPoll => (nit = "FOD" <=> fodUi)
    /\ lifted /\ ~fodUi => fodStatus = "OFF"

(* fod_ui is followed in the end, also by a service that was started       *)
(* without a device: it dies of that, and is started anew.                 *)
UiIsFollowed ==
  /\ fodUi ~> (nit = "FOD" \/ ~fodUi \/ poll = "gone" \/ ~nitByPoll)
  /\ lifted ~> (fodStatus = "OFF" \/ fodUi \/ ~lifted \/ poll = "gone")

(* Whoever is in mClientCallbackMutex is about to leave it.  The library   *)
(* may answer with notify from inside a call, on the binder thread: a call *)
(* that held the mutex would wait for itself, and everyone after it.       *)
LockIsLeft == mutex # "free" => notifying[mutex].at = "telling"

(* The reports that threads carry through notify: told at most once, each  *)
(* to the client of the moment (setNotify and notify).                     *)
Owed == {<<t, notifying[t].msg>> : t \in {u \in Threads : notifying[u].at # "idle"}}

Reports == INSTANCE ClientReports WITH
  client    <- mClientCallback,
  owed      <- Owed,
  Reporters <- Threads,
  Words     <- [m \in Messages |-> Translated(m)]

ReportsReachTheClient == Reports!Spec
=============================================================================
