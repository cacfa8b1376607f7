------------------------- MODULE PopupCameraService -------------------------
(***************************************************************************)
(* PopupCameraService.java: the service that raises and lowers the front   *)
(* camera, with the settings page that calibrates its motor.               *)
(*                                                                         *)
(* Actors: the main thread (camera, sensor and screen callbacks, the       *)
(* messages and closures of mHandler, dialog buttons), the binder thread   *)
(* that runs MotorStatusCallback.onNotify, the motor, the user, and the    *)
(* system, which may kill the process and start it again.  A handler of    *)
(* the main thread is one step; onNotify is two, for it reads fields of    *)
(* the main thread and acts on them later (NotifyBegin, NotifyPost).       *)
(***************************************************************************)
EXTENDS Looper, MotorHal, FiniteSets

CONSTANTS
  EventDelay,    \* CAMERA_EVENT_DELAY_TIME, 100 ms
  PollDelay,     \* the retry while the motor is busy, 100 ms
  BusyDelay,     \* the motor is taken to be busy that long, 1200 ms
  LedDelay,      \* the light effect lasts that long, 1400 ms
  CalibDelay,    \* a calibration is taken to last that long, 7000 ms
  LastGap,       \* bound: ticks before the last report the budget allows
  Pages,         \* settings pages the user may open
  UserLights,    \* what the green LED shows when no effect owns it
  LedAllowed,    \* values isLedAllowed may return
  AlwaysOn,      \* values always_on_camera_dialog may have
  ThemeChanges,  \* whether the night mode may have changed since last asked
  InitStatus,    \* what the motor may report at boot
  Budgets,       \* bound: how often each event of the environment may happen
  Punctual       \* the threads run what is due before time goes on

Events == {"camera", "push", "jam", "fall", "calibrate", "light", "screen",
           "die", "hal"}
Bounds == Events \cup {"gap"}     \* ticks between two reports of the camera manager
Delays == {EventDelay, PollDelay, BusyDelay, LedDelay, CalibDelay}
AgeCap == EventDelay + LastGap

ASSUME DelayAssumption ==
  /\ Delays \subseteq Slots
  /\ LastGap \in Nat
ASSUME InputAssumption ==
  /\ LedAllowed \subseteq BOOLEAN
  /\ AlwaysOn \subseteq BOOLEAN
  /\ ThemeChanges \subseteq BOOLEAN
  /\ InitStatus \subseteq Statuses
  /\ Punctual \in BOOLEAN
  /\ Budgets \subseteq [Bounds -> Nat]
ASSUME NameAssumption ==
  /\ "off" \in UserLights /\ {"effect", "leftover"} \cap UserLights = {}
  /\ "service" \notin Pages

VARIABLES
  svc,                  \* the process: dead, creating the service, or running
  nap,                  \* ticks left of the Thread.sleep in onCreate
  queue,                \* the message queue of the main thread
  notifier,             \* what onNotify has decided to post, not posted yet
  camera,               \* the last report on the front camera
  sinceOpen,            \* ticks since mOpenEvent, up to AgeCap
  sinceClosed,          \* ticks since mClosedEvent, up to AgeCap
  handled,              \* history: the last camera message handled
  screenOn,             \* the screen itself
  mScreenOn,            \* what the service takes it to be
  pages,                \* settings pages open, each with a service object
  mMotor,               \* per service object: no, a live or a dead proxy
  mMotorCalibrating,    \* per service object
  mMotorBusy,
  armed,                \* mFreeFallListener is registered
  led,                  \* what the green LED shows
  mLedBusy,
  mLed,                 \* mLedBreathing and mLedBrightness: the saved LED
  mErrorDialogShowing,
  dialogs,              \* how many dialogs of each text are on the screen
  mAlertDialog,         \* the dialog that asks: hidden (or not made yet) or showing
  orphans,              \* dialogs that ask, still shown but replaced
  stray,                \* history: raised, or rising, for a process now dead
  budget                \* bound: events of the environment left, and their pace

cameraVars == <<camera, sinceOpen, sinceClosed, handled>>
screenVars == <<screenOn, mScreenOn>>
calibVars  == <<pages, mMotorCalibrating>>
ledVars    == <<led, mLedBusy, mLed>>
errorVars  == <<mErrorDialogShowing, dialogs>>
askVars    == <<mAlertDialog, orphans>>
vars == <<halVars, svc, nap, queue, notifier, cameraVars, screenVars, calibVars,
          mMotor, mMotorBusy, armed, ledVars, errorVars, askVars, stray, budget>>

Objects == {"service"} \cup Pages
Texts   == {"popup_failed", "takeback_failed", "running", "success", "failed"}
States  == {"open", "closed"}
Args    == States \cup Statuses \cup Objects \cup {"on", "off", "none"}
Whats   == {"open", "closed", "run", "poll", "busyOff", "ledOff", "error",
            "result", "calibOff", "screen", "none"}
Message == [what : Whats, arg : Args]
Lights  == UserLights \cup {"effect", "leftover"}

TypeOK ==
  /\ HalTypeOK
  /\ svc \in {"dead", "creating", "running"}
  /\ nap \in Nat
  /\ queue \in QueueOf(Message)
  /\ notifier \in Message
  /\ camera \in States /\ handled \in States
  /\ sinceOpen \in Nat /\ sinceClosed \in Nat
  /\ screenOn \in BOOLEAN /\ mScreenOn \in BOOLEAN
  /\ pages \subseteq Pages
  /\ mMotor \in [Objects -> {"null", "live", "dead"}]
  /\ mMotorCalibrating \in [Objects -> BOOLEAN]
  /\ mMotorBusy \in BOOLEAN /\ armed \in BOOLEAN /\ stray \in BOOLEAN
  /\ led \in Lights /\ mLed \in Lights /\ mLedBusy \in BOOLEAN
  /\ mErrorDialogShowing \in BOOLEAN
  /\ dialogs \in [Texts -> Nat]
  /\ mAlertDialog \in {"hidden", "showing"} /\ orphans \in Nat
  /\ budget \in [Bounds -> Nat]

Init ==
  /\ status \in InitStatus
  /\ motion = "none" /\ left = 0 /\ callback = FALSE /\ notifs = << >>
  /\ svc = "dead" /\ nap = 0
  /\ queue = EmptyQueue /\ notifier = NoMessage
  /\ camera = "closed" /\ handled = "closed"
  /\ sinceOpen = AgeCap /\ sinceClosed = AgeCap
  /\ screenOn = TRUE /\ mScreenOn = TRUE
  /\ pages = {}
  /\ mMotor = [o \in Objects |-> "null"]
  /\ mMotorCalibrating = [o \in Objects |-> FALSE]
  /\ mMotorBusy = FALSE /\ armed = FALSE
  /\ stray = (status = "POPUP_OK")
  /\ led \in UserLights /\ mLed = "off" /\ mLedBusy = FALSE
  /\ mErrorDialogShowing = FALSE
  /\ dialogs = [t \in Texts |-> 0]
  /\ mAlertDialog = "hidden" /\ orphans = 0
  /\ budget \in Budgets

Running == svc = "running"
Msg(w, a) == [what |-> w, arg |-> a]
Spend(e) == budget[e] > 0 /\ budget' = [budget EXCEPT ![e] = @ - 1]

(* The looper takes the next message, a w.                                 *)
Due(w) == Running /\ IsNext(queue, w)
Arg == Head(queue[0]).arg

(* The motor is up, or on its way up.                                      *)
MotorUp == motion = "up" \/ (motion = "none" /\ status = "POPUP_OK")

(***************************************************************************)
(* The life of the service.                                                *)
(***************************************************************************)
(* onCreate up to the end of the sleep.  A call that fails ends it: then   *)
(* no callback is ever registered, and without a proxy no motor is moved.  *)
Create ==
  /\ svc = "dead"
  /\ \/ /\ status \in {"POPUP_OK", "TAKEBACK_JAMMED"}
        /\ mMotor' = [mMotor EXCEPT !["service"] = "live"]
        /\ svc' = "creating" /\ nap' = BusyDelay
        /\ Move("down") /\ stray' = FALSE
        /\ UNCHANGED budget
     \/ /\ status \notin {"POPUP_OK", "TAKEBACK_JAMMED"}
        /\ mMotor' = [mMotor EXCEPT !["service"] = "live"]
        /\ svc' = "creating" /\ nap' = 0
        /\ UNCHANGED <<halVars, stray, budget>>
     \/ /\ Spend("hal")
        /\ \E proxy \in {"null", "dead"} :
             mMotor' = [mMotor EXCEPT !["service"] = proxy]
        /\ svc' = "running" /\ nap' = 0
        /\ UNCHANGED <<halVars, stray>>
  /\ UNCHANGED <<queue, notifier, cameraVars, screenVars, calibVars, mMotorBusy,
                 armed, ledVars, errorVars, askVars>>

(* The rest of onCreate: setMotorCallback.                                 *)
CreateDone ==
  /\ svc = "creating" /\ nap = 0
  /\ svc' = "running"
  /\ callback' = (mMotor["service"] = "live")
  /\ UNCHANGED <<status, motion, left, notifs, nap, queue, notifier, cameraVars,
                 screenVars, calibVars, mMotor, mMotorBusy, armed, ledVars,
                 errorVars, askVars, stray, budget>>

(* The process dies, with its fields, its queue and its windows; the motor *)
(* and the LED stay as they are.  The front camera may change unseen       *)
(* before the system starts the service again.                             *)
Die ==
  /\ svc # "dead" /\ Spend("die")
  /\ svc' = "dead" /\ nap' = 0
  /\ queue' = EmptyQueue /\ notifier' = NoMessage
  /\ CallbackLost
  /\ \E s \in States : camera' = s /\ handled' = s
  /\ sinceOpen' = AgeCap /\ sinceClosed' = AgeCap
  /\ mScreenOn' = TRUE
  /\ pages' = {}
  /\ mMotor' = [o \in Objects |-> "null"]
  /\ mMotorCalibrating' = [o \in Objects |-> FALSE]
  /\ mMotorBusy' = FALSE /\ armed' = FALSE
  /\ stray' = (stray \/ MotorUp)
  /\ led' = IF led = "effect" THEN "leftover" ELSE led
  /\ mLed' = "off" /\ mLedBusy' = FALSE
  /\ mErrorDialogShowing' = FALSE
  /\ dialogs' = [t \in Texts |-> 0]
  /\ mAlertDialog' = "hidden" /\ orphans' = 0
  /\ UNCHANGED screenOn

(***************************************************************************)
(* Camera reports and the messages they post.                              *)
(***************************************************************************)
(* A fault: the message just posted is withdrawn, not the one before it.   *)
CameraReportOwnWithdrawn(s, t, sinceOther) ==
  /\ Running /\ camera = t /\ Spend("camera")
  /\ camera' = s
  /\ LET all == Post(queue, EventDelay, Msg(s, "none"))
     IN  queue' = IF sinceOther < EventDelay /\ HasMessages(queue, t)
                  THEN Cancelled(all, s) ELSE all
  /\ UNCHANGED <<halVars, svc, nap, notifier, handled, screenVars, calibVars,
                 mMotor, mMotorBusy, armed, ledVars, errorVars, askVars, stray>>

(* availabilityCallback: the report of state s, where the last one was t.  *)
(* The message posted for t a moment ago is withdrawn.                     *)
CameraReport(s, t, sinceOther) ==
  /\ Running /\ camera = t /\ Spend("camera")
  /\ LET gap == IF budget["camera"] = 1 THEN LastGap ELSE budget["gap"]
     IN  sinceOpen >= gap /\ sinceClosed >= gap
  /\ camera' = s
  /\ LET rest == IF sinceOther < EventDelay /\ HasMessages(queue, t)
                 THEN Cancelled(queue, t) ELSE queue
     IN  queue' = Post(rest, EventDelay, Msg(s, "none"))
  /\ UNCHANGED <<halVars, svc, nap, notifier, handled, screenVars, calibVars,
                 mMotor, mMotorBusy, armed, ledVars, errorVars, askVars, stray>>

OnCameraOpened ==
  /\ CameraReport("open", "closed", sinceClosed)
  /\ sinceOpen' = 0 /\ UNCHANGED sinceClosed

OnCameraClosed ==
  /\ CameraReport("closed", "open", sinceOpen)
  /\ sinceClosed' = 0 /\ UNCHANGED sinceOpen

(* updateMotor(s), seen from the queue q: the closure r is posted, or the  *)
(* poller while the motor is busy; without a proxy nothing is.             *)
Request(s) == IF mMotorBusy THEN Msg("poll", s) ELSE Msg("run", s)
RequestDelay(m) == IF m.what = "poll" THEN PollDelay ELSE 0
UpdateMotor(q, s) ==
  IF mMotor["service"] = "null" THEN q
  ELSE Post(q, RequestDelay(Request(s)), Request(s))

(* A fault: the question stays on the screen.                              *)
HandleClosedQuestionStays ==
  /\ Due("closed")
  /\ handled' = "closed"
  /\ queue' = UpdateMotor(Taken(queue), "closed")
  /\ UNCHANGED <<halVars, svc, nap, notifier, camera, sinceOpen, sinceClosed,
                 screenVars, calibVars, mMotor, mMotorBusy, armed, ledVars,
                 errorVars, askVars, stray, budget>>

(* MSG_CAMERA_CLOSED: an unanswered question goes away.                    *)
HandleClosed ==
  /\ Due("closed")
  /\ handled' = "closed"
  /\ mAlertDialog' = IF mAlertDialog = "showing" THEN "hidden" ELSE mAlertDialog
  /\ queue' = UpdateMotor(Taken(queue), "closed")
  /\ UNCHANGED <<halVars, svc, nap, notifier, camera, sinceOpen, sinceClosed,
                 screenVars, calibVars, mMotor, mMotorBusy, armed, ledVars,
                 errorVars, orphans, stray, budget>>

(* MSG_CAMERA_OPEN: the user is asked first, always or while the screen is *)
(* off.  When the theme has changed the dialog is made anew, and the old   *)
(* one stays on the screen if it was there.                                *)
HandleOpen ==
  /\ Due("open")
  /\ handled' = "open"
  /\ \E always \in AlwaysOn :
       IF always \/ ~mScreenOn
       THEN /\ \E changed \in ThemeChanges :
                 orphans' = IF changed /\ mAlertDialog = "showing"
                            THEN orphans + 1 ELSE orphans
            /\ mAlertDialog' = "showing"
            /\ queue' = Taken(queue)
       ELSE /\ queue' = UpdateMotor(Taken(queue), "open")
            /\ UNCHANGED askVars
  /\ UNCHANGED <<halVars, svc, nap, notifier, camera, sinceOpen, sinceClosed,
                 screenVars, calibVars, mMotor, mMotorBusy, armed, ledVars,
                 errorVars, stray, budget>>

(* A fault: a button of a dialog that is gone still works.                 *)
AskAnsweredTwice ==
  /\ Running /\ mAlertDialog' = "hidden" /\ orphans' = orphans - 1
  /\ UNCHANGED <<halVars, svc, nap, notifier, cameraVars, screenVars, calibVars,
                 mMotor, mMotorBusy, armed, ledVars, errorVars, stray, budget>>

(* A button of a dialog that asks: the current one, or a replaced one.     *)
AskAnswered ==
  /\ Running
  /\ \/ mAlertDialog = "showing" /\ mAlertDialog' = "hidden" /\ UNCHANGED orphans
     \/ orphans > 0 /\ orphans' = orphans - 1 /\ UNCHANGED mAlertDialog
  /\ UNCHANGED <<halVars, svc, nap, notifier, cameraVars, screenVars, calibVars,
                 mMotor, mMotorBusy, armed, ledVars, errorVars, stray, budget>>

(* "Yes": raise.  "No" sends the key "back" to the camera application.     *)
AnswerYes == AskAnswered /\ queue' = UpdateMotor(queue, "open")
AnswerNo  == AskAnswered /\ UNCHANGED queue

(* A fault: the poller runs once, and gives up when the motor is busy.     *)
PollGivesUp ==
  /\ Due("poll")
  /\ queue' = IF mMotorBusy THEN Taken(queue)
              ELSE Post(Taken(queue), 0, Msg("run", Arg))
  /\ UNCHANGED <<halVars, svc, nap, notifier, cameraVars, screenVars, calibVars,
                 mMotor, mMotorBusy, armed, ledVars, errorVars, askVars, stray,
                 budget>>

(* The poller: again later while the motor is busy, else the closure r.    *)
Poll ==
  /\ Due("poll")
  /\ LET m == Request(Arg)
     IN  queue' = Post(Taken(queue), RequestDelay(m), m)
  /\ UNCHANGED <<halVars, svc, nap, notifier, cameraVars, screenVars, calibVars,
                 mMotor, mMotorBusy, armed, ledVars, errorVars, askVars, stray,
                 budget>>

(***************************************************************************)
(* The closure r of updateMotor.                                           *)
(***************************************************************************)
MayRaise == status \in Lowered
(* A fault: a takeback is repeated.                                        *)
MayLowerAgain == status \in {"POPUP_OK", "TAKEBACK_OK"}
MayLower == status = "POPUP_OK"

(* A fault: the LED is saved although an effect is still on.               *)
LightUpSavesAlways(allowed) ==
  /\ led' = IF allowed THEN "effect" ELSE led
  /\ mLed' = IF allowed THEN led ELSE mLed
  /\ mLedBusy' = (mLedBusy \/ allowed)

(* lightUp on the main thread, and the queue it leaves: the LED is saved   *)
(* unless the effect of an earlier motion is still on.                     *)
LightUp(allowed) ==
  /\ led' = IF allowed THEN "effect" ELSE led
  /\ mLed' = IF allowed /\ ~mLedBusy THEN led ELSE mLed
  /\ mLedBusy' = (mLedBusy \/ allowed)
Lit(q, allowed) == IF allowed THEN Post(q, LedDelay, Msg("ledOff", "none")) ELSE q

(* A fault: the window lasts as long as the light effect.                  *)
BusyWhileLit(q) ==
  /\ mMotorBusy' = TRUE
  /\ queue' = Post(q, LedDelay, Msg("busyOff", "none"))

(* The busy window of a motion that starts, or fails to.                   *)
BusyFrom(q) ==
  /\ mMotorBusy' = TRUE
  /\ queue' = Post(q, BusyDelay, Msg("busyOff", "none"))

runUnchanged == <<svc, nap, notifier, cameraVars, screenVars, calibVars, askVars>>

RunRaise ==
  /\ Due("run") /\ Arg = "open" /\ mMotor["service"] = "live" /\ MayRaise
  /\ \E allowed \in LedAllowed :
       LightUp(allowed) /\ BusyFrom(Lit(Taken(queue), allowed))
  /\ Move("up")
  /\ armed' = TRUE
  /\ UNCHANGED <<runUnchanged, mMotor, errorVars, stray, budget>>

RunLower ==
  /\ Due("run") /\ Arg = "closed" /\ mMotor["service"] = "live" /\ MayLower
  /\ \E allowed \in LedAllowed :
       LightUp(allowed) /\ BusyFrom(Lit(Taken(queue), allowed))
  /\ Move("down")
  /\ armed' = FALSE /\ stray' = FALSE
  /\ UNCHANGED <<runUnchanged, mMotor, errorVars, budget>>

(* showErrorDialog on the main thread: nothing while a dialog is up.       *)
Complain(q, w, a) ==
  /\ mErrorDialogShowing' = TRUE
  /\ queue' = IF mErrorDialogShowing THEN q ELSE Post(q, 0, Msg(w, a))

(* A fault: a refused request leaves the motor busy.                       *)
RunRefusedStaysBusy ==
  /\ Due("run") /\ mMotor["service"] = "live"
  /\ ~(Arg = "open" /\ MayRaise) /\ ~(Arg = "closed" /\ MayLower)
  /\ mMotorBusy' = TRUE
  /\ queue' = Taken(queue)
  /\ UNCHANGED <<halVars, runUnchanged, mMotor, armed, ledVars, errorVars, stray,
                 budget>>

(* The status does not fit the request: the request is dropped, and the    *)
(* motor is taken to be free, whatever it is doing.                        *)
RunRefused ==
  /\ Due("run") /\ mMotor["service"] = "live"
  /\ ~(Arg = "open" /\ MayRaise) /\ ~(Arg = "closed" /\ MayLower)
  /\ mMotorBusy' = FALSE
  /\ IF status \in Broken THEN Complain(Taken(queue), "error", status)
     ELSE queue' = Taken(queue) /\ UNCHANGED mErrorDialogShowing
  /\ UNCHANGED <<halVars, runUnchanged, mMotor, armed, ledVars, dialogs, stray,
                 budget>>

(* A fault: the handler of the exception returns.                          *)
RunFailsReturns ==
  /\ Due("run") /\ mMotor["service"] = "dead"
  /\ mMotorBusy' = TRUE
  /\ queue' = Taken(queue)
  /\ UNCHANGED <<halVars, runUnchanged, mMotor, armed, ledVars, errorVars, stray,
                 budget>>

(* RemoteException: getMotorStatus fails, or the HAL dies in between and   *)
(* the motion fails after the light effect has begun.                      *)
RunFails ==
  /\ Due("run")
  /\ \/ /\ mMotor["service"] = "dead"
        /\ UNCHANGED <<ledVars, mMotor, halVars, budget>>
        /\ BusyFrom(Taken(queue))
     \/ /\ mMotor["service"] = "live" /\ Spend("hal")
        /\ (Arg = "open" /\ MayRaise) \/ (Arg = "closed" /\ MayLower)
        /\ \E allowed \in LedAllowed :
             LightUp(allowed) /\ BusyFrom(Lit(Taken(queue), allowed))
        /\ mMotor' = [o \in Objects |-> IF mMotor[o] = "live" THEN "dead"
                                        ELSE mMotor[o]]
        /\ CallbackLost
  /\ UNCHANGED <<runUnchanged, armed, errorVars, stray>>

(* A fault: the motor stays busy while a request waits for it.             *)
BusyOffUnlessAwaited ==
  /\ Due("busyOff")
  /\ mMotorBusy' = HasMessages(queue, "poll")
  /\ queue' = Taken(queue)
  /\ UNCHANGED <<halVars, runUnchanged, mMotor, armed, ledVars, errorVars, stray,
                 budget>>

(* mMotorBusy = false, 1200 ms after a motion.                             *)
BusyOff ==
  /\ Due("busyOff")
  /\ mMotorBusy' = FALSE
  /\ queue' = Taken(queue)
  /\ UNCHANGED <<halVars, runUnchanged, mMotor, armed, ledVars, errorVars, stray,
                 budget>>

(* A fault: a dark LED is not restored.                                    *)
LedRestoreOnlyLit ==
  /\ Due("ledOff")
  /\ led' = IF mLed = "off" THEN led ELSE mLed
  /\ mLedBusy' = FALSE
  /\ queue' = Taken(queue)
  /\ UNCHANGED <<halVars, runUnchanged, mMotor, mMotorBusy, armed, mLed,
                 errorVars, stray, budget>>

(* The end of a light effect: what was saved is shown again.               *)
LedRestore ==
  /\ Due("ledOff")
  /\ led' = mLed
  /\ mLedBusy' = FALSE
  /\ queue' = Taken(queue)
  /\ UNCHANGED <<halVars, runUnchanged, mMotor, mMotorBusy, armed, mLed,
                 errorVars, stray, budget>>

(* A fault: the listener is given up though the takeback has failed.       *)
FreeFallUnregisters ==
  /\ Running /\ armed /\ Spend("fall")
  /\ armed' = FALSE
  /\ IF mMotor["service"] = "live" THEN Move("down") /\ stray' = FALSE
     ELSE UNCHANGED <<halVars, stray>>
  /\ UNCHANGED <<queue, runUnchanged, mMotor, mMotorBusy, ledVars, errorVars>>

(* mFreeFallListener: the phone falls while the camera is up.              *)
FreeFall ==
  /\ Running /\ armed /\ Spend("fall")
  /\ IF mMotor["service"] = "live"
     THEN Move("down") /\ armed' = FALSE /\ stray' = FALSE
     ELSE UNCHANGED <<halVars, armed, stray>>
  /\ UNCHANGED <<queue, runUnchanged, mMotor, mMotorBusy, ledVars, errorVars>>

(***************************************************************************)
(* The motor's notifications, on a binder thread that holds mLock.         *)
(***************************************************************************)
(* onNotify looks at a field of the main thread and decides.               *)
NotifyBegin ==
  /\ notifs # << >> /\ notifier = NoMessage
  /\ notifs' = Tail(notifs)
  /\ LET s == Head(notifs) IN
     notifier' =
       IF s = "PRESSED" THEN Request("closed")
       ELSE IF mErrorDialogShowing THEN NoMessage
       ELSE Msg(IF s \in Jammed THEN "error" ELSE "result", s)
  /\ UNCHANGED <<status, motion, left, callback, svc, nap, queue, cameraVars,
                 screenVars, calibVars, mMotor, mMotorBusy, armed, ledVars,
                 errorVars, askVars, stray, budget>>

(* ... and posts what it has decided.                                      *)
NotifyPost ==
  /\ notifier # NoMessage
  /\ queue' = Post(queue, RequestDelay(notifier), notifier)
  /\ mErrorDialogShowing' = (mErrorDialogShowing
                              \/ notifier.what \in {"error", "result"})
  /\ notifier' = NoMessage
  /\ UNCHANGED <<halVars, svc, nap, cameraVars, screenVars, calibVars, mMotor,
                 mMotorBusy, armed, ledVars, dialogs, askVars, stray, budget>>

(* The closure of showErrorDialog.  It compares the constant "-1" with     *)
(* CLOSE_CAMERA_STATE, so the text is always that of a failed popup.       *)
ErrorText(s) == "popup_failed"

(* The closure of showCalibrationResult.                                   *)
ResultText(s) == IF mMotorCalibrating["service"] THEN "running"
                 ELSE IF s = "CALIB_OK" THEN "success" ELSE "failed"

Show(text) ==
  /\ dialogs' = [dialogs EXCEPT ![text] = @ + 1]
  /\ queue' = Taken(queue)
  /\ UNCHANGED <<halVars, runUnchanged, mMotor, mMotorBusy, armed, ledVars,
                 mErrorDialogShowing, stray, budget>>

ShowError  == Due("error") /\ Show(ErrorText(Arg))
ShowResult == Due("result") /\ Show(ResultText(Arg))

(* A fault: no listener clears mErrorDialogShowing.                        *)
DismissForgets(text) ==
  /\ Running /\ dialogs[text] > 0
  /\ dialogs' = [dialogs EXCEPT ![text] = @ - 1]
  /\ UNCHANGED mErrorDialogShowing

(* The listener set on each of those dialogs.                              *)
Dismiss(text) ==
  /\ Running /\ dialogs[text] > 0
  /\ dialogs' = [dialogs EXCEPT ![text] = @ - 1]
  /\ mErrorDialogShowing' = FALSE

DialogClosed ==
  /\ \E text \in Texts : Dismiss(text)
  /\ UNCHANGED <<halVars, queue, runUnchanged, mMotor, mMotorBusy, armed, ledVars,
                 stray, budget>>

(***************************************************************************)
(* Calibration.                                                            *)
(***************************************************************************)
(* A fault: the handler of the exception returns, the flag set.            *)
CalibrateMotorReturns(o) ==
  /\ ~mMotorCalibrating[o]
  /\ mMotorCalibrating' = [mMotorCalibrating EXCEPT ![o] = TRUE]
  /\ Spend("calibrate")
  /\ IF mMotor[o] = "dead" THEN UNCHANGED <<halVars, mMotor, queue>>
     ELSE /\ Move("calib") /\ mMotor' = [mMotor EXCEPT ![o] = "live"]
          /\ queue' = Post(queue, CalibDelay, Msg("calibOff", o))

(* calibrateMotor of service object o.                                     *)
CalibrateMotor(o) ==
  /\ o = "service" => notifier = NoMessage     \* mLock
  /\ \/ /\ mMotorCalibrating[o]
        /\ UNCHANGED <<halVars, mMotor, mMotorCalibrating, queue, budget>>
     \/ /\ ~mMotorCalibrating[o] /\ mMotor[o] = "null" /\ Spend("hal")
        /\ UNCHANGED <<halVars, mMotor, mMotorCalibrating, queue>>
     \/ /\ ~mMotorCalibrating[o]
        /\ IF mMotor[o] = "dead" THEN UNCHANGED <<halVars, mMotor>>
           ELSE Move("calib") /\ mMotor' = [mMotor EXCEPT ![o] = "live"]
        /\ mMotorCalibrating' = [mMotorCalibrating EXCEPT ![o] = TRUE]
        /\ queue' = Post(queue, CalibDelay, Msg("calibOff", o))
        /\ Spend("calibrate")     \* bound

(* "Calibrate" in the error dialog.                                        *)
DialogCalibrate ==
  /\ Dismiss(ErrorText("any"))
  /\ CalibrateMotor("service")
  /\ UNCHANGED <<svc, nap, notifier, cameraVars, screenVars, pages, mMotorBusy,
                 armed, ledVars, askVars, stray>>

(* The settings page constructs a service object of its own ...            *)
OpenPage ==
  /\ Running /\ budget["calibrate"] > 0     \* bound
  /\ \E p \in Pages \ pages : pages' = pages \cup {p}
  /\ UNCHANGED <<halVars, svc, nap, queue, notifier, cameraVars, screenVars,
                 mMotorCalibrating, mMotor, mMotorBusy, armed, ledVars, errorVars,
                 askVars, stray, budget>>

(* ... and calibrates with it, once the user has confirmed.                *)
PageCalibrate ==
  /\ Running
  /\ \E p \in pages : CalibrateMotor(p)
  /\ UNCHANGED <<svc, nap, notifier, cameraVars, screenVars, pages, mMotorBusy,
                 armed, ledVars, errorVars, askVars, stray>>

(* A fault: the closure clears the flag of the service, whoever posted it. *)
CalibOffOfService ==
  /\ Due("calibOff")
  /\ mMotorCalibrating' = [mMotorCalibrating EXCEPT !["service"] = FALSE]
  /\ queue' = Taken(queue)
  /\ UNCHANGED <<halVars, svc, nap, notifier, cameraVars, screenVars, pages, askVars,
                 mMotor, mMotorBusy, armed, ledVars, errorVars, stray, budget>>

(* mMotorCalibrating = false of the object that posted it.                 *)
CalibOff ==
  /\ Due("calibOff")
  /\ mMotorCalibrating' = [mMotorCalibrating EXCEPT ![Arg] = FALSE]
  /\ queue' = Taken(queue)
  /\ UNCHANGED <<halVars, svc, nap, notifier, cameraVars, screenVars, pages, askVars,
                 mMotor, mMotorBusy, armed, ledVars, errorVars, stray, budget>>

(***************************************************************************)
(* The screen, and the rest of the environment.                            *)
(***************************************************************************)
ScreenSwitched ==
  /\ Spend("screen")
  /\ screenOn' = ~screenOn
  /\ queue' = IF svc = "dead" THEN queue
              ELSE Post(queue, 0, Msg("screen", IF screenOn THEN "off" ELSE "on"))
  /\ UNCHANGED <<halVars, svc, nap, notifier, cameraVars, mScreenOn, calibVars,
                 mMotor, mMotorBusy, armed, ledVars, errorVars, askVars, stray>>

(* mIntentReceiver.                                                        *)
HandleScreen ==
  /\ Due("screen")
  /\ mScreenOn' = (Arg = "on")
  /\ queue' = Taken(queue)
  /\ UNCHANGED <<halVars, svc, nap, notifier, cameraVars, screenOn, calibVars,
                 mMotor, mMotorBusy, armed, ledVars, errorVars, askVars, stray,
                 budget>>

(* The looper steps over what was removed.                                 *)
StepOver ==
  /\ Due("none")
  /\ queue' = Taken(queue)
  /\ UNCHANGED <<halVars, runUnchanged, mMotor, mMotorBusy, armed, ledVars,
                 errorVars, stray, budget>>

environmentUnchanged ==
  <<svc, nap, queue, notifier, cameraVars, screenVars, calibVars, mMotorBusy,
    armed, errorVars, askVars, stray>>

MotionDone ==
  /\ \/ MotionEnds(EndsWell(motion)) /\ UNCHANGED budget
     \/ MotionEnds(EndsBadly(motion)) /\ Spend("jam")
  /\ UNCHANGED <<environmentUnchanged, mMotor, ledVars>>

CameraPushed ==
  /\ Pushed /\ Spend("push")
  /\ UNCHANGED <<environmentUnchanged, mMotor, ledVars>>

(* The motor HAL dies and is started again: old proxies are dead.          *)
HalDies ==
  /\ Spend("hal")
  /\ mMotor' = [o \in Objects |-> IF mMotor[o] = "live" THEN "dead" ELSE mMotor[o]]
  /\ CallbackLost
  /\ UNCHANGED <<environmentUnchanged, ledVars>>

(* The lights HAL writes the LED for a notification or the battery.        *)
LightWritten ==
  /\ Spend("light")
  /\ led' \in UserLights \ {led}
  /\ UNCHANGED <<environmentUnchanged, halVars, mMotor, mLedBusy, mLed>>

(* Nothing that is due waits for a thread.                                 *)
Idle ==
  /\ Running => queue[0] = << >>
  /\ svc = "creating" => nap > 0
  /\ notifier = NoMessage /\ notifs = << >>

Older(age) == IF age < AgeCap THEN age + 1 ELSE age

Tick ==
  /\ Punctual => Idle
  /\ motion # "none" => left > 0
  /\ left' = IF left > 0 THEN left - 1 ELSE 0
  /\ nap' = IF nap > 0 THEN nap - 1 ELSE 0
  /\ queue' = Advanced(queue)
  /\ sinceOpen' = Older(sinceOpen) /\ sinceClosed' = Older(sinceClosed)
  /\ UNCHANGED <<status, motion, callback, notifs, svc, notifier, camera, handled,
                 screenVars, calibVars, mMotor, mMotorBusy, armed, ledVars,
                 errorVars, askVars, stray, budget>>

MainThread ==
  \/ Create \/ CreateDone
  \/ HandleClosed \/ HandleOpen \/ Poll
  \/ RunRaise \/ RunLower \/ RunRefused \/ RunFails
  \/ BusyOff \/ LedRestore \/ ShowError \/ ShowResult \/ CalibOff
  \/ HandleScreen \/ StepOver

BinderThread == NotifyBegin \/ NotifyPost

Environment ==
  \/ OnCameraOpened \/ OnCameraClosed \/ FreeFall
  \/ AnswerYes \/ AnswerNo \/ DialogClosed \/ DialogCalibrate
  \/ OpenPage \/ PageCalibrate
  \/ ScreenSwitched \/ CameraPushed \/ HalDies \/ LightWritten \/ Die

Next == MainThread \/ BinderThread \/ Environment \/ MotionDone \/ Tick

(* The looper, the binder thread and the motor get on with what is theirs, *)
(* and time passes; the user and the system need not do anything.          *)
Fairness ==
  /\ WF_vars(MainThread) /\ WF_vars(BinderThread)
  /\ WF_vars(MotionDone) /\ WF_vars(Tick)

Spec == Init /\ [][Next]_vars
FairSpec == Spec /\ Fairness

(***************************************************************************)
(* What the service promises.                                              *)
(***************************************************************************)
(* The motor cannot stay busy for ever: whenever mMotorBusy is set, the    *)
(* closure that clears it is waiting (updateMotor, whatever fails there).  *)
BusyBacked == mMotorBusy => HasMessages(queue, "busyOff")

(* The light effect owns the LED only while mLedBusy is set, it is going   *)
(* to be ended, and it is never saved as if it were the user's own LED     *)
(* (lightUp, with any number of overlapping effects).                      *)
LedSound ==
  /\ led = "effect" => mLedBusy
  /\ mLedBusy => HasMessages(queue, "ledOff")
  /\ mLed # "effect"

(* A camera that is raised, or rising, is guarded against a fall, unless a *)
(* process now dead had raised it (updateMotor, mFreeFallListener).        *)
ProtectedWhileUp == MotorUp => armed \/ stray

(* However reports, withdrawals and delays interleave, the last report is  *)
(* the one that is acted on (availabilityCallback, handleMessage).         *)
LatestEventWins ==
  Running /\ ~HasMessages(queue, "open") /\ ~HasMessages(queue, "closed")
    => handled = camera

(* mErrorDialogShowing is never left set without a dialog to clear it: one *)
(* is on the screen or on its way there (showErrorDialog and               *)
(* showCalibrationResult, on two threads without a common lock).           *)
DialogBacked ==
  mErrorDialogShowing =>
    \/ HasMessages(queue, "error") \/ HasMessages(queue, "result")
    \/ \E t \in Texts : dialogs[t] > 0

(* A service object that refuses to calibrate because it is calibrating    *)
(* will stop to: its own closure is waiting (calibrateMotor).              *)
CalibrationBacked ==
  \A o \in Objects : mMotorCalibrating[o] => IsQueued(queue, Msg("calibOff", o))

(* The question whether to raise the camera is on the screen only while    *)
(* the camera is wanted (handleMessage).                                   *)
QuestionIsFresh == mAlertDialog = "showing" => handled = "open"

(* Only a fall turns a raise into a takeback: a camera that is closed in   *)
(* the meantime finds a status that does not fit (updateMotor: the status  *)
(* is still that of the motion before).                                    *)
OnlyFallsReverse == [][motion = "up" /\ motion' = "down" => FreeFall]_vars

(* The reports on their way to handleMessage, the question on the screen,  *)
(* the pushes on their way to onNotify, the requests on their way to r.    *)
Waiting == {s \in States : HasMessages(queue, s)}
Asked   == mAlertDialog = "showing" \/ orphans > 0
Pressed == \E i \in 1..Len(notifs) : notifs[i] = "PRESSED"
IsWished(s) ==
  \E w \in {"run", "poll"} : IsQueued(queue, Msg(w, s)) \/ notifier = Msg(w, s)
Wishes  == {s \in States : IsWished(s)}

(* All of the queue, its delays, pollers and windows amount to this: no    *)
(* motion without a wish, and no wish lost (MotorControl).                 *)
Control == INSTANCE MotorControl WITH
  waiting <- Waiting, asked <- Asked, pressed <- Pressed, wishes <- Wishes,
  proxy <- mMotor["service"]
MotorIsControlled == Control!Spec

(* mMotorBusy is cleared again; every poller gets its turn; a light effect *)
(* ends; a service object calibrates again.                                *)
BusyEnds        == mMotorBusy ~> ~mMotorBusy
RequestsRun     == HasMessages(queue, "poll") ~> ~HasMessages(queue, "poll")
EffectEnds      == led = "effect" ~> led # "effect"
CalibrationEnds == \A o \in Objects : mMotorCalibrating[o] ~> ~mMotorCalibrating[o]

(* Whatever a burst of camera reports has done to the requests in between, *)
(* a last report after a pause is obeyed by a motor that works: it ends up *)
(* where that report wants it (updateMotor, its pollers and refusals).     *)
MotorFollows ==
  /\ motion = "none"
  /\ IF camera = "open" THEN status = "POPUP_OK" ELSE status \in Lowered
LastReportObeyed ==
  budget["calibrate"] = 0 => <>[](budget["camera"] = 0 => MotorFollows)

(* Nothing happens but reports, further apart than the busy window, and    *)
(* lights; the motor is fit and needs less than the window.                *)
Calm ==
  /\ Punctual /\ AlwaysOn = {FALSE}
  /\ EventDelay < BusyDelay /\ MotionTime < BusyDelay
  /\ BusyDelay < LastGap /\ BusyDelay < budget["gap"]
  /\ status \in Lowered \cup {"POPUP_OK", "TAKEBACK_JAMMED"}
  /\ \A e \in Events \ {"camera", "light"} : budget[e] = 0

(* Then every report is obeyed, not only the last one, and in time: the    *)
(* motor is where the report wants it as soon as the event delay and the   *)
(* time of one motion have passed.                                         *)
Age == IF camera = "open" THEN sinceOpen ELSE sinceClosed
ObeyedInTime ==
  Calm => [](Running /\ Age > EventDelay + MotionTime => MotorFollows)

(***************************************************************************)
(* What texts and comments of the repository say, and the code does not do *)
(***************************************************************************)
(* "Front camera cannot be used during calibration." (strings.xml:38) is   *)
(* shown only while the motor calibrates.                                  *)
RunningTextWhileRunning ==
  [][dialogs'["running"] > dialogs["running"] => motion = "calib"]_vars

(* "Unmark the LED as busy since our effect is done"                       *)
(* (PopupCameraService.java:356): while the LED is free no effect has its  *)
(* end to come.                                                            *)
FreeLedHasNoEffect == ~mLedBusy => ~HasMessages(queue, "ledOff")
=============================================================================
