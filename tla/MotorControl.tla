---------------------------- MODULE MotorControl ----------------------------
(***************************************************************************)
(* What the user of the popup camera may rely on, whatever queues, delays, *)
(* pollers and busy windows PopupCameraService puts in between: the motor  *)
(* moves for somebody's wish that fits its status, to end a fall, to be    *)
(* calibrated, or to be lowered when the service starts, and for nothing   *)
(* else.  A wish comes from a report of the camera manager, from an answer *)
(* of the user or from a push, and it stays until the motor obeys it, its  *)
(* status does not fit, or a call fails.  Only a report withdraws a report.*)
(***************************************************************************)
EXTENDS Naturals

VARIABLES
  waiting,  \* reports that have not been handled
  asked,    \* the user is asked whether to raise the camera
  pressed,  \* a push has not been handled
  wishes,   \* what is wanted of the motor
  proxy,    \* how the motor is reached: not at all, well, or no more
  status,   \* how its last motion ended
  motion    \* what it is doing

motor == <<status, motion>>
vars  == <<waiting, asked, pressed, wishes, proxy, motor>>

States   == {"open", "closed"}
Statuses == {"POPUP_OK", "POPUP_JAMMED", "TAKEBACK_OK", "TAKEBACK_JAMMED",
             "CALIB_OK", "CALIB_ERROR", "REQUEST_CALIB"}
Fits(s) == IF s = "open" THEN status \in {"TAKEBACK_OK", "CALIB_OK"}
           ELSE status = "POPUP_OK"
MotionFor(s) == IF s = "open" THEN "up" ELSE "down"

(* One x less, or there has been a second one.                             *)
Without(S, x) == {S \ {x}, S}

Init ==
  /\ waiting = {} /\ ~asked /\ ~pressed /\ wishes = {}
  /\ proxy = "null" /\ status \in Statuses /\ motion = "none"

Start ==
  /\ proxy = "null" /\ proxy' \in {"null", "live", "dead"}
  /\ motion' = IF proxy' = "live" /\ status \in {"POPUP_OK", "TAKEBACK_JAMMED"}
               THEN "down" ELSE motion
  /\ UNCHANGED <<waiting, asked, pressed, wishes, status>>

Crash ==
  /\ proxy' = "null" /\ waiting' = {} /\ ~asked' /\ ~pressed' /\ wishes' = {}
  /\ UNCHANGED motor

(* A report, which may withdraw the ones for the other state.              *)
Report(s) ==
  /\ waiting' \in {waiting \cup {s}, {s}}
  /\ UNCHANGED <<asked, pressed, wishes, proxy, motor>>

Wish(s) == wishes' = IF proxy = "null" THEN wishes ELSE wishes \cup {s}

(* A report is handled: it becomes a wish, or the user is asked.           *)
HandleReport(s) ==
  /\ s \in waiting /\ waiting' \in Without(waiting, s)
  /\ \/ s = "open" /\ asked' /\ UNCHANGED wishes
     \/ s = "open" /\ UNCHANGED asked /\ Wish(s)
     \/ s = "closed" /\ (asked' => asked) /\ Wish(s)
  /\ UNCHANGED <<pressed, proxy, motor>>

Answer ==
  /\ asked /\ asked' \in BOOLEAN
  /\ Wish("open") \/ UNCHANGED wishes
  /\ UNCHANGED <<waiting, pressed, proxy, motor>>

Push ==
  /\ motion = "none" /\ status = "POPUP_OK" /\ pressed'
  /\ UNCHANGED <<waiting, asked, wishes, proxy, motor>>

HandlePush ==
  /\ pressed /\ pressed' \in BOOLEAN
  /\ wishes' = wishes \cup {"closed"}
  /\ UNCHANGED <<waiting, asked, proxy, motor>>

(* The motor obeys a wish, which fits.                                     *)
Obey(s) ==
  /\ proxy = "live" /\ Fits(s)
  /\ motion' = MotionFor(s)
  /\ s \in wishes /\ wishes' \in Without(wishes, s)
  /\ UNCHANGED <<waiting, asked, pressed, proxy, status>>

Refuse(s) ==
  /\ proxy = "live" /\ ~Fits(s)
  /\ s \in wishes /\ wishes' \in Without(wishes, s)
  /\ UNCHANGED <<waiting, asked, pressed, proxy, motor>>

(* The call fails, and no push is heard of any more.                       *)
Fail(s) ==
  /\ proxy # "null" /\ proxy' = "dead"
  /\ s \in wishes /\ wishes' \in Without(wishes, s)
  /\ pressed' => pressed
  /\ UNCHANGED <<waiting, asked, motor>>

HalLost ==
  /\ ~pressed' /\ proxy' = IF proxy = "live" THEN "dead" ELSE proxy
  /\ UNCHANGED <<waiting, asked, wishes, motor>>

Fall ==
  /\ proxy = "live" /\ motion' = "down"
  /\ UNCHANGED <<waiting, asked, pressed, wishes, proxy, status>>

(* By the service, or by a settings page with a proxy of its own.          *)
Calibrate ==
  /\ motion' = "calib"
  /\ proxy' \in {proxy, IF proxy = "null" THEN "live" ELSE proxy}
  /\ UNCHANGED <<waiting, asked, pressed, wishes, status>>

(* A motion ends, well or badly.                                           *)
Arrive ==
  /\ motion' = "none"
  /\ status' \in CASE motion = "up"    -> {"POPUP_OK", "POPUP_JAMMED"}
                   [] motion = "down"  -> {"TAKEBACK_OK", "TAKEBACK_JAMMED"}
                   [] motion = "calib" -> {"CALIB_OK", "CALIB_ERROR"}
                   [] OTHER            -> {}
  /\ UNCHANGED <<waiting, asked, pressed, wishes, proxy>>

Next ==
  \/ Start \/ Crash
  \/ \E s \in States : Report(s) \/ HandleReport(s) \/ Obey(s) \/ Refuse(s) \/ Fail(s)
  \/ Answer \/ Push \/ HandlePush
  \/ HalLost \/ Fall \/ Calibrate \/ Arrive

Spec == Init /\ [][Next]_vars
=============================================================================
