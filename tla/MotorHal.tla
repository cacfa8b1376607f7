------------------------------ MODULE MotorHal ------------------------------
(***************************************************************************)
(* The motor service vendor.xiaomi.hardware.motor@1.0 as the callers in    *)
(* this repository see it (its implementation is a vendor blob): a status  *)
(* that tells how the last motion ended, one motion at a time, and         *)
(* notifications of the statuses PopupCameraService.onNotify acts on.      *)
(*                                                                         *)
(* The calls return before the motor has moved.  While it moves the status *)
(* is still the one of the motion before: the service's own 1200 ms window *)
(* (mMotorBusy) exists because of that.                                    *)
(***************************************************************************)
EXTENDS Integers, Sequences

CONSTANTS MotionTime,  \* ticks a popup or a takeback takes at most
          CalibTime    \* ticks a calibration takes at most

ASSUME MotionAssumption == {MotionTime, CalibTime} \subseteq Nat \ {0}

VARIABLES status,    \* what getMotorStatus answers
          motion,    \* what the motor is doing
          left,      \* ticks before the motion must have ended
          callback,  \* a callback of a live process is registered
          notifs     \* notifications on their way to that callback

halVars == <<status, motion, left, callback, notifs>>

Statuses == {"POPUP_OK", "POPUP_JAMMED", "TAKEBACK_OK", "TAKEBACK_JAMMED",
             "CALIB_OK", "CALIB_ERROR", "REQUEST_CALIB"}

(* The statuses after which the motor may be raised, and after which it    *)
(* needs the user.                                                         *)
Lowered == {"TAKEBACK_OK", "CALIB_OK"}
Jammed  == {"POPUP_JAMMED", "TAKEBACK_JAMMED"}
Broken  == Jammed \cup {"CALIB_ERROR", "REQUEST_CALIB"}

Notified == Jammed \cup {"CALIB_OK", "CALIB_ERROR", "PRESSED"}
Motions  == {"none", "up", "down", "calib"}

HalTypeOK ==
  /\ status \in Statuses
  /\ motion \in Motions
  /\ left \in Nat
  /\ callback \in BOOLEAN
  /\ notifs \in Seq(Notified)

(* How a motion can end: well, or not.                                     *)
EndsWell(m) == CASE m = "up" -> "POPUP_OK"
                 [] m = "down" -> "TAKEBACK_OK"
                 [] OTHER -> "CALIB_OK"
EndsBadly(m) == CASE m = "up" -> "POPUP_JAMMED"
                  [] m = "down" -> "TAKEBACK_JAMMED"
                  [] OTHER -> "CALIB_ERROR"

(* How long a motion may take.                                             *)
TimeFor(m) == IF m = "calib" THEN CalibTime ELSE MotionTime

(* popupMotor, takebackMotor, takebackMotorShortly and calibration: the    *)
(* last command wins.                                                      *)
Move(m) ==
  /\ motion' = m
  /\ left' = TimeFor(m)
  /\ UNCHANGED <<status, callback, notifs>>

Notify(s) == notifs' = IF callback /\ s \in Notified THEN Append(notifs, s)
                       ELSE notifs

(* The motion ends with status s; no motion takes no time.                 *)
MotionEnds(s) ==
  /\ motion # "none" /\ left < TimeFor(motion)
  /\ status' = s
  /\ motion' = "none"
  /\ left' = 0
  /\ Notify(s)
  /\ UNCHANGED callback

(* The user pushes the raised camera down: the sensor reports it, and the  *)
(* status stays what it is.                                                *)
Pushed ==
  /\ status = "POPUP_OK"
  /\ motion = "none"
  /\ Notify("PRESSED")
  /\ UNCHANGED <<status, motion, left, callback>>

(* The registered callback's process is gone, or the HAL's own is.         *)
CallbackLost ==
  /\ callback' = FALSE
  /\ notifs' = << >>
  /\ UNCHANGED <<status, motion, left>>
=============================================================================
