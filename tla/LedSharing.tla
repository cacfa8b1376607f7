----------------------------- MODULE LedSharing -----------------------------
(***************************************************************************)
(* The two processes that write the LEDs, file by file: the lights HAL and *)
(* the popup camera service, whose lightUp plays an effect on them, having *)
(* saved what they showed, and restores that 1400 ms later.  They share no *)
(* lock.  lightUp and the closure that restores are code of one thread.    *)
(***************************************************************************)
EXTENDS Lights

CONSTANT MaxPending   \* bound: effects not restored yet

ASSUME PendingAssumption == MaxPending \in Nat

VARIABLES
  reads,           \* reads left of the lightUp the service is in
  popupWrites,     \* writes left of its lightUp or of its closure
  pending,         \* closures posted and not run yet
  mLedBusy, mLedBreathing, mLedBrightness,
  wanted,          \* history: what the lights set ask of the green LED
  clash,           \* history: since they were set an effect has overlapped
  blinked          \* history: a light that blinks has been set

popupVars == <<reads, popupWrites, pending, mLedBusy, mLedBreathing, mLedBrightness>>
vars == <<lightsVars, popupVars, wanted, clash, blinked>>

PopupIdle == reads = 0 /\ popupWrites = << >>
NoEffect  == PopupIdle /\ pending = 0

(* A lit notification comes first, then the battery; a light that blinks   *)
(* breathes, another one is steady.                                        *)
Shows(states) ==
  LET s == IF IsLit(states["NOTIFICATIONS"].color) THEN states["NOTIFICATIONS"]
           ELSE states["BATTERY"]
  IN  [breath     |-> IF Blinks(s) THEN 1 ELSE 0,
       brightness |-> IF Blinks(s) THEN MaxLed ELSE LedBrightness(s.color)]

(* setLed: the file of both LEDs.                                          *)
SetLed(file, v) == <<WriteTo("green", file, v), WriteTo("blue", file, v)>>

(* lightUp, after the LED has been saved.                                  *)
EffectWrites(open) ==
  SetLed("breath", 0) \o SetLed("brightness", 0)
    \o SetLed("lo_idx", IF open THEN 0 ELSE 22)
    \o SetLed("pause_lo_count", IF open THEN 5 ELSE 0)
    \o SetLed("step_ms", 35) \o SetLed("lut_pattern", 1) \o SetLed("breath", 1)

(* The closure that ends the effect.                                       *)
RestoreWrites ==
  SetLed("brightness", 0)
    \o SetLed("lo_idx", 0) \o SetLed("pause_lo_count", 30) \o SetLed("step_ms", 70)
    \o <<IF mLedBreathing THEN WriteTo("green", "breath", 1)
         ELSE WriteTo("green", "brightness", mLedBrightness)>>

Init ==
  /\ LightsInit
  /\ reads = 0 /\ popupWrites = << >> /\ pending = 0
  /\ mLedBusy = FALSE /\ mLedBreathing = FALSE /\ mLedBrightness = 0
  /\ wanted = [breath |-> 0, brightness |-> 0]
  /\ clash = FALSE /\ blinked = FALSE

ClientSets ==
  /\ \E id \in Ids, s \in LightStates : SetLightState(id, s)
  /\ wanted' = Shows(notif_states')
  /\ clash' = ~NoEffect
  /\ blinked' = (blinked \/ wanted'.breath = 1)
  /\ UNCHANGED popupVars

HalWrites == HalWrite /\ UNCHANGED <<popupVars, wanted, clash, blinked>>

(* A fault: the LED is saved again while an effect is on.                  *)
LightUpSavesAgain(open) ==
  /\ PopupIdle /\ pending < MaxPending
  /\ reads' = 2
  /\ mLedBusy' = TRUE
  /\ popupWrites' = EffectWrites(open)
  /\ pending' = pending + 1
  /\ UNCHANGED <<mLedBreathing, mLedBrightness>>

(* lightUp begins: unless the service's own effect is on, what the LED     *)
(* shows is saved first, breath and brightness one after the other.        *)
LightUp(open) ==
  /\ PopupIdle /\ pending < MaxPending
  /\ reads' = IF mLedBusy THEN 0 ELSE 2
  /\ mLedBusy' = TRUE
  /\ popupWrites' = EffectWrites(open)
  /\ pending' = pending + 1
  /\ UNCHANGED <<mLedBreathing, mLedBrightness>>

EffectStarts ==
  /\ \E open \in BOOLEAN : LightUp(open)
  /\ clash' = (clash \/ halWrites # << >>)
  /\ UNCHANGED <<lightsVars, wanted, blinked>>

ReadBreath ==
  /\ reads = 2 /\ reads' = 1
  /\ mLedBreathing' = (leds["green"]["breath"] = 1)
  /\ UNCHANGED <<lightsVars, popupWrites, pending, mLedBusy, mLedBrightness, wanted,
                 clash, blinked>>

ReadBrightness ==
  /\ reads = 1 /\ reads' = 0
  /\ mLedBrightness' = leds["green"]["brightness"]
  /\ UNCHANGED <<lightsVars, popupWrites, pending, mLedBusy, mLedBreathing, wanted,
                 clash, blinked>>

PopupWrite ==
  /\ reads = 0 /\ popupWrites # << >>
  /\ leds' = Written(Head(popupWrites))
  /\ popupWrites' = Tail(popupWrites)
  /\ UNCHANGED <<notif_states, halWrites, reads, pending, mLedBusy, mLedBreathing,
                 mLedBrightness, wanted, clash, blinked>>

(* The closure begins.  Nothing of this thread runs before it has ended,   *)
(* so mLedBusy may change at once.                                         *)
EffectEnds ==
  /\ PopupIdle /\ pending > 0
  /\ pending' = pending - 1
  /\ popupWrites' = RestoreWrites
  /\ mLedBusy' = FALSE
  /\ UNCHANGED <<lightsVars, reads, mLedBreathing, mLedBrightness, wanted, clash,
                 blinked>>

Next ==
  \/ ClientSets \/ HalWrites
  \/ EffectStarts \/ ReadBreath \/ ReadBrightness \/ PopupWrite \/ EffectEnds

Spec == Init /\ [][Next]_vars

(* No brightness beyond what the LED can show is ever computed, written or *)
(* restored.                                                               *)
TypeOK ==
  /\ LightsTypeOK
  /\ reads \in 0..2 /\ popupWrites \in Seq(Write) /\ pending \in 0..MaxPending
  /\ mLedBusy \in BOOLEAN /\ mLedBreathing \in BOOLEAN
  /\ mLedBrightness \in 0..MaxLed
  /\ clash \in BOOLEAN /\ blinked \in BOOLEAN

AtRest == halWrites = << >> /\ NoEffect

(* Whatever effects have been played, one inside the other or not, the LED *)
(* shows the most important light again, unless the lights were set during *)
(* an effect (Lights.cpp, setLightNotification; lightUp).                  *)
LightIsBack ==
  AtRest /\ ~clash =>
    /\ leds["green"]["breath"] = wanted.breath
    /\ leds["green"]["brightness"] = wanted.brightness

(* However the two processes write between each other's writes, and even   *)
(* if the lights are set during an effect, nothing of an effect is left    *)
(* after the last one: the blue LED, which only effects use, is dark, the  *)
(* breath parameters are the default ones, and the green LED does not      *)
(* breathe unless a light that blinks has been set (lightUp, saving what   *)
(* applyNotificationState has written or is about to write).               *)
EffectIsOver ==
  NoEffect =>
    /\ leds["blue"]["breath"] = 0 /\ leds["blue"]["brightness"] = 0
    /\ leds["green"]["step_ms"] = 70 /\ leds["green"]["pause_lo_count"] = 30
    /\ leds["green"]["lo_idx"] = 0
    /\ leds["green"]["breath"] = 1 => blinked

(* "Restore default breath parameters" (PopupCameraService.java:344): so   *)
(* they are after an effect, all that lightUp has tuned for it.            *)
ParametersRestored ==
  AtRest /\ ~clash =>
    \A f \in {"step_ms", "pause_lo_count", "lo_idx", "lut_pattern"} :
      leds["green"][f] = Defaults[f]
=============================================================================
