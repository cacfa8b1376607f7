------------------------------- MODULE Lights -------------------------------
(***************************************************************************)
(* The lights HAL (light/aidl/Lights.cpp) and the LEDs it writes.          *)
(*                                                                         *)
(* The HAL has one thread, so calls do not overlap; but a call is several  *)
(* writes to files under /sys/class/leds, and another process may write    *)
(* the same files in between (LedSharing).  Only NOTIFICATIONS and BATTERY *)
(* change anything: BACKLIGHT has no function, other lights are refused.   *)
(***************************************************************************)
EXTENDS Integers, Sequences

CONSTANTS
  MaxLed,       \* max_led_brightness_
  LightStates   \* inputs: the light states that clients set

Channel == 0..255
Color == [alpha : Channel, red : Channel, green : Channel, blue : Channel]
HwLightState == [color : Color, timed : BOOLEAN, flashOnMs : Nat, flashOffMs : Nat]

ASSUME LightsAssumption == MaxLed \in Nat /\ LightStates \subseteq HwLightState

VARIABLES
  leds,           \* the files of each LED, as the kernel keeps them
  notif_states,   \* the state last set of each light
  halWrites       \* the writes left of the call the HAL is in

lightsVars == <<leds, notif_states, halWrites>>

Leds  == {"green", "blue"}
Files == {"breath", "brightness", "step_ms", "pause_lo_count", "lo_idx",
          "lut_pattern", "delay_on", "delay_off"}
WriteTo(led, file, v) == [led |-> led, file |-> file, value |-> v]
Write == [led : Leds, file : Files \cup {"lux_pattern"}, value : Nat]

(* What the LED driver does with a write: a brightness ends the breathing, *)
(* the end of the breathing is dark, and no file is made by writing to it. *)
Written(w) ==
  CASE w.file = "brightness" ->
         [leds EXCEPT ![w.led] = [@ EXCEPT !["breath"] = 0,
                                           !["brightness"] = w.value]]
    [] w.file = "breath" ->
         [leds EXCEPT ![w.led] = [@ EXCEPT !["breath"] = w.value,
                                   !["brightness"] = IF w.value = 1 THEN MaxLed ELSE 0]]
    [] w.file \in Files \ {"brightness", "breath"} ->
         [leds EXCEPT ![w.led] = [@ EXCEPT ![w.file] = w.value]]
    [] OTHER -> leds

(* One channel of the color, scaled by the brightness the user applied.    *)
Scaled(c, alpha) == IF alpha # 255 THEN (c * alpha) \div 255 ELSE c

(* A fault: the weights, which sum to 256, are divided by 255.             *)
RgbaToBrightnessBy255(c) ==
  (77 * Scaled(c.red, c.alpha) + 150 * Scaled(c.green, c.alpha)
    + 29 * Scaled(c.blue, c.alpha)) \div 255

RgbaToBrightness(c) ==
  (77 * Scaled(c.red, c.alpha) + 150 * Scaled(c.green, c.alpha)
    + 29 * Scaled(c.blue, c.alpha)) \div 256

LedBrightness(c) == (RgbaToBrightness(c) * MaxLed) \div 255

IsLit(c) == c.red # 0 \/ c.green # 0 \/ c.blue # 0

(* notif_states_ is kept "sorted in the order of importance".              *)
Order == <<"NOTIFICATIONS", "BATTERY">>
Ids == {Order[i] : i \in 1..2}

(* The first state of the loop that is lit, or else the battery light.     *)
Candidate(states, i) == Order[i] = "BATTERY" \/ IsLit(states[Order[i]].color)
Chosen(states) ==
  LET first == CHOOSE i \in 1..2 : /\ Candidate(states, i)
                                   /\ \A j \in 1..(i - 1) : ~Candidate(states, j)
  IN  states[Order[first]]

Blinks(s) == s.timed /\ s.flashOnMs > 0 /\ s.flashOffMs > 0

(* applyNotificationState: what is written, in this order.                 *)
ApplyNotificationState(s) ==
  <<WriteTo("green", "breath", 0)>> \o
  IF Blinks(s)
  THEN <<WriteTo("green", "step_ms", 70), WriteTo("green", "pause_lo_count", 30),
         WriteTo("green", "lo_idx", 0), WriteTo("green", "lux_pattern", 0),
         WriteTo("green", "delay_on", s.flashOnMs),
         WriteTo("green", "delay_off", s.flashOffMs),
         WriteTo("green", "breath", 1)>>
  ELSE <<WriteTo("green", "brightness", LedBrightness(s.color))>>

(* A fault: what is applied is looked up before the new state is stored.   *)
SetLightStateLate(id, s) ==
  /\ halWrites = << >>
  /\ notif_states' = [notif_states EXCEPT ![id] = s]
  /\ halWrites' = ApplyNotificationState(Chosen(notif_states))
  /\ UNCHANGED leds

(* setLightState(id, s) is called: s is stored, then one state is applied. *)
SetLightState(id, s) ==
  /\ halWrites = << >>
  /\ notif_states' = [notif_states EXCEPT ![id] = s]
  /\ halWrites' = ApplyNotificationState(Chosen(notif_states'))
  /\ UNCHANGED leds

HalWrite ==
  /\ halWrites # << >>
  /\ leds' = Written(Head(halWrites))
  /\ halWrites' = Tail(halWrites)
  /\ UNCHANGED notif_states

Dark == [color |-> [alpha |-> 0, red |-> 0, green |-> 0, blue |-> 0],
         timed |-> FALSE, flashOnMs |-> 0, flashOffMs |-> 0]

(* The default breath parameters, of the HAL and of the popup camera.      *)
Defaults == [f \in Files |-> CASE f = "step_ms" -> 70
                               [] f = "pause_lo_count" -> 30
                               [] OTHER -> 0]

(* When the HAL starts, no light has been set and the LEDs are dark.       *)
LightsInit ==
  /\ leds = [l \in Leds |-> Defaults]
  /\ notif_states = [id \in Ids |-> Dark]
  /\ halWrites = << >>

LightsTypeOK ==
  /\ leds \in [Leds -> [Files -> Nat]]
  /\ \A l \in Leds : leds[l]["breath"] \in {0, 1} /\ leds[l]["brightness"] \in 0..MaxLed
  /\ notif_states \in [Ids -> HwLightState]
  /\ halWrites \in Seq(Write)
=============================================================================
