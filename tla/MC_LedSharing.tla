---------------------------- MODULE MC_LedSharing ----------------------------
(***************************************************************************)
(* Light states for model checking LedSharing: none, a steady white light, *)
(* one so dim that its brightness rounds to 0 although it is lit, one that *)
(* blinks, and one with no time off, which is shown steady.                *)
(***************************************************************************)
EXTENDS LedSharing

Steady(a, v) ==
  [Dark EXCEPT !.color = [alpha |-> a, red |-> v, green |-> v, blue |-> v]]
Timed(on, off) ==
  [Steady(255, 255) EXCEPT !.timed = TRUE, !.flashOnMs = on, !.flashOffMs = off]

SomeStates == {Dark, Steady(255, 255), Steady(1, 200), Timed(500, 2000), Timed(500, 0)}
=============================================================================
