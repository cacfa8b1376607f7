--------------------------- MODULE MC_PopupCamera ---------------------------
(***************************************************************************)
(* Values of the constants of PopupCameraService for model checking.  The  *)
(* delays keep the order of the real ones (100 = 100 < 1200 < 1400 < 7000) *)
(* and 1400 < 2 * 1200.  A run grants the environment one of a few         *)
(* budgets: the events that make one question interesting, and no others.  *)
(***************************************************************************)
EXTENDS PopupCameraService

(* The budget that grants n[e] events of each kind e in DOMAIN n, as close *)
(* to each other as they like unless there is a gap.                       *)
Grant(n) == [e \in Bounds |-> IF e \in DOMAIN n THEN n[e] ELSE 0]

Reports      == Grant([camera |-> 4, screen |-> 1])
Failures     == Grant([camera |-> 2, push |-> 1, jam |-> 1, fall |-> 1,
                       hal |-> 1])
Crashes      == Grant([camera |-> 1, push |-> 1, jam |-> 1, fall |-> 1, die |-> 1])
Effects      == Grant([camera |-> 2, light |-> 1, hal |-> 1, die |-> 1])
Calibrations == Grant([camera |-> 1, calibrate |-> 2, hal |-> 1])
Retries      == Grant([calibrate |-> 2, hal |-> 1])
Bursts       == Grant([camera |-> 5])
Paced        == Grant([camera |-> 4, gap |-> 13])

SafetyBudgets      == {Reports, Failures, Crashes, Effects, Calibrations}
LivenessBudgets    == {Bursts, Paced, Retries}
BurstBudgets       == {Bursts}
CalibrationBudgets == {Calibrations}
=============================================================================
