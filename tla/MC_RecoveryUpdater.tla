------------------------- MODULE MC_RecoveryUpdater -------------------------
(***************************************************************************)
(* Values of the constants of RecoveryUpdater for model checking: every    *)
(* partition of at most 6 characters x, y and NUL, every pattern of at     *)
(* most 4 and a buffer for two; the versions asked for are empty, one that *)
(* begins another, and one that does not fit.                              *)
(***************************************************************************)
EXTENDS RecoveryUpdater, TLC

CONSTANTS x, y

Partitions == 0..6
Patterns   == 1..4

AskedFor == { << >>, 0 :> x, (0 :> x) @@ (1 :> y),
              (0 :> x) @@ (1 :> y) @@ (2 :> x) }
=============================================================================
