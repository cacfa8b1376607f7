------------------------------- MODULE MC_Boot -------------------------------
(***************************************************************************)
(* Values of the constants of Boot for model checking: the regions of the  *)
(* table and one that it does not have, and two partitions.                *)
(***************************************************************************)
EXTENDS Boot

SomeRegions == {"GLOBAL", "CN", "INDIA", "OTHER"}
SomeSources == {"", "odm"}
=============================================================================
