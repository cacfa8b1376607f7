--------------------------- MODULE MC_Fingerprint ---------------------------
(***************************************************************************)
(* Reports of the vendor library for model checking Fingerprint: an error  *)
(* of the vendor, and an acquisition that HIDL has no name for.            *)
(***************************************************************************)
EXTENDS Fingerprint

SomeMessages == {[type |-> "error", code |-> 1001], [type |-> "acquired", code |-> 6]}
=============================================================================
