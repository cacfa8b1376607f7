---------------------------- MODULE MC_BoyerMoore ----------------------------
(***************************************************************************)
(* Lengths for model checking BoyerMoore: with two characters, every text  *)
(* of at most 9 and every pattern of at most 4, which leaves room for all  *)
(* shifts of a pattern against a border and beyond it.                     *)
(***************************************************************************)
EXTENDS BoyerMoore

ShortStrings  == 0..9
ShortPatterns == 1..4
=============================================================================
