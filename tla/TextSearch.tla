----------------------------- MODULE TextSearch -----------------------------
(***************************************************************************)
(* What a caller of bm_search may rely on (recovery_updater.cpp): the text *)
(* and the pattern stay as they are, and one answer is given, once.  It is *)
(* the first place where the pattern stands, or none if it stands nowhere. *)
(* A pattern with a border, one that begins as it ends, is only promised   *)
(* that it stands where it is said to.                                     *)
(***************************************************************************)
EXTENDS Integers

VARIABLES str, str_len, pat, pat_len, result

Places    == 0..str_len
Stands(n) == n + pat_len <= str_len /\ \A k \in 0..(pat_len - 1) : str[n + k] = pat[k]
IsFirst(n) == Stands(n) /\ \A m \in 0..(n - 1) : ~Stands(m)
HasBorder == \E q \in 1..(pat_len - 1) :
               \A k \in 0..(pat_len - 1 - q) : pat[q + k] = pat[k]

Asked == result = -2

Answered ==
  /\ Asked
  /\ \/ \E n \in Places : result' = n /\ Stands(n) /\ (HasBorder \/ IsFirst(n))
     \/ result' = -1 /\ (HasBorder \/ \A n \in Places : ~Stands(n))
  /\ UNCHANGED <<str, str_len, pat, pat_len>>

Spec == Asked /\ [][Answered]_<<str, str_len, pat, pat_len, result>>
=============================================================================
