----------------------------- MODULE BoyerMoore -----------------------------
(***************************************************************************)
(* bm_search of recovery/recovery_updater.cpp: the search for the version  *)
(* of the TrustZone firmware in the image of the boot loader.  Strings are *)
(* functions from 0 .. length - 1.  The tables are given by what the loops *)
(* that fill them leave in them; the search is one action per comparison.  *)
(***************************************************************************)
EXTENDS Integers, FiniteSetsExt

CONSTANTS
  Char,      \* the characters
  StrLens,   \* inputs: how long what is searched may be
  PatLens    \* inputs: how long what is searched for may be

ASSUME LengthAssumption == StrLens \subseteq Nat /\ PatLens \subseteq Nat \ {0}

NotFound  == -1
Searching == -2

VARIABLES
  str, str_len,
  pat, pat_len,
  i, j,     \* str[i] is compared with pat[j], from the right to the left
  result    \* Searching, NotFound or where pat has been found

text == <<str, str_len, pat, pat_len>>
vars == <<text, i, j, result>>

StringOf(n) == [0..(n - 1) -> Char]

(* The length of the longest suffix of pat that ends at p: less than p + 1.*)
MaxSuffixLen(p) ==
  CHOOSE n \in 0..p :
    /\ \A k \in 0..(n - 1) : pat[p - k] = pat[pat_len - 1 - k]
    /\ n = p \/ pat[p - n] # pat[pat_len - 1 - n]

(* delta1: from the last character of pat to the rightmost c before it.    *)
Occurrences(c) == {k \in 0..(pat_len - 2) : pat[k] = c}
Delta1(c) == IF Occurrences(c) = {} THEN pat_len
             ELSE pat_len - 1 - Max(Occurrences(c))

(* The first loop on delta2.  The prefix that starts again at q counts as  *)
(* q + 1 from q on, to the left.                                           *)
IsBorder(q) == \A k \in 0..(pat_len - 1 - q) : pat[q + k] = pat[k]
Borders(p) == {q \in p..(pat_len - 1) : IsBorder(q)}
LastPrefix(p) == IF Borders(p) = {} THEN pat_len - 1 ELSE Min(Borders(p)) + 1

(* The second: the last p whose suffix stops short of position t; a fault: *)
(* the first one.                                                          *)
Ends(t) == {p \in 0..(pat_len - 2) :
              /\ MaxSuffixLen(p) = pat_len - 1 - t
              /\ pat[p - MaxSuffixLen(p)] # pat[t]}
Delta2OfFirst(t) == IF Ends(t) # {} THEN (pat_len - 1 - Min(Ends(t))) + (pat_len - 1 - t)
                    ELSE LastPrefix(t) + (pat_len - 1 - t)
Delta2(t) == IF Ends(t) # {} THEN (pat_len - 1 - Max(Ends(t))) + (pat_len - 1 - t)
             ELSE LastPrefix(t) + (pat_len - 1 - t)

(* How far i moves when c does not match pat[t].                           *)
Jump(c, t) == IF Delta1(c) > Delta2(t) THEN Delta1(c) ELSE Delta2(t)

Init ==
  /\ str_len \in StrLens /\ str \in StringOf(str_len)
  /\ pat_len \in PatLens /\ pat \in StringOf(pat_len)
  /\ i = pat_len - 1 /\ j = pat_len - 1
  /\ result = Searching

(* A fault: the outer loop goes one too far.                               *)
AlignedBeyond == result = Searching /\ (j = pat_len - 1 => i <= str_len)

(* The outer loop goes on: it asks before each alignment only.             *)
Aligned == result = Searching /\ (j = pat_len - 1 => i < str_len)

Match ==
  /\ Aligned /\ j >= 0 /\ str[i] = pat[j]
  /\ i' = i - 1 /\ j' = j - 1
  /\ UNCHANGED <<text, result>>

Found ==
  /\ Aligned /\ j < 0
  /\ result' = i + 1
  /\ UNCHANGED <<text, i, j>>

Mismatch ==
  /\ Aligned /\ j >= 0 /\ str[i] # pat[j]
  /\ i' = i + Jump(str[i], j)
  /\ j' = pat_len - 1
  /\ UNCHANGED <<text, result>>

(* A fault: the end of str is taken to be one further on.                  *)
ExhaustedBeyond ==
  /\ result = Searching /\ j = pat_len - 1 /\ i > str_len
  /\ result' = NotFound
  /\ UNCHANGED <<text, i, j>>

Exhausted ==
  /\ result = Searching /\ j = pat_len - 1 /\ i >= str_len
  /\ result' = NotFound
  /\ UNCHANGED <<text, i, j>>

Next == Match \/ Found \/ Mismatch \/ Exhausted

Spec == Init /\ [][Next]_vars

TypeOK ==
  /\ str_len \in Nat /\ str \in StringOf(str_len)
  /\ pat_len \in Nat \ {0} /\ pat \in StringOf(pat_len)
  /\ j \in -1..(pat_len - 1)
  /\ i \in Int /\ i - j >= 0
  /\ result \in Nat \cup {NotFound, Searching}

(* pat stands in str at position n.                                        *)
Stands(n) == n + pat_len <= str_len /\ \A k \in 0..(pat_len - 1) : str[n + k] = pat[k]

(* What has been found is there (bm_search).                               *)
FoundIsThere == result \in Nat => Stands(result)

(* No end of pat is its beginning, as no end of TZ_VER_STR is.             *)
Borderless == \A q \in 1..(pat_len - 1) : ~IsBorder(q)

(* ... then the first occurrence is found, and none is missed.             *)
FirstIsFound ==
  Borderless => /\ result \in Nat => \A n \in 0..(result - 1) : ~Stands(n)
                /\ result = NotFound => \A n \in 0..str_len : ~Stands(n)

(* "Generate table of next possible full match from mismatch at pat[p]"    *)
(* (recovery_updater.cpp:71): so no full match is passed over, whatever    *)
(* pat may be.                                                             *)
NothingIsMissed == result = NotFound => \A n \in 0..str_len : ~Stands(n)

(* Every comparison reads inside of str (bm_search).                       *)
ReadsInside == Aligned /\ j >= 0 => i \in 0..(str_len - 1)

(* How many steps the search may still take: pat moves over the rest of    *)
(* str, one place at a time at worst, and is compared once at each.        *)
Room == IF i - j + pat_len <= str_len THEN str_len - pat_len - (i - j) + 1 ELSE 0
StepsLeft == IF result = Searching THEN Room * (pat_len + 1) + j + 2 ELSE 0

(* The search always gets closer to its end: no table ever leaves pat      *)
(* where it is, or moves it back, after a mismatch (bm_search).            *)
StepsRunOut == [][StepsLeft' \in Nat /\ StepsLeft' < StepsLeft]_vars

(* What the caller relies on: one answer, the right one (TextSearch).      *)
Search == INSTANCE TextSearch
SearchIsAbstract == Search!Spec
=============================================================================
