----------------------- MODULE RecoveryUpdaterProofs -----------------------
(***************************************************************************)
(* Proofs about RecoveryUpdater, for every partition, pattern, buffer and  *)
(* set of versions: the search is the one of BoyerMoore, so that its       *)
(* theorems hold here, nothing leaks, and the verdict is the right one.    *)
(***************************************************************************)
EXTENDS RecoveryUpdater, BoyerMooreProofs, FiniteSetTheorems

(* The caller leaves the search alone, but for its steps.                  *)
LEMMA StepsOfSearch == [UpdaterNext]_updaterVars => [Next]_vars
BY DEF updaterVars, UpdaterNext, Open, Fails, Seek, Map, SearchGoesOn, SearchReturns,
       Copy, Unmap, Close, ReadArgs, Compare

(* get_info runs bm_search as it is modelled alone, and what is proved of  *)
(* it holds here.                                                          *)
THEOREM UpdaterSearches == UpdaterSpec => Spec
<1>1. UpdaterInit => Init
  BY DEF UpdaterInit
<1>. QED
  BY <1>1, StepsOfSearch, PTL DEF UpdaterSpec, Spec

(***************************************************************************)
(* Every path of get_info releases what it holds.                          *)
(***************************************************************************)
HeldInv ==
  /\ held \subseteq {"fd", "data"}
  /\ "fd" \in held => pc \notin {"open", "ReadArgs", "strncmp", "done"}
  /\ "data" \in held => pc \in {"bm_search", "snprintf", "munmap", "died"}

(* The file is closed and the mapping is gone, whichever call has failed.  *)
THEOREM NothingIsLeaked == UpdaterSpec => []NothingLeaks
<1>1. UpdaterInit => HeldInv
  BY DEF UpdaterInit, HeldInv
<1>2. HeldInv /\ [UpdaterNext]_updaterVars => HeldInv'
  <2>. SUFFICES ASSUME HeldInv, [UpdaterNext]_updaterVars PROVE HeldInv'
    OBVIOUS
  <2>1. CASE Open \/ Map
    BY <2>1 DEF HeldInv, At, Goto, Open, Fails, Map
  <2>5. CASE Seek
    BY <2>5 DEF HeldInv, At, Goto, Fails, Seek
  <2>2. CASE SearchReturns \/ Unmap
    BY <2>2 DEF HeldInv, At, Goto, SearchReturns, Unmap
  <2>6. CASE Copy
    BY <2>6 DEF HeldInv, At, Goto, Copy
  <2>3. CASE Close \/ ReadArgs \/ Compare
    BY <2>3 DEF HeldInv, At, Goto, Close, ReadArgs, Compare
  <2>4. CASE SearchGoesOn \/ UNCHANGED updaterVars
    BY <2>4 DEF HeldInv, SearchGoesOn, updaterVars, caller
  <2>. QED
    BY <2>1, <2>2, <2>3, <2>4, <2>5, <2>6 DEF UpdaterNext
<1>3. HeldInv => NothingLeaks
  BY DEF HeldInv, NothingLeaks
<1>. QED
  BY <1>1, <1>2, <1>3, PTL DEF UpdaterSpec

(***************************************************************************)
(* The verdict.                                                            *)
(***************************************************************************)
LEMMA SizeIs ==
  ASSUME NEW m \in Nat, NEW s \in TextOf(m)
  PROVE  Size(s) = m
BY FS_Interval DEF Size, TextOf

LEMMA VersionIs ==
  ASSUME NEW v \in Versions
  PROVE  Size(v) \in Nat /\ v \in TextOf(Size(v))
BY VersionAssumption, FS_CardinalityType DEF Size

LEMMA ContentIs ==
  ASSUME NEW s \in Contents
  PROVE  Size(s) \in 0..(BufLen - 1) /\ s \in TextOf(Size(s))
<1>1. PICK m \in 0..(BufLen - 1) : s \in TextOf(m)
  BY DEF Contents
<1>. QED
  BY <1>1, SizeIs, BufAssumption

(* Once get_info has succeeded, and as long as its caller is at work, the  *)
(* buffer holds the text behind the place that was found.                  *)
Compared == answer \in {"0", "1"}
Copied ==
  (pc \in {"munmap", "close", "ReadArgs", "strncmp"} /\ ret = 0) \/ Compared
    => result \in Nat /\ CopyOf(version, result + pat_len)

VerdictInv ==
  /\ FirstInv
  /\ UpdaterTypeOK
  /\ pc = "strncmp" => ret = 0
  /\ pc = "snprintf" => result \in Nat
  /\ Copied
  /\ Compared => /\ pc = "done"
                 /\ answer = "1" <=> \E v \in args : Accepts(v)

LEMMA TypedInit == UpdaterInit => UpdaterTypeOK
<1>. SUFFICES ASSUME UpdaterInit PROVE UpdaterTypeOK
  OBVIOUS
<1>1. version \in TextOf(0) /\ Size(version) = 0
  BY SizeIs DEF UpdaterInit
<1>2. TypeOK
  BY TypeInit DEF UpdaterInit
<1>. QED
  BY <1>1, <1>2, BufAssumption DEF UpdaterInit, UpdaterTypeOK

LEMMA TypedStep == UpdaterTypeOK /\ [UpdaterNext]_updaterVars => UpdaterTypeOK'
<1>. SUFFICES ASSUME UpdaterTypeOK, [UpdaterNext]_updaterVars PROVE UpdaterTypeOK'
  OBVIOUS
<1>0. TypeOK'
  BY StepsOfSearch, TypeStep DEF UpdaterTypeOK
<1>1. CASE Copy
  <2>1. version' \in Contents \/ UNCHANGED version
    BY <1>1 DEF Copy
  <2>2. (Size(version) \in 0..(BufLen - 1) /\ version \in TextOf(Size(version)))'
    BY <2>1, ContentIs, BufAssumption DEF UpdaterTypeOK
  <2>. QED
    BY <1>0, <1>1, <2>2 DEF Copy, At, Goto, UpdaterTypeOK
<1>2. CASE SearchGoesOn \/ UNCHANGED updaterVars
  BY <1>0, <1>2 DEF SearchGoesOn, updaterVars, caller, UpdaterTypeOK
<1>3. CASE Open \/ Seek \/ Map \/ SearchReturns \/ Unmap \/ Close
  BY <1>0, <1>3 DEF Open, Fails, Seek, Map, SearchReturns, Unmap, Close, At, Goto,
              UpdaterTypeOK
<1>4. CASE ReadArgs \/ Compare
  BY <1>0, <1>4 DEF ReadArgs, Compare, At, Goto, UpdaterTypeOK
<1>. QED
  BY <1>1, <1>2, <1>3, <1>4 DEF UpdaterNext

(* verify_trustzone is typed for every partition and buffer; what snprintf *)
(* writes fits into the buffer with its NUL.                               *)
THEOREM UpdaterTypeCorrect == UpdaterSpec => []UpdaterTypeOK
BY TypedInit, TypedStep, PTL DEF UpdaterSpec

LEMMA VerdictStep == VerdictInv /\ [UpdaterNext]_updaterVars => VerdictInv'
<1>. SUFFICES ASSUME VerdictInv, [UpdaterNext]_updaterVars PROVE VerdictInv'
  OBVIOUS
<1>1. FirstInv' /\ UpdaterTypeOK'
  BY StepsOfSearch, FirstStep, TypedStep DEF VerdictInv
<1>2. UpdaterTypeOK /\ TypeOK
  BY DEF VerdictInv, FirstInv, SearchInv
<1>3. CASE SearchGoesOn
  BY <1>1, <1>3
  DEF SearchGoesOn, caller, VerdictInv, Copied, Compared
<1>4. CASE Copy
  BY <1>1, <1>4
  DEF Copy, At, Goto, vars, text, VerdictInv, Copied, Compared, CopyOf
<1>5. CASE SearchReturns
  BY <1>1, <1>2, <1>5
  DEF SearchReturns, At, Goto, vars, text, VerdictInv, Copied, Compared, TypeOK
<1>6. CASE ReadArgs
  BY <1>1, <1>6
  DEF ReadArgs, At, Goto, vars, text, VerdictInv, Copied, Compared, CopyOf
<1>7. CASE Compare
  BY <1>1, <1>7
  DEF Compare, At, Goto, vars, text, VerdictInv, Copied, Compared, CopyOf, Accepts
<1>8. CASE Open \/ Seek \/ Map \/ Unmap \/ Close
  BY <1>1, <1>8
  DEF Open, Fails, Seek, Map, Unmap, Close, At, Goto, vars, text, VerdictInv, Copied,
      Compared, CopyOf
<1>9. CASE UNCHANGED updaterVars
  BY <1>1, <1>9
  DEF updaterVars, vars, caller, text, VerdictInv, Copied, Compared, CopyOf, Accepts
<1>. QED
  BY <1>3, <1>4, <1>5, <1>6, <1>7, <1>8, <1>9 DEF UpdaterNext

(* What is in the buffer tells which texts stand in the partition.         *)
LEMMA CopyTells ==
  ASSUME UpdaterTypeOK, TypeOK, NEW n \in Nat, CopyOf(version, n), Ended(n),
         NEW v \in Versions
  PROVE  /\ Accepts(v) => Reads(v, n)
         /\ Size(v) < BufLen /\ Reads(v, n) => Accepts(v)
<1>. DEFINE z == Size(version)
<1>1. /\ z \in Nat /\ z < BufLen /\ version \in TextOf(z)
      /\ BufLen \in Nat /\ str_len \in Nat
  BY BufAssumption DEF UpdaterTypeOK, TypeOK
<1>2. Size(v) \in Nat /\ v \in TextOf(Size(v))
  BY VersionIs
<1>3. ASSUME Accepts(v), NEW k \in DOMAIN v
      PROVE  n + k < str_len /\ str[n + k] = v[k]
  <2>1. PICK e \in n..(str_len - 1) : str[e] = Nul
    BY DEF Ended
  <2>2. k \in 0..(z - 1) /\ version[k] = v[k]
    BY <1>1, <1>3 DEF Accepts, TextOf
  <2>3. n + k < str_len
    <3>. SUFFICES ASSUME n + k >= str_len PROVE FALSE
      BY <1>1, <2>2
    <3>1. e - n \in 0..(z - 1) /\ n + (e - n) < str_len /\ n + (e - n) = e
      BY <1>1, <2>1, <2>2
    <3>2. version[e - n] = str[e]
      BY <1>1, <3>1 DEF CopyOf, TextOf
    <3>3. version[e - n] # Nul
      BY <1>1, <3>1 DEF TextOf
    <3>. QED
      BY <2>1, <3>2, <3>3
  <2>. QED
    BY <1>1, <2>2, <2>3 DEF CopyOf, TextOf
<1>4. ASSUME Size(v) < BufLen, Reads(v, n), NEW k \in DOMAIN v
      PROVE  k \in DOMAIN version /\ version[k] = v[k]
  <2>1. k \in 0..(Size(v) - 1) /\ n + k < str_len /\ str[n + k] = v[k]
    BY <1>2, <1>4 DEF Reads, TextOf
  <2>2. k < z
    <3>. SUFFICES ASSUME z <= k PROVE FALSE
      BY <1>1, <2>1
    <3>1. z \in 0..(Size(v) - 1) /\ z < BufLen - 1 /\ n + z < str_len
      BY <1>1, <1>2, <1>4, <2>1
    <3>2. str[n + z] = Nul
      BY <3>1 DEF CopyOf
    <3>3. str[n + z] = v[z] /\ v[z] # Nul
      BY <1>2, <1>4, <3>1 DEF Reads, TextOf
    <3>. QED
      BY <3>2, <3>3
  <2>. QED
    BY <1>1, <2>1, <2>2 DEF CopyOf, TextOf
<1>. QED
  BY <1>3, <1>4 DEF Reads, Accepts

(* The verdict of verify_trustzone is that of the partition.               *)
THEOREM VerdictIsCorrect == UpdaterSpec => []VerdictIsRight
<1>1. UpdaterInit => VerdictInv
  BY TypedInit, FirstInit DEF UpdaterInit, VerdictInv, Copied, Compared
<1>2. VerdictInv => VerdictIsRight
  <2>. SUFFICES ASSUME VerdictInv, answer \in {"0", "1"}, Borderless
                PROVE  \E n \in 0..str_len :
                         /\ Stands(n) /\ \A m \in 0..(n - 1) : ~Stands(m)
                         /\ Ended(n + pat_len) =>
                              /\ answer = "1" => \E v \in args : Reads(v, n + pat_len)
                              /\ answer = "0" => \A v \in args :
                                   Size(v) < BufLen => ~Reads(v, n + pat_len)
    BY DEF VerdictIsRight
  <2>1. /\ UpdaterTypeOK /\ TypeOK /\ args \subseteq Versions
        /\ result \in Nat /\ CopyOf(version, result + pat_len)
        /\ answer = "1" <=> \E v \in args : Accepts(v)
    BY DEF VerdictInv, FirstInv, SearchInv, Copied, Compared, UpdaterTypeOK
  <2>2. Stands(result) /\ \A m \in 0..(result - 1) : ~Stands(m)
    BY <2>1 DEF VerdictInv, FirstInv, SearchInv, FoundIsThere, FirstIsFound
  <2>3. result \in 0..str_len /\ result + pat_len \in Nat
    BY <2>1, <2>2 DEF Stands, TypeOK
  <2>4. ASSUME Ended(result + pat_len), NEW v \in args
        PROVE  /\ Accepts(v) => Reads(v, result + pat_len)
               /\ Size(v) < BufLen /\ Reads(v, result + pat_len) => Accepts(v)
    BY <2>1, <2>3, <2>4, CopyTells
  <2>. QED
    BY <2>1, <2>2, <2>3, <2>4
<1>. QED
  BY <1>1, <1>2, VerdictStep, PTL DEF UpdaterSpec

(***************************************************************************)
(* verify_trustzone ends.                                                  *)
(***************************************************************************)
LEMMA CallsType ==
  ASSUME UpdaterTypeOK, TypeOK
  PROVE  CallsBehind[pc] \in Nat /\ StepsLeft \in Nat /\ CallsLeft \in Nat
BY RoomType DEF UpdaterTypeOK, CallsBehind, CallsLeft

LEMMA CallsTypeNext == UpdaterTypeOK' /\ TypeOK' => (CallsLeft \in Nat)'
<1>1. UpdaterTypeOK /\ TypeOK => CallsLeft \in Nat
  BY CallsType
<1>. QED
  BY <1>1, PTL

LEMMA CallsStep ==
  ASSUME SearchInv, UpdaterTypeOK, UpdaterNext
  PROVE  CallsLeft' < CallsLeft
<1>0. TypeOK /\ CallsBehind[pc] \in Nat /\ StepsLeft \in Nat
  BY CallsType DEF SearchInv
<1>1. CASE SearchGoesOn
  <2>1. Next /\ pc' = pc /\ StepsLeft' \in Nat
    BY <1>0, <1>1, RoomTypeNext, TypeStep DEF SearchGoesOn, caller
  <2>2. StepsLeft' < StepsLeft
    BY <2>1, StepsStep
  <2>. QED
    BY <1>0, <2>1, <2>2 DEF CallsLeft
<1>2. CASE ~SearchGoesOn
  <2>1. UNCHANGED vars
    BY <1>2 DEF UpdaterNext, Open, Fails, Seek, Map, SearchReturns, Copy, Unmap, Close,
                ReadArgs, Compare
  <2>2. StepsLeft' = StepsLeft
    BY <2>1 DEF vars, text, StepsLeft, Room
  <2>3. CallsBehind[pc'] \in Nat /\ CallsBehind[pc'] < CallsBehind[pc]
    BY <1>2 DEF UpdaterNext, Open, Fails, Seek, Map, SearchReturns, Copy, Unmap, Close,
                ReadArgs, Compare, At, Goto, CallsBehind
  <2>. QED
    BY <1>0, <2>2, <2>3 DEF CallsLeft
<1>. QED
  BY <1>1, <1>2

(* get_info and its caller return after a number of calls and comparisons  *)
(* that is known when they begin, whichever call fails.                    *)
THEOREM UpdaterEnds == UpdaterSpec => CallsRunOut
<1>. DEFINE Inv == SearchInv /\ UpdaterTypeOK
<1>1. UpdaterInit => Inv
  BY TypedInit, SearchInit DEF UpdaterInit
<1>2. Inv /\ [UpdaterNext]_updaterVars => Inv'
  BY StepsOfSearch, SearchStep, TypedStep
<1>3. Inv /\ Inv' /\ [UpdaterNext]_updaterVars
        => [CallsLeft' \in Nat /\ CallsLeft' < CallsLeft]_updaterVars
  BY CallsStep, CallsTypeNext DEF SearchInv
<1>. QED
  BY <1>1, <1>2, <1>3, PTL DEF UpdaterSpec, CallsRunOut
=============================================================================
