-------------------------- MODULE BoyerMooreProofs --------------------------
(***************************************************************************)
(* Proofs about BoyerMoore, for every alphabet, text and pattern: the      *)
(* search stays in bounds, what it finds is there, and it finds the first  *)
(* occurrence of a pattern no end of which is its beginning.               *)
(***************************************************************************)
EXTENDS BoyerMoore, WellFoundedInduction, TLAPS

(***************************************************************************)
(* The least and the greatest element of a set.                            *)
(***************************************************************************)
LEMMA LeastElement ==
  ASSUME NEW S, S \subseteq Nat, S # {}
  PROVE  \E x \in S : \A y \in S : x <= y
<1>1. PICK x \in S : \A y \in S : ~(<<y, x>> \in OpToRel(<, Nat))
  BY NatLessThanWellFounded, WFMin
<1>2. \A y \in S : ~(y < x)
  BY <1>1 DEF OpToRel
<1>. QED
  BY <1>2

LEMMA MinIs ==
  ASSUME NEW S, S \subseteq Nat, S # {}
  PROVE  Min(S) \in S /\ \A y \in S : Min(S) <= y
BY LeastElement DEF Min

LEMMA MaxIs ==
  ASSUME NEW n \in Nat, NEW S, S \subseteq 0..n, S # {}
  PROVE  Max(S) \in S /\ \A y \in S : y <= Max(S)
<1>. DEFINE D == {n - x : x \in S}
<1>1. D \subseteq Nat
  OBVIOUS
<1>2. D # {}
  OBVIOUS
<1>3. PICK d \in D : \A e \in D : d <= e
  BY <1>1, <1>2, LeastElement
<1>4. PICK x \in S : d = n - x
  OBVIOUS
<1>5. \A y \in S : n - x <= n - y
  BY <1>3, <1>4
<1>6. \A y \in S : x >= y
  BY <1>5
<1>. QED
  BY <1>6 DEF Max

(***************************************************************************)
(* The tables.                                                             *)
(***************************************************************************)
(* max_suffix_len stops where the loop does, and nowhere else.             *)
Stops(p, n) ==
  /\ \A k \in 0..(n - 1) : pat[p - k] = pat[pat_len - 1 - k]
  /\ n = p \/ pat[p - n] # pat[pat_len - 1 - n]

LEMMA MaxSuffixLenIs ==
  ASSUME NEW p \in Nat
  PROVE  MaxSuffixLen(p) \in 0..p /\ Stops(p, MaxSuffixLen(p))
<1>. DEFINE S == {n \in 0..p : n = p \/ pat[p - n] # pat[pat_len - 1 - n]}
<1>1. S \subseteq Nat /\ S # {}
  OBVIOUS
<1>2. PICK n \in S : \A m \in S : n <= m
  BY <1>1, LeastElement
<1>3. ASSUME NEW k \in 0..(n - 1)
      PROVE  pat[p - k] = pat[pat_len - 1 - k]
  BY <1>2, k \in 0..p, k < n
<1>4. n \in 0..p /\ Stops(p, n)
  BY <1>3 DEF Stops
<1>. QED
  BY <1>4 DEF MaxSuffixLen, Stops

LEMMA MaxSuffixLenOnly ==
  ASSUME NEW p \in Nat, NEW n \in 0..p, 
         \A k \in 0..(n - 1) : pat[p - k] = pat[pat_len - 1 - k],
         pat[p - n] # pat[pat_len - 1 - n]
  PROVE  MaxSuffixLen(p) = n
<1>. DEFINE m == MaxSuffixLen(p)
<1>1. m \in 0..p /\ Stops(p, m)
  BY MaxSuffixLenIs
<1>2. ~(n < m)
  BY <1>1 DEF Stops
<1>3. ~(m < n)
  BY <1>1 DEF Stops
<1>. QED
  BY <1>1, <1>2, <1>3

LEMMA Delta1Is ==
  ASSUME NEW c, pat_len \in Nat \ {0}
  PROVE  /\ Delta1(c) \in 1..pat_len
         /\ \A k \in Occurrences(c) : Delta1(c) <= pat_len - 1 - k
<1>1. CASE Occurrences(c) = {}
  BY <1>1 DEF Delta1
<1>2. CASE Occurrences(c) # {}
  <2>1. Occurrences(c) \subseteq 0..(pat_len - 1)
    BY DEF Occurrences
  <2>2. /\ Max(Occurrences(c)) \in Occurrences(c)
        /\ \A k \in Occurrences(c) : k <= Max(Occurrences(c))
    BY <1>2, <2>1, MaxIs, pat_len - 1 \in Nat
  <2>3. Max(Occurrences(c)) \in 0..(pat_len - 2)
    BY <2>2 DEF Occurrences
  <2>4. \A k \in Occurrences(c) : k \in Int
    BY DEF Occurrences
  <2>. QED
    BY <1>2, <2>2, <2>3, <2>4 DEF Delta1
<1>. QED
  BY <1>1, <1>2

LEMMA Delta2Is ==
  ASSUME pat_len \in Nat \ {0}, NEW t \in 0..(pat_len - 1)
  PROVE  /\ Delta2(t) \in Nat
         /\ Delta2(t) >= 1 + (pat_len - 1 - t)
         /\ Delta2(t) <= pat_len + (pat_len - 1 - t)
         /\ \A p \in Ends(t) : Delta2(t) <= (pat_len - 1 - p) + (pat_len - 1 - t)
<1>1. CASE Ends(t) # {}
  <2>1. Ends(t) \subseteq 0..(pat_len - 1)
    BY DEF Ends
  <2>2. /\ Max(Ends(t)) \in Ends(t)
        /\ \A p \in Ends(t) : p <= Max(Ends(t))
    BY <1>1, <2>1, MaxIs, pat_len - 1 \in Nat
  <2>3. Max(Ends(t)) \in 0..(pat_len - 2)
    BY <2>2 DEF Ends
  <2>4. \A p \in Ends(t) : p \in Int
    BY DEF Ends
  <2>. QED
    BY <1>1, <2>2, <2>3, <2>4 DEF Delta2
<1>2. CASE Ends(t) = {}
  <2>1. LastPrefix(t) \in 1..pat_len
    <3>1. CASE Borders(t) = {}
      <4>1. t # 0
        BY <3>1 DEF Borders, IsBorder
      <4>. QED
        BY <3>1, <4>1 DEF LastPrefix
    <3>2. CASE Borders(t) # {}
      <4>1. Borders(t) \subseteq Nat
        BY DEF Borders
      <4>2. Min(Borders(t)) \in Borders(t)
        BY <3>2, <4>1, MinIs
      <4>3. Min(Borders(t)) \in t..(pat_len - 1)
        BY <4>2 DEF Borders
      <4>. QED
        BY <3>2, <4>3 DEF LastPrefix
    <3>. QED
      BY <3>1, <3>2
  <2>2. Delta2(t) = LastPrefix(t) + (pat_len - 1 - t)
    BY <1>2 DEF Delta2
  <2>. QED
    BY <1>2, <2>1, <2>2
<1>. QED
  BY <1>1, <1>2

LEMMA JumpIs ==
  ASSUME NEW c, pat_len \in Nat \ {0}, NEW t \in 0..(pat_len - 1)
  PROVE  Jump(c, t) \in Nat /\ Jump(c, t) >= pat_len - t
BY Delta1Is, Delta2Is DEF Jump

(***************************************************************************)
(* The invariant.                                                          *)
(***************************************************************************)
(* What has been compared at this alignment matches, and an alignment that *)
(* has been entered ends inside of str.                                    *)
Matched == \A k \in (j + 1)..(pat_len - 1) : str[i - j + k] = pat[k]
Entered == result = Searching /\ j < pat_len - 1 => i - j + pat_len <= str_len

(* Nothing to the left of the alignment has been missed.                   *)
NoneBefore == Borderless /\ result = Searching => \A n \in 0..(i - j - 1) : ~Stands(n)

SearchInv == TypeOK /\ Matched /\ Entered /\ FoundIsThere

(* TypeOK is inductive: the alignment never goes back.                     *)
LEMMA TypeStep == TypeOK /\ [Next]_vars => TypeOK'
<1>. SUFFICES ASSUME TypeOK, [Next]_vars PROVE TypeOK'
  OBVIOUS
<1>. USE DEF TypeOK
<1>1. CASE Match
  BY <1>1 DEF Match, Aligned, text, StringOf
<1>2. CASE Found
  BY <1>2 DEF Found, Aligned, text, StringOf
<1>3. CASE Mismatch
  <2>1. j \in 0..(pat_len - 1)
    BY <1>3 DEF Mismatch
  <2>2. Jump(str[i], j) \in Nat /\ Jump(str[i], j) >= pat_len - j
    BY <2>1, JumpIs
  <2>. QED
    BY <1>3, <2>1, <2>2 DEF Mismatch, Aligned, text, StringOf
<1>4. CASE Exhausted
  BY <1>4 DEF Exhausted, text, StringOf
<1>5. CASE UNCHANGED vars
  BY <1>5 DEF vars, text, StringOf
<1>. QED
  BY <1>1, <1>2, <1>3, <1>4, <1>5 DEF Next

LEMMA TypeInit == Init => TypeOK
BY LengthAssumption DEF Init, TypeOK, Searching, StringOf

(* bm_search: the tables are used inside of their bounds, and i never goes *)
(* to the left of the alignment.                                           *)
THEOREM TypeCorrect == Spec => []TypeOK
BY TypeInit, TypeStep, PTL DEF Spec

LEMMA SearchInit == Init => SearchInv
<1>. SUFFICES ASSUME Init PROVE SearchInv
  OBVIOUS
<1>1. TypeOK
  BY TypeInit
<1>2. Matched /\ Entered /\ FoundIsThere
  BY <1>1 DEF Init, Matched, Entered, FoundIsThere, Searching, TypeOK
<1>. QED
  BY <1>1, <1>2 DEF SearchInv

LEMMA SearchStep == SearchInv /\ [Next]_vars => SearchInv'
<1>. SUFFICES ASSUME SearchInv, [Next]_vars PROVE SearchInv'
  OBVIOUS
<1>1. TypeOK /\ TypeOK'
  BY TypeStep DEF SearchInv
<1>. USE <1>1 DEF TypeOK
<1>2. CASE Match
  <2>1. Matched'
    <3>. SUFFICES ASSUME NEW k \in (j' + 1)..(pat_len - 1)
                  PROVE  str[i' - j' + k] = pat[k]
      BY <1>2 DEF Match, text, Matched
    <3>1. /\ i' - j' = i - j /\ j' + 1 = j
          /\ k \in j..(pat_len - 1) /\ j \in Int /\ pat_len \in Int
      BY <1>2 DEF Match
    <3>2. CASE k = j
      BY <1>2, <3>1, <3>2 DEF Match
    <3>3. CASE k # j
      <4>1. k \in (j + 1)..(pat_len - 1)
        BY <3>1, <3>3
      <4>2. str[i - j + k] = pat[k]
        BY <4>1 DEF SearchInv, Matched
      <4>. QED
        BY <3>1, <4>2
    <3>. QED
      BY <3>2, <3>3
  <2>2. Entered'
    <3>1. CASE j = pat_len - 1
      BY <1>2, <3>1 DEF Match, Aligned, text, Entered
    <3>2. CASE j # pat_len - 1
      BY <1>2, <3>2 DEF Match, Aligned, text, Entered, SearchInv
    <3>. QED
      BY <3>1, <3>2
  <2>3. FoundIsThere'
    BY <1>2 DEF Match, Aligned, FoundIsThere, Searching
  <2>. QED
    BY <2>1, <2>2, <2>3 DEF SearchInv
<1>3. CASE Found
  <2>1. j = -1 /\ result' = i - j /\ result = Searching
    BY <1>3 DEF Found, Aligned
  <2>2. Matched' /\ Entered'
    BY <1>3, <2>1 DEF Found, text, Matched, Entered, SearchInv, Searching
  <2>3. i - j + pat_len <= str_len
    BY <2>1 DEF SearchInv, Entered
  <2>4. \A k \in 0..(pat_len - 1) : str[i - j + k] = pat[k]
    BY <2>1 DEF SearchInv, Matched
  <2>5. Stands(i - j)
    BY <2>3, <2>4 DEF Stands
  <2>6. FoundIsThere'
    BY <1>3, <2>1, <2>5 DEF Found, text, FoundIsThere, Stands
  <2>. QED
    BY <2>2, <2>6 DEF SearchInv
<1>4. CASE Mismatch
  <2>1. Matched' /\ Entered'
    BY <1>4 DEF Mismatch, text, Matched, Entered
  <2>2. FoundIsThere'
    BY <1>4 DEF Mismatch, Aligned, FoundIsThere, Searching
  <2>. QED
    BY <2>1, <2>2 DEF SearchInv
<1>5. CASE Exhausted
  <2>1. Matched' /\ Entered' /\ FoundIsThere'
    BY <1>5 DEF Exhausted, text, Matched, Entered, FoundIsThere, SearchInv,
                NotFound, Searching
  <2>. QED
    BY <2>1 DEF SearchInv
<1>6. CASE UNCHANGED vars
  <2>1. Matched' /\ Entered' /\ FoundIsThere'
    BY <1>6 DEF vars, text, Matched, Entered, FoundIsThere, SearchInv, Stands
  <2>. QED
    BY <2>1 DEF SearchInv
<1>. QED
  BY <1>2, <1>3, <1>4, <1>5, <1>6 DEF Next

(* What bm_search returns is the position of pat in str.                   *)
THEOREM FoundIsCorrect == Spec => []FoundIsThere
<1>1. SearchInv => FoundIsThere
  BY DEF SearchInv
<1>. QED
  BY <1>1, SearchInit, SearchStep, PTL DEF Spec

(* No comparison of bm_search reads outside of str.                        *)
THEOREM ReadsAreInside == Spec => []ReadsInside
<1>1. SearchInv => ReadsInside
  BY DEF SearchInv, ReadsInside, Entered, Aligned, TypeOK
<1>. QED
  BY <1>1, SearchInit, SearchStep, PTL DEF Spec

(***************************************************************************)
(* The search ends.                                                        *)
(***************************************************************************)
LEMMA Product ==
  ASSUME NEW k \in Nat, NEW r \in Nat, NEW s \in Nat
  PROVE  r * k \in Nat /\ (r < s => r * k + k <= s * k)
<1>1. r * k \in Nat
  OBVIOUS
<1>2. ASSUME r < s PROVE r * k + k <= s * k
  <2>. DEFINE d == s - r - 1
  <2>1. d \in Nat /\ s = r + 1 + d
    BY <1>2
  <2>. HIDE DEF d
  <2>2. d * k \in Nat
    BY <2>1
  <2>3. s * k = r * k + k + d * k
    BY <2>1
  <2>. QED
    BY <1>1, <2>2, <2>3
<1>. QED
  BY <1>1, <1>2

LEMMA RoomType == TypeOK => Room \in Nat /\ StepsLeft \in Nat
<1>. SUFFICES ASSUME TypeOK PROVE Room \in Nat /\ StepsLeft \in Nat
  OBVIOUS
<1>1. Room \in Nat
  BY DEF TypeOK, Room
<1>2. Room * (pat_len + 1) \in Nat
  BY <1>1, Product DEF TypeOK
<1>. QED
  BY <1>1, <1>2 DEF TypeOK, StepsLeft

LEMMA RoomTypeNext == TypeOK' => (Room \in Nat /\ StepsLeft \in Nat)'
BY RoomType, PTL

(* A comparison keeps pat where it is and shortens what is left to compare;*)
(* a mismatch moves pat to the right.                                      *)
LEMMA StepsStep ==
  ASSUME SearchInv, Next
  PROVE  StepsLeft' < StepsLeft
<1>0. TypeOK /\ TypeOK'
  BY TypeStep DEF SearchInv
<1>1. Room \in Nat /\ StepsLeft \in Nat /\ Room' \in Nat /\ StepsLeft' \in Nat
  BY <1>0, RoomType, RoomTypeNext
<1>2. Room * (pat_len + 1) \in Nat /\ pat_len \in Nat \ {0}
  BY <1>0, <1>1, Product DEF TypeOK
<1>3. CASE Match
  <2>1. Room' = Room /\ j' = j - 1 /\ result' = Searching /\ result = Searching
        /\ pat_len' = pat_len
    <3>1. i' - j' = i - j
      BY <1>0, <1>3 DEF Match, TypeOK
    <3>. QED
      BY <1>3, <3>1 DEF Match, Aligned, text, Room
  <2>. QED
    BY <1>0, <1>2, <2>1 DEF StepsLeft, TypeOK
<1>4. CASE Mismatch
  <2>1. /\ j \in 0..(pat_len - 1) /\ result = Searching /\ result' = Searching
        /\ j' = pat_len - 1 /\ pat_len' = pat_len /\ str_len' = str_len
    BY <1>0, <1>4 DEF Mismatch, Aligned, text, TypeOK
  <2>2. i' - j' >= i - j + 1 /\ i' - j' \in Int /\ i - j \in Int
    <3>1. Jump(str[i], j) \in Nat /\ Jump(str[i], j) >= pat_len - j
      BY <1>2, <2>1, JumpIs
    <3>. QED
      BY <1>0, <1>4, <2>1, <3>1 DEF Mismatch, TypeOK
  <2>3. i - j + pat_len <= str_len
    BY <1>0, <1>4, <2>1 DEF Mismatch, Aligned, SearchInv, Entered, TypeOK
  <2>4. Room' < Room
    <3>. DEFINE a == i - j
                b == i' - j'
    <3>1. a \in Int /\ b \in Int /\ b >= a + 1 /\ a + pat_len <= str_len
          /\ str_len \in Nat
      BY <1>0, <2>2, <2>3 DEF TypeOK
    <3>2. Room = str_len - pat_len - a + 1
      BY <2>3 DEF Room
    <3>3. Room' = IF b + pat_len <= str_len THEN str_len - pat_len - b + 1 ELSE 0
      BY <2>1 DEF Room
    <3>. HIDE DEF a, b
    <3>. QED
      BY <1>2, <3>1, <3>2, <3>3
  <2>5. Room' * (pat_len + 1) + (pat_len + 1) <= Room * (pat_len + 1)
        /\ Room' * (pat_len + 1) \in Nat
    BY <1>1, <1>2, <2>4, Product, pat_len + 1 \in Nat
  <2>. QED
    BY <1>0, <1>2, <2>1, <2>5 DEF StepsLeft, TypeOK
<1>5. CASE Found \/ Exhausted
  <2>1. result = Searching /\ result' # Searching
    BY <1>0, <1>5 DEF Found, Exhausted, Aligned, TypeOK, Searching, NotFound
  <2>. QED
    BY <1>0, <1>2, <2>1 DEF StepsLeft, TypeOK
<1>. QED
  BY <1>3, <1>4, <1>5 DEF Next

(* bm_search takes at most (str_len - pat_len + 1) * (pat_len + 1) steps   *)
(* and one for its answer: whatever the tables say, pat moves on.          *)
THEOREM SearchEnds == Spec => StepsRunOut
<1>1. SearchInv /\ SearchInv' /\ [Next]_vars
        => [StepsLeft' \in Nat /\ StepsLeft' < StepsLeft]_vars
  BY RoomTypeNext, StepsStep DEF SearchInv
<1>. QED
  BY <1>1, SearchInit, SearchStep, PTL DEF Spec, StepsRunOut

(***************************************************************************)
(* The first occurrence is found.                                          *)
(***************************************************************************)
(* A mismatch never jumps over an occurrence of a pattern without border:  *)
(* where pat stands s to the right, neither table moves i beyond it.       *)
LEMMA JumpMissesNothing ==
  ASSUME TypeOK, Matched, Borderless, j >= 0, str[i] # pat[j],
         NEW s \in Nat \ {0}, Stands(i - j + s)
  PROVE  Jump(str[i], j) <= s + (pat_len - 1 - j)
<1>. DEFINE a == i - j
            m == pat_len
<1>1. /\ j \in 0..(m - 1) /\ m \in Nat \ {0} /\ a \in Nat /\ i = a + j
  BY DEF TypeOK
<1>2. \A k \in 0..(m - 1) : str[a + s + k] = pat[k]
  BY DEF Stands
<1>3. \A k \in (j + 1)..(m - 1) : str[a + k] = pat[k]
  BY DEF Matched
<1>. HIDE DEF a, m
<1>4. Delta1(str[i]) <= s + (m - 1 - j)
  <2>1. CASE s <= j
    <3>1. j - s \in 0..(m - 2)
      BY <1>1, <2>1
    <3>2. str[a + s + (j - s)] = pat[j - s]
      BY <1>1, <1>2, <3>1
    <3>3. a + s + (j - s) = i
      BY <1>1
    <3>4. j - s \in Occurrences(str[i])
      BY <3>1, <3>2, <3>3 DEF Occurrences, m
    <3>. QED
      BY <1>1, <3>4, Delta1Is DEF m
  <2>2. CASE s > j
    BY <1>1, <2>2, Delta1Is DEF m
  <2>. QED
    BY <1>1, <2>1, <2>2
<1>5. Delta2(j) <= s + (m - 1 - j)
  <2>1. CASE s <= j
    <3>. DEFINE p == m - 1 - s
                n == m - 1 - j
    <3>1. p \in 0..(m - 2) /\ n \in 0..p
      BY <1>1, <2>1
    <3>2. ASSUME NEW k \in 0..(n - 1)
          PROVE  pat[p - k] = pat[m - 1 - k]
      <4>1. p - k \in 0..(m - 1) /\ m - 1 - k \in (j + 1)..(m - 1)
        BY <1>1, <2>1
      <4>2. pat[p - k] = str[a + s + (p - k)]
        BY <1>2, <4>1
      <4>3. pat[m - 1 - k] = str[a + (m - 1 - k)]
        BY <1>3, <4>1
      <4>4. a + s + (p - k) = a + (m - 1 - k)
        BY <1>1
      <4>. QED
        BY <4>2, <4>3, <4>4
    <3>3. pat[p - n] # pat[m - 1 - n]
      <4>1. p - n = j - s /\ m - 1 - n = j /\ j - s \in 0..(m - 1)
        BY <1>1, <2>1
      <4>2. str[a + s + (j - s)] = pat[j - s]
        BY <1>2, <4>1
      <4>3. a + s + (j - s) = i
        BY <1>1
      <4>. QED
        BY <4>1, <4>2, <4>3
    <3>4. MaxSuffixLen(p) = n
      <4>1. p \in Nat /\ n \in 0..p
        BY <1>1, <3>1
      <4>2. \A k \in 0..(n - 1) : pat[p - k] = pat[pat_len - 1 - k]
        BY <3>2 DEF m
      <4>3. pat[p - n] # pat[pat_len - 1 - n]
        BY <3>3 DEF m
      <4>. HIDE DEF p, n
      <4>. QED
        BY <4>1, <4>2, <4>3, MaxSuffixLenOnly
    <3>5. n = pat_len - 1 - j /\ pat[p - n] # pat[j]
      BY <1>1, <3>3 DEF m
    <3>6. p \in Ends(j)
      BY <3>1, <3>4, <3>5 DEF Ends, m
    <3>7. Delta2(j) <= (m - 1 - p) + (m - 1 - j)
      BY <1>1, <3>6, Delta2Is DEF m
    <3>. QED
      BY <1>1, <3>7
  <2>2. CASE s > j /\ s < m
    <3>1. ASSUME NEW k \in 0..(m - 1 - s)
          PROVE  pat[s + k] = pat[k]
      <4>1. str[a + s + k] = pat[k]
        BY <1>1, <1>2, <2>2
      <4>2. str[a + (s + k)] = pat[s + k]
        BY <1>1, <1>3, <2>2
      <4>3. a + (s + k) = a + s + k
        BY <1>1
      <4>. QED
        BY <4>1, <4>2, <4>3
    <3>2. IsBorder(s) /\ s \in 1..(m - 1)
      BY <1>1, <2>2, <3>1 DEF IsBorder, m
    <3>. QED
      BY <3>2 DEF Borderless, m
  <2>3. CASE s >= m
    BY <1>1, <2>3, Delta2Is DEF m
  <2>. QED
    BY <1>1, <2>1, <2>2, <2>3
<1>. QED
  BY <1>4, <1>5 DEF Jump, m

FirstInv == SearchInv /\ NoneBefore /\ FirstIsFound

LEMMA FirstInit == Init => FirstInv
<1>. SUFFICES ASSUME Init PROVE FirstInv
  OBVIOUS
<1>1. SearchInv
  BY SearchInit
<1>2. NoneBefore /\ FirstIsFound
  BY <1>1 DEF Init, NoneBefore, FirstIsFound, Searching, NotFound, SearchInv, TypeOK
<1>. QED
  BY <1>1, <1>2 DEF FirstInv

LEMMA FirstStep == FirstInv /\ [Next]_vars => FirstInv'
<1>. SUFFICES ASSUME FirstInv, [Next]_vars PROVE FirstInv'
  OBVIOUS
<1>1. SearchInv /\ SearchInv'
  BY SearchStep DEF FirstInv
<1>2. TypeOK /\ TypeOK' /\ Matched
  BY <1>1 DEF SearchInv
<1>3. UNCHANGED text
  BY DEF Next, Match, Found, Mismatch, Exhausted, vars
<1>4. Borderless' = Borderless /\ \A n : Stands(n)' = Stands(n)
  BY <1>3 DEF text, Borderless, IsBorder, Stands
<1>5. CASE ~Borderless
  BY <1>1, <1>4, <1>5 DEF FirstInv, NoneBefore, FirstIsFound
<1>6. CASE Borderless
  <2>1. CASE Match
    <3>1. i' - j' = i - j /\ result' = result
      BY <1>2, <2>1 DEF Match, TypeOK
    <3>. QED
      BY <1>1, <1>3, <1>4, <3>1 DEF text, FirstInv, NoneBefore, FirstIsFound
  <2>2. CASE Found
    <3>1. result' = i - j /\ result' \in Nat /\ result = Searching
      BY <1>2, <2>2 DEF Found, Aligned, TypeOK
    <3>2. \A n \in 0..(result' - 1) : ~Stands(n)
      BY <1>6, <3>1 DEF FirstInv, NoneBefore
    <3>. QED
      BY <1>1, <1>3, <1>4, <3>1, <3>2
      DEF text, FirstInv, NoneBefore, FirstIsFound, Searching, NotFound
  <2>3. CASE Mismatch
    <3>1. /\ j \in 0..(pat_len - 1) /\ pat_len \in Nat \ {0} /\ i - j \in Nat
          /\ j >= 0 /\ i \in Int /\ str[i] # pat[j] /\ result = Searching
          /\ i' = i + Jump(str[i], j) /\ j' = pat_len - 1 /\ result' = Searching
      BY <1>2, <2>3 DEF Mismatch, Aligned, TypeOK
    <3>2. Jump(str[i], j) \in Nat
      BY <3>1, JumpIs
    <3>3. ASSUME NEW n \in 0..(i' - j' - 1), Stands(n)
          PROVE  FALSE
      <4>1. CASE n < i - j
        BY <1>6, <3>1, <3>3, <4>1 DEF FirstInv, NoneBefore
      <4>2. CASE n = i - j
        <5>1. str[n + j] = pat[j]
          BY <3>1, <3>3 DEF Stands
        <5>. QED
          BY <3>1, <4>2, <5>1
      <4>3. CASE n > i - j
        <5>. DEFINE s == n - (i - j)
        <5>1. s \in Nat \ {0} /\ n = i - j + s
          BY <3>1, <4>3
        <5>. HIDE DEF s
        <5>2. Stands(i - j + s)
          BY <3>3, <5>1
        <5>3. Jump(str[i], j) <= s + (pat_len - 1 - j)
          BY <1>2, <1>6, <3>1, <5>1, <5>2, JumpMissesNothing
        <5>4. n < i' - j'
          BY <3>1, <3>2
        <5>. QED
          BY <3>1, <3>2, <5>1, <5>3, <5>4
      <4>. QED
        BY <3>1, <4>1, <4>2, <4>3
    <3>. QED
      BY <1>1, <1>3, <1>4, <3>1, <3>3
      DEF text, FirstInv, NoneBefore, FirstIsFound, Searching, NotFound
  <2>4. CASE Exhausted
    <3>1. /\ result = Searching /\ result' = NotFound /\ j = pat_len - 1
          /\ i >= str_len /\ str_len \in Nat /\ pat_len \in Nat \ {0} /\ i \in Int
      BY <1>2, <2>4 DEF Exhausted, TypeOK
    <3>2. ASSUME NEW n \in 0..str_len, Stands(n)
          PROVE  FALSE
      <4>1. n + pat_len <= str_len
        BY <3>2 DEF Stands
      <4>2. n \in 0..(i - j - 1)
        BY <3>1, <4>1
      <4>. QED
        BY <1>6, <3>1, <3>2, <4>2 DEF FirstInv, NoneBefore
    <3>. QED
      BY <1>1, <1>3, <1>4, <3>1, <3>2
      DEF text, FirstInv, NoneBefore, FirstIsFound, Searching, NotFound
  <2>5. CASE UNCHANGED vars
    BY <1>1, <1>4, <2>5 DEF vars, text, FirstInv, NoneBefore, FirstIsFound
  <2>. QED
    BY <2>1, <2>2, <2>3, <2>4, <2>5 DEF Next
<1>. QED
  BY <1>5, <1>6

(* bm_search finds the first occurrence of a pattern without border, and   *)
(* none is missed.                                                         *)
THEOREM FirstIsReturned == Spec => []FirstIsFound
<1>1. FirstInv => FirstIsFound
  BY DEF FirstInv
<1>. QED
  BY <1>1, FirstInit, FirstStep, PTL DEF Spec

(* The last character of TZ_VER_STR, a dot, occurs in it only there.       *)
LastIsUnique == \A k \in 0..(pat_len - 2) : pat[k] # pat[pat_len - 1]

LEMMA UniqueIsBorderless == TypeOK /\ LastIsUnique => Borderless
<1>. SUFFICES ASSUME TypeOK, LastIsUnique, NEW q \in 1..(pat_len - 1), IsBorder(q)
              PROVE  FALSE
  BY DEF Borderless
<1>1. pat_len - 1 - q \in 0..(pat_len - 1 - q) /\ pat_len - 1 - q \in 0..(pat_len - 2)
  BY DEF TypeOK
<1>2. pat[q + (pat_len - 1 - q)] = pat[pat_len - 1 - q]
  BY <1>1 DEF IsBorder
<1>3. q + (pat_len - 1 - q) = pat_len - 1
  BY DEF TypeOK
<1>. QED
  BY <1>1, <1>2, <1>3 DEF LastIsUnique

(* So verify_trustzone never fails to find a version that is there: what   *)
(* makes NothingIsMissed false in general does not concern TZ_VER_STR.     *)
THEOREM TzVersionIsNotMissed == Spec => [](LastIsUnique => NothingIsMissed)
<1>1. FirstInv => (LastIsUnique => NothingIsMissed)
  BY UniqueIsBorderless DEF FirstInv, SearchInv, FirstIsFound, NothingIsMissed
<1>. QED
  BY <1>1, FirstInit, FirstStep, PTL DEF Spec

(***************************************************************************)
(* bm_search implements the search its caller relies on.                   *)
(***************************************************************************)
LEMMA SameNotions ==
  ASSUME TypeOK
  PROVE  /\ \A n : Search!Stands(n) <=> Stands(n)
         /\ Search!HasBorder <=> ~Borderless
BY DEF Search!Stands, Stands, Search!HasBorder, Borderless, IsBorder

(* A step of the search answers once and rightly, or is not seen.          *)
LEMMA SearchSimulated ==
  FirstInv /\ FirstInv' /\ [Next]_vars
    => [Search!Answered]_<<str, str_len, pat, pat_len, result>>
<1>. SUFFICES ASSUME FirstInv, FirstInv', [Next]_vars,
                     ~UNCHANGED <<str, str_len, pat, pat_len, result>>
              PROVE  Search!Answered
  OBVIOUS
<1>1. TypeOK /\ FoundIsThere' /\ FirstIsFound'
  BY DEF FirstInv, SearchInv
<1>2. UNCHANGED text
  BY DEF Next, Match, Found, Mismatch, Exhausted, vars
<1>3. /\ Borderless' = Borderless
      /\ \A n : Stands(n)' = Stands(n)
  BY <1>2 DEF text, Borderless, IsBorder, Stands
<1>4. /\ \A n : Search!Stands(n) <=> Stands(n)
      /\ Search!HasBorder <=> ~Borderless
  BY <1>1, SameNotions
<1>5. CASE Found
  <2>1. j = -1 /\ result' = i + 1 /\ Search!Asked
    BY <1>1, <1>5 DEF Found, Aligned, TypeOK, Search!Asked, Searching
  <2>2. result' \in Nat
    BY <1>1, <2>1 DEF TypeOK
  <2>3. Stands(result') /\ (Borderless => \A n \in 0..(result' - 1) : ~Stands(n))
    BY <1>1, <1>2, <1>3, <2>2 DEF FoundIsThere, FirstIsFound, Stands, text
  <2>4. result' \in Search!Places
    <3>1. result' + pat_len <= str_len
      BY <2>3 DEF Stands
    <3>2. str_len \in Nat /\ pat_len \in Nat
      BY <1>1 DEF TypeOK
    <3>3. \A r, p, l \in Nat : r + p <= l => r \in 0..l
      OBVIOUS
    <3>. QED
      BY <2>2, <3>1, <3>2, <3>3, Zenon DEF Search!Places
  <2>. QED
    BY <1>2, <1>4, <2>1, <2>3, <2>4
    DEF Search!Answered, Search!IsFirst, text
<1>6. CASE Exhausted
  <2>1. result' = -1 /\ Search!Asked
    BY <1>6 DEF Exhausted, NotFound, Searching, Search!Asked
  <2>2. Borderless => \A n \in 0..str_len : ~Stands(n)
    BY <1>1, <1>2, <1>3, <2>1 DEF FirstIsFound, NotFound, text
  <2>. QED
    BY <1>2, <1>4, <2>1, <2>2 DEF Search!Answered, Search!Places, text
<1>7. CASE Match \/ Mismatch \/ UNCHANGED vars
  BY <1>7 DEF Match, Mismatch, vars, text
<1>. QED
  BY <1>5, <1>6, <1>7 DEF Next

(* bm_search gives one answer, the one the caller of get_info relies on.   *)
THEOREM SearchImplemented == Spec => SearchIsAbstract
<1>1. Init => Search!Asked
  BY DEF Init, Searching, Search!Asked
<1>. QED
  BY <1>1, FirstInit, FirstStep, SearchSimulated, PTL
  DEF Spec, SearchIsAbstract, Search!Spec
=============================================================================
