---------------------------- MODULE LooperProofs ----------------------------
(***************************************************************************)
(* What the operations on the message queue keep: facts about Looper for   *)
(* every horizon and every set of messages.                                *)
(***************************************************************************)
EXTENDS Looper, SequenceTheorems, TLAPS

(* A queue stays a queue of messages when a message is posted.             *)
LEMMA PostType ==
  ASSUME NEW M, NEW q \in QueueOf(M), NEW d \in Slots, NEW m \in M
  PROVE  Post(q, d, m) \in QueueOf(M)
BY DEF Post, QueueOf

(* ... when the next one is taken,                                         *)
LEMMA TakenType ==
  ASSUME NEW M, NEW q \in QueueOf(M), q[0] # << >>
  PROVE  Taken(q) \in QueueOf(M)
BY HorizonAssumption DEF Taken, QueueOf, Slots

(* ... when time passes,                                                   *)
LEMMA AdvancedType ==
  ASSUME NEW M, NEW q \in QueueOf(M)
  PROVE  Advanced(q) \in QueueOf(M)
<1>1. 0 \in Slots /\ 1 \in Slots
  BY HorizonAssumption DEF Slots
<1>2. \A d \in 1..(Horizon - 1) : d + 1 \in Slots
  BY HorizonAssumption DEF Slots
<1>3. q[0] \o q[1] \in Seq(M)
  BY <1>1 DEF QueueOf
<1>4. << >> \in Seq(M)
  OBVIOUS
<1>. QED
  BY <1>1, <1>2, <1>3, <1>4, HorizonAssumption DEF Advanced, QueueOf, Slots

(* ... and when messages are removed.                                      *)
LEMMA CancelledType ==
  ASSUME NEW M, NoMessage \in M, NEW q \in QueueOf(M), NEW w
  PROVE  Cancelled(q, w) \in QueueOf(M)
<1>. SUFFICES ASSUME NEW d \in Slots
              PROVE  [i \in 1..Len(q[d]) |->
                        IF q[d][i].what = w THEN NoMessage ELSE q[d][i]] \in Seq(M)
  BY DEF Cancelled, QueueOf
<1>1. q[d] \in Seq(M) /\ Len(q[d]) \in Nat
  BY DEF QueueOf
<1>. QED
  BY <1>1

(* Every message that waits keeps waiting when another one is posted, and  *)
(* the posted one waits.                                                   *)
LEMMA PostKeeps ==
  ASSUME NEW M, NEW q \in QueueOf(M), NEW d \in Slots, NEW m \in M
  PROVE  /\ \A x : IsQueued(q, x) => IsQueued(Post(q, d, m), x)
         /\ IsQueued(Post(q, d, m), m)
<1>. DEFINE p == Post(q, d, m)
<1>1. q[d] \in Seq(M) /\ p[d] = Append(q[d], m)
  BY DEF QueueOf, Post
<1>2. \A e \in Slots : /\ Len(q[e]) \in Nat /\ Len(p[e]) \in Nat
                       /\ Len(q[e]) <= Len(p[e])
                       /\ \A i \in 1..Len(q[e]) : p[e][i] = q[e][i]
  BY <1>1 DEF QueueOf, Post
<1>3. Len(p[d]) \in 1..Len(p[d]) /\ p[d][Len(p[d])] = m
  BY <1>1
<1>4. IsQueued(p, m)
  BY <1>3 DEF IsQueued
<1>5. ASSUME NEW x, IsQueued(q, x) PROVE IsQueued(p, x)
  <2>1. PICK e \in Slots : \E i \in 1..Len(q[e]) : q[e][i] = x
    BY <1>5 DEF IsQueued
  <2>2. PICK i \in 1..Len(q[e]) : q[e][i] = x
    BY <2>1
  <2>3. i \in 1..Len(p[e]) /\ p[e][i] = x
    BY <1>2, <2>2
  <2>. QED
    BY <2>3 DEF IsQueued
<1>. QED
  BY <1>4, <1>5

(* Taking the next message loses no other one.                             *)
LEMMA TakenKeeps ==
  ASSUME NEW M, NEW q \in QueueOf(M), q[0] # << >>
  PROVE  \A x : IsQueued(q, x) /\ x # Head(q[0]) => IsQueued(Taken(q), x)
<1>. SUFFICES ASSUME NEW x, IsQueued(q, x), x # Head(q[0])
              PROVE  IsQueued(Taken(q), x)
  OBVIOUS
<1>1. PICK e \in Slots : \E i \in 1..Len(q[e]) : q[e][i] = x
  BY DEF IsQueued
<1>2. PICK i \in 1..Len(q[e]) : q[e][i] = x
  BY <1>1
<1>3. 0 \in Slots /\ q[0] \in Seq(M) /\ q[e] \in Seq(M)
  BY HorizonAssumption DEF Slots, QueueOf
<1>4. Taken(q)[e] = IF e = 0 THEN Tail(q[0]) ELSE q[e]
  BY <1>3 DEF Taken, QueueOf
<1>5. CASE e # 0
  BY <1>2, <1>4, <1>5 DEF IsQueued
<1>6. CASE e = 0
  <2>1. i # 1
    BY <1>2, <1>3, <1>6
  <2>2. i - 1 \in 1..Len(Tail(q[0])) /\ Tail(q[0])[i - 1] = q[0][i]
    BY <1>2, <1>3, <1>6, <2>1
  <2>. QED
    BY <1>2, <1>3, <1>4, <1>6, <2>2 DEF IsQueued
<1>. QED
  BY <1>5, <1>6

(* Time loses none.                                                        *)
LEMMA AdvancedKeeps ==
  ASSUME NEW M, NEW q \in QueueOf(M)
  PROVE  \A x : IsQueued(q, x) => IsQueued(Advanced(q), x)
<1>. SUFFICES ASSUME NEW x, IsQueued(q, x)
              PROVE  IsQueued(Advanced(q), x)
  OBVIOUS
<1>. DEFINE p == Advanced(q)
<1>1. PICK e \in Slots : \E i \in 1..Len(q[e]) : q[e][i] = x
  BY DEF IsQueued
<1>2. PICK i \in 1..Len(q[e]) : q[e][i] = x
  BY <1>1
<1>3. /\ 0 \in Slots /\ 1 \in Slots /\ q[0] \in Seq(M) /\ q[1] \in Seq(M)
  BY HorizonAssumption DEF Slots, QueueOf
<1>0. Len(q[0]) \in Nat /\ Len(q[1]) \in Nat
  BY <1>3
<1>4. p[0] = q[0] \o q[1]
  BY <1>3, Zenon DEF Advanced
<1>8. /\ Len(p[0]) = Len(q[0]) + Len(q[1])
      /\ \A j \in 1..(Len(q[0]) + Len(q[1])) :
           p[0][j] = IF j <= Len(q[0]) THEN q[0][j] ELSE q[1][j - Len(q[0])]
  <2>1. /\ Len(q[0] \o q[1]) = Len(q[0]) + Len(q[1])
        /\ \A j \in 1..(Len(q[0]) + Len(q[1])) :
             (q[0] \o q[1])[j] = IF j <= Len(q[0]) THEN q[0][j]
                                  ELSE q[1][j - Len(q[0])]
    BY <1>3, ConcatProperties, Zenon
  <2>. QED
    BY <1>4, <2>1
<1>5. CASE e = 0
  <2>1. i \in 1..Len(q[0]) /\ q[0][i] = x
    BY <1>2, <1>5
  <2>2. i \in 1..(Len(q[0]) + Len(q[1])) /\ i <= Len(q[0])
    <3>1. \A a, b \in Nat : \A k \in 1..a : k \in 1..(a + b) /\ k <= a
      OBVIOUS
    <3>. QED
      BY <1>0, <2>1, <3>1, Zenon
  <2>3. i \in 1..Len(p[0]) /\ p[0][i] = x
    BY <1>8, <2>1, <2>2
  <2>. QED
    BY <1>3, <2>3 DEF IsQueued
<1>6. CASE e = 1
  <2>. DEFINE j == Len(q[0]) + i
  <2>1. i \in 1..Len(q[1]) /\ q[1][i] = x
    BY <1>2, <1>6
  <2>2. j \in 1..(Len(q[0]) + Len(q[1])) /\ ~(j <= Len(q[0])) /\ j - Len(q[0]) = i
    <3>1. \A a, b \in Nat : \A k \in 1..b :
            a + k \in 1..(a + b) /\ ~(a + k <= a) /\ (a + k) - a = k
      OBVIOUS
    <3>. QED
      BY <1>0, <2>1, <3>1, Zenon
  <2>3. j \in 1..Len(p[0]) /\ p[0][j] = x
    BY <1>8, <2>1, <2>2
  <2>. QED
    BY <1>3, <2>3 DEF IsQueued
<1>7. CASE e \notin {0, 1}
  <2>1. /\ e - 1 \in Slots /\ e - 1 # 0 /\ e - 1 < Horizon /\ (e - 1) + 1 = e
    BY <1>1, <1>7, HorizonAssumption DEF Slots
  <2>2. p[e - 1] = q[e]
    BY <2>1 DEF Advanced
  <2>. QED
    BY <1>2, <2>1, <2>2 DEF IsQueued
<1>. QED
  BY <1>5, <1>6, <1>7

(* Removing the messages w loses only messages w.                          *)
LEMMA CancelledKeeps ==
  ASSUME NEW M, NEW q \in QueueOf(M), NEW w
  PROVE  \A x : IsQueued(q, x) /\ x.what # w => IsQueued(Cancelled(q, w), x)
<1>. SUFFICES ASSUME NEW x, IsQueued(q, x), x.what # w
              PROVE  IsQueued(Cancelled(q, w), x)
  OBVIOUS
<1>1. PICK e \in Slots : \E i \in 1..Len(q[e]) : q[e][i] = x
  BY DEF IsQueued
<1>2. PICK i \in 1..Len(q[e]) : q[e][i] = x
  BY <1>1
<1>3. q[e] \in Seq(M) /\ Len(q[e]) \in Nat
  BY DEF QueueOf
<1>4. Cancelled(q, w)[e] = [j \in 1..Len(q[e]) |->
                              IF q[e][j].what = w THEN NoMessage ELSE q[e][j]]
  BY DEF Cancelled
<1>5. i \in 1..Len(Cancelled(q, w)[e]) /\ Cancelled(q, w)[e][i] = x
  BY <1>2, <1>3, <1>4
<1>. QED
  BY <1>5 DEF IsQueued

(* The same for hasMessages, which looks at the field "what" only.         *)
LEMMA HasMessagesIsQueued ==
  ASSUME NEW q, NEW w
  PROVE  HasMessages(q, w) <=> \E x : IsQueued(q, x) /\ x.what = w
BY Zenon DEF HasMessages, IsQueued

LEMMA PostHas ==
  ASSUME NEW M, NEW q \in QueueOf(M), NEW d \in Slots, NEW m \in M
  PROVE  /\ \A w : HasMessages(q, w) => HasMessages(Post(q, d, m), w)
         /\ HasMessages(Post(q, d, m), m.what)
BY PostKeeps, HasMessagesIsQueued, Zenon

LEMMA TakenHas ==
  ASSUME NEW M, NEW q \in QueueOf(M), q[0] # << >>
  PROVE  \A w : HasMessages(q, w) /\ w # Head(q[0]).what => HasMessages(Taken(q), w)
BY TakenKeeps, HasMessagesIsQueued, Zenon

LEMMA AdvancedHas ==
  ASSUME NEW M, NEW q \in QueueOf(M)
  PROVE  \A w : HasMessages(q, w) => HasMessages(Advanced(q), w)
BY AdvancedKeeps, HasMessagesIsQueued, Zenon

LEMMA CancelledHas ==
  ASSUME NEW M, NEW q \in QueueOf(M), NEW v
  PROVE  \A w : HasMessages(q, w) /\ w # v => HasMessages(Cancelled(q, v), w)
BY CancelledKeeps, HasMessagesIsQueued, Zenon
(***************************************************************************)
(* The order of the messages of some kinds W, which are all posted with    *)
(* the same delay D.                                                       *)
(***************************************************************************)
NoneOf(q, W) == \A e \in Slots : \A j \in 1..Len(q[e]) : q[e][j].what \notin W

(* They wait in the slots up to D, ...                                     *)
Upto(q, W, D) ==
  \A e \in Slots : \A j \in 1..Len(q[e]) : q[e][j].what \in W => e <= D

(* ... and the last of them, which is due after all others, is a w.        *)
LastAt(q, W, d, i) ==
  \A e \in Slots : \A j \in 1..Len(q[e]) :
    q[e][j].what \in W => e < d \/ (e = d /\ j <= i)
LastIs(q, W, w, D) ==
  \E d \in Slots : \E i \in 1..Len(q[d]) :
    d <= D /\ q[d][i].what = w /\ LastAt(q, W, d, i)

LEMMA LastIsUpto ==
  ASSUME NEW q, NEW W, NEW w, NEW D \in Slots, LastIs(q, W, w, D) \/ NoneOf(q, W)
  PROVE  Upto(q, W, D)
<1>1. CASE NoneOf(q, W)
  BY <1>1 DEF NoneOf, Upto
<1>2. CASE LastIs(q, W, w, D)
  <2>1. PICK d \in Slots : d <= D /\ \E i \in 1..Len(q[d]) : LastAt(q, W, d, i)
    BY <1>2 DEF LastIs
  <2>2. PICK i \in 1..Len(q[d]) : LastAt(q, W, d, i)
    BY <2>1
  <2>. QED
    BY <2>1, <2>2 DEF LastAt, Upto, Slots
<1>. QED
  BY <1>1, <1>2

(* Removing messages makes no new ones.                                    *)
LEMMA CancelledUpto ==
  ASSUME NEW M, NEW q \in QueueOf(M), NEW W, NEW v, NEW D \in Slots,
         Upto(q, W, D), NoMessage.what \notin W
  PROVE  Upto(Cancelled(q, v), W, D)
<1>. SUFFICES ASSUME NEW e \in Slots, NEW j \in 1..Len(Cancelled(q, v)[e]),
                     Cancelled(q, v)[e][j].what \in W
              PROVE  e <= D
  BY DEF Upto
<1>1. Cancelled(q, v)[e] = [k \in 1..Len(q[e]) |->
                              IF q[e][k].what = v THEN NoMessage ELSE q[e][k]]
  BY DEF Cancelled
<1>2. q[e] \in Seq(M) /\ Len(q[e]) \in Nat
  BY DEF QueueOf
<1>3. Len(Cancelled(q, v)[e]) = Len(q[e])
  BY <1>1, <1>2
<1>4. q[e][j].what \in W
  BY <1>1, <1>3
<1>. QED
  BY <1>3, <1>4 DEF Upto

(* A new one of them is the last.                                          *)
LEMMA PostIsLast ==
  ASSUME NEW M, NEW q \in QueueOf(M), NEW W, NEW D \in Slots, NEW m \in M,
         Upto(q, W, D)
  PROVE  LastIs(Post(q, D, m), W, m.what, D)
<1>. DEFINE p == Post(q, D, m)
            n == Len(q[D]) + 1
<1>1. q[D] \in Seq(M) /\ p[D] = Append(q[D], m)
  BY DEF QueueOf, Post
<1>2. n \in 1..Len(p[D]) /\ p[D][n] = m /\ Len(p[D]) = n
  BY <1>1
<1>3. \A e \in Slots : e # D => p[e] = q[e]
  BY DEF QueueOf, Post
<1>4. D \in Int /\ Slots \subseteq Int
  BY DEF Slots
<1>5. LastAt(p, W, D, n)
  <2>. SUFFICES ASSUME NEW e \in Slots, NEW j \in 1..Len(p[e]), p[e][j].what \in W
                PROVE  e < D \/ (e = D /\ j <= n)
    BY DEF LastAt
  <2>1. CASE e = D
    BY <1>2, <2>1
  <2>2. CASE e # D
    <3>1. e <= D
      BY <1>3, <2>2 DEF Upto
    <3>. QED
      BY <1>4, <2>2, <3>1
  <2>. QED
    BY <2>1, <2>2
<1>. HIDE DEF p, n
<1>6. LastIs(p, W, m.what, D)
  BY <1>2, <1>4, <1>5 DEF LastIs
<1>. QED
  BY <1>6 DEF p

(* Posting another message changes nothing about them.                     *)
LEMMA PostOther ==
  ASSUME NEW M, NEW q \in QueueOf(M), NEW W, NEW d \in Slots, NEW m \in M,
         m.what \notin W
  PROVE  /\ \A w, D : LastIs(q, W, w, D) => LastIs(Post(q, d, m), W, w, D)
         /\ NoneOf(q, W) => NoneOf(Post(q, d, m), W)
<1>. DEFINE p == Post(q, d, m)
<1>1. q[d] \in Seq(M) /\ p[d] = Append(q[d], m)
  BY DEF QueueOf, Post
<1>2. /\ \A e \in Slots : \A i \in 1..Len(q[e]) : i \in 1..Len(p[e]) /\ p[e][i] = q[e][i]
      /\ \A e \in Slots : \A i \in 1..Len(p[e]) :
           p[e][i].what \in W => i \in 1..Len(q[e]) /\ p[e][i] = q[e][i]
  <2>. SUFFICES ASSUME NEW e \in Slots
                PROVE  /\ \A i \in 1..Len(q[e]) : i \in 1..Len(p[e]) /\ p[e][i] = q[e][i]
                       /\ \A i \in 1..Len(p[e]) :
                            p[e][i].what \in W => i \in 1..Len(q[e]) /\ p[e][i] = q[e][i]
    OBVIOUS
  <2>1. CASE e = d
    BY <1>1, <2>1
  <2>2. CASE e # d
    BY <2>2 DEF Post, QueueOf
  <2>. QED
    BY <2>1, <2>2
<1>. HIDE DEF p
<1>3. NoneOf(q, W) => NoneOf(p, W)
  BY <1>2 DEF NoneOf
<1>4. ASSUME NEW w, NEW D, LastIs(q, W, w, D) PROVE LastIs(p, W, w, D)
  <2>1. PICK e \in Slots : \E i \in 1..Len(q[e]) :
              e <= D /\ q[e][i].what = w /\ LastAt(q, W, e, i)
    BY <1>4 DEF LastIs
  <2>2. PICK i \in 1..Len(q[e]) : e <= D /\ q[e][i].what = w /\ LastAt(q, W, e, i)
    BY <2>1
  <2>3. LastAt(p, W, e, i)
    BY <1>2, <2>2 DEF LastAt
  <2>. QED
    BY <1>2, <2>2, <2>3 DEF LastIs
<1>. QED
  BY <1>3, <1>4 DEF p

(* Taking the next message takes the last of them only if none is left.    *)
LEMMA TakenLast ==
  ASSUME NEW M, NEW q \in QueueOf(M), NEW W, q[0] # << >>
  PROVE  /\ \A w, D : LastIs(q, W, w, D) =>
              LastIs(Taken(q), W, w, D) \/ (Head(q[0]).what = w /\ NoneOf(Taken(q), W))
         /\ NoneOf(q, W) => NoneOf(Taken(q), W)
<1>. DEFINE p == Taken(q)
<1>1. 0 \in Slots /\ q[0] \in Seq(M) /\ p[0] = Tail(q[0])
  BY HorizonAssumption DEF Slots, QueueOf, Taken
<1>2. /\ \A i \in 1..Len(p[0]) : i + 1 \in 1..Len(q[0]) /\ p[0][i] = q[0][i + 1]
      /\ \A i \in 1..Len(q[0]) : i # 1 => i - 1 \in 1..Len(p[0]) /\ p[0][i - 1] = q[0][i]
      /\ Head(q[0]) = q[0][1]
  BY <1>1
<1>3. \A e \in Slots : e # 0 => p[e] = q[e]
  BY DEF QueueOf, Taken
<1>4. \A e \in Slots : Len(q[e]) \in Nat /\ Len(p[e]) \in Nat /\ e \in Nat
  BY <1>1, <1>3 DEF QueueOf, Slots
<1>. HIDE DEF p
<1>5. NoneOf(q, W) => NoneOf(p, W)
  BY <1>2, <1>3 DEF NoneOf
<1>6. ASSUME NEW w, NEW D, LastIs(q, W, w, D)
      PROVE  LastIs(p, W, w, D) \/ (Head(q[0]).what = w /\ NoneOf(p, W))
  <2>1. PICK e \in Slots : \E i \in 1..Len(q[e]) :
              e <= D /\ q[e][i].what = w /\ LastAt(q, W, e, i)
    BY <1>6 DEF LastIs
  <2>2. PICK i \in 1..Len(q[e]) : e <= D /\ q[e][i].what = w /\ LastAt(q, W, e, i)
    BY <2>1
  <2>3. CASE e # 0
    <3>1. i \in 1..Len(p[e]) /\ p[e][i].what = w
      BY <1>3, <2>2, <2>3
    <3>2. LastAt(p, W, e, i)
      <4>. SUFFICES ASSUME NEW f \in Slots, NEW j \in 1..Len(p[f]), p[f][j].what \in W
                    PROVE  f < e \/ (f = e /\ j <= i)
        BY DEF LastAt
      <4>1. CASE f = 0
        BY <1>4, <2>3, <4>1
      <4>2. CASE f # 0
        BY <1>3, <2>2, <4>2 DEF LastAt
      <4>. QED
        BY <4>1, <4>2
    <3>. QED
      BY <2>2, <3>1, <3>2 DEF LastIs
  <2>4. CASE e = 0 /\ i # 1
    <3>1. i - 1 \in 1..Len(p[0]) /\ p[0][i - 1].what = w
      BY <1>2, <2>2, <2>4
    <3>2. LastAt(p, W, 0, i - 1)
      <4>. SUFFICES ASSUME NEW f \in Slots, NEW j \in 1..Len(p[f]), p[f][j].what \in W
                    PROVE  f < 0 \/ (f = 0 /\ j <= i - 1)
        BY DEF LastAt
      <4>1. CASE f = 0
        <5>1. j + 1 \in 1..Len(q[0]) /\ q[0][j + 1].what \in W
          BY <1>2, <4>1
        <5>2. j + 1 <= i
          BY <1>1, <2>2, <2>4, <5>1 DEF LastAt
        <5>. QED
          BY <1>4, <2>4, <4>1, <5>2
      <4>2. CASE f # 0
        BY <1>3, <1>4, <2>2, <2>4, <4>2 DEF LastAt
      <4>. QED
        BY <4>1, <4>2
    <3>. QED
      BY <1>1, <2>2, <2>4, <3>1, <3>2 DEF LastIs
  <2>5. CASE e = 0 /\ i = 1
    <3>1. Head(q[0]).what = w
      BY <1>2, <2>2, <2>5
    <3>2. NoneOf(p, W)
      <4>. SUFFICES ASSUME NEW f \in Slots, NEW j \in 1..Len(p[f]), p[f][j].what \in W
                    PROVE  FALSE
        BY DEF NoneOf
      <4>1. CASE f = 0
        <5>1. j + 1 \in 1..Len(q[0]) /\ q[0][j + 1].what \in W
          BY <1>2, <4>1
        <5>2. j + 1 <= 1
          BY <1>1, <2>2, <2>5, <5>1 DEF LastAt
        <5>. QED
          BY <5>2
      <4>2. CASE f # 0
        BY <1>3, <1>4, <2>2, <2>5, <4>2 DEF LastAt
      <4>. QED
        BY <4>1, <4>2
    <3>. QED
      BY <3>1, <3>2
  <2>. QED
    BY <2>3, <2>4, <2>5
<1>. QED
  BY <1>5, <1>6 DEF p

(* Time moves a message to the slot below, behind those already due.       *)
Below(d) == IF d = 0 THEN 0 ELSE d - 1
Place(q, d, i) == IF d = 1 THEN Len(q[0]) + i ELSE i

LEMMA AdvancedMoves ==
  ASSUME NEW M, NEW q \in QueueOf(M)
  PROVE  /\ \A e \in Slots : \A i \in 1..Len(q[e]) :
              /\ Below(e) \in Slots
              /\ Place(q, e, i) \in 1..Len(Advanced(q)[Below(e)])
              /\ Advanced(q)[Below(e)][Place(q, e, i)] = q[e][i]
         /\ \A f \in Slots : \A k \in 1..Len(Advanced(q)[f]) :
              \E e \in Slots : \E i \in 1..Len(q[e]) :
                f = Below(e) /\ k = Place(q, e, i)
<1>. DEFINE p == Advanced(q)
<1>1. /\ 0 \in Slots /\ 1 \in Slots /\ q[0] \in Seq(M) /\ q[1] \in Seq(M)
  BY HorizonAssumption DEF Slots, QueueOf
<1>2. Len(q[0]) \in Nat /\ Len(q[1]) \in Nat
  BY <1>1
<1>3. p[0] = q[0] \o q[1]
  BY <1>1, Zenon DEF Advanced
<1>4. /\ Len(p[0]) = Len(q[0]) + Len(q[1])
      /\ \A j \in 1..(Len(q[0]) + Len(q[1])) :
           p[0][j] = IF j <= Len(q[0]) THEN q[0][j] ELSE q[1][j - Len(q[0])]
  <2>1. /\ Len(q[0] \o q[1]) = Len(q[0]) + Len(q[1])
        /\ \A j \in 1..(Len(q[0]) + Len(q[1])) :
             (q[0] \o q[1])[j] = IF j <= Len(q[0]) THEN q[0][j]
                                  ELSE q[1][j - Len(q[0])]
    BY <1>1, ConcatProperties, Zenon
  <2>. QED
    BY <1>3, <2>1
<1>5. ASSUME NEW f \in Slots, f # 0
      PROVE  \/ f + 1 \in Slots /\ p[f] = q[f + 1]
             \/ f + 1 \notin Slots /\ p[f] = << >>
  <2>1. p[f] = IF f < Horizon THEN q[f + 1] ELSE << >>
    BY <1>5 DEF Advanced
  <2>2. f + 1 \in Slots <=> f < Horizon
    BY HorizonAssumption DEF Slots
  <2>. QED
    BY <2>1, <2>2
<1>6. \A e \in Slots : e \in Nat /\ Below(e) \in Slots
  BY HorizonAssumption DEF Slots, Below
<1>. HIDE DEF p
<1>7. ASSUME NEW e \in Slots, NEW i \in 1..Len(q[e])
      PROVE  /\ Place(q, e, i) \in 1..Len(p[Below(e)])
             /\ p[Below(e)][Place(q, e, i)] = q[e][i]
  <2>1. CASE e = 0
    <3>1. Below(e) = 0 /\ Place(q, e, i) = i /\ i \in 1..Len(q[0])
      BY <2>1 DEF Below, Place
    <3>2. i \in 1..(Len(q[0]) + Len(q[1])) /\ i <= Len(q[0])
      <4>1. \A a, b \in Nat : \A k \in 1..a : k \in 1..(a + b) /\ k <= a
        OBVIOUS
      <4>. QED
        BY <1>2, <3>1, <4>1, Zenon
    <3>. QED
      BY ONLY <1>4, <2>1, <3>1, <3>2
  <2>2. CASE e = 1
    <3>. DEFINE j == Len(q[0]) + i
    <3>1. Below(e) = 0 /\ Place(q, e, i) = j /\ i \in 1..Len(q[1])
      BY <2>2 DEF Below, Place
    <3>2. j \in 1..(Len(q[0]) + Len(q[1])) /\ ~(j <= Len(q[0])) /\ j - Len(q[0]) = i
      <4>1. \A a, b \in Nat : \A k \in 1..b :
              a + k \in 1..(a + b) /\ ~(a + k <= a) /\ (a + k) - a = k
        OBVIOUS
      <4>. QED
        BY <1>2, <3>1, <4>1, Zenon
    <3>. HIDE DEF j
    <3>. QED
      BY ONLY <1>4, <2>2, <3>1, <3>2
  <2>3. CASE e \notin {0, 1}
    <3>1. e - 1 \in Slots /\ e - 1 # 0 /\ (e - 1) + 1 = e
      BY <2>3, HorizonAssumption DEF Slots
    <3>2. p[e - 1] = q[e]
      BY <1>5, <3>1
    <3>. QED
      BY <2>3, <3>2 DEF Below, Place
  <2>. QED
    BY <2>1, <2>2, <2>3
<1>8. ASSUME NEW f \in Slots, NEW k \in 1..Len(p[f])
      PROVE  \E e \in Slots : \E i \in 1..Len(q[e]) :
               f = Below(e) /\ k = Place(q, e, i)
  <2>1. CASE f = 0 /\ k <= Len(q[0])
    <3>1. k \in 1..Len(q[0]) /\ f = Below(0) /\ k = Place(q, 0, k)
      BY <1>2, <2>1 DEF Below, Place
    <3>. QED
      BY <1>1, <3>1
  <2>2. CASE f = 0 /\ ~(k <= Len(q[0]))
    <3>. DEFINE i == k - Len(q[0])
    <3>1. i \in 1..Len(q[1]) /\ f = Below(1) /\ k = Place(q, 1, i)
      <4>1. Len(p[f]) = Len(q[0]) + Len(q[1])
        BY <1>4, <2>2
      <4>2. i \in 1..Len(q[1]) /\ k = Len(q[0]) + i
        <5>1. \A a, b \in Nat : \A n \in 1..(a + b) :
                ~(n <= a) => n - a \in 1..b /\ n = a + (n - a)
          OBVIOUS
        <5>2. k \in 1..(Len(q[0]) + Len(q[1]))
          BY ONLY <4>1, k \in 1..Len(p[f])
        <5>. QED
          BY <1>2, <2>2, <5>1, <5>2, Zenon
      <4>. QED
        BY <2>2, <4>2 DEF Below, Place
    <3>. QED
      BY <1>1, <3>1
  <2>3. CASE f # 0
    <3>0. p[f] # << >>
      OBVIOUS
    <3>1. f + 1 \in Slots /\ p[f] = q[f + 1]
      BY <1>5, <2>3, <3>0
    <3>2. k \in 1..Len(q[f + 1]) /\ f = Below(f + 1) /\ k = Place(q, f + 1, k)
      <4>1. f \in Nat /\ f + 1 # 0 /\ f + 1 # 1 /\ (f + 1) - 1 = f
        BY <1>6, <2>3
      <4>2. Below(f + 1) = f /\ Place(q, f + 1, k) = k
        BY <4>1, Zenon DEF Below, Place
      <4>. QED
        BY <3>1, <4>2
    <3>. QED
      BY <3>1, <3>2
  <2>. QED
    BY <2>1, <2>2, <2>3
<1>. QED
  BY <1>6, <1>7, <1>8 DEF p

(* So it changes nothing about their order.                                *)
LEMMA AdvancedLast ==
  ASSUME NEW M, NEW q \in QueueOf(M), NEW W
  PROVE  /\ \A D \in Slots : \A w : LastIs(q, W, w, D) => LastIs(Advanced(q), W, w, D)
         /\ NoneOf(q, W) => NoneOf(Advanced(q), W)
<1>. DEFINE p == Advanced(q)
<1>1. /\ \A e \in Slots : \A i \in 1..Len(q[e]) :
           /\ Below(e) \in Slots /\ Place(q, e, i) \in 1..Len(p[Below(e)])
           /\ p[Below(e)][Place(q, e, i)] = q[e][i]
      /\ \A f \in Slots : \A k \in 1..Len(p[f]) :
           \E e \in Slots : \E i \in 1..Len(q[e]) :
             f = Below(e) /\ k = Place(q, e, i)
  BY AdvancedMoves
<1>2. \A e \in Slots : e \in Nat /\ Len(q[e]) \in Nat
  BY DEF Slots, QueueOf
<1>. HIDE DEF p
<1>3. NoneOf(q, W) => NoneOf(p, W)
  <2>. SUFFICES ASSUME NoneOf(q, W), NEW f \in Slots, NEW k \in 1..Len(p[f])
                PROVE  p[f][k].what \notin W
    BY DEF NoneOf
  <2>1. PICK e \in Slots : \E i \in 1..Len(q[e]) : f = Below(e) /\ k = Place(q, e, i)
    BY <1>1
  <2>2. PICK i \in 1..Len(q[e]) : f = Below(e) /\ k = Place(q, e, i)
    BY <2>1
  <2>. QED
    BY <1>1, <2>2 DEF NoneOf
<1>4. ASSUME NEW D \in Slots, NEW w, LastIs(q, W, w, D) PROVE LastIs(p, W, w, D)
  <2>1. PICK d \in Slots : \E i \in 1..Len(q[d]) :
              d <= D /\ q[d][i].what = w /\ LastAt(q, W, d, i)
    BY <1>4 DEF LastIs
  <2>2. PICK i \in 1..Len(q[d]) : d <= D /\ q[d][i].what = w /\ LastAt(q, W, d, i)
    BY <2>1
  <2>3. Below(d) <= D
    BY <1>2, <2>2 DEF Below
  <2>4. LastAt(p, W, Below(d), Place(q, d, i))
    <3>. SUFFICES ASSUME NEW f \in Slots, NEW k \in 1..Len(p[f]), p[f][k].what \in W
                  PROVE  f < Below(d) \/ (f = Below(d) /\ k <= Place(q, d, i))
      BY DEF LastAt
    <3>1. PICK e \in Slots : \E j \in 1..Len(q[e]) : f = Below(e) /\ k = Place(q, e, j)
      BY <1>1
    <3>2. PICK j \in 1..Len(q[e]) : f = Below(e) /\ k = Place(q, e, j)
      BY <3>1
    <3>3. q[e][j].what \in W
      BY <1>1, <3>2
    <3>4. e < d \/ (e = d /\ j <= i)
      BY <2>2, <3>3 DEF LastAt
    <3>5. e \in Nat /\ d \in Nat /\ j \in Nat /\ i \in Nat /\ j <= Len(q[e]) /\ i >= 1
          /\ Len(q[0]) \in Nat
      <4>1. 0 \in Slots
        BY HorizonAssumption DEF Slots
      <4>. QED
        BY <1>2, <4>1
    <3>. QED
      BY <3>2, <3>4, <3>5 DEF Below, Place
  <2>. QED
    BY <1>1, <2>2, <2>3, <2>4 DEF LastIs
<1>. QED
  BY <1>3, <1>4 DEF p

(***************************************************************************)
(* The converse: where a message that waits comes from.                    *)
(***************************************************************************)
LEMMA PostQueued ==
  ASSUME NEW M, NEW q \in QueueOf(M), NEW d \in Slots, NEW m \in M
  PROVE  \A x : IsQueued(Post(q, d, m), x) <=> IsQueued(q, x) \/ x = m
<1>. SUFFICES ASSUME NEW x, IsQueued(Post(q, d, m), x), x # m
              PROVE  IsQueued(q, x)
  BY PostKeeps
<1>1. q[d] \in Seq(M) /\ Post(q, d, m)[d] = Append(q[d], m)
  BY DEF QueueOf, Post
<1>2. PICK e \in Slots : \E i \in 1..Len(Post(q, d, m)[e]) : Post(q, d, m)[e][i] = x
  BY DEF IsQueued
<1>3. PICK i \in 1..Len(Post(q, d, m)[e]) : Post(q, d, m)[e][i] = x
  BY <1>2
<1>4. CASE e = d
  <2>1. i \in 1..Len(q[d]) /\ q[d][i] = x
    BY <1>1, <1>3, <1>4
  <2>. QED
    BY <2>1 DEF IsQueued
<1>5. CASE e # d
  <2>1. Post(q, d, m)[e] = q[e]
    BY <1>5 DEF Post, QueueOf
  <2>. QED
    BY <1>3, <2>1 DEF IsQueued
<1>. QED
  BY <1>4, <1>5

LEMMA TakenQueued ==
  ASSUME NEW M, NEW q \in QueueOf(M), q[0] # << >>
  PROVE  \A x : IsQueued(Taken(q), x) => IsQueued(q, x)
<1>. SUFFICES ASSUME NEW x, IsQueued(Taken(q), x)
              PROVE  IsQueued(q, x)
  OBVIOUS
<1>1. 0 \in Slots /\ q[0] \in Seq(M) /\ Taken(q)[0] = Tail(q[0])
  BY HorizonAssumption DEF Slots, QueueOf, Taken
<1>2. PICK e \in Slots : \E i \in 1..Len(Taken(q)[e]) : Taken(q)[e][i] = x
  BY DEF IsQueued
<1>3. PICK i \in 1..Len(Taken(q)[e]) : Taken(q)[e][i] = x
  BY <1>2
<1>4. CASE e = 0
  <2>1. i \in 1..Len(Tail(q[0])) /\ Tail(q[0])[i] = x
    BY <1>1, <1>3, <1>4
  <2>2. i + 1 \in 1..Len(q[0]) /\ Tail(q[0])[i] = q[0][i + 1]
    BY <1>1, <2>1
  <2>. QED
    BY <1>1, <2>1, <2>2 DEF IsQueued
<1>5. CASE e # 0
  <2>1. Taken(q)[e] = q[e]
    BY <1>5 DEF Taken, QueueOf
  <2>. QED
    BY <1>3, <2>1 DEF IsQueued
<1>. QED
  BY <1>4, <1>5

LEMMA AdvancedQueued ==
  ASSUME NEW M, NEW q \in QueueOf(M)
  PROVE  \A x : IsQueued(Advanced(q), x) <=> IsQueued(q, x)
<1>. SUFFICES ASSUME NEW x, IsQueued(Advanced(q), x)
              PROVE  IsQueued(q, x)
  BY AdvancedKeeps
<1>1. PICK f \in Slots : \E k \in 1..Len(Advanced(q)[f]) : Advanced(q)[f][k] = x
  BY DEF IsQueued
<1>2. PICK k \in 1..Len(Advanced(q)[f]) : Advanced(q)[f][k] = x
  BY <1>1
<1>3. PICK e \in Slots : \E i \in 1..Len(q[e]) : f = Below(e) /\ k = Place(q, e, i)
  BY AdvancedMoves
<1>4. PICK i \in 1..Len(q[e]) : f = Below(e) /\ k = Place(q, e, i)
  BY <1>3
<1>5. q[e][i] = x
  BY <1>2, <1>4, AdvancedMoves
<1>. QED
  BY <1>5 DEF IsQueued

LEMMA CancelledQueued ==
  ASSUME NEW M, NEW q \in QueueOf(M), NEW w
  PROVE  \A x : x # NoMessage =>
           (IsQueued(Cancelled(q, w), x) <=> IsQueued(q, x) /\ x.what # w)
<1>. SUFFICES ASSUME NEW x, x # NoMessage, IsQueued(Cancelled(q, w), x)
              PROVE  IsQueued(q, x) /\ x.what # w
  BY CancelledKeeps
<1>1. PICK e \in Slots : \E i \in 1..Len(Cancelled(q, w)[e]) : Cancelled(q, w)[e][i] = x
  BY DEF IsQueued
<1>2. PICK i \in 1..Len(Cancelled(q, w)[e]) : Cancelled(q, w)[e][i] = x
  BY <1>1
<1>3. q[e] \in Seq(M) /\ Len(q[e]) \in Nat
  BY DEF QueueOf
<1>4. Cancelled(q, w)[e] = [j \in 1..Len(q[e]) |->
                              IF q[e][j].what = w THEN NoMessage ELSE q[e][j]]
  BY DEF Cancelled
<1>5. i \in 1..Len(q[e]) /\ q[e][i] = x /\ x.what # w
  BY <1>2, <1>3, <1>4
<1>. QED
  BY <1>5 DEF IsQueued

(* The same for hasMessages.                                               *)
LEMMA PostQueuedWhat ==
  ASSUME NEW M, NEW q \in QueueOf(M), NEW d \in Slots, NEW m \in M
  PROVE  \A w : HasMessages(Post(q, d, m), w) <=> HasMessages(q, w) \/ w = m.what
BY PostQueued, HasMessagesIsQueued, Zenon

LEMMA TakenQueuedWhat ==
  ASSUME NEW M, NEW q \in QueueOf(M), q[0] # << >>
  PROVE  \A w : HasMessages(Taken(q), w) => HasMessages(q, w)
BY TakenQueued, HasMessagesIsQueued, Zenon

LEMMA AdvancedQueuedWhat ==
  ASSUME NEW M, NEW q \in QueueOf(M)
  PROVE  \A w : HasMessages(Advanced(q), w) <=> HasMessages(q, w)
BY AdvancedQueued, HasMessagesIsQueued, Zenon

LEMMA CancelledQueuedWhat ==
  ASSUME NEW M, NEW q \in QueueOf(M), NEW v
  PROVE  \A w : w # "none" =>
           (HasMessages(Cancelled(q, v), w) <=> HasMessages(q, w) /\ w # v)
<1>1. \A x : x.what # "none" => x # NoMessage
  BY DEF NoMessage
<1>. SUFFICES ASSUME NEW w, w # "none"
              PROVE  HasMessages(Cancelled(q, v), w) <=> HasMessages(q, w) /\ w # v
  OBVIOUS
<1>2. ASSUME NEW x, x.what = w
      PROVE  IsQueued(Cancelled(q, v), x) <=> IsQueued(q, x) /\ w # v
  BY <1>1, <1>2, CancelledQueued
<1>3. HasMessages(q, w) <=> \E x : IsQueued(q, x) /\ x.what = w
  BY HasMessagesIsQueued, Zenon
<1>4. HasMessages(Cancelled(q, v), w) <=> \E x : IsQueued(Cancelled(q, v), x) /\ x.what = w
  BY HasMessagesIsQueued, Zenon
<1>. QED
  BY <1>2, <1>3, <1>4, Zenon

(***************************************************************************)
(* When the messages w are due.                                            *)
(***************************************************************************)
SlotsOf(q, w) == {d \in Slots : \E i \in 1..Len(q[d]) : q[d][i].what = w}

LEMMA HasMessagesSlots ==
  ASSUME NEW q, NEW w
  PROVE  HasMessages(q, w) <=> SlotsOf(q, w) # {}
BY DEF HasMessages, SlotsOf

LEMMA EmptySlots == \A w : SlotsOf(EmptyQueue, w) = {}
BY DEF SlotsOf, EmptyQueue

LEMMA PostSlots ==
  ASSUME NEW M, NEW q \in QueueOf(M), NEW d \in Slots, NEW m \in M
  PROVE  \A w : SlotsOf(Post(q, d, m), w) =
                  IF w = m.what THEN SlotsOf(q, w) \cup {d} ELSE SlotsOf(q, w)
<1>. DEFINE p == Post(q, d, m)
<1>1. q[d] \in Seq(M) /\ p[d] = Append(q[d], m)
  BY DEF QueueOf, Post
<1>2. \A e \in Slots \ {d} : p[e] = q[e]
  BY DEF QueueOf, Post
<1>3. ASSUME NEW w
      PROVE  (\E i \in 1..Len(p[d]) : p[d][i].what = w)
               <=> w = m.what \/ \E i \in 1..Len(q[d]) : q[d][i].what = w
  <2>1. Len(p[d]) = Len(q[d]) + 1 /\ Len(q[d]) \in Nat /\ p[d][Len(p[d])] = m
    BY <1>1
  <2>2. \A i \in 1..Len(q[d]) : i \in 1..Len(p[d]) /\ p[d][i] = q[d][i]
    BY <1>1
  <2>3. \A i \in 1..Len(p[d]) : i \in 1..Len(q[d]) \/ i = Len(p[d])
    BY <2>1
  <2>4. Len(p[d]) \in 1..Len(p[d])
    BY <2>1
  <2>. HIDE DEF p
  <2>. QED
    BY <2>1, <2>2, <2>3, <2>4
<1>. HIDE DEF p
<1>4. ASSUME NEW w
      PROVE  SlotsOf(p, w) = IF w = m.what THEN SlotsOf(q, w) \cup {d} ELSE SlotsOf(q, w)
  <2>1. ASSUME NEW e \in Slots
        PROVE  e \in SlotsOf(p, w) <=> (e = d /\ w = m.what) \/ e \in SlotsOf(q, w)
    BY <1>2, <1>3 DEF SlotsOf
  <2>2. SlotsOf(p, w) \subseteq Slots /\ SlotsOf(q, w) \subseteq Slots
    BY DEF SlotsOf
  <2>. QED
    BY <2>1, <2>2
<1>. QED
  BY <1>4, Zenon DEF p

(* Taking the next message leaves all others where they are.               *)
LEMMA TakenSlots ==
  ASSUME NEW M, NEW q \in QueueOf(M), q[0] # << >>
  PROVE  /\ 0 \in SlotsOf(q, Head(q[0]).what)
         /\ \A w : SlotsOf(Taken(q), w) \subseteq SlotsOf(q, w)
         /\ \A w : w # Head(q[0]).what => SlotsOf(Taken(q), w) = SlotsOf(q, w)
<1>. DEFINE p == Taken(q)
<1>1. 0 \in Slots /\ q[0] \in Seq(M) /\ p[0] = Tail(q[0])
  BY HorizonAssumption DEF Slots, QueueOf, Taken
<1>2. \A e \in Slots \ {0} : p[e] = q[e]
  BY DEF QueueOf, Taken
<1>3. /\ \A i \in 1..Len(p[0]) : i + 1 \in 1..Len(q[0]) /\ p[0][i] = q[0][i + 1]
      /\ \A i \in 1..Len(q[0]) : i # 1 => i - 1 \in 1..Len(p[0]) /\ p[0][i - 1] = q[0][i]
      /\ 1 \in 1..Len(q[0]) /\ q[0][1] = Head(q[0])
  BY <1>1
<1>. HIDE DEF p
<1>4. 0 \in SlotsOf(q, Head(q[0]).what)
  BY <1>1, <1>3 DEF SlotsOf
<1>5. ASSUME NEW w PROVE SlotsOf(p, w) \subseteq SlotsOf(q, w)
  BY <1>2, <1>3 DEF SlotsOf
<1>6. ASSUME NEW w, w # Head(q[0]).what PROVE SlotsOf(q, w) \subseteq SlotsOf(p, w)
  BY <1>2, <1>3, <1>6 DEF SlotsOf
<1>7. ASSUME NEW w, w # Head(q[0]).what PROVE SlotsOf(p, w) = SlotsOf(q, w)
  <2>1. SlotsOf(p, w) \subseteq SlotsOf(q, w)
    BY <1>5
  <2>2. SlotsOf(q, w) \subseteq SlotsOf(p, w)
    BY <1>6, <1>7
  <2>. QED
    BY <2>1, <2>2
<1>. QED
  BY <1>4, <1>5, <1>7, Zenon DEF p

(* Time brings each of them one tick nearer.                               *)
LEMMA AdvancedSlots ==
  ASSUME NEW M, NEW q \in QueueOf(M)
  PROVE  \A w : SlotsOf(Advanced(q), w) = {Below(d) : d \in SlotsOf(q, w)}
<1>. SUFFICES ASSUME NEW w
              PROVE  SlotsOf(Advanced(q), w) = {Below(d) : d \in SlotsOf(q, w)}
  OBVIOUS
<1>1. ASSUME NEW d \in SlotsOf(q, w) PROVE Below(d) \in SlotsOf(Advanced(q), w)
  <2>1. d \in Slots /\ \E i \in 1..Len(q[d]) : q[d][i].what = w
    BY DEF SlotsOf
  <2>2. PICK i \in 1..Len(q[d]) : q[d][i].what = w
    BY <2>1
  <2>3. /\ Below(d) \in Slots /\ Place(q, d, i) \in 1..Len(Advanced(q)[Below(d)])
        /\ Advanced(q)[Below(d)][Place(q, d, i)].what = w
    BY <2>1, <2>2, AdvancedMoves
  <2>. QED
    BY <2>3, Zenon DEF SlotsOf
<1>2. ASSUME NEW f \in SlotsOf(Advanced(q), w)
      PROVE  \E d \in SlotsOf(q, w) : f = Below(d)
  <2>1. PICK k \in 1..Len(Advanced(q)[f]) : Advanced(q)[f][k].what = w
    BY DEF SlotsOf
  <2>2. PICK e \in Slots : \E i \in 1..Len(q[e]) : f = Below(e) /\ k = Place(q, e, i)
    BY AdvancedMoves DEF SlotsOf
  <2>3. PICK i \in 1..Len(q[e]) : f = Below(e) /\ k = Place(q, e, i)
    BY <2>2
  <2>4. q[e][i].what = w
    BY <2>1, <2>3, AdvancedMoves
  <2>. QED
    BY <2>3, <2>4 DEF SlotsOf
<1>. QED
  BY <1>1, <1>2

(* The message that is next is due, and nothing is due in an empty slot.   *)
LEMMA NothingDue ==
  ASSUME NEW q, q[0] = << >>
  PROVE  \A w : 0 \notin SlotsOf(q, w)
BY DEF SlotsOf

(***************************************************************************)
(* At most one message of some kinds W waits.                              *)
(***************************************************************************)
AtMostOne(q, W) ==
  \A d, e \in Slots : \A i \in 1..Len(q[d]), j \in 1..Len(q[e]) :
    q[d][i].what \in W /\ q[e][j].what \in W => d = e /\ i = j

LEMMA EmptyOne == \A W : AtMostOne(EmptyQueue, W)
BY DEF AtMostOne, EmptyQueue

LEMMA PostOne ==
  ASSUME NEW M, NEW q \in QueueOf(M), NEW W, NEW d \in Slots, NEW m \in M,
         AtMostOne(q, W), m.what \notin W \/ \A w \in W : SlotsOf(q, w) = {}
  PROVE  AtMostOne(Post(q, d, m), W)
<1>. DEFINE p == Post(q, d, m)
<1>1. q[d] \in Seq(M) /\ p[d] = Append(q[d], m)
  BY DEF QueueOf, Post
<1>2. \A e \in Slots \ {d} : p[e] = q[e]
  BY DEF QueueOf, Post
<1>3. \A i \in 1..Len(p[d]) :
         (i \in 1..Len(q[d]) /\ p[d][i] = q[d][i]) \/ (i = Len(p[d]) /\ p[d][i] = m)
  BY <1>1
<1>. HIDE DEF p
<1>4. \A e \in Slots : \A i \in 1..Len(p[e]) :
         \/ i \in 1..Len(q[e]) /\ p[e][i] = q[e][i]
         \/ e = d /\ i = Len(p[d]) /\ p[e][i] = m
  BY <1>2, <1>3
<1>5. ASSUME m.what \notin W PROVE AtMostOne(p, W)
  <2>. SUFFICES ASSUME NEW e \in Slots, NEW f \in Slots,
                       NEW i \in 1..Len(p[e]), NEW j \in 1..Len(p[f]),
                       p[e][i].what \in W, p[f][j].what \in W
                PROVE  e = f /\ i = j
    BY DEF AtMostOne
  <2>1. i \in 1..Len(q[e]) /\ q[e][i].what \in W
    BY <1>4, <1>5
  <2>2. j \in 1..Len(q[f]) /\ q[f][j].what \in W
    BY <1>4, <1>5
  <2>. QED
    BY <2>1, <2>2, Zenon DEF AtMostOne
<1>6. ASSUME \A w \in W : SlotsOf(q, w) = {} PROVE AtMostOne(p, W)
  <2>1. \A e \in Slots : \A i \in 1..Len(q[e]) : q[e][i].what \notin W
    BY <1>6 DEF SlotsOf
  <2>. SUFFICES ASSUME NEW e \in Slots, NEW f \in Slots,
                       NEW i \in 1..Len(p[e]), NEW j \in 1..Len(p[f]),
                       p[e][i].what \in W, p[f][j].what \in W
                PROVE  e = f /\ i = j
    BY DEF AtMostOne
  <2>2. e = d /\ i = Len(p[d]) /\ f = d /\ j = Len(p[d])
    BY <1>4, <2>1
  <2>. QED
    BY <2>2
<1>. QED
  BY <1>5, <1>6 DEF p

LEMMA TakenOne ==
  ASSUME NEW M, NEW q \in QueueOf(M), NEW W, q[0] # << >>, AtMostOne(q, W)
  PROVE  /\ AtMostOne(Taken(q), W)
         /\ Head(q[0]).what \in W => \A w \in W : SlotsOf(Taken(q), w) = {}
<1>. DEFINE p == Taken(q)
            From(e, i) == IF e = 0 THEN i + 1 ELSE i
<1>1. 0 \in Slots /\ q[0] \in Seq(M) /\ p[0] = Tail(q[0])
  BY HorizonAssumption DEF Slots, QueueOf, Taken
<1>2. \A e \in Slots \ {0} : p[e] = q[e] /\ Len(q[e]) \in Nat
  BY DEF QueueOf, Taken
<1>3. /\ \A i \in 1..Len(p[0]) : i + 1 \in 1..Len(q[0]) /\ p[0][i] = q[0][i + 1]
      /\ 1 \in 1..Len(q[0]) /\ q[0][1] = Head(q[0])
      /\ Len(q[0]) \in Nat /\ Len(p[0]) \in Nat
  BY <1>1
<1>. HIDE DEF p
<1>4. \A e \in Slots : \A i \in 1..Len(p[e]) :
         From(e, i) \in 1..Len(q[e]) /\ p[e][i] = q[e][From(e, i)]
  BY <1>2, <1>3
<1>5. \A e \in Slots : \A i, j \in 1..Len(p[e]) : From(e, i) = From(e, j) => i = j
  BY <1>2, <1>3
<1>6. \A i \in 1..Len(p[0]) : From(0, i) # 1
  BY <1>3
<1>. HIDE DEF From
<1>7. AtMostOne(p, W)
  <2>. SUFFICES ASSUME NEW d \in Slots, NEW e \in Slots,
                       NEW i \in 1..Len(p[d]), NEW j \in 1..Len(p[e]),
                       p[d][i].what \in W, p[e][j].what \in W
                PROVE  d = e /\ i = j
    BY DEF AtMostOne
  <2>0. /\ From(d, i) \in 1..Len(q[d]) /\ q[d][From(d, i)].what \in W
        /\ From(e, j) \in 1..Len(q[e]) /\ q[e][From(e, j)].what \in W
    BY <1>4
  <2>1. d = e /\ From(d, i) = From(e, j)
    BY <2>0, Zenon DEF AtMostOne
  <2>. QED
    BY <1>5, <2>1
<1>8. ASSUME Head(q[0]).what \in W, NEW w \in W, NEW e \in SlotsOf(p, w) PROVE FALSE
  <2>1. PICK i \in 1..Len(p[e]) : p[e][i].what = w
    BY DEF SlotsOf
  <2>2. e \in Slots /\ From(e, i) \in 1..Len(q[e]) /\ q[e][From(e, i)].what \in W
    BY <1>4, <2>1 DEF SlotsOf
  <2>3. e = 0 /\ From(e, i) = 1
    BY <1>1, <1>3, <1>8, <2>2 DEF AtMostOne
  <2>. QED
    BY <1>6, <2>3
<1>. QED
  BY <1>7, <1>8 DEF p

LEMMA AdvancedOne ==
  ASSUME NEW M, NEW q \in QueueOf(M), NEW W, AtMostOne(q, W)
  PROVE  AtMostOne(Advanced(q), W)
<1>. SUFFICES ASSUME NEW f \in Slots, NEW g \in Slots,
                     NEW k \in 1..Len(Advanced(q)[f]), NEW l \in 1..Len(Advanced(q)[g]),
                     Advanced(q)[f][k].what \in W, Advanced(q)[g][l].what \in W
              PROVE  f = g /\ k = l
  BY DEF AtMostOne
<1>1. PICK d \in Slots : \E i \in 1..Len(q[d]) : f = Below(d) /\ k = Place(q, d, i)
  BY AdvancedMoves
<1>2. PICK i \in 1..Len(q[d]) : f = Below(d) /\ k = Place(q, d, i)
  BY <1>1
<1>3. PICK e \in Slots : \E j \in 1..Len(q[e]) : g = Below(e) /\ l = Place(q, e, j)
  BY AdvancedMoves
<1>4. PICK j \in 1..Len(q[e]) : g = Below(e) /\ l = Place(q, e, j)
  BY <1>3
<1>5. Advanced(q)[f][k] = q[d][i] /\ Advanced(q)[g][l] = q[e][j]
  BY <1>2, <1>4, AdvancedMoves
<1>7. q[d][i].what \in W /\ q[e][j].what \in W
  BY <1>5, Zenon
<1>6. d = e /\ i = j
  BY <1>7 DEF AtMostOne
<1>. QED
  BY <1>2, <1>4, <1>6
=============================================================================
