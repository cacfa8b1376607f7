-------------------------- MODULE LedSharingProofs --------------------------
(***************************************************************************)
(* Proofs about LedSharing, for every maximal brightness, every set of     *)
(* light states and any number of overlapping effects.                     *)
(***************************************************************************)
EXTENDS LedSharing, SequenceTheorems, TLAPS

(***************************************************************************)
(* Sequences of writes.                                                    *)
(***************************************************************************)
ToCome(seq, w) == \E k \in 1..Len(seq) : seq[k] = w
FinalWrite(seq) == seq[Len(seq)]

LEMMA ConcatAt ==
  ASSUME NEW S, NEW s \in Seq(S), NEW t \in Seq(S)
  PROVE  /\ s \o t \in Seq(S)
         /\ Len(s \o t) = Len(s) + Len(t)
         /\ \A k \in 1..Len(s) : (s \o t)[k] = s[k]
         /\ \A k \in 1..Len(t) : (s \o t)[Len(s) + k] = t[k]
OBVIOUS

LEMMA ConcatToCome ==
  ASSUME NEW S, NEW s \in Seq(S), NEW t \in Seq(S), NEW w,
         ToCome(s, w) \/ ToCome(t, w)
  PROVE  ToCome(s \o t, w)
<1>1. CASE ToCome(s, w)
  <2>1. PICK k \in 1..Len(s) : s[k] = w
    BY <1>1 DEF ToCome
  <2>2. k \in 1..Len(s \o t) /\ (s \o t)[k] = w
    BY <2>1, ConcatAt
  <2>. QED
    BY <2>2 DEF ToCome
<1>2. CASE ToCome(t, w)
  <2>1. PICK k \in 1..Len(t) : t[k] = w
    BY <1>2 DEF ToCome
  <2>2. Len(s) + k \in 1..Len(s \o t) /\ (s \o t)[Len(s) + k] = w
    BY <2>1, ConcatAt
  <2>. QED
    BY <2>2 DEF ToCome
<1>. QED
  BY <1>1, <1>2

LEMMA PairToCome ==
  ASSUME NEW v, NEW w
  PROVE  ToCome(<<v, w>>, v) /\ ToCome(<<v, w>>, w)
<1>1. Len(<<v, w>>) = 2 /\ <<v, w>>[1] = v /\ <<v, w>>[2] = w
  OBVIOUS
<1>2. 1 \in 1..Len(<<v, w>>) /\ 2 \in 1..Len(<<v, w>>)
  BY <1>1
<1>. QED
  BY <1>1, <1>2 DEF ToCome

LEMMA FinalOfConcat ==
  ASSUME NEW S, NEW s \in Seq(S), NEW t \in Seq(S), t # << >>
  PROVE  s \o t # << >> /\ FinalWrite(s \o t) = FinalWrite(t)
<1>1. Len(t) \in 1..Len(t) /\ Len(s) \in Nat
  BY EmptySeq
<1>2. Len(s \o t) = Len(s) + Len(t) /\ (s \o t)[Len(s) + Len(t)] = t[Len(t)]
  BY <1>1, ConcatAt
<1>3. s \o t # << >>
  BY <1>1, <1>2, EmptySeq
<1>. QED
  BY <1>2, <1>3 DEF FinalWrite

LEMMA OneWrite ==
  ASSUME NEW w
  PROVE  <<w>> # << >> /\ FinalWrite(<<w>>) = w
<1>1. Len(<<w>>) = 1 /\ <<w>>[1] = w
  OBVIOUS
<1>. QED
  BY <1>1, EmptySeq DEF FinalWrite

LEMMA HeadAndTail ==
  ASSUME NEW S, NEW s \in Seq(S), s # << >>
  PROVE  /\ Head(s) \in S /\ Tail(s) \in Seq(S)
         /\ Tail(s) = << >> => Head(s) = FinalWrite(s)
         /\ Tail(s) # << >> => FinalWrite(Tail(s)) = FinalWrite(s)
<1>. DEFINE n == Len(s)
            t == Tail(s)
<1>1. /\ Len(t) = n - 1 /\ n \in Nat \ {0} /\ Head(s) = s[1]
      /\ Head(s) \in S /\ t \in Seq(S)
      /\ \A k \in 1..(n - 1) : t[k] = s[k + 1]
  OBVIOUS
<1>. HIDE DEF n, t
<1>2. CASE t = << >>
  <2>1. n = 1
    BY <1>1, <1>2, EmptySeq
  <2>2. Head(s) = FinalWrite(s)
    BY <1>1, <2>1 DEF FinalWrite, n
  <2>. QED
    BY <1>1, <1>2, <2>2 DEF t
<1>3. CASE t # << >>
  <2>1. n - 1 \in 1..(n - 1)
    BY <1>1, <1>3, EmptySeq
  <2>2. FinalWrite(t) = s[n]
    BY <1>1, <2>1 DEF FinalWrite
  <2>3. FinalWrite(t) = FinalWrite(s)
    BY <2>2 DEF FinalWrite, n
  <2>. QED
    BY <1>1, <1>3, <2>3 DEF t
<1>. QED
  BY <1>2, <1>3

(* What was to come is there now, or still to come.                        *)
LEMMA TailToCome ==
  ASSUME NEW S, NEW s \in Seq(S), s # << >>, NEW w, ToCome(s, w), Head(s) # w
  PROVE  ToCome(Tail(s), w)
<1>1. PICK k \in 1..Len(s) : s[k] = w
  BY DEF ToCome
<1>2. k # 1 /\ k - 1 \in 1..Len(Tail(s)) /\ Tail(s)[k - 1] = w
  BY <1>1
<1>. QED
  BY <1>2 DEF ToCome

(***************************************************************************)
(* Values.                                                                 *)
(***************************************************************************)
LEMMA Share ==
  ASSUME NEW n \in 0..255, NEW b \in Nat
  PROVE  (n * b) \div 255 \in 0..b
OBVIOUS

Mean(r, g, b) == (77 * r + 150 * g + 29 * b) \div 256

LEMMA Weighted ==
  ASSUME NEW r \in 0..255, NEW g \in 0..255, NEW b \in 0..255
  PROVE  Mean(r, g, b) \in 0..255
BY DEF Mean

LEMMA BrightnessBound ==
  ASSUME NEW c \in Color
  PROVE  LedBrightness(c) \in 0..MaxLed
<1>1. /\ c.alpha \in 0..255 /\ c.red \in 0..255 /\ c.green \in 0..255
      /\ c.blue \in 0..255
  BY DEF Color, Channel
<1>2. /\ Scaled(c.red, c.alpha) \in 0..255 /\ Scaled(c.green, c.alpha) \in 0..255
      /\ Scaled(c.blue, c.alpha) \in 0..255
  <2>1. \A x, a \in 0..255 : (x * a) \div 255 \in 0..255
    <3>. TAKE x, a \in 0..255
    <3>1. (x * a) \div 255 \in 0..a
      BY Share
    <3>. QED
      BY <3>1
  <2>2. \A x, a \in 0..255 : Scaled(x, a) \in 0..255
    BY <2>1 DEF Scaled
  <2>. QED
    BY <1>1, <2>2
<1>3. RgbaToBrightness(c) \in 0..255
  <2>1. RgbaToBrightness(c)
          = Mean(Scaled(c.red, c.alpha), Scaled(c.green, c.alpha), Scaled(c.blue, c.alpha))
    BY Zenon DEF RgbaToBrightness, Mean
  <2>2. Mean(Scaled(c.red, c.alpha), Scaled(c.green, c.alpha), Scaled(c.blue, c.alpha))
          \in 0..255
    BY <1>2, Weighted
  <2>. QED
    BY ONLY <2>1, <2>2, Zenon
<1>. QED
  BY <1>3, Share, LightsAssumption DEF LedBrightness

(* A write that leaves the values of the LED in range.                     *)
SoundWrites ==
  {w \in Write : /\ w.file = "brightness" => w.value <= MaxLed
                 /\ w.file = "breath" => w.value \in {0, 1}}

LedsOK == /\ leds \in [Leds -> [Files -> Nat]]
          /\ \A l \in Leds : leds[l]["breath"] \in {0, 1} /\ leds[l]["brightness"] \in 0..MaxLed

LEMMA WriteIs ==
  ASSUME NEW l \in Leds, NEW f \in Files, NEW v \in Nat,
         f = "brightness" => v <= MaxLed, f = "breath" => v \in {0, 1}
  PROVE  WriteTo(l, f, v) \in SoundWrites
BY DEF WriteTo, SoundWrites, Write

(* What a write leaves in the files, one by one.                           *)
LEMMA WrittenIs ==
  ASSUME LedsOK, NEW w \in SoundWrites
  PROVE  /\ Written(w) \in [Leds -> [Files -> Nat]]
         /\ \A l \in Leds : /\ Written(w)[l]["breath"] \in {0, 1}
                            /\ Written(w)[l]["brightness"] \in 0..MaxLed
         /\ \A l \in Leds \ {w.led} : Written(w)[l] = leds[l]
         /\ w.file \in Files => Written(w)[w.led][w.file] = w.value
         /\ w.file = "brightness" => Written(w)[w.led]["breath"] = 0
         /\ w.file = "breath" =>
              Written(w)[w.led]["brightness"] = IF w.value = 1 THEN MaxLed ELSE 0
         /\ \A f \in Files \ {w.file} :
              f \notin {"breath", "brightness"} => Written(w)[w.led][f] = leds[w.led][f]
         /\ w.file \notin {"breath", "brightness"} =>
              /\ Written(w)[w.led]["breath"] = leds[w.led]["breath"]
              /\ Written(w)[w.led]["brightness"] = leds[w.led]["brightness"]
<1>1. /\ w.led \in Leds /\ w.value \in Nat /\ MaxLed \in Nat
      /\ w.file \in Files \cup {"lux_pattern"}
      /\ w.file = "brightness" => w.value <= MaxLed
      /\ w.file = "breath" => w.value \in {0, 1}
  BY LightsAssumption DEF SoundWrites, Write
<1>2. CASE w.file = "brightness"
  BY <1>1, <1>2 DEF Written, LedsOK, Files
<1>3. CASE w.file = "breath"
  BY <1>1, <1>3 DEF Written, LedsOK, Files
<1>4. CASE w.file \in Files \ {"brightness", "breath"}
  BY <1>1, <1>4 DEF Written, LedsOK, Files
<1>5. CASE w.file = "lux_pattern"
  BY <1>1, <1>5 DEF Written, LedsOK, Files
<1>. QED
  BY <1>1, <1>2, <1>3, <1>4, <1>5

(***************************************************************************)
(* The writes of the two processes.                                        *)
(***************************************************************************)
Tuned == {"step_ms", "pause_lo_count", "lo_idx"}
Green(f, v) == WriteTo("green", f, v)

(* The HAL writes the green LED only, and the default parameters.          *)
GreenWrites ==
  {w \in SoundWrites : w.led = "green" /\ (w.file \in Tuned => w.value = Defaults[w.file])}

(* So does the closure; it ends the effect on the blue LED.                *)
RestWrites ==
  {w \in SoundWrites :
     /\ w.file \in Tuned => w.value = Defaults[w.file]
     /\ w.led = "blue" => w.file # "breath" /\ (w.file = "brightness" => w.value = 0)}

LEMMA DefaultsAre ==
  /\ Tuned \subseteq Files /\ "breath" \notin Tuned /\ "brightness" \notin Tuned
  /\ Defaults["step_ms"] = 70 /\ Defaults["pause_lo_count"] = 30
  /\ Defaults["lo_idx"] = 0 /\ Defaults["breath"] = 0 /\ Defaults["brightness"] = 0
  /\ Defaults \in [Files -> Nat]
BY DEF Tuned, Files, Defaults

LEMMA SeqOfOne == ASSUME NEW S, NEW w \in S PROVE <<w>> \in Seq(S)
OBVIOUS

LEMMA SeqOfTwo == ASSUME NEW S, NEW v \in S, NEW w \in S PROVE <<v, w>> \in Seq(S)
OBVIOUS

LEMMA SeqOfSeven ==
  ASSUME NEW S, NEW a \in S, NEW b \in S, NEW c \in S, NEW d \in S, NEW e \in S,
         NEW f \in S, NEW g \in S
  PROVE  /\ <<a, b, c, d, e, f, g>> \in Seq(S)
         /\ Len(<<a, b, c, d, e, f, g>>) = 7 /\ <<a, b, c, d, e, f, g>>[7] = g
OBVIOUS

(* How a light is shown, by the last write of the call.                    *)
LastFor(s) == IF Blinks(s) THEN Green("breath", 1)
              ELSE Green("brightness", LedBrightness(s.color))

LEMMA ApplyIs ==
  ASSUME NEW s \in HwLightState
  PROVE  /\ ApplyNotificationState(s) \in Seq(GreenWrites)
         /\ ApplyNotificationState(s) # << >>
         /\ FinalWrite(ApplyNotificationState(s)) = LastFor(s)
<1>. DEFINE off == Green("breath", 0)
<1>1. /\ s.flashOnMs \in Nat /\ s.flashOffMs \in Nat
      /\ LedBrightness(s.color) \in 0..MaxLed
  BY BrightnessBound DEF HwLightState
<1>2. \A f \in Files, v \in Nat :
        /\ f = "brightness" => v <= MaxLed
        /\ f = "breath" => v \in {0, 1}
        /\ f \in Tuned => v = Defaults[f]
        => Green(f, v) \in GreenWrites
  BY WriteIs DEF Green, GreenWrites, WriteTo, Leds
<1>3. off \in GreenWrites
  BY <1>2, DefaultsAre DEF Files
<1>4. CASE Blinks(s)
  <2>. DEFINE a == Green("step_ms", 70)
              b == Green("pause_lo_count", 30)
              c == Green("lo_idx", 0)
              d == Green("lux_pattern", 0)
              e == Green("delay_on", s.flashOnMs)
              f == Green("delay_off", s.flashOffMs)
              g == Green("breath", 1)
              rest == <<a, b, c, d, e, f, g>>
  <2>1. a \in GreenWrites /\ b \in GreenWrites /\ c \in GreenWrites
    BY <1>2, DefaultsAre DEF Files
  <2>2. d \in GreenWrites
    BY DEF Green, GreenWrites, SoundWrites, Write, WriteTo, Leds, Tuned
  <2>3. e \in GreenWrites /\ f \in GreenWrites /\ g \in GreenWrites
    BY <1>1, <1>2, DefaultsAre DEF Files, Tuned
  <2>4. ApplyNotificationState(s) = <<off>> \o rest
    BY <1>4 DEF ApplyNotificationState, Green
  <2>. HIDE DEF off, a, b, c, d, e, f, g
  <2>5. rest \in Seq(GreenWrites) /\ Len(rest) = 7 /\ rest[7] = g
    BY <2>1, <2>2, <2>3, SeqOfSeven
  <2>6. rest # << >> /\ FinalWrite(rest) = g
    BY <2>5, EmptySeq DEF FinalWrite
  <2>7. <<off>> \in Seq(GreenWrites)
    BY <1>3
  <2>. HIDE DEF rest
  <2>8. <<off>> \o rest \in Seq(GreenWrites)
    BY <2>5, <2>7, ConcatAt
  <2>9. <<off>> \o rest # << >> /\ FinalWrite(<<off>> \o rest) = g
    BY <2>5, <2>6, <2>7, FinalOfConcat
  <2>. QED
    BY <1>4, <2>4, <2>8, <2>9 DEF LastFor, g
<1>5. CASE ~Blinks(s)
  <2>. DEFINE g == Green("brightness", LedBrightness(s.color))
  <2>1. g \in GreenWrites
    BY <1>1, <1>2, DefaultsAre DEF Files
  <2>2. ApplyNotificationState(s) = <<off>> \o <<g>>
    BY <1>5 DEF ApplyNotificationState, Green
  <2>. HIDE DEF off, g
  <2>3. <<off>> \in Seq(GreenWrites) /\ <<g>> \in Seq(GreenWrites)
    BY <1>3, <2>1
  <2>4. <<off>> \o <<g>> \in Seq(GreenWrites)
    BY <2>3, ConcatAt
  <2>. QED
    BY <1>5, <2>2, <2>3, <2>4, FinalOfConcat, OneWrite DEF LastFor, g
<1>. QED
  BY <1>4, <1>5

LEMMA EffectIs ==
  ASSUME NEW open \in BOOLEAN
  PROVE  EffectWrites(open) \in Seq(SoundWrites)
<1>1. \A f \in Files, v \in Nat :
        /\ f = "brightness" => v <= MaxLed
        /\ f = "breath" => v \in {0, 1}
        => SetLed(f, v) \in Seq(SoundWrites)
  BY WriteIs, SeqOfTwo DEF SetLed, Leds
<1>. DEFINE low == IF open THEN 0 ELSE 22
            pause == IF open THEN 5 ELSE 0
<1>2. low \in Nat /\ pause \in Nat /\ MaxLed \in Nat
  BY LightsAssumption
<1>. HIDE DEF low, pause
<1>3. /\ SetLed("breath", 0) \in Seq(SoundWrites)
      /\ SetLed("breath", 1) \in Seq(SoundWrites)
  BY <1>1 DEF Files
<1>4. SetLed("brightness", 0) \in Seq(SoundWrites)
  BY <1>1, <1>2 DEF Files
<1>5. /\ SetLed("lo_idx", low) \in Seq(SoundWrites)
      /\ SetLed("pause_lo_count", pause) \in Seq(SoundWrites)
      /\ SetLed("step_ms", 35) \in Seq(SoundWrites)
      /\ SetLed("lut_pattern", 1) \in Seq(SoundWrites)
  BY <1>1, <1>2 DEF Files
<1>. QED
  BY <1>3, <1>4, <1>5, ConcatAt DEF EffectWrites, low, pause

(* The closure restores every parameter it has tuned but lut_pattern, ends *)
(* the effect on the blue LED, and shows last what has been saved.         *)
LastOfRestore == IF mLedBreathing THEN Green("breath", 1)
                 ELSE Green("brightness", mLedBrightness)

LEMMA RestoreIs ==
  ASSUME mLedBrightness \in 0..MaxLed
  PROVE  /\ RestoreWrites \in Seq(RestWrites)
         /\ RestoreWrites # << >>
         /\ FinalWrite(RestoreWrites) = LastOfRestore
         /\ ToCome(RestoreWrites, WriteTo("blue", "brightness", 0))
         /\ \A f \in Tuned : ToCome(RestoreWrites, Green(f, Defaults[f]))
<1>. DEFINE a == SetLed("brightness", 0)
            b == SetLed("lo_idx", 0)
            c == SetLed("pause_lo_count", 30)
            d == SetLed("step_ms", 70)
            z == LastOfRestore
<1>1. \A f \in Tuned \cup {"brightness"} : SetLed(f, Defaults[f]) \in Seq(RestWrites)
  <2>. TAKE f \in Tuned \cup {"brightness"}
  <2>1. \A l \in Leds : WriteTo(l, f, Defaults[f]) \in SoundWrites
    BY WriteIs, DefaultsAre, LightsAssumption DEF Files
  <2>2. \A l \in Leds : WriteTo(l, f, Defaults[f]) \in RestWrites
    BY <2>1, DefaultsAre DEF RestWrites, WriteTo
  <2>. QED
    BY <2>2, SeqOfTwo DEF SetLed, Leds
<1>2. /\ a \in Seq(RestWrites) /\ b \in Seq(RestWrites) /\ c \in Seq(RestWrites)
      /\ d \in Seq(RestWrites)
  BY <1>1, DefaultsAre DEF Tuned
<1>3. z \in RestWrites
  BY WriteIs, DefaultsAre DEF LastOfRestore, Green, RestWrites, WriteTo, Leds, Files
<1>4. RestoreWrites = a \o b \o c \o d \o <<z>>
  BY DEF RestoreWrites, LastOfRestore, Green
<1>5. /\ ToCome(a, WriteTo("blue", "brightness", 0))
      /\ ToCome(b, Green("lo_idx", 0))
      /\ ToCome(c, Green("pause_lo_count", 30))
      /\ ToCome(d, Green("step_ms", 70))
  BY PairToCome DEF SetLed, Green
<1>. HIDE DEF a, b, c, d, z
<1>6. a \o b \in Seq(RestWrites)
  BY <1>2, ConcatAt
<1>7. a \o b \o c \in Seq(RestWrites)
  BY <1>2, <1>6, ConcatAt
<1>8. a \o b \o c \o d \in Seq(RestWrites)
  BY <1>2, <1>7, ConcatAt
<1>9. <<z>> \in Seq(RestWrites)
  BY <1>3
<1>10. \A w : ToCome(a, w) \/ ToCome(b, w) \/ ToCome(c, w) \/ ToCome(d, w)
               => ToCome(RestoreWrites, w)
  <2>. SUFFICES ASSUME NEW w,
                       ToCome(a, w) \/ ToCome(b, w) \/ ToCome(c, w) \/ ToCome(d, w)
                PROVE  ToCome(RestoreWrites, w)
    OBVIOUS
  <2>1. ToCome(a, w) \/ ToCome(b, w) => ToCome(a \o b, w)
    BY <1>2, ConcatToCome
  <2>2. ToCome(a \o b, w) \/ ToCome(c, w) => ToCome(a \o b \o c, w)
    BY <1>2, <1>6, ConcatToCome
  <2>3. ToCome(a \o b \o c, w) \/ ToCome(d, w) => ToCome(a \o b \o c \o d, w)
    BY <1>2, <1>7, ConcatToCome
  <2>4. ToCome(a \o b \o c \o d, w) => ToCome(RestoreWrites, w)
    BY <1>4, <1>8, <1>9, ConcatToCome
  <2>. QED
    BY <2>1, <2>2, <2>3, <2>4
<1>11. \A f \in Tuned : ToCome(RestoreWrites, Green(f, Defaults[f]))
  <2>. TAKE f \in Tuned
  <2>1. CASE f = "lo_idx"
    BY <1>5, <1>10, <2>1, DefaultsAre
  <2>2. CASE f = "pause_lo_count"
    BY <1>5, <1>10, <2>2, DefaultsAre
  <2>3. CASE f = "step_ms"
    BY <1>5, <1>10, <2>3, DefaultsAre
  <2>. QED
    BY <2>1, <2>2, <2>3 DEF Tuned
<1>12. RestoreWrites \in Seq(RestWrites)
  BY <1>4, <1>8, <1>9, ConcatAt
<1>13. RestoreWrites # << >> /\ FinalWrite(RestoreWrites) = z
  BY <1>4, <1>8, <1>9, FinalOfConcat, OneWrite
<1>14. ToCome(RestoreWrites, WriteTo("blue", "brightness", 0))
  BY <1>5, <1>10
<1>. QED
  BY <1>11, <1>12, <1>13, <1>14 DEF z

(***************************************************************************)
(* Types: no brightness beyond the maximum.                                *)
(***************************************************************************)
SoundInv ==
  /\ TypeOK
  /\ halWrites \in Seq(GreenWrites)
  /\ popupWrites \in Seq(SoundWrites)

LEMMA SeqInclusion ==
  ASSUME NEW S, NEW T, S \subseteq T PROVE Seq(S) \subseteq Seq(T)
OBVIOUS

LEMMA Inclusions ==
  /\ Seq(GreenWrites) \subseteq Seq(SoundWrites) /\ Seq(GreenWrites) \subseteq Seq(Write)
  /\ Seq(RestWrites) \subseteq Seq(SoundWrites)
  /\ Seq(SoundWrites) \subseteq Seq(Write)
<1>1. GreenWrites \subseteq SoundWrites /\ RestWrites \subseteq SoundWrites
      /\ SoundWrites \subseteq Write /\ GreenWrites \subseteq Write
  BY DEF GreenWrites, RestWrites, SoundWrites
<1>. QED
  BY <1>1, SeqInclusion

LEMMA IdsAre == Order[1] = "NOTIFICATIONS" /\ Order[2] = "BATTERY"
                /\ Ids = {"NOTIFICATIONS", "BATTERY"}
<1>1. Order[1] = "NOTIFICATIONS" /\ Order[2] = "BATTERY"
  BY DEF Order
<1>. QED
  BY <1>1 DEF Ids

(* The most important light that is lit, or the battery.                   *)
LEMMA ChosenIs ==
  ASSUME NEW states \in [Ids -> HwLightState]
  PROVE  /\ Chosen(states) = IF IsLit(states["NOTIFICATIONS"].color)
                             THEN states["NOTIFICATIONS"] ELSE states["BATTERY"]
         /\ Chosen(states) \in HwLightState
<1>. DEFINE P(n) == n \in 1..2 /\ Candidate(states, n)
                    /\ \A k \in 1..(n - 1) : ~Candidate(states, k)
<1>1. Candidate(states, 2)
  BY IdsAre DEF Candidate
<1>2. Candidate(states, 1) <=> IsLit(states["NOTIFICATIONS"].color)
  BY IdsAre DEF Candidate
<1>3. CASE IsLit(states["NOTIFICATIONS"].color)
  <2>1. \A n : P(n) <=> n = 1
    BY <1>1, <1>2, <1>3
  <2>2. Chosen(states) = states[Order[1]]
    BY <2>1 DEF Chosen
  <2>. QED
    BY <1>3, <2>2, IdsAre
<1>4. CASE ~IsLit(states["NOTIFICATIONS"].color)
  <2>1. \A n : P(n) <=> n = 2
    BY <1>1, <1>2, <1>4
  <2>2. Chosen(states) = states[Order[2]]
    BY <2>1 DEF Chosen
  <2>. QED
    BY <1>4, <2>2, IdsAre
<1>. QED
  BY <1>3, <1>4

LEMMA DarkIs == Dark \in HwLightState /\ LightStates \subseteq HwLightState
BY LightsAssumption DEF Dark, HwLightState, Color, Channel

LEMMA SoundInit == Init => SoundInv
<1>. SUFFICES ASSUME Init PROVE SoundInv
  OBVIOUS
<1>1. leds = [l \in Leds |-> Defaults]
  BY DEF Init, LightsInit
<1>2. MaxLed \in Nat
  BY LightsAssumption
<1>3. /\ leds \in [Leds -> [Files -> Nat]]
      /\ \A l \in Leds : leds[l]["breath"] \in {0, 1} /\ leds[l]["brightness"] \in 0..MaxLed
  BY <1>1, <1>2, DefaultsAre
<1>4. notif_states \in [Ids -> HwLightState]
  BY DarkIs DEF Init, LightsInit
<1>5. /\ halWrites \in Seq(GreenWrites) /\ popupWrites \in Seq(SoundWrites)
      /\ halWrites \in Seq(Write) /\ popupWrites \in Seq(Write)
  BY EmptySeq DEF Init, LightsInit
<1>6. /\ reads \in 0..2 /\ pending \in 0..MaxPending
      /\ mLedBrightness \in 0..MaxLed
  BY <1>2, PendingAssumption DEF Init
<1>8. /\ mLedBusy \in BOOLEAN /\ mLedBreathing \in BOOLEAN
      /\ clash \in BOOLEAN /\ blinked \in BOOLEAN
  BY DEF Init
<1>7. LightsTypeOK
  BY <1>3, <1>4, <1>5 DEF LightsTypeOK
<1>. QED
  BY <1>5, <1>6, <1>7, <1>8 DEF SoundInv, TypeOK

LEMMA SoundStep == SoundInv /\ [Next]_vars => SoundInv'
<1>. SUFFICES ASSUME SoundInv, [Next]_vars PROVE SoundInv'
  OBVIOUS
<1>. USE DEF SoundInv, TypeOK, LightsTypeOK
<1>0. LedsOK
  BY DEF LedsOK
<1>1. CASE ClientSets
  <2>1. PICK id \in Ids, s \in LightStates : SetLightState(id, s)
    BY <1>1 DEF ClientSets
  <2>2. notif_states' \in [Ids -> HwLightState]
    BY <2>1, DarkIs DEF SetLightState
  <2>3. halWrites' \in Seq(GreenWrites) /\ halWrites' \in Seq(Write)
    BY <2>1, <2>2, ChosenIs, ApplyIs, Inclusions DEF SetLightState
  <2>4. clash' \in BOOLEAN /\ blinked' \in BOOLEAN
    BY <1>1, Zenon DEF ClientSets
  <2>5. UNCHANGED <<leds, popupVars>>
    BY <1>1, <2>1 DEF ClientSets, SetLightState
  <2>. QED
    BY <2>2, <2>3, <2>4, <2>5 DEF popupVars
<1>2. CASE HalWrites
  <2>1. /\ Head(halWrites) \in GreenWrites
        /\ Tail(halWrites) \in Seq(GreenWrites) /\ Tail(halWrites) \in Seq(Write)
    BY <1>2, HeadAndTail, Inclusions DEF HalWrites, HalWrite
  <2>2. Head(halWrites) \in SoundWrites
    BY <2>1 DEF GreenWrites
  <2>3. LedsOK'
    BY <1>0, <1>2, <2>2, WrittenIs DEF HalWrites, HalWrite, LedsOK
  <2>. QED
    BY <1>2, <2>1, <2>3 DEF HalWrites, HalWrite, LedsOK, popupVars
<1>3. CASE EffectStarts
  <2>1. PICK open \in BOOLEAN : LightUp(open)
    BY <1>3 DEF EffectStarts
  <2>2. popupWrites' \in Seq(SoundWrites) /\ popupWrites' \in Seq(Write)
    BY <2>1, EffectIs, Inclusions DEF LightUp
  <2>3. reads' \in 0..2 /\ pending' \in 0..MaxPending /\ mLedBrightness' \in 0..MaxLed
    BY <2>1, PendingAssumption DEF LightUp
  <2>4. mLedBusy' \in BOOLEAN /\ mLedBreathing' \in BOOLEAN
    BY <2>1 DEF LightUp
  <2>5. clash' \in BOOLEAN /\ blinked' \in BOOLEAN
    BY <1>3 DEF EffectStarts
  <2>6. LightsTypeOK' /\ halWrites' \in Seq(GreenWrites)
    BY <1>3 DEF EffectStarts, lightsVars
  <2>. QED
    BY <2>2, <2>3, <2>4, <2>5, <2>6
<1>4. CASE ReadBreath
  BY <1>4 DEF ReadBreath, lightsVars
<1>5. CASE ReadBrightness
  BY <1>5 DEF ReadBrightness, lightsVars, Leds
<1>6. CASE PopupWrite
  <2>1. /\ Head(popupWrites) \in SoundWrites
        /\ Tail(popupWrites) \in Seq(SoundWrites) /\ Tail(popupWrites) \in Seq(Write)
    BY <1>6, HeadAndTail, Inclusions DEF PopupWrite
  <2>2. LedsOK'
    BY <1>0, <1>6, <2>1, WrittenIs DEF PopupWrite, LedsOK
  <2>. QED
    BY <1>6, <2>1, <2>2 DEF PopupWrite, LedsOK
<1>7. CASE EffectEnds
  <2>1. popupWrites' \in Seq(SoundWrites) /\ popupWrites' \in Seq(Write)
    BY <1>7, RestoreIs, Inclusions DEF EffectEnds
  <2>2. pending' \in 0..MaxPending
    BY <1>7, PendingAssumption DEF EffectEnds
  <2>3. mLedBusy' \in BOOLEAN
    BY <1>7 DEF EffectEnds
  <2>4. UNCHANGED <<lightsVars, reads, mLedBreathing, mLedBrightness, clash,
                   blinked>>
    BY <1>7 DEF EffectEnds
  <2>. QED
    BY <2>1, <2>2, <2>3, <2>4 DEF lightsVars
<1>8. CASE UNCHANGED vars
  BY <1>8 DEF vars, lightsVars, popupVars
<1>. QED
  BY <1>1, <1>2, <1>3, <1>4, <1>5, <1>6, <1>7, <1>8 DEF Next

(* Whatever lights are set and however effects overlap, no brightness      *)
(* beyond the maximum is computed, written, saved or restored.             *)
THEOREM TypeCorrect == Spec => []TypeOK
<1>1. SoundInv => TypeOK
  BY DEF SoundInv
<1>. QED
  BY <1>1, SoundInit, SoundStep, PTL DEF Spec

(***************************************************************************)
(* The end of the last effect: the blue LED and the tuned parameters.      *)
(***************************************************************************)
BlueDark == leds["blue"]["breath"] = 0 /\ leds["blue"]["brightness"] = 0

BlueComes  == BlueDark \/ ToCome(popupWrites, WriteTo("blue", "brightness", 0))
TunedComes == \A f \in Tuned : \/ leds["green"][f] = Defaults[f]
                               \/ ToCome(popupWrites, Green(f, Defaults[f]))

(* Once no closure is waiting, what is left to write ends the effect.      *)
RestInv ==
  pending = 0 => reads = 0 /\ popupWrites \in Seq(RestWrites) /\ BlueComes /\ TunedComes

LEMMA NothingToCome == \A w : ~ToCome(<< >>, w)
BY EmptySeq DEF ToCome

LEMMA RestInit == Init => RestInv
<1>. SUFFICES ASSUME Init PROVE RestInv
  OBVIOUS
<1>1. leds["green"] = Defaults /\ leds["blue"] = Defaults
  BY DEF Init, LightsInit, Leds
<1>. QED
  BY <1>1, DefaultsAre, EmptySeq
  DEF Init, RestInv, BlueComes, TunedComes, BlueDark

LEMMA RestStep == SoundInv /\ RestInv /\ [Next]_vars => RestInv'
<1>. SUFFICES ASSUME SoundInv, RestInv, [Next]_vars, pending' = 0
              PROVE  (reads = 0 /\ popupWrites \in Seq(RestWrites) /\ BlueComes /\ TunedComes)'
  BY DEF RestInv
<1>0. LedsOK /\ pending \in Nat
  BY DEF SoundInv, TypeOK, LightsTypeOK, LedsOK
<1>1. CASE ClientSets
  BY <1>1 DEF ClientSets, SetLightState, popupVars, RestInv, BlueComes, BlueDark,
              TunedComes
<1>2. CASE HalWrites
  <2>. DEFINE w == Head(halWrites)
  <2>1. w \in GreenWrites
    BY <1>2, HeadAndTail DEF SoundInv, HalWrites, HalWrite
  <2>2. w \in SoundWrites /\ w.led = "green" /\ (w.file \in Tuned => w.value = Defaults[w.file])
    BY <2>1 DEF GreenWrites
  <2>3. leds' = Written(w)
    BY <1>2 DEF HalWrites, HalWrite
  <2>. HIDE DEF w
  <2>4. leds'["blue"] = leds["blue"]
    BY <1>0, <2>2, <2>3, WrittenIs DEF Leds
  <2>5. \A f \in Tuned : leds'["green"][f] = leds["green"][f] \/ leds'["green"][f] = Defaults[f]
    <3>. TAKE f \in Tuned
    <3>1. CASE f = w.file
      BY <1>0, <2>2, <2>3, <3>1, WrittenIs, DefaultsAre
    <3>2. CASE f # w.file
      BY <1>0, <2>2, <2>3, <3>2, WrittenIs, DefaultsAre
    <3>. QED
      BY <3>1, <3>2
  <2>6. UNCHANGED popupVars
    BY <1>2 DEF HalWrites
  <2>. QED
    BY <2>4, <2>5, <2>6 DEF popupVars, RestInv, BlueComes, BlueDark, TunedComes
<1>3. CASE EffectStarts
  <2>1. pending' = pending + 1
    BY <1>3 DEF EffectStarts, LightUp
  <2>. QED
    BY <1>0, <2>1
<1>4. CASE ReadBreath
  BY <1>4 DEF ReadBreath, RestInv
<1>5. CASE ReadBrightness
  BY <1>5 DEF ReadBrightness, RestInv
<1>6. CASE PopupWrite
  <2>. DEFINE w == Head(popupWrites)
  <2>1. /\ pending = 0 /\ reads = 0 /\ reads' = 0 /\ popupWrites # << >>
        /\ popupWrites' = Tail(popupWrites)
        /\ leds' = Written(w)
    BY <1>6 DEF PopupWrite
  <2>2. w \in RestWrites /\ popupWrites' \in Seq(RestWrites)
    BY <2>1, HeadAndTail DEF RestInv
  <2>3. /\ w \in SoundWrites /\ (w.file \in Tuned => w.value = Defaults[w.file])
        /\ w.led = "blue" => w.file # "breath" /\ (w.file = "brightness" => w.value = 0)
    BY <2>2 DEF RestWrites
  <2>4. \A v : ToCome(popupWrites, v) => w = v \/ ToCome(popupWrites', v)
    BY <2>1, TailToCome DEF RestInv
  <2>. HIDE DEF w
  <2>5. BlueComes'
    <3>1. CASE w.led # "blue"
      <4>1. leds'["blue"] = leds["blue"] /\ w # WriteTo("blue", "brightness", 0)
        BY <1>0, <2>1, <2>3, <3>1, WrittenIs DEF Leds, WriteTo
      <4>. QED
        BY <2>1, <2>4, <4>1 DEF RestInv, BlueComes, BlueDark
    <3>2. CASE w.led = "blue" /\ w.file = "brightness"
      <4>1. leds'["blue"]["brightness"] = 0 /\ leds'["blue"]["breath"] = 0
        BY <1>0, <2>1, <2>3, <3>2, WrittenIs DEF Files
      <4>. QED
        BY <4>1 DEF BlueComes, BlueDark
    <3>3. CASE w.led = "blue" /\ w.file # "brightness"
      <4>1. /\ leds'["blue"]["brightness"] = leds["blue"]["brightness"]
            /\ leds'["blue"]["breath"] = leds["blue"]["breath"]
        BY <1>0, <2>1, <2>3, <3>3, WrittenIs
      <4>2. w # WriteTo("blue", "brightness", 0)
        BY <3>3 DEF WriteTo
      <4>. QED
        BY <2>1, <2>4, <4>1, <4>2 DEF RestInv, BlueComes, BlueDark
    <3>. QED
      BY <3>1, <3>2, <3>3
  <2>6. TunedComes'
    <3>. SUFFICES ASSUME NEW f \in Tuned
                  PROVE  \/ leds'["green"][f] = Defaults[f]
                         \/ ToCome(popupWrites', Green(f, Defaults[f]))
      BY DEF TunedComes
    <3>1. CASE w.led = "green" /\ w.file = f
      BY <1>0, <2>1, <2>3, <3>1, WrittenIs, DefaultsAre
    <3>2. CASE ~(w.led = "green" /\ w.file = f)
      <4>1. leds'["green"][f] = leds["green"][f]
        <5>1. CASE w.led = "green"
          <6>1. f \in Files \ {w.file} /\ f \notin {"breath", "brightness"}
            BY <3>2, <5>1, DefaultsAre
          <6>2. Written(w)[w.led][f] = leds[w.led][f]
            BY <1>0, <2>3, <6>1, WrittenIs
          <6>. QED
            BY <2>1, <5>1, <6>2
        <5>2. CASE w.led # "green"
          <6>1. "green" \in Leds \ {w.led}
            BY <5>2 DEF Leds
          <6>2. leds'["green"] = leds["green"]
            BY <1>0, <2>1, <2>3, <6>1, WrittenIs
          <6>. QED
            BY <6>2
        <5>. QED
          BY <5>1, <5>2
      <4>2. w # Green(f, Defaults[f])
        BY <3>2 DEF Green, WriteTo
      <4>. QED
        BY <2>1, <2>4, <4>1, <4>2 DEF RestInv, TunedComes
    <3>. QED
      BY <3>1, <3>2
  <2>. QED
    BY <2>1, <2>2, <2>5, <2>6
<1>7. CASE EffectEnds
  <2>1. mLedBrightness \in 0..MaxLed
    BY DEF SoundInv, TypeOK
  <2>2. popupWrites' = RestoreWrites /\ reads' = 0
    BY <1>7 DEF EffectEnds, PopupIdle
  <2>. QED
    BY <2>1, <2>2, RestoreIs DEF BlueComes, TunedComes
<1>8. CASE UNCHANGED vars
  BY <1>8 DEF vars, lightsVars, popupVars, RestInv, BlueComes, BlueDark, TunedComes
<1>. QED
  BY <1>1, <1>2, <1>3, <1>4, <1>5, <1>6, <1>7, <1>8 DEF Next

LEMMA RestTogether ==
  /\ Init => SoundInv /\ RestInv
  /\ SoundInv /\ RestInv /\ [Next]_vars => (SoundInv /\ RestInv)'
BY SoundInit, SoundStep, RestInit, RestStep

(***************************************************************************)
(* The light comes back.                                                   *)
(***************************************************************************)
(* How the last write of a sequence leaves the LED, whatever came before.  *)
Outcome(w, light) ==
  \/ w = Green("breath", 1) /\ light.breath = 1 /\ light.brightness = MaxLed
  \/ /\ light.brightness \in 0..MaxLed /\ light.breath = 0
     /\ w = Green("brightness", light.brightness)

GreenShows == /\ leds["green"]["breath"] = wanted.breath
              /\ leds["green"]["brightness"] = wanted.brightness
Leaves(seq) == seq # << >> /\ Outcome(FinalWrite(seq), wanted)

(* What lightUp has saved is what the lights set ask for.                  *)
BreathSaved == IF mLedBreathing THEN wanted.breath = 1 ELSE wanted.breath = 0
Saved == BreathSaved /\ (wanted.breath = 0 => mLedBrightness = wanted.brightness)

WantedOK == /\ wanted.breath \in {0, 1} /\ wanted.brightness \in 0..MaxLed
            /\ wanted.breath = 1 => wanted.brightness = MaxLed

(* An effect that has saved the LED has its closure waiting.               *)
BusyOK == (mLedBusy => pending > 0) /\ (reads > 0 => mLedBusy)

(* While nothing clashes: the HAL writes between effects only; the LED     *)
(* shows the light, or is about to, whenever no effect has marked it busy; *)
(* and from the moment it is saved until the last effect is over the saved *)
(* values are those of the light.                                          *)
NoClashInv ==
  /\ halWrites # << >> => NoEffect /\ Leaves(halWrites)
  /\ ~mLedBusy /\ PopupIdle /\ halWrites = << >> => GreenShows
  /\ ~mLedBusy /\ popupWrites # << >> => Leaves(popupWrites)
  /\ reads > 0 => GreenShows
  /\ reads = 1 => BreathSaved
  /\ reads = 0 /\ ~NoEffect => Saved

ShowInv == WantedOK /\ BusyOK /\ (~clash => NoClashInv)

LEMMA OutcomeShows ==
  ASSUME LedsOK, NEW w \in SoundWrites, Outcome(w, wanted), leds' = Written(w)
  PROVE  /\ leds'["green"]["breath"] = wanted.breath
         /\ leds'["green"]["brightness"] = wanted.brightness
<1>1. CASE w = Green("breath", 1)
  <2>1. w.led = "green" /\ w.file = "breath" /\ w.value = 1
    BY <1>1 DEF Green, WriteTo
  <2>2. wanted.breath = 1 /\ wanted.brightness = MaxLed
    BY <1>1, <2>1 DEF Outcome, Green, WriteTo
  <2>. QED
    BY <2>1, <2>2, WrittenIs DEF Files
<1>2. CASE w # Green("breath", 1)
  <2>1. /\ w = Green("brightness", wanted.brightness) /\ wanted.breath = 0
    BY <1>2 DEF Outcome
  <2>2. w.led = "green" /\ w.file = "brightness" /\ w.value = wanted.brightness
    BY <2>1 DEF Green, WriteTo
  <2>. QED
    BY <2>1, <2>2, WrittenIs DEF Files
<1>. QED
  BY <1>1, <1>2

(* A light that is set is what its last write shows.                       *)
LEMMA ShowsIs ==
  ASSUME NEW states \in [Ids -> HwLightState]
  PROVE  /\ Outcome(LastFor(Chosen(states)), Shows(states))
         /\ Shows(states).breath \in {0, 1} /\ Shows(states).brightness \in 0..MaxLed
         /\ Shows(states).breath = 1 => Shows(states).brightness = MaxLed
<1>. DEFINE s == Chosen(states)
<1>1. s \in HwLightState /\ s = IF IsLit(states["NOTIFICATIONS"].color)
                                THEN states["NOTIFICATIONS"] ELSE states["BATTERY"]
  BY ChosenIs
<1>2. Shows(states) = [breath     |-> IF Blinks(s) THEN 1 ELSE 0,
                       brightness |-> IF Blinks(s) THEN MaxLed ELSE LedBrightness(s.color)]
  BY <1>1 DEF Shows
<1>3. LedBrightness(s.color) \in 0..MaxLed /\ MaxLed \in Nat
  BY <1>1, BrightnessBound, LightsAssumption DEF HwLightState
<1>. HIDE DEF s
<1>4. CASE Blinks(s)
  BY <1>2, <1>3, <1>4 DEF LastFor, Outcome, s
<1>5. CASE ~Blinks(s)
  BY <1>2, <1>3, <1>5 DEF LastFor, Outcome, s
<1>. QED
  BY <1>4, <1>5

LEMMA ShowInit == Init => ShowInv
<1>. SUFFICES ASSUME Init PROVE ShowInv
  OBVIOUS
<1>1. /\ wanted.breath = 0 /\ wanted.brightness = 0 /\ MaxLed \in Nat
      /\ leds["green"]["breath"] = 0 /\ leds["green"]["brightness"] = 0
  BY DefaultsAre, LightsAssumption DEF Init, LightsInit, Leds
<1>2. /\ halWrites = << >> /\ popupWrites = << >> /\ pending = 0 /\ reads = 0
      /\ mLedBusy = FALSE
  BY DEF Init, LightsInit
<1>. QED
  BY <1>1, <1>2
  DEF ShowInv, WantedOK, BusyOK, NoClashInv, GreenShows, NoEffect, PopupIdle

LEMMA ShowStep == SoundInv /\ ShowInv /\ [Next]_vars => ShowInv'
<1>. SUFFICES ASSUME SoundInv, ShowInv, [Next]_vars PROVE ShowInv'
  OBVIOUS
<1>0. /\ LedsOK /\ pending \in Nat /\ reads \in 0..2
      /\ mLedBusy \in BOOLEAN /\ mLedBreathing \in BOOLEAN
      /\ halWrites \in Seq(GreenWrites) /\ popupWrites \in Seq(SoundWrites)
  BY DEF SoundInv, TypeOK, LightsTypeOK, LedsOK
<1>. USE DEF NoEffect, PopupIdle
<1>1. CASE ClientSets
  <2>1. PICK id \in Ids, s \in LightStates : SetLightState(id, s)
    BY <1>1 DEF ClientSets
  <2>2. notif_states' \in [Ids -> HwLightState]
    BY <2>1, DarkIs DEF SetLightState, SoundInv, TypeOK, LightsTypeOK
  <2>3. WantedOK'
    BY <1>1, <2>2, ShowsIs DEF ClientSets, WantedOK
  <2>4. BusyOK'
    BY <1>1 DEF ClientSets, popupVars, ShowInv, BusyOK
  <2>5. ASSUME ~clash' PROVE NoClashInv'
    <3>1. reads = 0 /\ popupWrites = << >> /\ pending = 0 /\ UNCHANGED popupVars
      BY <1>1, <2>5 DEF ClientSets
    <3>2. Chosen(notif_states') \in HwLightState
      BY <2>2, ChosenIs
    <3>3. /\ halWrites' # << >>
          /\ FinalWrite(halWrites') = LastFor(Chosen(notif_states'))
      BY <2>1, <3>2, ApplyIs DEF SetLightState
    <3>4. Outcome(FinalWrite(halWrites'), wanted')
      BY <1>1, <2>2, <3>3, ShowsIs DEF ClientSets
    <3>. QED
      BY <3>1, <3>3, <3>4 DEF NoClashInv, Leaves, popupVars
  <2>. QED
    BY <2>3, <2>4, <2>5 DEF ShowInv
<1>2. CASE HalWrites
  <2>. DEFINE w == Head(halWrites)
  <2>1. /\ halWrites # << >> /\ leds' = Written(w) /\ halWrites' = Tail(halWrites)
        /\ UNCHANGED <<popupVars, wanted, clash>>
    BY <1>2 DEF HalWrites, HalWrite
  <2>2. /\ w \in SoundWrites
        /\ halWrites' = << >> => w = FinalWrite(halWrites)
        /\ halWrites' # << >> => FinalWrite(halWrites') = FinalWrite(halWrites)
    BY <1>0, <2>1, HeadAndTail DEF GreenWrites
  <2>. HIDE DEF w
  <2>3. WantedOK' /\ BusyOK'
    BY <2>1 DEF popupVars, ShowInv, WantedOK, BusyOK
  <2>4. ASSUME ~clash' PROVE NoClashInv'
    <3>1. /\ Outcome(FinalWrite(halWrites), wanted)
          /\ reads' = 0 /\ popupWrites' = << >> /\ pending' = 0 /\ wanted' = wanted
      BY <2>1, <2>4 DEF popupVars, ShowInv, NoClashInv, Leaves
    <3>2. halWrites' = << >> => GreenShows'
      BY <1>0, <2>1, <2>2, <3>1, OutcomeShows DEF GreenShows
    <3>. QED
      BY <2>2, <3>1, <3>2 DEF NoClashInv, Leaves
  <2>. QED
    BY <2>3, <2>4 DEF ShowInv
<1>3. CASE EffectStarts
  <2>1. PICK open \in BOOLEAN : LightUp(open)
    BY <1>3 DEF EffectStarts
  <2>2. /\ reads = 0 /\ popupWrites = << >> /\ pending' = pending + 1 /\ mLedBusy' = TRUE
        /\ reads' = IF mLedBusy THEN 0 ELSE 2
        /\ UNCHANGED <<mLedBreathing, mLedBrightness, leds, halWrites, wanted>>
    BY <1>3, <2>1 DEF EffectStarts, LightUp, lightsVars
  <2>3. WantedOK'
    BY <2>2 DEF ShowInv, WantedOK
  <2>4. BusyOK'
    BY <1>0, <2>2 DEF BusyOK
  <2>5. ASSUME ~clash' PROVE NoClashInv'
    <3>1. ~clash /\ halWrites = << >>
      BY <1>3, <2>5 DEF EffectStarts
    <3>2. CASE mLedBusy
      <4>1. Saved
        BY <1>0, <2>2, <3>1, <3>2 DEF ShowInv, BusyOK, NoClashInv
      <4>2. reads' = 0 /\ halWrites' = << >> /\ Saved'
        BY <2>2, <3>1, <3>2, <4>1 DEF Saved, BreathSaved
      <4>. QED
        BY <2>2, <4>2 DEF NoClashInv
    <3>3. CASE ~mLedBusy
      <4>1. GreenShows
        BY <2>2, <3>1, <3>3 DEF ShowInv, NoClashInv
      <4>2. reads' = 2 /\ halWrites' = << >> /\ GreenShows'
        BY <2>2, <3>1, <3>3, <4>1 DEF GreenShows
      <4>. QED
        BY <2>2, <4>2 DEF NoClashInv
    <3>. QED
      BY <3>2, <3>3
  <2>. QED
    BY <2>3, <2>4, <2>5 DEF ShowInv
<1>4. CASE ReadBreath
  <2>1. /\ reads = 2 /\ reads' = 1
        /\ mLedBreathing' = (leds["green"]["breath"] = 1)
        /\ UNCHANGED <<leds, halWrites, popupWrites, pending, mLedBusy, wanted, clash>>
    BY <1>4 DEF ReadBreath, lightsVars
  <2>2. WantedOK'
    BY <2>1 DEF ShowInv, WantedOK
  <2>3. mLedBusy /\ pending > 0
    BY <2>1 DEF ShowInv, BusyOK
  <2>4. BusyOK'
    BY <2>1, <2>3 DEF BusyOK
  <2>5. ASSUME ~clash' PROVE NoClashInv'
    <3>1. GreenShows /\ halWrites = << >>
      BY <2>1, <2>5 DEF ShowInv, NoClashInv
    <3>2. GreenShows' /\ halWrites' = << >>
      BY <2>1, <3>1 DEF GreenShows
    <3>3. BreathSaved'
      BY <2>1, <3>1 DEF GreenShows, BreathSaved, ShowInv, WantedOK
    <3>. QED
      BY <2>1, <2>3, <3>2, <3>3 DEF NoClashInv
  <2>. QED
    BY <2>2, <2>4, <2>5 DEF ShowInv
<1>5. CASE ReadBrightness
  <2>1. /\ reads = 1 /\ reads' = 0
        /\ mLedBrightness' = leds["green"]["brightness"]
        /\ UNCHANGED <<leds, halWrites, popupWrites, pending, mLedBusy, mLedBreathing,
                       wanted, clash>>
    BY <1>5 DEF ReadBrightness, lightsVars
  <2>2. WantedOK'
    BY <2>1 DEF ShowInv, WantedOK
  <2>3. mLedBusy /\ pending > 0
    BY <2>1 DEF ShowInv, BusyOK
  <2>4. BusyOK'
    BY <2>1, <2>3 DEF BusyOK
  <2>5. ASSUME ~clash' PROVE NoClashInv'
    <3>1. GreenShows /\ BreathSaved /\ halWrites = << >>
      BY <2>1, <2>5 DEF ShowInv, NoClashInv
    <3>2. Saved' /\ halWrites' = << >>
      BY <2>1, <3>1 DEF GreenShows, BreathSaved, Saved
    <3>. QED
      BY <2>1, <2>3, <3>2 DEF NoClashInv
  <2>. QED
    BY <2>2, <2>4, <2>5 DEF ShowInv
<1>6. CASE PopupWrite
  <2>. DEFINE w == Head(popupWrites)
  <2>1. /\ reads = 0 /\ popupWrites # << >>
        /\ leds' = Written(w) /\ popupWrites' = Tail(popupWrites)
        /\ UNCHANGED <<halWrites, reads, pending, mLedBusy, mLedBreathing,
                       mLedBrightness, wanted, clash>>
    BY <1>6 DEF PopupWrite
  <2>2. /\ w \in SoundWrites
        /\ popupWrites' = << >> => w = FinalWrite(popupWrites)
        /\ popupWrites' # << >> => FinalWrite(popupWrites') = FinalWrite(popupWrites)
    BY <1>0, <2>1, HeadAndTail
  <2>. HIDE DEF w
  <2>3. WantedOK' /\ BusyOK'
    BY <2>1 DEF ShowInv, WantedOK, BusyOK
  <2>4. ASSUME ~clash' PROVE NoClashInv'
    <3>1. halWrites = << >> /\ Saved
      BY <2>1, <2>4 DEF ShowInv, NoClashInv
    <3>2. Saved' /\ halWrites' = << >> /\ reads' = 0
      BY <2>1, <3>1 DEF Saved, BreathSaved
    <3>3. ~mLedBusy => Outcome(FinalWrite(popupWrites), wanted)
      BY <2>1, <2>4 DEF ShowInv, NoClashInv, Leaves
    <3>4. ~mLedBusy /\ popupWrites' = << >> => GreenShows'
      BY <1>0, <2>1, <2>2, <3>3, OutcomeShows DEF GreenShows
    <3>5. ~mLedBusy' /\ popupWrites' # << >> => Leaves(popupWrites)'
      BY <2>1, <2>2, <3>3 DEF Leaves
    <3>. QED
      BY <2>1, <3>2, <3>4, <3>5 DEF NoClashInv
  <2>. QED
    BY <2>3, <2>4 DEF ShowInv
<1>7. CASE EffectEnds
  <2>1. /\ reads = 0 /\ popupWrites = << >> /\ pending > 0
        /\ popupWrites' = RestoreWrites /\ mLedBusy' = FALSE
        /\ UNCHANGED <<leds, halWrites, reads, mLedBreathing, mLedBrightness, wanted, clash>>
    BY <1>7 DEF EffectEnds, lightsVars
  <2>2. WantedOK' /\ BusyOK'
    BY <2>1 DEF ShowInv, WantedOK, BusyOK
  <2>3. ASSUME ~clash' PROVE NoClashInv'
    <3>1. halWrites = << >> /\ Saved
      BY <2>1, <2>3 DEF ShowInv, NoClashInv
    <3>2. Saved' /\ halWrites' = << >> /\ reads' = 0
      BY <2>1, <3>1 DEF Saved, BreathSaved
    <3>3. mLedBrightness \in 0..MaxLed
      BY DEF SoundInv, TypeOK
    <3>4. popupWrites' # << >> /\ FinalWrite(popupWrites') = LastOfRestore
      BY <2>1, <3>3, RestoreIs
    <3>5. Outcome(LastOfRestore, wanted)
      BY <3>1 DEF LastOfRestore, Outcome, Saved, BreathSaved, ShowInv, WantedOK
    <3>6. Leaves(popupWrites)'
      BY <2>1, <3>4, <3>5 DEF Leaves
    <3>. QED
      BY <2>1, <3>2, <3>4, <3>6 DEF NoClashInv
  <2>. QED
    BY <2>2, <2>3 DEF ShowInv
<1>8. CASE UNCHANGED vars
  BY <1>8 DEF vars, lightsVars, popupVars, ShowInv, WantedOK, BusyOK, NoClashInv,
              GreenShows, Leaves, Saved, BreathSaved
<1>. QED
  BY <1>1, <1>2, <1>3, <1>4, <1>5, <1>6, <1>7, <1>8 DEF Next

LEMMA AllTogether ==
  /\ Init => SoundInv /\ RestInv /\ ShowInv
  /\ SoundInv /\ RestInv /\ ShowInv /\ [Next]_vars => (SoundInv /\ RestInv /\ ShowInv)'
BY RestTogether, ShowInit, ShowStep

(* However many effects have been played, one inside the other or not, the *)
(* LED shows the most important light again, unless the lights were set    *)
(* during an effect.                                                       *)
THEOREM LightComesBack == Spec => []LightIsBack
<1>1. ShowInv => LightIsBack
  BY DEF LightIsBack, AtRest, NoEffect, PopupIdle, ShowInv, BusyOK, NoClashInv, GreenShows
<1>. QED
  BY <1>1, AllTogether, PTL DEF Spec

(***************************************************************************)
(* The effects are over.                                                   *)
(***************************************************************************)
(* No light blinks yet: the HAL does not let the LED breathe, so nothing   *)
(* but an effect does, and that is neither saved nor left.                 *)
CalmWrites == {w \in GreenWrites : w.file = "breath" => w.value = 0}
IsSteady(w) == \E v \in 0..MaxLed : w = Green("brightness", v)
GreenCalm  == leds["green"]["breath"] = 0

CalmInv ==
  ~blinked =>
    /\ halWrites \in Seq(CalmWrites) /\ ~mLedBreathing
    /\ ~mLedBusy /\ PopupIdle => GreenCalm
    /\ reads > 0 => GreenCalm
    /\ ~mLedBusy /\ popupWrites # << >> => IsSteady(FinalWrite(popupWrites))

LEMMA SteadyIsCalm ==
  ASSUME NEW s \in HwLightState, ~Blinks(s)
  PROVE  ApplyNotificationState(s) \in Seq(CalmWrites)
<1>1. LedBrightness(s.color) \in 0..MaxLed
  BY BrightnessBound DEF HwLightState
<1>. DEFINE off == Green("breath", 0)
            g == Green("brightness", LedBrightness(s.color))
<1>2. off \in CalmWrites
  BY WriteIs, DefaultsAre DEF CalmWrites, GreenWrites, Green, WriteTo, Leds, Files
<1>3. g \in CalmWrites
  BY <1>1, WriteIs, DefaultsAre DEF CalmWrites, GreenWrites, Green, WriteTo, Leds, Files
<1>4. ApplyNotificationState(s) = <<off>> \o <<g>>
  BY DEF ApplyNotificationState, Green
<1>. HIDE DEF off, g
<1>. QED
  BY <1>2, <1>3, <1>4, SeqOfOne, ConcatAt

(* A write of the HAL leaves the LED calm.                                 *)
LEMMA CalmStays ==
  ASSUME LedsOK, NEW w \in CalmWrites, GreenCalm, leds' = Written(w)
  PROVE  GreenCalm'
<1>1. /\ w \in SoundWrites /\ w.led = "green"
      /\ w.file = "breath" => w.value = 0
  BY DEF CalmWrites, GreenWrites
<1>. QED
  BY <1>1, WrittenIs DEF GreenCalm, Files

LEMMA SteadyEnds ==
  ASSUME LedsOK, NEW w \in SoundWrites, IsSteady(w), leds' = Written(w)
  PROVE  GreenCalm'
<1>1. w.led = "green" /\ w.file = "brightness"
  BY DEF IsSteady, Green, WriteTo
<1>. QED
  BY <1>1, WrittenIs DEF GreenCalm

LEMMA CalmInit == Init => CalmInv
BY DefaultsAre, EmptySeq DEF Init, LightsInit, Leds, CalmInv, GreenCalm

LEMMA CalmStep == SoundInv /\ ShowInv /\ CalmInv /\ [Next]_vars => CalmInv'
<1>. SUFFICES ASSUME SoundInv, ShowInv, CalmInv, [Next]_vars, ~blinked'
              PROVE  (/\ halWrites \in Seq(CalmWrites) /\ ~mLedBreathing
                      /\ ~mLedBusy /\ PopupIdle => GreenCalm
                      /\ reads > 0 => GreenCalm
                      /\ ~mLedBusy /\ popupWrites # << >> => IsSteady(FinalWrite(popupWrites)))'
  BY DEF CalmInv
<1>0. /\ LedsOK /\ BusyOK /\ reads \in 0..2 /\ pending \in Nat
      /\ popupWrites \in Seq(SoundWrites)
  BY DEF SoundInv, TypeOK, LightsTypeOK, LedsOK, ShowInv
<1>. USE DEF PopupIdle
<1>1. CASE ClientSets
  <2>1. PICK id \in Ids, s \in LightStates : SetLightState(id, s)
    BY <1>1 DEF ClientSets
  <2>2. notif_states' \in [Ids -> HwLightState]
    BY <2>1, DarkIs DEF SetLightState, SoundInv, TypeOK, LightsTypeOK
  <2>3. ~blinked /\ wanted'.breath # 1
    BY <1>1 DEF ClientSets
  <2>4. ~Blinks(Chosen(notif_states')) /\ Chosen(notif_states') \in HwLightState
    <3>1. wanted' = Shows(notif_states')
      BY <1>1 DEF ClientSets
    <3>2. Shows(notif_states').breath = IF Blinks(Chosen(notif_states')) THEN 1 ELSE 0
      BY <2>2, ChosenIs DEF Shows
    <3>. QED
      BY <2>2, <2>3, <3>1, <3>2, ChosenIs
  <2>5. halWrites' \in Seq(CalmWrites)
    BY <2>1, <2>4, SteadyIsCalm DEF SetLightState
  <2>6. UNCHANGED <<leds, popupVars>>
    BY <1>1, <2>1 DEF ClientSets, SetLightState
  <2>. QED
    BY <2>3, <2>5, <2>6 DEF CalmInv, GreenCalm, popupVars
<1>2. CASE HalWrites
  <2>1. /\ halWrites # << >> /\ leds' = Written(Head(halWrites))
        /\ halWrites' = Tail(halWrites)
        /\ UNCHANGED popupVars /\ ~blinked
    BY <1>2 DEF HalWrites, HalWrite
  <2>2. Head(halWrites) \in CalmWrites /\ halWrites' \in Seq(CalmWrites)
    BY <2>1, HeadAndTail DEF CalmInv
  <2>3. GreenCalm => GreenCalm'
    BY <1>0, <2>1, <2>2, CalmStays
  <2>. QED
    BY <2>1, <2>2, <2>3 DEF CalmInv, popupVars
<1>3. CASE EffectStarts
  <2>1. PICK open \in BOOLEAN : LightUp(open)
    BY <1>3 DEF EffectStarts
  <2>2. /\ reads = 0 /\ popupWrites = << >> /\ mLedBusy' = TRUE
        /\ reads' = IF mLedBusy THEN 0 ELSE 2
        /\ UNCHANGED <<leds, halWrites, mLedBreathing>> /\ ~blinked
    BY <1>3, <2>1 DEF EffectStarts, LightUp, lightsVars
  <2>. QED
    BY <2>2 DEF CalmInv, GreenCalm
<1>4. CASE ReadBreath
  <2>1. /\ reads = 2 /\ reads' = 1 /\ mLedBreathing' = (leds["green"]["breath"] = 1)
        /\ UNCHANGED <<leds, halWrites, popupWrites, mLedBusy>> /\ ~blinked
    BY <1>4 DEF ReadBreath, lightsVars
  <2>2. mLedBusy
    BY <1>0, <2>1 DEF BusyOK
  <2>3. ~mLedBreathing'
    <3>1. leds["green"]["breath"] # 1
      BY <2>1 DEF CalmInv, GreenCalm
    <3>. QED
      BY <2>1, <3>1, Zenon
  <2>. QED
    BY <2>1, <2>2, <2>3 DEF CalmInv, GreenCalm
<1>5. CASE ReadBrightness
  <2>1. /\ reads = 1 /\ reads' = 0
        /\ UNCHANGED <<leds, halWrites, popupWrites, mLedBusy, mLedBreathing>> /\ ~blinked
    BY <1>5 DEF ReadBrightness, lightsVars
  <2>2. mLedBusy
    BY <1>0, <2>1 DEF BusyOK
  <2>. QED
    BY <2>1, <2>2 DEF CalmInv, GreenCalm
<1>6. CASE PopupWrite
  <2>. DEFINE w == Head(popupWrites)
  <2>1. /\ reads = 0 /\ reads' = 0 /\ popupWrites # << >>
        /\ leds' = Written(w) /\ popupWrites' = Tail(popupWrites)
        /\ UNCHANGED <<halWrites, mLedBusy, mLedBreathing>> /\ ~blinked
    BY <1>6 DEF PopupWrite
  <2>2. /\ w \in SoundWrites
        /\ popupWrites' = << >> => w = FinalWrite(popupWrites)
        /\ popupWrites' # << >> => FinalWrite(popupWrites') = FinalWrite(popupWrites)
    BY <1>0, <2>1, HeadAndTail
  <2>. HIDE DEF w
  <2>3. ~mLedBusy => IsSteady(FinalWrite(popupWrites))
    BY <2>1 DEF CalmInv
  <2>4. ~mLedBusy /\ popupWrites' = << >> => GreenCalm'
    BY <1>0, <2>1, <2>2, <2>3, SteadyEnds
  <2>. QED
    BY <2>1, <2>2, <2>3, <2>4 DEF CalmInv
<1>7. CASE EffectEnds
  <2>1. /\ reads' = 0 /\ popupWrites' = RestoreWrites
        /\ UNCHANGED <<halWrites, mLedBreathing>> /\ ~blinked
    BY <1>7 DEF EffectEnds, lightsVars
  <2>2. mLedBrightness \in 0..MaxLed
    BY DEF SoundInv, TypeOK
  <2>3. /\ RestoreWrites # << >>
        /\ FinalWrite(RestoreWrites) = Green("brightness", mLedBrightness)
    BY <2>1, <2>2, RestoreIs DEF LastOfRestore, CalmInv
  <2>. QED
    BY <2>1, <2>2, <2>3 DEF CalmInv, IsSteady
<1>8. CASE UNCHANGED vars
  BY <1>8 DEF vars, lightsVars, popupVars, CalmInv, GreenCalm
<1>. QED
  BY <1>1, <1>2, <1>3, <1>4, <1>5, <1>6, <1>7, <1>8 DEF Next

(* However the HAL and the effects write between each other's writes, and  *)
(* however many effects overlap, nothing of an effect is left after the    *)
(* last one: not on the blue LED, not in the breath parameters, and not as *)
(* a light that breathes though none was ever set to blink.                *)
THEOREM EffectsEnd == Spec => []EffectIsOver
<1>1. RestInv /\ ShowInv /\ CalmInv /\ SoundInv => EffectIsOver
  <2>. SUFFICES ASSUME RestInv, ShowInv, CalmInv, SoundInv, NoEffect
                PROVE  /\ BlueDark
                       /\ leds["green"]["step_ms"] = 70
                       /\ leds["green"]["pause_lo_count"] = 30
                       /\ leds["green"]["lo_idx"] = 0
                       /\ leds["green"]["breath"] = 1 => blinked
    BY DEF EffectIsOver, BlueDark
  <2>1. PopupIdle /\ popupWrites = << >> /\ pending = 0 /\ ~mLedBusy
    BY DEF NoEffect, PopupIdle, ShowInv, BusyOK
  <2>2. BlueDark /\ \A f \in Tuned : leds["green"][f] = Defaults[f]
    BY <2>1, NothingToCome DEF RestInv, BlueComes, TunedComes
  <2>3. leds["green"]["breath"] = 1 => blinked
    BY <2>1 DEF CalmInv, GreenCalm
  <2>. QED
    BY <2>2, <2>3, DefaultsAre DEF Tuned
<1>2. SoundInv /\ ShowInv /\ [Next]_vars => (SoundInv /\ ShowInv)'
  BY SoundStep, ShowStep
<1>. QED
  BY <1>1, AllTogether, CalmInit, CalmStep, PTL DEF Spec
=============================================================================
