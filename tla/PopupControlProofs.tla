------------------------- MODULE PopupControlProofs -------------------------
(***************************************************************************)
(* What moves the motor, and when, for every value of the constants:       *)
(* PopupCameraService implements MotorControl, and in calm times it obeys  *)
(* every report within the event delay and the time of one motion.         *)
(***************************************************************************)
EXTENDS PopupCameraProofs

(***************************************************************************)
(* A raise is not turned into a takeback.                                  *)
(***************************************************************************)
(* While the motor rises its status is the one that allowed it to.         *)
RaisesFit == motion = "up" => status \in Lowered

LEMMA RaisesFitStep == RaisesFit /\ [Next]_vars => RaisesFit'
<1>. SUFFICES ASSUME RaisesFit, [Next]_vars PROVE RaisesFit'
  OBVIOUS
<1>1. CASE RunRaise
  BY <1>1 DEF RunRaise, MayRaise, Move, RaisesFit
<1>2. CASE Create \/ RunLower \/ FreeFall
  BY <1>2 DEF Create, RunLower, FreeFall, Move, halVars, RaisesFit
<1>3. CASE MotionDone
  BY <1>3 DEF MotionDone, MotionEnds, RaisesFit
<1>4. CASE PageCalibrate \/ DialogCalibrate
  BY <1>4 DEF PageCalibrate, DialogCalibrate, CalibrateMotor, Move, halVars, RaisesFit
<1>5. CASE Die
  BY <1>5 DEF Die, CallbackLost, RaisesFit
<1>6. CASE UNCHANGED <<status, motion, armed, stray>>
  BY <1>6 DEF RaisesFit
<1>. QED
  BY <1>1, <1>2, <1>3, <1>4, <1>5, <1>6, Writers, Zenon

LEMMA ReverseStep ==
  RaisesFit /\ [Next]_vars => [motion = "up" /\ motion' = "down" => FreeFall]_vars
<1>. SUFFICES ASSUME RaisesFit, [Next]_vars, motion = "up", motion' = "down"
              PROVE  FreeFall
  OBVIOUS
<1>1. status \notin {"POPUP_OK", "TAKEBACK_JAMMED"}
  BY DEF RaisesFit, Lowered
<1>2. ~Create
  BY <1>1 DEF Create, Move, halVars
<1>3. ~RunLower
  BY <1>1 DEF RunLower, MayLower
<1>4. ~RunRaise /\ ~MotionDone /\ ~Die
  BY DEF RunRaise, Move, MotionDone, MotionEnds, Die, CallbackLost
<1>5. ~PageCalibrate /\ ~DialogCalibrate
  BY DEF PageCalibrate, DialogCalibrate, CalibrateMotor, Move, halVars
<1>6. ~UNCHANGED <<status, motion, armed, stray>>
  OBVIOUS
<1>. QED
  BY <1>2, <1>3, <1>4, <1>5, <1>6, Writers, Zenon

(* A motor that rises is turned back by a fall only: a report that the     *)
(* camera is closed again finds a status that does not fit, and is dropped *)
(* (updateMotor, mFreeFallListener).                                       *)
THEOREM FallsReverse == Spec => OnlyFallsReverse
<1>1. Init => RaisesFit
  BY DEF Init, RaisesFit
<1>. QED
  BY <1>1, RaisesFitStep, ReverseStep, PTL DEF Spec, OnlyFallsReverse

(***************************************************************************)
(* A process that is gone has no proxy of the motor.                       *)
(***************************************************************************)
DeadIsNull == svc = "dead" => mMotor["service"] = "null"

LEMMA DeadIsNullStep == TypeOK /\ DeadIsNull /\ [Next]_vars => DeadIsNull'
<1>. SUFFICES ASSUME TypeOK, DeadIsNull, [Next]_vars PROVE DeadIsNull'
  OBVIOUS
<1>0. "service" \in Objects /\ mMotor \in [Objects -> {"null", "live", "dead"}]
  BY DEF Objects, TypeOK
<1>1. CASE Create \/ CreateDone
  BY <1>1 DEF Create, CreateDone, DeadIsNull
<1>2. CASE Die
  BY <1>0, <1>2 DEF Die, DeadIsNull
<1>3. CASE RunFails
  BY <1>3 DEF RunFails, Due, Running, runUnchanged, DeadIsNull
<1>4. CASE HalDies
  BY <1>0, <1>4 DEF HalDies, environmentUnchanged, DeadIsNull
<1>5. CASE DialogCalibrate \/ PageCalibrate
  BY <1>5 DEF DialogCalibrate, PageCalibrate, Dismiss, Running, DeadIsNull
<1>6. CASE UNCHANGED <<svc, mMotor>>
  BY <1>6 DEF DeadIsNull
<1>7. \/ Create \/ CreateDone \/ Die \/ RunFails \/ HalDies
      \/ DialogCalibrate \/ PageCalibrate \/ UNCHANGED <<svc, mMotor>>
  BY Zenon
  DEF HandleClosed, HandleOpen, Poll, RunRaise, RunLower, RunRefused, BusyOff,
      LedRestore, ShowError, Show, ShowResult, CalibOff, HandleScreen, StepOver,
      NotifyBegin, NotifyPost, OnCameraOpened, CameraReport, OnCameraClosed,
      FreeFall, AnswerYes, AskAnswered, AnswerNo, DialogClosed, OpenPage,
      ScreenSwitched, CameraPushed, LightWritten, MotionDone, Tick, runUnchanged,
      environmentUnchanged, vars, Next, MainThread, BinderThread, Environment
<1>. QED
  BY <1>1, <1>2, <1>3, <1>4, <1>5, <1>6, <1>7, Zenon

(***************************************************************************)
(* Reports and requests in a queue, and what each operation does to them.  *)
(***************************************************************************)
Asks(m)      == IF m.what \in {"run", "poll"} THEN {m.arg} \cap States ELSE {}
ReportsIn(q) == {s \in States : HasMessages(q, s)}
AsksIn(q)    == {s \in States : \E w \in {"run", "poll"} : IsQueued(q, Msg(w, s))}

LEMMA WishesAre ==
  ASSUME NEW q, NEW n \in Message
  PROVE  {s \in States : \E w \in {"run", "poll"} : IsQueued(q, Msg(w, s)) \/ n = Msg(w, s)}
           = AsksIn(q) \cup Asks(n)
<1>1. \A w \in {"run", "poll"} : \A s : n = Msg(w, s) <=> n.what = w /\ n.arg = s
  BY DEF Message, Msg
<1>. QED
  BY <1>1 DEF AsksIn, Asks

LEMMA PostParts ==
  ASSUME NEW q \in QueueOf(Message), NEW d \in Slots, NEW m \in Message
  PROVE  /\ ReportsIn(Post(q, d, m)) = ReportsIn(q) \cup ({m.what} \cap States)
         /\ AsksIn(Post(q, d, m)) = AsksIn(q) \cup Asks(m)
<1>1. \A w : HasMessages(Post(q, d, m), w) <=> HasMessages(q, w) \/ w = m.what
  BY PostQueuedWhat
<1>2. \A x : IsQueued(Post(q, d, m), x) <=> IsQueued(q, x) \/ x = m
  BY PostQueued
<1>3. \A w \in {"run", "poll"} : \A s : m = Msg(w, s) <=> m.what = w /\ m.arg = s
  BY DEF Message, Msg
<1>4. ReportsIn(Post(q, d, m)) = ReportsIn(q) \cup ({m.what} \cap States)
  BY <1>1 DEF ReportsIn
<1>5. AsksIn(Post(q, d, m)) = AsksIn(q) \cup Asks(m)
  BY <1>2, <1>3 DEF AsksIn, Asks
<1>. QED
  BY <1>4, <1>5

LEMMA TakenParts ==
  ASSUME NEW q \in QueueOf(Message), q[0] # << >>
  PROVE  /\ Head(q[0]) \in Message
         /\ ReportsIn(Taken(q)) \in {ReportsIn(q), ReportsIn(q) \ {Head(q[0]).what}}
         /\ AsksIn(Taken(q)) \in {AsksIn(q), AsksIn(q) \ Asks(Head(q[0]))}
<1>. DEFINE h == Head(q[0])
<1>1. h \in Message
  BY Delay DEF QueueOf
<1>2. \A w : HasMessages(Taken(q), w) => HasMessages(q, w)
  BY TakenQueuedWhat
<1>3. \A w : HasMessages(q, w) /\ w # h.what => HasMessages(Taken(q), w)
  BY TakenHas
<1>4. \A x : IsQueued(Taken(q), x) => IsQueued(q, x)
  BY TakenQueued
<1>5. \A x : IsQueued(q, x) /\ x # h => IsQueued(Taken(q), x)
  BY TakenKeeps
<1>6. \A w \in {"run", "poll"} : \A s : h = Msg(w, s) <=> h.what = w /\ h.arg = s
  BY <1>1 DEF Message, Msg
<1>. HIDE DEF h
<1>7. /\ ReportsIn(Taken(q)) \subseteq ReportsIn(q)
      /\ ReportsIn(q) \ {h.what} \subseteq ReportsIn(Taken(q))
  BY <1>2, <1>3 DEF ReportsIn
<1>8. /\ AsksIn(Taken(q)) \subseteq AsksIn(q)
      /\ AsksIn(q) \ Asks(h) \subseteq AsksIn(Taken(q))
  <2>1. AsksIn(Taken(q)) \subseteq AsksIn(q)
    BY <1>4 DEF AsksIn
  <2>2. ASSUME NEW s \in AsksIn(q), s \notin Asks(h) PROVE s \in AsksIn(Taken(q))
    <3>1. PICK w \in {"run", "poll"} : IsQueued(q, Msg(w, s))
      BY DEF AsksIn
    <3>2. Msg(w, s) # h
      BY <1>6, <2>2 DEF Asks, AsksIn
    <3>. QED
      BY <1>5, <3>1, <3>2 DEF AsksIn
  <2>. QED
    BY <2>1, <2>2
<1>9. \A a : {a} \cap States = {} \/ {a} \cap States = {a}
  OBVIOUS
<1>10. ReportsIn(Taken(q)) \in {ReportsIn(q), ReportsIn(q) \ {h.what}}
  BY <1>7
<1>11. AsksIn(Taken(q)) \in {AsksIn(q), AsksIn(q) \ Asks(h)}
  <2>1. Asks(h) = {} \/ \E a : Asks(h) = {a}
    BY <1>9 DEF Asks
  <2>2. \A S, T, a : T \subseteq S /\ S \ {a} \subseteq T => T \in {S, S \ {a}}
    <3>. SUFFICES ASSUME NEW S, NEW T, NEW a, T \subseteq S, S \ {a} \subseteq T
                  PROVE  T = S \/ T = S \ {a}
      OBVIOUS
    <3>1. CASE a \in T
      BY <3>1
    <3>2. CASE a \notin T
      BY <3>2
    <3>. QED
      BY <3>1, <3>2
  <2>3. \A S, T : T \subseteq S /\ S \ {} \subseteq T => T = S
    OBVIOUS
  <2>. HIDE DEF AsksIn, Asks
  <2>. QED
    BY <1>8, <2>1, <2>2, <2>3
<1>. QED
  BY <1>1, <1>10, <1>11 DEF h

LEMMA AdvancedParts ==
  ASSUME NEW q \in QueueOf(Message)
  PROVE  ReportsIn(Advanced(q)) = ReportsIn(q) /\ AsksIn(Advanced(q)) = AsksIn(q)
BY AdvancedQueued, AdvancedQueuedWhat DEF ReportsIn, AsksIn

LEMMA CancelledParts ==
  ASSUME NEW q \in QueueOf(Message), NEW t \in States
  PROVE  /\ ReportsIn(Cancelled(q, t)) = ReportsIn(q) \ {t}
         /\ AsksIn(Cancelled(q, t)) = AsksIn(q)
<1>1. \A w \in States : HasMessages(Cancelled(q, t), w) <=> HasMessages(q, w) /\ w # t
  BY CancelledQueuedWhat DEF States
<1>2. \A w \in {"run", "poll"} : \A s :
        IsQueued(Cancelled(q, t), Msg(w, s)) <=> IsQueued(q, Msg(w, s))
  <2>. SUFFICES ASSUME NEW w \in {"run", "poll"}, NEW s
                PROVE  IsQueued(Cancelled(q, t), Msg(w, s)) <=> IsQueued(q, Msg(w, s))
    OBVIOUS
  <2>1. Msg(w, s) # NoMessage /\ Msg(w, s).what # t
    BY DEF Msg, NoMessage, States
  <2>. QED
    BY <2>1, CancelledQueued
<1>. QED
  BY <1>1, <1>2 DEF ReportsIn, AsksIn

(* What the closures and updateMotor post.                                 *)
LEMMA PostsParts ==
  ASSUME NEW q \in QueueOf(Message)
  PROVE  /\ \A d \in Slots, w \in Whats \ {"open", "closed", "run", "poll"}, a \in Args :
              /\ ReportsIn(Post(q, d, Msg(w, a))) = ReportsIn(q)
              /\ AsksIn(Post(q, d, Msg(w, a))) = AsksIn(q)
         /\ \A allowed : /\ ReportsIn(Lit(q, allowed)) = ReportsIn(q)
                         /\ AsksIn(Lit(q, allowed)) = AsksIn(q)
         /\ BusyFrom(q) => /\ ReportsIn(queue') = ReportsIn(q)
                           /\ AsksIn(queue') = AsksIn(q)
         /\ \A s \in States :
              /\ ReportsIn(UpdateMotor(q, s)) = ReportsIn(q)
              /\ AsksIn(UpdateMotor(q, s)) =
                   IF mMotor["service"] = "null" THEN AsksIn(q) ELSE AsksIn(q) \cup {s}
<1>1. ASSUME NEW d \in Slots, NEW w \in Whats \ {"open", "closed", "run", "poll"}, NEW a \in Args
      PROVE  /\ ReportsIn(Post(q, d, Msg(w, a))) = ReportsIn(q)
             /\ AsksIn(Post(q, d, Msg(w, a))) = AsksIn(q)
  <2>. DEFINE m == Msg(w, a)
  <2>1. m \in Message /\ m.what = w
    BY MessageType DEF Msg
  <2>2. {m.what} \cap States = {} /\ Asks(m) = {}
    BY <2>1 DEF Asks, States
  <2>. HIDE DEF m
  <2>3. /\ ReportsIn(Post(q, d, m)) = ReportsIn(q) \cup ({m.what} \cap States)
        /\ AsksIn(Post(q, d, m)) = AsksIn(q) \cup Asks(m)
    BY <2>1, PostParts
  <2>. QED
    BY <2>2, <2>3 DEF m
<1>2. "none" \in Args /\ {"ledOff", "busyOff"} \subseteq Whats \ {"open", "closed", "run", "poll"}
  BY DEF Args, Whats
<1>3. ASSUME NEW s \in States
      PROVE  /\ ReportsIn(UpdateMotor(q, s)) = ReportsIn(q)
             /\ AsksIn(UpdateMotor(q, s)) =
                  IF mMotor["service"] = "null" THEN AsksIn(q) ELSE AsksIn(q) \cup {s}
  <2>1. Request(s) \in Message /\ RequestDelay(Request(s)) \in Slots
    BY MessageType, Delay
  <2>2. Asks(Request(s)) = {s} /\ {Request(s).what} \cap States = {}
    BY DEF Asks, Request, Msg, States
  <2>3. /\ ReportsIn(Post(q, RequestDelay(Request(s)), Request(s))) = ReportsIn(q)
        /\ AsksIn(Post(q, RequestDelay(Request(s)), Request(s))) = AsksIn(q) \cup {s}
    BY <2>1, <2>2, PostParts
  <2>. QED
    BY <2>3 DEF UpdateMotor
<1>4. \A allowed : /\ ReportsIn(Lit(q, allowed)) = ReportsIn(q)
                   /\ AsksIn(Lit(q, allowed)) = AsksIn(q)
  BY <1>1, <1>2, Delay DEF Lit
<1>5. BusyFrom(q) => ReportsIn(queue') = ReportsIn(q) /\ AsksIn(queue') = AsksIn(q)
  BY <1>1, <1>2, Delay DEF BusyFrom
<1>. QED
  BY <1>1, <1>3, <1>4, <1>5

(* What is left when the looper has taken a message that is neither a      *)
(* report nor a request, a report, or a request.                           *)
LEMMA DueParts ==
  ASSUME TypeOK, NEW w, Due(w)
  PROVE  /\ w \notin States => ReportsIn(Taken(queue)) = ReportsIn(queue)
         /\ w \in States => /\ w \in ReportsIn(queue)
                            /\ ReportsIn(Taken(queue)) \in {ReportsIn(queue), ReportsIn(queue) \ {w}}
         /\ w \notin {"run", "poll"} => AsksIn(Taken(queue)) = AsksIn(queue)
         /\ w \in {"run", "poll"} =>
              /\ Arg \in States => Arg \in AsksIn(queue)
              /\ AsksIn(Taken(queue)) \in {AsksIn(queue), AsksIn(queue) \ ({Arg} \cap States)}
<1>. DEFINE h == Head(queue[0])
<1>1. queue \in QueueOf(Message) /\ queue[0] # << >> /\ h.what = w /\ h.arg = Arg
  BY DueType DEF TypeOK, Arg
<1>2. /\ h \in Message
      /\ ReportsIn(Taken(queue)) \in {ReportsIn(queue), ReportsIn(queue) \ {w}}
      /\ AsksIn(Taken(queue)) \in {AsksIn(queue), AsksIn(queue) \ Asks(h)}
  BY <1>1, TakenParts
<1>3. IsQueued(queue, h)
  <2>1. queue[0] \in Seq(Message) /\ 0 \in Slots
    BY <1>1, Delay DEF QueueOf
  <2>2. 1 \in 1..Len(queue[0]) /\ queue[0][1] = h
    BY <1>1, <2>1
  <2>. QED
    BY <2>1, <2>2 DEF IsQueued
<1>4. h = Msg(w, Arg)
  BY <1>1, <1>2 DEF Message, Msg
<1>. HIDE DEF h
<1>5. HasMessages(queue, w)
  BY <1>1, <1>3, HasMessagesIsQueued, Zenon
<1>6. w \notin States => ReportsIn(Taken(queue)) = ReportsIn(queue)
  BY <1>2 DEF ReportsIn
<1>7. w \in States => w \in ReportsIn(queue)
  BY <1>5 DEF ReportsIn
<1>8. w \notin {"run", "poll"} => AsksIn(Taken(queue)) = AsksIn(queue)
  <2>1. w \notin {"run", "poll"} => Asks(h) = {}
    BY <1>1 DEF Asks
  <2>. QED
    BY <1>2, <2>1
<1>9. w \in {"run", "poll"} /\ Arg \in States => Arg \in AsksIn(queue)
  BY <1>3, <1>4 DEF AsksIn
<1>10. w \in {"run", "poll"} => Asks(h) = {Arg} \cap States
  BY <1>1 DEF Asks
<1>. QED
  BY <1>2, <1>6, <1>7, <1>8, <1>9, <1>10

(***************************************************************************)
(* The steps of the service are steps of MotorControl.                     *)
(***************************************************************************)
(* What MotorControl sees of a state, and of the next one.                 *)
LEMMA Seen ==
  ASSUME TypeOK, TypeOK'
  PROVE  /\ Waiting = ReportsIn(queue) /\ Waiting' = ReportsIn(queue')
         /\ Wishes = AsksIn(queue) \cup Asks(notifier)
         /\ Wishes' = AsksIn(queue') \cup Asks(notifier')
<1>1. notifier \in Message /\ notifier' \in Message
  BY DEF TypeOK
<1>2. Waiting = ReportsIn(queue) /\ Waiting' = ReportsIn(queue')
  BY Zenon DEF Waiting, ReportsIn
<1>3. Wishes = AsksIn(queue) \cup Asks(notifier)
  BY <1>1, WishesAre, Zenon DEF Wishes, IsWished
<1>4. Wishes' = AsksIn(queue') \cup Asks(notifier')
  BY <1>1, WishesAre, Zenon DEF Wishes, IsWished
<1>. QED
  BY <1>2, <1>3, <1>4

seen == <<Waiting, Asked, Pressed, Wishes, mMotor["service"], <<status, motion>>>>

(* Requests in the queue that stay, while the notifier does.               *)
LEMMA SameSeen ==
  ASSUME TypeOK, TypeOK', UNCHANGED <<status, motion, mMotor, mAlertDialog, orphans, notifs>>,
         ReportsIn(queue') = ReportsIn(queue),
         AsksIn(queue') \cup Asks(notifier') = AsksIn(queue) \cup Asks(notifier)
  PROVE  UNCHANGED seen
BY Seen DEF seen, Asked, Pressed

(* Most handlers, posts and the passing of time change nothing MotorControl *)
(* sees: a poller that is posted again is the same wish.                   *)
LEMMA Stutters ==
  ASSUME TypeOK, TypeOK', OrderInv,
         \/ CreateDone \/ Poll \/ BusyOff \/ LedRestore \/ ShowError \/ ShowResult
         \/ CalibOff \/ HandleScreen \/ StepOver \/ NotifyPost \/ DialogClosed
         \/ OpenPage \/ ScreenSwitched \/ LightWritten \/ Tick \/ UNCHANGED vars
  PROVE  UNCHANGED seen
<1>0. queue \in QueueOf(Message) /\ notifier \in Message
  BY DEF TypeOK
<1>1. UNCHANGED <<status, motion, mMotor, mAlertDialog, orphans, notifs>>
  BY Zenon DEF CreateDone, Poll, BusyOff, LedRestore, ShowError, ShowResult, Show,
     CalibOff, HandleScreen, StepOver, NotifyPost, DialogClosed, OpenPage,
     ScreenSwitched, LightWritten, Tick, halVars, askVars, runUnchanged,
     environmentUnchanged, vars
<1>2. ASSUME UNCHANGED <<queue, notifier>> PROVE UNCHANGED seen
  BY <1>1, <1>2, SameSeen
<1>3. ASSUME NEW w, Due(w), w \notin {"open", "closed", "run", "poll"},
             queue' = Taken(queue), UNCHANGED notifier
      PROVE  UNCHANGED seen
  BY <1>1, <1>3, DueParts, SameSeen DEF States
<1>4. CASE CreateDone \/ DialogClosed \/ OpenPage \/ LightWritten \/ UNCHANGED vars
  BY <1>2, <1>4, Zenon DEF CreateDone, DialogClosed, OpenPage, LightWritten,
     runUnchanged, environmentUnchanged, vars
<1>5. CASE \/ BusyOff \/ LedRestore \/ ShowError \/ ShowResult \/ CalibOff
           \/ HandleScreen \/ StepOver
  BY <1>3, <1>5 DEF BusyOff, LedRestore, ShowError, ShowResult, Show, CalibOff,
     HandleScreen, StepOver, runUnchanged
<1>6. CASE Poll
  <2>1. Due("poll") /\ Taken(queue) \in QueueOf(Message) /\ UNCHANGED notifier
    BY <1>6, DueType DEF Poll
  <2>. DEFINE m == Request(Arg)
  <2>2. m \in Message /\ RequestDelay(m) \in Slots /\ {m.what} \cap States = {}
        /\ Asks(m) = {Arg} \cap States
    BY <2>1, DueType, MessageType, Delay DEF Request, Msg, States, Asks
  <2>3. queue' = Post(Taken(queue), RequestDelay(m), m)
    BY <1>6 DEF Poll
  <2>. HIDE DEF m
  <2>4. /\ ReportsIn(queue') = ReportsIn(Taken(queue))
        /\ AsksIn(queue') = AsksIn(Taken(queue)) \cup ({Arg} \cap States)
    <3>1. /\ ReportsIn(queue') = ReportsIn(Taken(queue)) \cup ({m.what} \cap States)
          /\ AsksIn(queue') = AsksIn(Taken(queue)) \cup Asks(m)
      BY ONLY <2>1, <2>2, <2>3, PostParts, Zenon
    <3>. QED
      BY ONLY <2>2, <3>1
  <2>5. /\ ReportsIn(Taken(queue)) = ReportsIn(queue)
        /\ Arg \in States => Arg \in AsksIn(queue)
        /\ AsksIn(Taken(queue)) \in {AsksIn(queue), AsksIn(queue) \ ({Arg} \cap States)}
    BY <2>1, DueParts DEF States
  <2>6. AsksIn(queue') = AsksIn(queue)
    BY <2>4, <2>5
  <2>. QED
    BY <1>1, <2>1, <2>4, <2>5, <2>6, SameSeen
<1>7. CASE NotifyPost
  <2>1. queue' = Post(queue, RequestDelay(notifier), notifier) /\ notifier' = NoMessage
    BY <1>7 DEF NotifyPost
  <2>2. Asks(notifier') = {}
    BY <2>1 DEF Asks, NoMessage
  <2>3. {notifier.what} \cap States = {}
    BY DEF OrderInv
  <2>4. /\ ReportsIn(queue') = ReportsIn(queue)
        /\ AsksIn(queue') = AsksIn(queue) \cup Asks(notifier)
    <3>1. /\ ReportsIn(queue') = ReportsIn(queue) \cup ({notifier.what} \cap States)
          /\ AsksIn(queue') = AsksIn(queue) \cup Asks(notifier)
      <4>1. RequestDelay(notifier) \in Slots
        BY Delay
      <4>. QED
        BY ONLY <1>0, <2>1, <4>1, PostParts, Zenon
    <3>. QED
      BY ONLY <2>3, <3>1
  <2>. QED
    BY <1>1, <2>2, <2>4, SameSeen
<1>8. CASE ScreenSwitched
  <2>1. UNCHANGED notifier
    BY <1>8 DEF ScreenSwitched
  <2>2. /\ "on" \in Args /\ "off" \in Args
        /\ "screen" \in Whats \ {"open", "closed", "run", "poll"}
    BY DEF Args, Whats
  <2>3. ReportsIn(queue') = ReportsIn(queue) /\ AsksIn(queue') = AsksIn(queue)
    BY <1>0, <1>8, <2>2, PostsParts, Delay DEF ScreenSwitched
  <2>. QED
    BY <1>1, <2>1, <2>3, SameSeen
<1>9. CASE Tick
  BY <1>0, <1>1, <1>9, AdvancedParts, SameSeen DEF Tick
<1>. QED
  BY <1>4, <1>5, <1>6, <1>7, <1>8, <1>9

(* The life of the process.                                                *)
LEMMA Lives ==
  ASSUME TypeOK, TypeOK', DeadIsNull, Create \/ Die \/ HalDies
  PROVE  [Control!Next]_seen
<1>0. "service" \in Objects /\ mMotor \in [Objects -> {"null", "live", "dead"}]
  BY DEF Objects, TypeOK
<1>1. CASE Create
  <2>1. UNCHANGED <<Waiting, Asked, Wishes>>
    BY <1>1, Zenon DEF Create, Waiting, Asked, Wishes, IsWished, askVars
  <2>2. UNCHANGED <<Pressed, status>>
    BY <1>1, Zenon DEF Create, Pressed, Move, halVars
  <2>3. /\ mMotor["service"] = "null" /\ mMotor'["service"] \in {"null", "live", "dead"}
        /\ motion' = IF mMotor'["service"] = "live" /\ status \in {"POPUP_OK", "TAKEBACK_JAMMED"}
                     THEN "down" ELSE motion
    BY <1>0, <1>1 DEF Create, Move, halVars, DeadIsNull
  <2>4. Control!Start
    BY <2>1, <2>2, <2>3 DEF Control!Start
  <2>. QED
    BY <2>4 DEF Control!Next
<1>2. CASE Die
  <2>1. queue' = EmptyQueue /\ notifier' = NoMessage /\ notifs' = << >>
        /\ mAlertDialog' = "hidden" /\ orphans' = 0 /\ UNCHANGED <<status, motion>>
    BY <1>2 DEF Die, CallbackLost
  <2>2. Waiting' = {} /\ Wishes' = {}
    <3>1. ReportsIn(queue') = {} /\ AsksIn(queue') = {} /\ Asks(notifier') = {}
      BY <2>1 DEF ReportsIn, AsksIn, HasMessages, IsQueued, EmptyQueue, Asks, NoMessage
    <3>. QED
      BY <3>1, Seen
  <2>3. ~Asked' /\ ~Pressed'
    BY <2>1 DEF Asked, Pressed
  <2>4. mMotor'["service"] = "null"
    BY <1>0, <1>2 DEF Die
  <2>5. Control!Crash
    BY <2>1, <2>2, <2>3, <2>4 DEF Control!Crash, Control!motor
  <2>. QED
    BY <2>5 DEF Control!Next
<1>3. CASE HalDies
  <2>1. UNCHANGED <<Waiting, Asked, Wishes, status, motion>>
    BY <1>3, Zenon DEF HalDies, CallbackLost, Waiting, Asked, Wishes, IsWished, askVars,
       environmentUnchanged
  <2>2. ~Pressed'
    BY <1>3 DEF HalDies, CallbackLost, Pressed
  <2>3. mMotor'["service"] = IF mMotor["service"] = "live" THEN "dead" ELSE mMotor["service"]
    BY <1>0, <1>3 DEF HalDies
  <2>4. Control!HalLost
    BY <2>1, <2>2, <2>3 DEF Control!HalLost, Control!motor
  <2>. QED
    BY <2>4 DEF Control!Next
<1>. QED
  BY <1>1, <1>2, <1>3

(* The reports, the question and the pushes.                               *)
LEMMA Inputs ==
  ASSUME TypeOK, TypeOK',
         \/ OnCameraOpened \/ OnCameraClosed \/ HandleOpen \/ HandleClosed
         \/ AnswerYes \/ AnswerNo
  PROVE  [Control!Next]_seen
<1>. USE DEF Control!States, Control!Without, Control!Wish, Control!motor
<1>0. queue \in QueueOf(Message) /\ States = {"open", "closed"}
  BY DEF TypeOK, States
<1>1. CASE OnCameraOpened \/ OnCameraClosed
  <2>1. PICK s \in States, t \in States : s # t /\ \E age : CameraReport(s, t, age)
    BY <1>1, <1>0 DEF OnCameraOpened, OnCameraClosed
  <2>2. PICK age : CameraReport(s, t, age)
    BY <2>1
  <2>3. UNCHANGED <<Asked, Pressed, notifier, mMotor, status, motion>>
    BY <2>2, Zenon DEF CameraReport, Asked, Pressed, halVars, askVars
  <2>4. Msg(s, "none") \in Message /\ {Msg(s, "none").what} \cap States = {s}
        /\ Asks(Msg(s, "none")) = {}
    BY <1>0, MessageType DEF Whats, Args, Msg, Asks
  <2>5. Cancelled(queue, t) \in QueueOf(Message)
    BY <1>0, MessageType, CancelledType
  <2>6. /\ ReportsIn(Cancelled(queue, t)) = ReportsIn(queue) \ {t}
        /\ AsksIn(Cancelled(queue, t)) = AsksIn(queue)
    BY <1>0, CancelledParts
  <2>7. \/ queue' = Post(queue, EventDelay, Msg(s, "none"))
        \/ queue' = Post(Cancelled(queue, t), EventDelay, Msg(s, "none"))
    BY <2>2 DEF CameraReport
  <2>8. /\ \/ ReportsIn(queue') = ReportsIn(queue) \cup {s}
           \/ ReportsIn(queue') = (ReportsIn(queue) \ {t}) \cup {s}
        /\ AsksIn(queue') = AsksIn(queue)
    BY <1>0, <2>4, <2>5, <2>6, <2>7, PostParts, Delay
  <2>9. ReportsIn(queue) \subseteq {s, t}
    BY <1>0, <2>1 DEF ReportsIn
  <2>10. Waiting' \in {Waiting \cup {s}, {s}} /\ Wishes' = Wishes
    BY <2>3, <2>8, <2>9, Seen
  <2>11. Control!Report(s)
    BY <2>3, <2>10 DEF Control!Report
  <2>. QED
    BY <1>0, <2>11 DEF Control!Next
<1>2. ASSUME NEW q \in QueueOf(Message), NEW s \in States, queue' = UpdateMotor(q, s),
             AsksIn(q) = AsksIn(queue), UNCHANGED <<notifier, mMotor>>
      PROVE  /\ ReportsIn(queue') = ReportsIn(q)
             /\ Wishes' = IF mMotor["service"] = "null" THEN Wishes ELSE Wishes \cup {s}
  <2>1. /\ ReportsIn(queue') = ReportsIn(q)
        /\ AsksIn(queue') = IF mMotor["service"] = "null" THEN AsksIn(queue)
                            ELSE AsksIn(queue) \cup {s}
    BY <1>2, PostsParts
  <2>. QED
    BY <1>2, <2>1, Seen
<1>3. CASE HandleOpen
  <2>1. Due("open") /\ "open" \in States /\ Taken(queue) \in QueueOf(Message)
    BY <1>0, <1>3, DueType DEF HandleOpen
  <2>2. UNCHANGED <<Pressed, notifier, mMotor, status, motion>>
    BY <1>3, Zenon DEF HandleOpen, Pressed, halVars
  <2>3. /\ "open" \in Waiting /\ AsksIn(Taken(queue)) = AsksIn(queue)
        /\ ReportsIn(Taken(queue)) \in {Waiting, Waiting \ {"open"}}
    BY <1>0, <2>1, DueParts, Seen
  <2>4. CASE queue' = Taken(queue) /\ mAlertDialog' = "showing"
    <3>1. Waiting' \in {Waiting, Waiting \ {"open"}} /\ UNCHANGED Wishes /\ Asked'
      BY <2>2, <2>3, <2>4, Seen DEF Asked
    <3>2. Control!HandleReport("open")
      BY <2>2, <2>3, <3>1 DEF Control!HandleReport
    <3>. QED
      BY <3>2 DEF Control!Next
  <2>5. CASE queue' = UpdateMotor(Taken(queue), "open") /\ UNCHANGED askVars
    <3>1. Waiting' \in {Waiting, Waiting \ {"open"}} /\ UNCHANGED Asked
      BY <1>2, <2>1, <2>2, <2>3, <2>5, Seen DEF Asked, askVars
    <3>2. Wishes' = IF mMotor["service"] = "null" THEN Wishes ELSE Wishes \cup {"open"}
      BY <1>2, <2>1, <2>2, <2>3, <2>5
    <3>3. Control!HandleReport("open")
      BY <2>2, <2>3, <3>1, <3>2 DEF Control!HandleReport
    <3>. QED
      BY <3>3 DEF Control!Next
  <2>. QED
    BY <1>3, <2>4, <2>5 DEF HandleOpen
<1>4. CASE HandleClosed
  <2>1. /\ Due("closed") /\ "closed" \in States /\ Taken(queue) \in QueueOf(Message)
        /\ queue' = UpdateMotor(Taken(queue), "closed")
    BY <1>0, <1>4, DueType DEF HandleClosed
  <2>2. UNCHANGED <<Pressed, notifier, mMotor, status, motion>>
    BY <1>4, Zenon DEF HandleClosed, Pressed, halVars
  <2>3. /\ "closed" \in Waiting /\ AsksIn(Taken(queue)) = AsksIn(queue)
        /\ ReportsIn(Taken(queue)) \in {Waiting, Waiting \ {"closed"}}
    BY <1>0, <2>1, DueParts, Seen
  <2>4. Asked' => Asked
    BY <1>4 DEF HandleClosed, Asked
  <2>5. Waiting' \in {Waiting, Waiting \ {"closed"}}
    BY <1>2, <2>1, <2>2, <2>3, Seen
  <2>6. Wishes' = IF mMotor["service"] = "null" THEN Wishes ELSE Wishes \cup {"closed"}
    BY <1>2, <2>1, <2>2, <2>3
  <2>7. Control!HandleReport("closed")
    BY <2>2, <2>3, <2>4, <2>5, <2>6 DEF Control!HandleReport
  <2>. QED
    BY <2>7 DEF Control!Next
<1>5. CASE AnswerYes \/ AnswerNo
  <2>1. AskAnswered /\ (queue' = queue \/ queue' = UpdateMotor(queue, "open"))
    BY <1>5 DEF AnswerYes, AnswerNo
  <2>2. UNCHANGED <<Pressed, notifier, mMotor, status, motion>>
    BY <2>1, Zenon DEF AskAnswered, Pressed, halVars
  <2>3. Asked /\ Asked' \in BOOLEAN
    BY <2>1 DEF AskAnswered, Asked
  <2>4. CASE queue' = queue
    <3>1. UNCHANGED <<Waiting, Wishes>>
      BY <2>2, <2>4, Seen
    <3>2. Control!Answer
      BY <2>2, <2>3, <3>1 DEF Control!Answer
    <3>. QED
      BY <3>2 DEF Control!Next
  <2>5. CASE queue' = UpdateMotor(queue, "open")
    <3>1. /\ UNCHANGED Waiting
          /\ Wishes' = IF mMotor["service"] = "null" THEN Wishes ELSE Wishes \cup {"open"}
      BY <1>0, <1>2, <2>2, <2>5, Seen
    <3>2. Control!Answer
      BY <2>2, <2>3, <3>1 DEF Control!Answer
    <3>. QED
      BY <3>2 DEF Control!Next
  <2>. QED
    BY <2>1, <2>4, <2>5
<1>. QED
  BY <1>1, <1>3, <1>4, <1>5

(* The closure r takes one wish, or leaves it for it was there twice.      *)
LEMMA WishTaken ==
  ASSUME TypeOK, TypeOK', Due("run"), UNCHANGED notifier,
         ReportsIn(queue') = ReportsIn(Taken(queue)), AsksIn(queue') = AsksIn(Taken(queue))
  PROVE  /\ UNCHANGED Waiting
         /\ Arg \in States => Arg \in Wishes /\ Wishes' \in Control!Without(Wishes, Arg)
         /\ Arg \notin States => UNCHANGED Wishes
<1>1. /\ ReportsIn(queue') = ReportsIn(queue)
      /\ Arg \in States => Arg \in AsksIn(queue)
      /\ AsksIn(queue') \in {AsksIn(queue), AsksIn(queue) \ ({Arg} \cap States)}
  BY DueParts DEF States
<1>2. ASSUME NEW A, NEW B, NEW N, NEW a, B \in {A, A \ {a}}
      PROVE  B \cup N \in {(A \cup N) \ {a}, A \cup N}
  <2>1. CASE B = A \/ a \in N
    BY <1>2, <2>1
  <2>2. CASE B = A \ {a} /\ a \notin N
    BY <2>2
  <2>. QED
    BY <1>2, <2>1, <2>2
<1>3. CASE Arg \in States
  <2>1. {Arg} \cap States = {Arg}
    BY <1>3
  <2>2. AsksIn(queue') \in {AsksIn(queue), AsksIn(queue) \ {Arg}}
    BY <1>1, <2>1
  <2>3. AsksIn(queue') \cup Asks(notifier) \in
          {(AsksIn(queue) \cup Asks(notifier)) \ {Arg}, AsksIn(queue) \cup Asks(notifier)}
    BY <1>2, <2>2
  <2>. QED
    BY <1>1, <1>3, <2>3, Seen DEF Control!Without
<1>4. CASE Arg \notin States
  <2>1. AsksIn(queue') = AsksIn(queue)
    BY <1>1, <1>4
  <2>. QED
    BY <1>1, <1>4, <2>1, Seen
<1>. QED
  BY <1>3, <1>4

LEMMA Runners ==
  ASSUME TypeOK, TypeOK', RunRaise \/ RunLower \/ RunRefused \/ RunFails
  PROVE  [Control!Next]_seen
<1>. USE DEF Control!States, Control!motor
<1>0. /\ Due("run") /\ Taken(queue) \in QueueOf(Message)
      /\ UNCHANGED <<notifier, mAlertDialog, orphans>>
      /\ "service" \in Objects /\ mMotor \in [Objects -> {"null", "live", "dead"}]
      /\ States = {"open", "closed"}
  BY DueType DEF RunRaise, RunLower, RunRefused, RunFails, runUnchanged, askVars,
     Objects, TypeOK, States
<1>1. ReportsIn(queue') = ReportsIn(Taken(queue)) /\ AsksIn(queue') = AsksIn(Taken(queue))
  <2>1. \A allowed : Lit(Taken(queue), allowed) \in QueueOf(Message)
    BY <1>0, RequestType
  <2>2. \A allowed : BusyFrom(Lit(Taken(queue), allowed)) =>
          /\ ReportsIn(queue') = ReportsIn(Taken(queue))
          /\ AsksIn(queue') = AsksIn(Taken(queue))
    BY <1>0, <2>1, PostsParts
  <2>3. BusyFrom(Taken(queue)) =>
          /\ ReportsIn(queue') = ReportsIn(Taken(queue))
          /\ AsksIn(queue') = AsksIn(Taken(queue))
    BY <1>0, PostsParts
  <2>4. CASE RunRaise \/ RunLower \/ RunFails
    BY <2>2, <2>3, <2>4 DEF RunRaise, RunLower, RunFails
  <2>5. CASE RunRefused
    <3>1. status \in Args /\ "error" \in Whats \ {"open", "closed", "run", "poll"}
      BY DEF TypeOK, HalTypeOK, Args, Whats
    <3>2. queue' = Taken(queue) \/ queue' = Post(Taken(queue), 0, Msg("error", status))
      BY <2>5 DEF RunRefused, Complain
    <3>. QED
      BY <1>0, <3>1, <3>2, PostsParts, Delay
  <2>. QED
    BY <2>4, <2>5
<1>2. /\ UNCHANGED <<Waiting, Asked>>
      /\ Arg \in States => Arg \in Wishes /\ Wishes' \in Control!Without(Wishes, Arg)
      /\ Arg \notin States => UNCHANGED Wishes
  BY <1>0, <1>1, WishTaken DEF Asked
<1>3. CASE RunRaise \/ RunLower
  <2>1. /\ Arg \in States /\ mMotor["service"] = "live" /\ Control!Fits(Arg)
        /\ motion' = Control!MotionFor(Arg)
    BY <1>0, <1>3 DEF RunRaise, RunLower, MayRaise, MayLower, Lowered, Move,
       Control!Fits, Control!MotionFor
  <2>2. UNCHANGED <<status, notifs, mMotor>>
    BY <1>3 DEF RunRaise, RunLower, Move
  <2>3. UNCHANGED Pressed
    BY <2>2, Zenon DEF Pressed
  <2>4. Control!Obey(Arg)
    BY <1>2, <2>1, <2>2, <2>3 DEF Control!Obey
  <2>. QED
    BY <1>0, <2>1, <2>4 DEF Control!Next
<1>4. CASE RunRefused
  <2>1. UNCHANGED <<status, motion, notifs, mMotor>> /\ mMotor["service"] = "live"
    BY <1>4 DEF RunRefused, halVars
  <2>2. UNCHANGED Pressed
    BY <2>1, Zenon DEF Pressed
  <2>3. CASE Arg \in States
    <3>1. ~Control!Fits(Arg)
      BY <1>0, <1>4, <2>3 DEF RunRefused, MayRaise, MayLower, Lowered, Control!Fits
    <3>2. Control!Refuse(Arg)
      BY <1>2, <2>1, <2>2, <2>3, <3>1 DEF Control!Refuse
    <3>. QED
      BY <1>0, <2>3, <3>2 DEF Control!Next
  <2>4. CASE Arg \notin States
    BY <1>2, <2>1, <2>2, <2>4 DEF seen
  <2>. QED
    BY <2>3, <2>4
<1>5. CASE RunFails
  <2>1. /\ mMotor["service"] # "null" /\ mMotor'["service"] = "dead"
        /\ UNCHANGED <<status, motion>>
        /\ mMotor["service"] = "dead" => UNCHANGED <<notifs, mMotor>>
        /\ mMotor["service"] = "live" => notifs' = << >> /\ Arg \in States
    BY <1>0, <1>5 DEF RunFails, CallbackLost, halVars
  <2>2. Pressed' => Pressed
    BY <1>0, <2>1 DEF Pressed
  <2>3. CASE Arg \in States
    <3>1. Control!Fail(Arg)
      BY <1>2, <2>1, <2>2, <2>3 DEF Control!Fail
    <3>. QED
      BY <1>0, <2>3, <3>1 DEF Control!Next
  <2>4. CASE Arg \notin States
    <3>1. UNCHANGED <<notifs, mMotor>>
      BY <1>0, <2>1, <2>4
    <3>2. UNCHANGED Pressed
      BY <3>1, Zenon DEF Pressed
    <3>. QED
      BY <1>2, <2>1, <2>4, <3>1, <3>2 DEF seen
  <2>. QED
    BY <2>3, <2>4
<1>. QED
  BY <1>3, <1>4, <1>5

(* A notification of anything but a push is none of a push.                *)
LEMMA PushNotified ==
  ASSUME TypeOK, NEW s, Notify(s)
  PROVE  Pressed' <=> Pressed \/ (callback /\ s = "PRESSED")
<1>1. notifs \in Seq(Notified) /\ "PRESSED" \in Notified
  BY DEF TypeOK, HalTypeOK, Notified
<1>2. CASE callback /\ s \in Notified
  <2>1. notifs' = Append(notifs, s)
    BY <1>2 DEF Notify
  <2>. QED
    BY <1>1, <1>2, <2>1 DEF Pressed
<1>3. CASE ~(callback /\ s \in Notified)
  <2>1. notifs' = notifs
    BY <1>3 DEF Notify
  <2>. QED
    BY <1>1, <1>3, <2>1 DEF Pressed
<1>. QED
  BY <1>2, <1>3

LEMMA Motor ==
  ASSUME TypeOK, TypeOK', FreeFall \/ MotionDone \/ CameraPushed
  PROVE  [Control!Next]_seen
<1>. USE DEF Control!motor
<1>0. UNCHANGED <<Waiting, Wishes, Asked, mMotor>>
  BY Zenon DEF FreeFall, MotionDone, CameraPushed, Waiting, Wishes, IsWished, Asked,
     askVars, runUnchanged, environmentUnchanged
<1>1. CASE FreeFall
  <2>1. CASE mMotor["service"] = "live"
    <3>1. motion' = "down" /\ UNCHANGED <<status, notifs>>
      BY <1>1, <2>1 DEF FreeFall, Move
    <3>2. UNCHANGED Pressed
      BY <3>1, Zenon DEF Pressed
    <3>3. Control!Fall
      BY <1>0, <2>1, <3>1, <3>2 DEF Control!Fall
    <3>. QED
      BY <3>3 DEF Control!Next
  <2>2. CASE mMotor["service"] # "live"
    <3>1. UNCHANGED <<status, motion, notifs>>
      BY <1>1, <2>2 DEF FreeFall, halVars
    <3>2. UNCHANGED Pressed
      BY <3>1, Zenon DEF Pressed
    <3>. QED
      BY <1>0, <3>1, <3>2 DEF seen
  <2>. QED
    BY <2>1, <2>2
<1>2. CASE MotionDone
  <2>1. PICK s \in {EndsWell(motion), EndsBadly(motion)} : MotionEnds(s)
    BY <1>2 DEF MotionDone
  <2>2. motion \in {"up", "down", "calib"} /\ motion' = "none" /\ status' = s /\ Notify(s)
    BY <2>1 DEF MotionEnds, TypeOK, HalTypeOK, Motions
  <2>3. s \in CASE motion = "up"    -> {"POPUP_OK", "POPUP_JAMMED"}
                [] motion = "down"  -> {"TAKEBACK_OK", "TAKEBACK_JAMMED"}
                [] motion = "calib" -> {"CALIB_OK", "CALIB_ERROR"}
                [] OTHER            -> {}
    BY <2>1, <2>2 DEF EndsWell, EndsBadly
  <2>4. s # "PRESSED"
    BY <2>1 DEF EndsWell, EndsBadly
  <2>5. Pressed' <=> Pressed
    BY <2>2, <2>4, PushNotified
  <2>6. Pressed' = Pressed
    BY <2>5 DEF Pressed
  <2>7. Control!Arrive
    BY <1>0, <2>2, <2>3, <2>6 DEF Control!Arrive
  <2>. QED
    BY <2>7 DEF Control!Next
<1>3. CASE CameraPushed
  <2>1. motion = "none" /\ status = "POPUP_OK" /\ UNCHANGED <<status, motion>>
        /\ Notify("PRESSED")
    BY <1>3 DEF CameraPushed, Pushed
  <2>2. CASE Pressed'
    <3>1. Control!Push
      BY <1>0, <2>1, <2>2 DEF Control!Push
    <3>. QED
      BY <3>1 DEF Control!Next
  <2>3. CASE ~Pressed'
    <3>1. ~Pressed
      BY <2>1, <2>3, PushNotified
    <3>2. Pressed' = Pressed
      BY <2>3, <3>1 DEF Pressed
    <3>. QED
      BY <1>0, <2>1, <3>2 DEF seen
  <2>. QED
    BY <2>2, <2>3
<1>. QED
  BY <1>1, <1>2, <1>3

LEMMA Calibrations ==
  ASSUME TypeOK, TypeOK', DialogCalibrate \/ PageCalibrate
  PROVE  [Control!Next]_seen
<1>0. queue \in QueueOf(Message) /\ "service" \in Objects
      /\ mMotor \in [Objects -> {"null", "live", "dead"}]
      /\ UNCHANGED <<notifier, mAlertDialog, orphans>>
  BY DEF DialogCalibrate, PageCalibrate, askVars, Objects, TypeOK
<1>1. PICK o \in Objects : CalibrateMotor(o)
  BY DEF DialogCalibrate, PageCalibrate, Objects, TypeOK
<1>2. ReportsIn(queue') = ReportsIn(queue) /\ AsksIn(queue') = AsksIn(queue)
  <2>1. o \in Args /\ "calibOff" \in Whats \ {"open", "closed", "run", "poll"}
    BY DEF Args, Whats
  <2>2. queue' = queue \/ queue' = Post(queue, CalibDelay, Msg("calibOff", o))
    BY <1>1 DEF CalibrateMotor
  <2>. QED
    BY <1>0, <2>1, <2>2, PostsParts, Delay
<1>3. UNCHANGED <<Waiting, Wishes, Asked>>
  BY <1>0, <1>2, Seen DEF Asked
<1>4. UNCHANGED <<status, notifs>>
  BY <1>1 DEF CalibrateMotor, Move, halVars
<1>5. UNCHANGED Pressed
  BY <1>4, Zenon DEF Pressed
<1>6. CASE UNCHANGED <<halVars, mMotor>>
  BY <1>3, <1>4, <1>5, <1>6 DEF seen, halVars
<1>7. CASE Move("calib") /\ mMotor' = [mMotor EXCEPT ![o] = "live"] /\ mMotor[o] # "dead"
  <2>1. mMotor'["service"] \in {mMotor["service"],
                                IF mMotor["service"] = "null" THEN "live" ELSE mMotor["service"]}
    BY <1>0, <1>7
  <2>2. Control!Calibrate
    BY <1>3, <1>4, <1>5, <1>7, <2>1 DEF Control!Calibrate, Move
  <2>. QED
    BY <2>2 DEF Control!Next
<1>. QED
  BY <1>1, <1>6, <1>7 DEF CalibrateMotor

(* onNotify: a push becomes a wish to lower the camera.                    *)
LEMMA Notifications ==
  ASSUME TypeOK, TypeOK', NotifyBegin
  PROVE  [Control!Next]_seen
<1>0. /\ notifs \in Seq(Notified) /\ notifs # << >> /\ notifs' = Tail(notifs)
      /\ notifier = NoMessage
      /\ UNCHANGED <<queue, mAlertDialog, orphans, status, motion, mMotor>>
  BY DEF TypeOK, HalTypeOK, NotifyBegin, askVars
<1>1. Wishes = AsksIn(queue) /\ Wishes' = AsksIn(queue) \cup Asks(notifier')
      /\ UNCHANGED <<Waiting, Asked>>
  <2>1. Asks(NoMessage) = {}
    BY DEF Asks, NoMessage
  <2>. QED
    BY <1>0, <2>1, Seen DEF Asked
<1>2. CASE Head(notifs) = "PRESSED"
  <2>1. Pressed
    BY <1>0, <1>2 DEF Pressed
  <2>2. notifier' = Request("closed")
    BY <1>2 DEF NotifyBegin
  <2>3. Asks(notifier') = {"closed"}
    BY <2>2 DEF Asks, Request, Msg, States
  <2>4. Control!HandlePush
    BY <1>0, <1>1, <2>1, <2>3 DEF Control!HandlePush, Control!motor, Pressed
  <2>. QED
    BY <2>4 DEF Control!Next
<1>3. CASE Head(notifs) # "PRESSED"
  <2>1. Pressed' <=> Pressed
    <3>1. notifs[1] # "PRESSED" /\ Len(notifs') = Len(notifs) - 1 /\ Len(notifs) \in Nat
      BY <1>0, <1>3
    <3>2. \A i \in 1..Len(notifs') : i + 1 \in 1..Len(notifs) /\ notifs'[i] = notifs[i + 1]
      BY <1>0
    <3>3. \A i \in 1..Len(notifs) : i # 1 => i - 1 \in 1..Len(notifs') /\ (i - 1) + 1 = i
      BY <3>1
    <3>4. ASSUME NEW i \in 1..Len(notifs), notifs[i] = "PRESSED"
          PROVE  \E j \in 1..Len(notifs') : notifs'[j] = "PRESSED"
      <4>1. i # 1
        BY <3>1, <3>4
      <4>2. i - 1 \in 1..Len(notifs') /\ notifs'[i - 1] = notifs[i]
        BY <3>2, <3>3, <4>1
      <4>. QED
        BY <3>4, <4>2
    <3>. QED
      BY <3>2, <3>4, Zenon DEF Pressed
  <2>2. Pressed' = Pressed
    BY <2>1 DEF Pressed
  <2>3. Asks(notifier') = {}
    BY <1>3 DEF NotifyBegin, Asks, Msg, NoMessage
  <2>4. UNCHANGED Wishes
    BY <1>1, <2>3
  <2>. QED
    BY <1>0, <1>1, <2>2, <2>4 DEF seen
<1>. QED
  BY <1>2, <1>3

LEMMA ControlStep ==
  TypeOK /\ TypeOK' /\ OrderInv /\ DeadIsNull /\ [Next]_vars => [Control!Next]_(Control!vars)
<1>. SUFFICES ASSUME TypeOK, TypeOK', OrderInv, DeadIsNull, [Next]_vars
              PROVE  [Control!Next]_(Control!vars)
  OBVIOUS
<1>1. Control!vars = seen /\ (Control!vars)' = seen'
  BY DEF Control!vars, Control!motor, seen
<1>2. [Control!Next]_seen
  BY Stutters, Lives, Inputs, Runners, Motor, Calibrations, Notifications, Zenon
  DEF Next, MainThread, BinderThread, Environment
<1>. QED
  BY <1>1, <1>2, Zenon

(* Through every queue, delay, poller, busy window, crash and dead HAL the *)
(* service is a MotorControl: the motor moves only for a wish that fits    *)
(* its status (a report handled, a question answered with "Yes", a push),  *)
(* a fall, a calibration or a start, and a wish is given up only when its  *)
(* status does not fit, a call fails or the process dies (updateMotor,     *)
(* handleMessage, onNotify, mFreeFallListener, calibrateMotor, onCreate).  *)
THEOREM ControlsTheMotor == Spec => MotorIsControlled
<1>1. Init => Control!Init
  <2>. SUFFICES ASSUME Init PROVE Control!Init
    OBVIOUS
  <2>1. Waiting = {} /\ Wishes = {}
    BY DEF Init, Waiting, Wishes, IsWished, HasMessages, IsQueued, EmptyQueue, NoMessage, Msg
  <2>2. ~Asked /\ ~Pressed
    BY DEF Init, Asked, Pressed
  <2>3. mMotor["service"] = "null"
    BY DEF Init, Objects
  <2>4. status \in Control!Statuses
    BY InputAssumption DEF Init, Statuses, Jammed, Control!Statuses
  <2>. QED
    BY <2>1, <2>2, <2>3, <2>4 DEF Init, Control!Init
<1>2. Init => OrderInv /\ DeadIsNull
  BY DEF Init, OrderInv, NoneOf, EmptyQueue, NoMessage, States, DeadIsNull, Objects
<1>. QED
  BY <1>1, <1>2, InitType, TypeStep, OrderStep, DeadIsNullStep, ControlStep, PTL
  DEF Spec, MotorIsControlled, Control!Spec

(***************************************************************************)
(* When the motor moves: in calm times every report is obeyed in time.     *)
(***************************************************************************)
Concerns    == {"open", "closed", "run"}
Opposite(s) == IF s = "open" THEN "closed" ELSE "open"
Slot(w)     == SlotsOf(queue, w)

(* The motor is, or will be, where s wants it.                             *)
RestsAt(s) == motion = "none" /\ IF s = "open" THEN status = "POPUP_OK" ELSE status \in Lowered
Follows(s) == motion = Control!MotionFor(s) \/ RestsAt(s)

Pace ==
  /\ Punctual /\ AlwaysOn = {FALSE}
  /\ EventDelay < BusyDelay /\ MotionTime < BusyDelay
  /\ BusyDelay < LastGap /\ BusyDelay < budget["gap"]

NothingElse ==
  /\ \A e \in Events \ {"camera", "light"} : budget[e] = 0
  /\ notifs = << >> /\ notifier = NoMessage
  /\ pages = {} /\ \A t \in Texts : dialogs[t] = 0
  /\ mAlertDialog = "hidden" /\ orphans = 0 /\ mScreenOn
  /\ \A w \in {"poll", "error", "result", "calibOff", "screen"} : Slot(w) = {}

(* Before the service runs no report comes; it takes the camera down.      *)
Starting ==
  /\ queue = EmptyQueue /\ camera = "closed" /\ sinceClosed = AgeCap
  /\ \/ /\ svc = "dead" /\ motion = "none"
        /\ status \in Lowered \cup {"POPUP_OK", "TAKEBACK_JAMMED"}
     \/ /\ svc = "creating" /\ mMotor["service"] = "live"
        /\ Follows("closed") /\ (motion # "none" => left < nap)

(* The last report waits; the motor still follows the one before, and will *)
(* have come to rest, and its busy window will be over, when this is due.  *)
Reported ==
  /\ Slot(camera) = {EventDelay - Age} /\ Age <= EventDelay
  /\ Slot(Opposite(camera)) = {} /\ Slot("run") = {}
  /\ Follows(Opposite(camera))
  /\ motion # "none" => left + Age < EventDelay
  /\ \A d \in Slot("busyOff") : d + Age < EventDelay

(* The report is handled, and the closure r is next for the motor.         *)
Requested ==
  /\ Slot("open") = {} /\ Slot("closed") = {} /\ Slot("run") = {0}
  /\ \A a \in Args : IsQueued(queue, Msg("run", a)) => a = camera
  /\ Age = EventDelay
  /\ RestsAt(Opposite(camera))
  /\ Slot("busyOff") = {}

(* The motor obeys.                                                        *)
Obeying ==
  /\ \A w \in Concerns : Slot(w) = {}
  /\ Follows(camera)
  /\ motion # "none" => left + Age <= EventDelay + MotionTime
  /\ \A d \in Slot("busyOff") : d + Age <= EventDelay + BusyDelay

Working ==
  /\ Running /\ mMotor["service"] = "live"
  /\ AtMostOne(queue, Concerns)
  /\ Reported \/ Requested \/ Obeying

CalmInv == Pace /\ NothingElse /\ (Starting \/ Working)

LEMMA CalmTypes ==
  ASSUME TypeOK
  PROVE  /\ EventDelay \in Nat /\ BusyDelay \in Nat /\ MotionTime \in Nat /\ LastGap \in Nat
         /\ AgeCap = EventDelay + LastGap
         /\ Age \in Nat /\ left \in Nat /\ nap \in Nat
         /\ sinceOpen \in Nat /\ sinceClosed \in Nat
         /\ queue \in QueueOf(Message) /\ budget \in [Bounds -> Nat]
         /\ camera \in {"open", "closed"} /\ motion \in {"none", "up", "down", "calib"}
         /\ "service" \in Objects /\ mMotor \in [Objects -> {"null", "live", "dead"}]
         /\ \A w : Slot(w) \subseteq Nat /\ Slot(w) \subseteq Slots
  BY DelayAssumption, MotionAssumption
  DEF TypeOK, HalTypeOK, Motions, States, Objects, Slot, SlotsOf, Slots, Delays, Age, AgeCap

(* The next message of a kind is due.                                      *)
LEMMA DueSlot ==
  ASSUME TypeOK, NEW w, Due(w)
  PROVE  /\ 0 \in Slot(w)
         /\ Taken(queue) \in QueueOf(Message)
         /\ \A v : SlotsOf(Taken(queue), v) \subseteq Slot(v)
         /\ \A v : v # w => SlotsOf(Taken(queue), v) = Slot(v)
         /\ AtMostOne(queue, Concerns) =>
              /\ AtMostOne(Taken(queue), Concerns)
              /\ w \in Concerns => \A v \in Concerns : SlotsOf(Taken(queue), v) = {}
         /\ Arg \in Args /\ IsQueued(queue, Msg(w, Arg))
<1>1. queue \in QueueOf(Message) /\ queue[0] # << >> /\ Head(queue[0]).what = w
      /\ Taken(queue) \in QueueOf(Message) /\ Arg \in Args
  BY DueType DEF TypeOK
<1>2. 0 \in Slots /\ queue[0] \in Seq(Message)
  BY <1>1, Delay DEF QueueOf
<1>3. Head(queue[0]) \in Message /\ 1 \in 1..Len(queue[0]) /\ queue[0][1] = Head(queue[0])
  BY <1>1, <1>2
<1>4. Head(queue[0]) = Msg(w, Arg)
  BY <1>1, <1>3 DEF Message, Msg, Arg
<1>5. IsQueued(queue, Msg(w, Arg))
  BY <1>2, <1>3, <1>4 DEF IsQueued
<1>6. /\ 0 \in SlotsOf(queue, w)
      /\ \A v : SlotsOf(Taken(queue), v) \subseteq SlotsOf(queue, v)
      /\ \A v : v # w => SlotsOf(Taken(queue), v) = SlotsOf(queue, v)
  BY <1>1, TakenSlots
<1>7. AtMostOne(queue, Concerns) =>
              /\ AtMostOne(Taken(queue), Concerns)
              /\ w \in Concerns => \A v \in Concerns : SlotsOf(Taken(queue), v) = {}
  BY <1>1, TakenOne
<1>. QED
  BY <1>1, <1>5, <1>6, <1>7 DEF Slot

(* What cannot happen in calm times.                                       *)
LEMMA CalmSteps ==
  ASSUME TypeOK, CalmInv, [Next]_vars
  PROVE  \/ Create \/ CreateDone \/ OnCameraOpened \/ OnCameraClosed
         \/ HandleClosed \/ HandleOpen \/ RunRaise \/ RunLower \/ RunRefused
         \/ BusyOff \/ LedRestore \/ StepOver \/ MotionDone \/ LightWritten \/ Tick
         \/ UNCHANGED vars
<1>1. \A e \in {"push", "jam", "fall", "calibrate", "screen", "die", "hal"} :
        budget[e] = 0 /\ ~Spend(e)
  BY DEF CalmInv, NothingElse, Events, Spend
<1>2. ~Die /\ ~ScreenSwitched /\ ~CameraPushed /\ ~HalDies /\ ~FreeFall /\ ~OpenPage
  BY <1>1 DEF Die, ScreenSwitched, CameraPushed, HalDies, FreeFall, OpenPage
<1>3. ~DialogCalibrate /\ ~DialogClosed
  BY DEF CalmInv, NothingElse, DialogCalibrate, DialogClosed, Dismiss, ErrorText, Texts
<1>4. ~PageCalibrate /\ ~NotifyBegin /\ ~NotifyPost
  BY DEF CalmInv, NothingElse, PageCalibrate, NotifyBegin, NotifyPost
<1>5. ~AnswerYes /\ ~AnswerNo
  BY DEF CalmInv, NothingElse, AnswerYes, AnswerNo, AskAnswered
<1>6. \A w \in {"poll", "error", "result", "calibOff", "screen"} : ~Due(w)
  BY DueSlot DEF CalmInv, NothingElse
<1>7. ~Poll /\ ~ShowError /\ ~ShowResult /\ ~CalibOff /\ ~HandleScreen
  BY <1>6 DEF Poll, ShowError, ShowResult, CalibOff, HandleScreen
<1>8. ~RunFails
  <2>1. Due("run") => mMotor["service"] = "live"
    BY DEF CalmInv, Starting, Working, Due, Running
  <2>. QED
    BY <1>1, <2>1 DEF RunFails
<1>. QED
  BY <1>2, <1>3, <1>4, <1>5, <1>7, <1>8, Zenon
  DEF Next, MainThread, BinderThread, Environment

(* The pace is a matter of the constants and of budgets nobody spends.     *)
LEMMA PaceStep ==
  ASSUME TypeOK, CalmInv, UNCHANGED budget \/ Spend("camera") \/ Spend("light")
  PROVE  Pace' /\ \A e \in Events \ {"camera", "light"} : budget'[e] = 0
<1>1. \A e \in Bounds \ {"camera", "light"} : budget'[e] = budget[e]
  BY CalmTypes DEF Spend, Bounds, Events
<1>. QED
  BY <1>1 DEF CalmInv, Pace, NothingElse, Bounds, Events

LEMMA StartCalm ==
  ASSUME TypeOK, CalmInv, Create \/ CreateDone
  PROVE  CalmInv'
<1>. USE DEF cameraVars, screenVars, calibVars, ledVars, errorVars, askVars, halVars
<1>0. Starting /\ Pace /\ UNCHANGED <<queue, camera, sinceOpen, sinceClosed, budget, notifs>>
  <2>1. budget["hal"] = 0
    BY DEF CalmInv, NothingElse, Events
  <2>. QED
    BY <2>1 DEF Create, CreateDone, CalmInv, Working, Running, Spend, Move
<1>1. Pace'
  BY <1>0, PaceStep
<1>2. NothingElse'
  BY <1>0 DEF Create, CreateDone, CalmInv, NothingElse, Slot
<1>3. CASE Create
  <2>1. svc = "dead" /\ motion = "none" /\ status \in Lowered \cup {"POPUP_OK", "TAKEBACK_JAMMED"}
    BY <1>0, <1>3 DEF Starting, Create
  <2>2. svc' = "creating" /\ mMotor'["service"] = "live" /\ nap' \in {0, BusyDelay}
    BY <1>3, <2>1, CalmTypes DEF Create, CalmInv, NothingElse, Events, Spend
  <2>3. /\ Follows("closed")'
        /\ motion' # "none" => left' < nap'
    <3>1. CASE status \in {"POPUP_OK", "TAKEBACK_JAMMED"}
      BY <1>0, <1>3, <3>1, CalmTypes
      DEF Create, CalmInv, NothingElse, Events, Spend, Move, TimeFor, Follows,
          Control!MotionFor, Pace
    <3>2. CASE status \notin {"POPUP_OK", "TAKEBACK_JAMMED"}
      BY <1>0, <1>3, <2>1, <3>2 DEF Create, CalmInv, NothingElse, Events, Spend, Follows, RestsAt
    <3>. QED
      BY <3>1, <3>2
  <2>4. Starting'
    BY <1>0, <2>2, <2>3 DEF Starting
  <2>. QED
    BY <1>1, <1>2, <2>4 DEF CalmInv
<1>4. CASE CreateDone
  <2>1. /\ svc' = "running" /\ mMotor' = mMotor /\ mMotor["service"] = "live"
        /\ UNCHANGED <<motion, status>> /\ RestsAt("closed")
    BY <1>0, <1>4, CalmTypes DEF CreateDone, Starting, Follows, Control!MotionFor
  <2>2. AtMostOne(queue', Concerns) /\ \A w : Slot(w)' = {}
    BY <1>0, EmptySlots, EmptyOne DEF Starting, Slot
  <2>3. Obeying'
    BY <1>0, <2>1, <2>2 DEF Obeying, Follows, RestsAt, Starting
  <2>. QED
    BY <1>1, <1>2, <2>1, <2>2, <2>3 DEF CalmInv, Working, Running
<1>. QED
  BY <1>3, <1>4

(* A report comes when the motor has come to rest after the last one.      *)
LEMMA ReportCalm ==
  ASSUME TypeOK, TypeOK', CalmInv, OnCameraOpened \/ OnCameraClosed
  PROVE  CalmInv'
<1>. USE DEF cameraVars, screenVars, calibVars, ledVars, errorVars, askVars, halVars
<1>1. PICK s \in States : \E age : CameraReport(s, Opposite(s), age) /\ Age' = 0
  BY DEF OnCameraOpened, OnCameraClosed, States, Opposite, Age, CameraReport
<1>2. PICK age : CameraReport(s, Opposite(s), age) /\ Age' = 0
  BY <1>1
<1>3. Running /\ camera = Opposite(s) /\ camera' = s /\ s = Opposite(camera)
  BY <1>2 DEF CameraReport, Opposite, States
<1>4. Age > BusyDelay
  <2>. DEFINE gap == IF budget["camera"] = 1 THEN LastGap ELSE budget["gap"]
  <2>1. gap > BusyDelay /\ gap \in Nat
    BY CalmTypes DEF CalmInv, Pace, Bounds
  <2>2. sinceOpen >= gap /\ sinceClosed >= gap
    BY <1>2 DEF CameraReport
  <2>. QED
    BY <2>1, <2>2, CalmTypes DEF Age
<1>5. Working /\ Obeying
  BY <1>3, <1>4, CalmTypes DEF CalmInv, Pace, Starting, Working, Reported, Requested, Running
<1>6. queue' = Post(queue, EventDelay, Msg(s, "none"))
  <2>1. ~HasMessages(queue, Opposite(s))
    BY <1>5, HasMessagesSlots DEF Obeying, Slot, Concerns, Opposite
  <2>. QED
    BY <1>2, <2>1 DEF CameraReport
<1>7. \A w : Slot(w)' = IF w = s THEN Slot(w) \cup {EventDelay} ELSE Slot(w)
  <2>1. Msg(s, "none") \in Message /\ Msg(s, "none").what = s
    BY MessageType DEF States, Whats, Args, Msg
  <2>. QED
    BY <1>6, <2>1, CalmTypes, Delay, PostSlots DEF Slot
<1>8. AtMostOne(queue', Concerns)
  <2>1. Msg(s, "none") \in Message
    BY MessageType DEF States, Whats, Args
  <2>2. \A w \in Concerns : SlotsOf(queue, w) = {}
    BY <1>5 DEF Obeying, Slot
  <2>. QED
    BY <1>5, <1>6, <2>1, <2>2, CalmTypes, Delay, PostOne DEF Working
<1>9. Reported'
  <2>1. UNCHANGED <<motion, status, left>>
    BY <1>2 DEF CameraReport
  <2>2. Slot(camera)' = {EventDelay - Age'} /\ Age' <= EventDelay
    BY <1>2, <1>3, <1>5, <1>7, CalmTypes DEF Obeying, Concerns, States
  <2>3. Slot(Opposite(camera))' = {} /\ Slot("run")' = {}
    BY <1>3, <1>5, <1>7 DEF Obeying, Concerns, States, Opposite
  <2>4. Follows(Opposite(camera))'
    BY <1>3, <1>5, <2>1 DEF Obeying, Follows, RestsAt, Opposite, States
  <2>5. motion' # "none" => left' + Age' < EventDelay
    BY <1>2, <1>4, <1>5, <2>1, CalmTypes DEF Obeying, CalmInv, Pace
  <2>6. \A d \in Slot("busyOff")' : d + Age' < EventDelay
    BY <1>2, <1>4, <1>5, <1>7, CalmTypes DEF Obeying, States
  <2>. QED
    BY <2>2, <2>3, <2>4, <2>5, <2>6 DEF Reported
<1>10. Pace' /\ NothingElse'
  <2>1. \A w \in {"poll", "error", "result", "calibOff", "screen"} : Slot(w)' = Slot(w)
    BY <1>7 DEF States
  <2>2. Pace' /\ \A e \in Events \ {"camera", "light"} : budget'[e] = 0
    BY <1>2, PaceStep DEF CameraReport
  <2>. QED
    BY <1>2, <2>1, <2>2 DEF CameraReport, CalmInv, NothingElse
<1>11. Running' /\ mMotor'["service"] = "live"
  BY <1>2, <1>5 DEF CameraReport, Working, Running
<1>. QED
  BY <1>8, <1>9, <1>10, <1>11 DEF CalmInv, Working

(* A report that is handled finds a motor at rest, and no busy window.     *)
LEMMA HandleCalm ==
  ASSUME TypeOK, BusyBacked, CalmInv, HandleOpen \/ HandleClosed
  PROVE  CalmInv'
<1>. USE DEF cameraVars, screenVars, calibVars, ledVars, errorVars, askVars, halVars
<1>1. \E s \in States : Due(s) /\ IF s = "open" THEN HandleOpen ELSE HandleClosed
  BY DEF HandleOpen, HandleClosed, States
<1>. SUFFICES ASSUME NEW s \in States, Due(s),
                     IF s = "open" THEN HandleOpen ELSE HandleClosed
              PROVE  CalmInv'
  BY <1>1
<1>2. 0 \in Slot(s)
  BY DueSlot
<1>3. Working /\ Running
  BY <1>2, EmptySlots DEF CalmInv, Starting, Slot, Due
<1>4. Reported /\ s = camera
  BY <1>2, <1>3, CalmTypes
  DEF Working, Reported, Requested, Obeying, Concerns, States, Opposite
<1>5. Age = EventDelay /\ motion = "none" /\ RestsAt(Opposite(camera)) /\ Slot("busyOff") = {}
  <2>1. Age = EventDelay
    BY <1>2, <1>4, CalmTypes DEF Reported
  <2>2. motion = "none" /\ Slot("busyOff") = {}
    BY <1>4, <2>1, CalmTypes DEF Reported
  <2>3. RestsAt(Opposite(camera))
    BY <1>4, <2>2 DEF Reported, Follows, Control!MotionFor
  <2>. QED
    BY <2>1, <2>2, <2>3
<1>6. ~mMotorBusy
  BY <1>5, HasMessagesSlots DEF BusyBacked, Slot
<1>7. queue' = Post(Taken(queue), 0, Msg("run", s))
  <2>1. UpdateMotor(Taken(queue), s) = Post(Taken(queue), 0, Msg("run", s))
    BY <1>3, <1>6 DEF UpdateMotor, Request, RequestDelay, Msg, Working
  <2>2. CASE s = "open"
    BY <2>1, <2>2 DEF HandleOpen, CalmInv, Pace, NothingElse
  <2>3. CASE s = "closed"
    BY <2>1, <2>3 DEF HandleClosed
  <2>. QED
    BY <2>2, <2>3 DEF States
<1>8. UNCHANGED <<motion, status, left, notifs, notifier, pages, dialogs, mAlertDialog,
                  orphans, mScreenOn, camera, sinceOpen, sinceClosed, mMotor, svc, budget>>
  BY DEF HandleClosed, HandleOpen, CalmInv, Pace, NothingElse
<1>9. /\ Taken(queue) \in QueueOf(Message) /\ Msg("run", s) \in Message
      /\ Msg("run", s).what = "run" /\ 0 \in Slots
  BY DueSlot, MessageType, Delay DEF States, Whats, Args, Msg
<1>10. /\ AtMostOne(Taken(queue), Concerns)
       /\ \A v \in Concerns : SlotsOf(Taken(queue), v) = {}
       /\ \A v : SlotsOf(Taken(queue), v) \subseteq Slot(v)
  BY <1>3, DueSlot DEF Working, Concerns, States
<1>11. /\ \A w : Slot(w)' = IF w = "run" THEN SlotsOf(Taken(queue), w) \cup {0}
                            ELSE SlotsOf(Taken(queue), w)
       /\ AtMostOne(queue', Concerns)
  <2>1. \A w : SlotsOf(Post(Taken(queue), 0, Msg("run", s)), w) =
                 IF w = "run" THEN SlotsOf(Taken(queue), w) \cup {0}
                 ELSE SlotsOf(Taken(queue), w)
    BY <1>9, PostSlots
  <2>2. AtMostOne(Post(Taken(queue), 0, Msg("run", s)), Concerns)
    BY <1>9, <1>10, PostOne
  <2>. QED
    BY <1>7, <2>1, <2>2 DEF Slot
<1>12. Requested'
  <2>1. Slot("open")' = {} /\ Slot("closed")' = {} /\ Slot("run")' = {0}
    BY <1>10, <1>11 DEF Concerns
  <2>2. ASSUME NEW a \in Args, IsQueued(queue', Msg("run", a)) PROVE a = camera'
    <3>1. ~IsQueued(Taken(queue), Msg("run", a))
      <4>1. ~HasMessages(Taken(queue), "run")
        BY <1>10, HasMessagesSlots DEF Concerns
      <4>. QED
        BY <4>1, HasMessagesIsQueued DEF Msg
    <3>2. Msg("run", a) = Msg("run", s)
      BY <1>7, <1>9, <2>2, <3>1, PostQueued
    <3>. QED
      BY <1>4, <1>8, <3>2 DEF Msg
  <2>3. Age' = EventDelay /\ RestsAt(Opposite(camera))'
    BY <1>5, <1>8 DEF Age, RestsAt, Opposite
  <2>4. Slot("busyOff")' = {}
    BY <1>5, <1>10, <1>11
  <2>. QED
    BY <2>1, <2>2, <2>3, <2>4 DEF Requested
<1>13. Pace' /\ NothingElse'
  <2>1. \A w \in {"poll", "error", "result", "calibOff", "screen"} : Slot(w)' = {}
    BY <1>10, <1>11 DEF CalmInv, NothingElse
  <2>2. Pace' /\ \A e \in Events \ {"camera", "light"} : budget'[e] = 0
    BY <1>8, PaceStep
  <2>. QED
    BY <1>8, <2>1, <2>2 DEF CalmInv, NothingElse
<1>. QED
  BY <1>3, <1>8, <1>11, <1>12, <1>13 DEF CalmInv, Working, Running

(* The closure r is not refused: it moves the motor where the report wants *)
(* it.                                                                     *)
LEMMA RunCalm ==
  ASSUME TypeOK, CalmInv, RunRaise \/ RunLower \/ RunRefused
  PROVE  CalmInv'
<1>. USE DEF cameraVars, screenVars, calibVars, ledVars, errorVars, askVars, halVars,
             runUnchanged
<1>1. Due("run") /\ 0 \in Slot("run") /\ Arg \in Args /\ IsQueued(queue, Msg("run", Arg))
  BY DueSlot DEF RunRaise, RunLower, RunRefused
<1>2. Working /\ Running
  BY <1>1, EmptySlots DEF CalmInv, Starting, Slot, Due
<1>3. Requested /\ Arg = camera
  BY <1>1, <1>2 DEF Working, Reported, Requested, Obeying, Concerns
<1>4. RunRaise \/ RunLower
  BY <1>3, CalmTypes DEF Requested, RestsAt, Opposite, RunRefused, MayRaise, MayLower
<1>5. /\ motion' = Control!MotionFor(camera) /\ left' = MotionTime
      /\ UNCHANGED <<status, notifs, notifier, pages, dialogs, mAlertDialog, orphans,
                     mScreenOn, camera, sinceOpen, sinceClosed, mMotor, svc, budget>>
  BY <1>3, <1>4 DEF RunRaise, RunLower, Move, TimeFor, Control!MotionFor
<1>6. /\ Taken(queue) \in QueueOf(Message)
      /\ AtMostOne(Taken(queue), Concerns)
      /\ \A v \in Concerns : SlotsOf(Taken(queue), v) = {}
      /\ \A v : SlotsOf(Taken(queue), v) \subseteq Slot(v)
  BY <1>1, <1>2, DueSlot DEF Working, Concerns
<1>7. PICK allowed : queue' = Post(Lit(Taken(queue), allowed), BusyDelay, Msg("busyOff", "none"))
  BY <1>4 DEF RunRaise, RunLower, BusyFrom
<1>8. /\ Msg("busyOff", "none") \in Message /\ Msg("busyOff", "none").what = "busyOff"
      /\ Msg("ledOff", "none") \in Message /\ Msg("ledOff", "none").what = "ledOff"
      /\ BusyDelay \in Slots /\ LedDelay \in Slots
  BY MessageType, Delay DEF Whats, Args, Msg
<1>. DEFINE lit == Lit(Taken(queue), allowed)
<1>9. /\ lit \in QueueOf(Message) /\ AtMostOne(lit, Concerns)
      /\ \A v : v # "ledOff" => SlotsOf(lit, v) = SlotsOf(Taken(queue), v)
  BY <1>6, <1>8, RequestType, PostSlots, PostOne DEF Lit, Concerns
<1>. HIDE DEF lit
<1>10. /\ AtMostOne(queue', Concerns)
       /\ \A v : v # "busyOff" => Slot(v)' = SlotsOf(lit, v)
       /\ Slot("busyOff")' = SlotsOf(lit, "busyOff") \cup {BusyDelay}
  <2>1. queue' = Post(lit, BusyDelay, Msg("busyOff", "none"))
    BY <1>7 DEF lit
  <2>. QED
    BY <1>8, <1>9, <2>1, PostSlots, PostOne DEF Slot, Concerns
<1>11. Obeying'
  <2>1. \A w \in Concerns : Slot(w)' = {}
    BY <1>6, <1>9, <1>10 DEF Concerns
  <2>2. Age' = EventDelay
    BY <1>3, <1>5 DEF Age, Requested
  <2>3. Slot("busyOff")' = {BusyDelay}
    BY <1>3, <1>6, <1>9, <1>10 DEF Requested
  <2>4. left' + Age' <= EventDelay + MotionTime
    BY <1>5, <2>2, CalmTypes
  <2>5. \A d \in Slot("busyOff")' : d + Age' <= EventDelay + BusyDelay
    BY <2>2, <2>3, CalmTypes
  <2>6. Follows(camera)'
    BY <1>5 DEF Follows
  <2>. QED
    BY <2>1, <2>4, <2>5, <2>6 DEF Obeying
<1>12. Pace' /\ NothingElse'
  <2>1. \A w \in {"poll", "error", "result", "calibOff", "screen"} : Slot(w)' = {}
    BY <1>6, <1>9, <1>10 DEF CalmInv, NothingElse
  <2>2. Pace' /\ \A e \in Events \ {"camera", "light"} : budget'[e] = 0
    BY <1>5, PaceStep
  <2>. QED
    BY <1>5, <2>1, <2>2 DEF CalmInv, NothingElse
<1>. QED
  BY <1>2, <1>5, <1>10, <1>11, <1>12 DEF CalmInv, Working, Running

(* The ends of the busy window and of the light effect, and what was       *)
(* removed.                                                                *)
LEMMA OverCalm ==
  ASSUME TypeOK, CalmInv, BusyOff \/ LedRestore \/ StepOver
  PROVE  CalmInv'
<1>. USE DEF cameraVars, screenVars, calibVars, ledVars, errorVars, askVars, halVars,
             runUnchanged
<1>1. PICK w \in {"busyOff", "ledOff", "none"} : Due(w) /\ queue' = Taken(queue)
  BY DEF BusyOff, LedRestore, StepOver
<1>2. UNCHANGED <<motion, status, left, notifs, notifier, pages, dialogs, mAlertDialog,
                  orphans, mScreenOn, camera, sinceOpen, sinceClosed, mMotor, svc, budget>>
  BY DEF BusyOff, LedRestore, StepOver
<1>3. 0 \in Slot(w)
  BY <1>1, DueSlot
<1>4. Working
  BY <1>3, EmptySlots DEF CalmInv, Starting, Slot
<1>5. /\ AtMostOne(queue', Concerns)
      /\ \A v \in Concerns : Slot(v)' = Slot(v)
      /\ \A v : Slot(v)' \subseteq Slot(v)
  BY <1>1, <1>4, DueSlot DEF Working, Slot, Concerns
<1>6. Slot(camera)' = Slot(camera) /\ Slot(Opposite(camera))' = Slot(Opposite(camera))
      /\ Age' = Age /\ \A s : Follows(s)' = Follows(s) /\ RestsAt(s)' = RestsAt(s)
  BY <1>2, <1>5, CalmTypes DEF Concerns, Opposite, Age, Follows, RestsAt
<1>7. ASSUME Reported PROVE Reported'
  BY <1>2, <1>5, <1>6, <1>7 DEF Reported, Opposite, Concerns
<1>8. ASSUME Requested PROVE Requested'
  <2>1. \A a \in Args : IsQueued(queue', Msg("run", a)) => a = camera
    BY <1>1, <1>8, DueType, TakenQueued DEF Requested, TypeOK
  <2>. QED
    BY <1>2, <1>5, <1>6, <1>8, <2>1 DEF Requested, Opposite, Concerns
<1>9. ASSUME Obeying PROVE Obeying'
  BY <1>2, <1>5, <1>6, <1>9 DEF Obeying, Concerns
<1>10. Working'
  BY <1>2, <1>4, <1>5, <1>7, <1>8, <1>9 DEF Working, Running
<1>11. Pace' /\ NothingElse'
  BY <1>2, <1>5, PaceStep DEF CalmInv, NothingElse
<1>. QED
  BY <1>10, <1>11 DEF CalmInv

(* A motion that ends well leaves the motor at rest where it went, and     *)
(* notifies nobody.                                                        *)
LEMMA RestCalm ==
  ASSUME TypeOK, CalmInv, MotionDone
  PROVE  CalmInv'
<1>. USE DEF environmentUnchanged, cameraVars, screenVars, calibVars, ledVars, errorVars,
             askVars, halVars
<1>1. MotionEnds(EndsWell(motion)) /\ UNCHANGED budget
  <2>1. ~Spend("jam")
    BY DEF CalmInv, NothingElse, Events, Spend
  <2>. QED
    BY <2>1 DEF MotionDone
<1>2. UNCHANGED <<queue, notifier, pages, dialogs, mAlertDialog, orphans, mScreenOn, camera,
                  sinceOpen, sinceClosed, mMotor, svc>>
  BY DEF MotionDone
<1>3. motion # "none" /\ motion' = "none" /\ status' = EndsWell(motion)
  BY <1>1 DEF MotionEnds
<1>4. ASSUME NEW s \in States, Follows(s)
      PROVE  Follows(s)' /\ motion \in {"up", "down"}
  <2>1. motion = Control!MotionFor(s)
    BY <1>3, <1>4 DEF Follows, RestsAt
  <2>2. RestsAt(s)'
    BY <1>3, <2>1 DEF Control!MotionFor, RestsAt, EndsWell, Lowered, States
  <2>. QED
    BY <2>1, <2>2 DEF Follows, Control!MotionFor
<1>5. Opposite(camera) \in States /\ camera \in States /\ Opposite(camera)' = Opposite(camera)
      /\ Age' = Age /\ \A w : Slot(w)' = Slot(w)
  BY <1>2, CalmTypes DEF Opposite, States, Age, Slot
<1>6. /\ Starting => Starting' /\ motion \in {"up", "down"}
      /\ Reported => Reported' /\ motion \in {"up", "down"}
      /\ Obeying => Obeying' /\ motion \in {"up", "down"}
      /\ ~Requested
  <2>1. ASSUME Starting PROVE Starting' /\ motion \in {"up", "down"}
    <3>1. svc = "creating" /\ Follows("closed")
      BY <1>3, <2>1 DEF Starting
    <3>2. Follows("closed")' /\ motion \in {"up", "down"}
      BY <1>4, <3>1 DEF States
    <3>. QED
      BY <1>2, <1>3, <2>1, <3>1, <3>2 DEF Starting
  <2>2. ASSUME Reported PROVE Reported' /\ motion \in {"up", "down"}
    <3>1. Follows(Opposite(camera))' /\ motion \in {"up", "down"}
      BY <1>4, <1>5, <2>2 DEF Reported
    <3>. QED
      BY <1>2, <1>3, <1>5, <2>2, <3>1 DEF Reported
  <2>3. ASSUME Obeying PROVE Obeying' /\ motion \in {"up", "down"}
    <3>1. Follows(camera)' /\ motion \in {"up", "down"}
      BY <1>2, <1>4, <1>5, <2>3 DEF Obeying
    <3>. QED
      BY <1>2, <1>3, <1>5, <2>3, <3>1 DEF Obeying
  <2>4. ~Requested
    BY <1>3 DEF Requested, RestsAt
  <2>. QED
    BY <2>1, <2>2, <2>3, <2>4
<1>7. UNCHANGED notifs
  <2>1. motion \in {"up", "down"}
    BY <1>6 DEF CalmInv, Working
  <2>2. EndsWell(motion) \notin Notified
    BY <2>1 DEF EndsWell, Notified, Jammed
  <2>. QED
    BY <1>1, <2>2 DEF MotionEnds, Notify
<1>8. Pace' /\ NothingElse'
  BY <1>1, <1>2, <1>5, <1>7, PaceStep DEF CalmInv, NothingElse
<1>9. Working => Working'
  BY <1>2, <1>6 DEF Working, Running
<1>. QED
  BY <1>6, <1>8, <1>9 DEF CalmInv

LEMMA LightCalm ==
  ASSUME TypeOK, CalmInv, LightWritten \/ UNCHANGED vars
  PROVE  CalmInv'
<1>. USE DEF vars, environmentUnchanged, cameraVars, screenVars, calibVars, ledVars,
             errorVars, askVars, halVars
<1>1. UNCHANGED <<motion, status, left, nap, notifs, notifier, pages, dialogs, mAlertDialog,
                  orphans, mScreenOn, camera, sinceOpen, sinceClosed, mMotor, svc, queue>>
  BY DEF LightWritten
<1>2. UNCHANGED budget \/ Spend("light")
  BY DEF LightWritten
<1>3. Pace' /\ NothingElse'
  BY <1>1, <1>2, PaceStep DEF CalmInv, NothingElse, Slot
<1>4. Age' = Age /\ \A s : Follows(s)' = Follows(s) /\ RestsAt(s)' = RestsAt(s)
  BY <1>1 DEF Age, Follows, RestsAt
<1>5. Starting => Starting'
  BY <1>1, <1>4 DEF Starting
<1>6. Reported => Reported'
  BY <1>1, <1>4 DEF Reported, Opposite, Slot
<1>7. Requested => Requested'
  BY <1>1, <1>4 DEF Requested, Opposite, Slot
<1>8. Obeying => Obeying'
  BY <1>1, <1>4 DEF Obeying, Slot
<1>9. Working => Working'
  BY <1>1, <1>6, <1>7, <1>8 DEF Working, Running
<1>. QED
  BY <1>3, <1>5, <1>9 DEF CalmInv

(* Time passes when nothing is due: delays and motions run down together.  *)
LEMMA TickCalm ==
  ASSUME TypeOK, CalmInv, Tick
  PROVE  CalmInv'
<1>. USE DEF cameraVars, screenVars, calibVars, ledVars, errorVars, askVars, halVars
<1>1. UNCHANGED <<motion, status, notifs, notifier, pages, dialogs, mAlertDialog, orphans,
                  mScreenOn, camera, mMotor, svc, budget>>
  BY DEF Tick
<1>2. queue' = Advanced(queue) /\ (motion # "none" => left > 0 /\ left' = left - 1)
      /\ nap' = IF nap > 0 THEN nap - 1 ELSE 0
  BY CalmTypes DEF Tick
<1>3. Age' = IF Age < AgeCap THEN Age + 1 ELSE Age
  BY <1>1 DEF Age, Tick, Older
<1>4. \A w : Slot(w)' = {Below(d) : d \in Slot(w)}
  BY <1>2, AdvancedSlots, CalmTypes DEF Slot
<1>5. /\ \A s : Follows(s)' = Follows(s) /\ RestsAt(s)' = RestsAt(s)
      /\ Opposite(camera)' = Opposite(camera)
  BY <1>1 DEF Follows, RestsAt, Opposite
<1>6. Pace' /\ NothingElse'
  <2>1. \A w \in {"poll", "error", "result", "calibOff", "screen"} : Slot(w)' = {}
    BY <1>4 DEF CalmInv, NothingElse
  <2>. QED
    BY <1>1, <2>1, PaceStep DEF CalmInv, NothingElse
<1>7. CASE Starting
  <2>1. queue' = EmptyQueue
    <3>1. \A d \in Slots : queue'[d] = << >>
      BY <1>2, <1>7, HorizonAssumption DEF Starting, EmptyQueue, Advanced, Slots
    <3>. QED
      BY <1>2, <3>1 DEF EmptyQueue, Advanced
  <2>2. sinceClosed' = AgeCap
    BY <1>7, CalmTypes DEF Starting, Tick, Older
  <2>3. motion' # "none" /\ svc = "creating" => left' < nap'
    BY <1>1, <1>2, <1>7, CalmTypes DEF Starting
  <2>4. Starting'
    BY <1>1, <1>5, <1>7, <2>1, <2>2, <2>3 DEF Starting
  <2>. QED
    BY <1>6, <2>4 DEF CalmInv
<1>8. CASE Working
  <2>1. \A w : 0 \notin Slot(w)
    <3>1. queue[0] = << >>
      BY <1>8 DEF Tick, Idle, CalmInv, Pace, Working
    <3>. QED
      BY <3>1, NothingDue DEF Slot
  <2>2. \A w : Slot(w)' = {d - 1 : d \in Slot(w)}
    BY <1>4, <2>1 DEF Below
  <2>3. AtMostOne(queue', Concerns)
    BY <1>2, <1>8, AdvancedOne, CalmTypes DEF Working
  <2>4. ~Requested
    BY <2>1 DEF Requested
  <2>5. ASSUME Reported PROVE Reported'
    <3>1. Age' = Age + 1 /\ Age < EventDelay
      <4>1. Age # EventDelay
        BY <2>1, <2>5, CalmTypes DEF Reported
      <4>. QED
        BY <1>3, <2>5, <4>1, CalmTypes DEF Reported
    <3>2. Slot(camera)' = {EventDelay - Age'}
      <4>1. Slot(camera)' = {(EventDelay - Age) - 1}
        BY <1>1, <2>2, <2>5 DEF Reported, Slot
      <4>. QED
        BY <3>1, <4>1, CalmTypes
    <3>3. Slot(Opposite(camera))' = {} /\ Slot("run")' = {}
      BY <1>5, <2>2, <2>5 DEF Reported, Slot
    <3>4. motion' # "none" => left' + Age' < EventDelay
      BY <1>1, <1>2, <2>5, <3>1, CalmTypes DEF Reported
    <3>5. \A d \in Slot("busyOff")' : d + Age' < EventDelay
      BY <2>2, <2>5, <3>1, CalmTypes DEF Reported
    <3>6. Follows(Opposite(camera))'
      BY <1>5, <2>5 DEF Reported, Follows, RestsAt
    <3>. QED
      BY <3>1, <3>2, <3>3, <3>4, <3>5, <3>6, CalmTypes DEF Reported
  <2>6. ASSUME Obeying PROVE Obeying'
    <3>1. Age' \in {Age, Age + 1}
      BY <1>3
    <3>2. \A w \in Concerns : Slot(w)' = {}
      BY <2>2, <2>6 DEF Obeying
    <3>3. motion' # "none" => left' + Age' <= EventDelay + MotionTime
      BY <1>1, <1>2, <2>6, <3>1, CalmTypes DEF Obeying
    <3>4. \A d \in Slot("busyOff")' : d + Age' <= EventDelay + BusyDelay
      BY <2>2, <2>6, <3>1, CalmTypes DEF Obeying
    <3>5. Follows(camera)'
      BY <1>1, <2>6 DEF Obeying, Follows, RestsAt
    <3>. QED
      BY <3>2, <3>3, <3>4, <3>5 DEF Obeying
  <2>7. Working'
    BY <1>1, <1>8, <2>3, <2>4, <2>5, <2>6 DEF Working, Running
  <2>. QED
    BY <1>6, <2>7 DEF CalmInv
<1>. QED
  BY <1>7, <1>8 DEF CalmInv

LEMMA CalmStep ==
  TypeOK /\ TypeOK' /\ BusyBacked /\ CalmInv /\ [Next]_vars => CalmInv'
BY CalmSteps, StartCalm, ReportCalm, HandleCalm, RunCalm, OverCalm, RestCalm, LightCalm,
   TickCalm, Zenon

(* In calm times (a fit motor, reports further apart than the busy window, *)
(* threads that run what is due) every report is obeyed, not only the last *)
(* one: once the event delay and the time of one motion have passed, the   *)
(* motor is where the report wants it, and stays there until the next one  *)
(* (availabilityCallback, handleMessage, updateMotor and its closures).    *)
THEOREM ObeysInTime == Spec => ObeyedInTime
<1>1. Init /\ Calm => CalmInv
  <2>. SUFFICES ASSUME Init, Calm PROVE CalmInv
    OBVIOUS
  <2>1. \A w : Slot(w) = {}
    BY EmptySlots DEF Init, Slot
  <2>2. Pace /\ Starting
    BY DEF Init, Calm, Pace, Starting
  <2>3. NothingElse
    BY <2>1 DEF Init, Calm, NothingElse
  <2>. QED
    BY <2>2, <2>3 DEF CalmInv
<1>2. Init => BusyBacked
  BY DEF Init, BusyBacked
<1>3. TypeOK /\ CalmInv => (Running /\ Age > EventDelay + MotionTime => MotorFollows)
  <2>. SUFFICES ASSUME TypeOK, CalmInv, Running, Age > EventDelay + MotionTime
                PROVE  MotorFollows
    OBVIOUS
  <2>1. Obeying
    BY CalmTypes, MotionAssumption
    DEF CalmInv, Starting, Working, Running, Reported, Requested
  <2>2. motion = "none"
    BY <2>1, CalmTypes DEF Obeying
  <2>3. RestsAt(camera)
    BY <2>1, <2>2 DEF Obeying, Follows, Control!MotionFor
  <2>. QED
    BY <2>3, CalmTypes DEF RestsAt, MotorFollows
<1>. QED
  BY <1>1, <1>2, <1>3, InitType, TypeStep, BusyStep, CalmStep, PTL DEF Spec, ObeyedInTime
=============================================================================
