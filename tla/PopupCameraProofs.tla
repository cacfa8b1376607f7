------------------------- MODULE PopupCameraProofs -------------------------
(***************************************************************************)
(* Theorems about PopupCameraService, for every value of its constants.    *)
(***************************************************************************)
EXTENDS PopupCameraService, LooperProofs

(* The delays are slots of the queue, and the messages are messages.       *)
LEMMA Delay ==
  /\ 0 \in Slots /\ EventDelay \in Slots /\ PollDelay \in Slots
  /\ BusyDelay \in Slots /\ LedDelay \in Slots /\ CalibDelay \in Slots
  /\ \A m : RequestDelay(m) \in Slots
  /\ BusyDelay \in Nat /\ AgeCap \in Nat
<1>1. 0 \in Slots
  BY HorizonAssumption DEF Slots
<1>. QED
  BY <1>1, DelayAssumption DEF Delays, RequestDelay, AgeCap, Slots

LEMMA MessageType ==
  /\ NoMessage \in Message
  /\ \A w \in Whats, a \in Args : Msg(w, a) \in Message
  /\ \A a \in Args : Request(a) \in Message
  /\ States \subseteq Args /\ Statuses \subseteq Args /\ Objects \subseteq Args
BY DEF Message, NoMessage, Msg, Request, Whats, Args

(* The next message leaves a queue, and brings an argument.                *)
LEMMA DueType ==
  ASSUME TypeOK, NEW w, Due(w)
  PROVE  /\ Taken(queue) \in QueueOf(Message)
         /\ queue[0] # << >> /\ Head(queue[0]).what = w
         /\ Arg \in Args
<1>1. queue[0] # << >> /\ Head(queue[0]).what = w /\ queue \in QueueOf(Message)
  BY DEF Due, IsNext, TypeOK
<1>2. queue[0] \in Seq(Message)
  BY <1>1, Delay DEF QueueOf
<1>3. Head(queue[0]) \in Message
  BY <1>1, <1>2
<1>. QED
  BY <1>1, <1>3, TakenType DEF Arg, Message

(* UpdateMotor, Lit and Complain post messages.                            *)
LEMMA RequestType ==
  ASSUME NEW q \in QueueOf(Message)
  PROVE  /\ \A s \in States : UpdateMotor(q, s) \in QueueOf(Message)
         /\ \A allowed : Lit(q, allowed) \in QueueOf(Message)
         /\ \A d \in Slots, m \in Message : Post(q, d, m) \in QueueOf(Message)
<1>1. \A d \in Slots, m \in Message : Post(q, d, m) \in QueueOf(Message)
  BY PostType
<1>2. Msg("ledOff", "none") \in Message
  BY MessageType DEF Whats, Args
<1>. QED
  BY <1>1, <1>2, Delay, MessageType DEF UpdateMotor, Lit

LEMMA InitType == Init => TypeOK
<1>. SUFFICES ASSUME Init PROVE TypeOK
  OBVIOUS
<1>1. HalTypeOK
  <2>1. notifs \in Seq(Notified)
    BY DEF Init
  <2>2. status \in Statuses
    BY InputAssumption DEF Init
  <2>. QED
    BY <2>1, <2>2 DEF Init, HalTypeOK, Motions
<1>2. queue \in QueueOf(Message) /\ notifier \in Message
  BY MessageType DEF Init, EmptyQueue, QueueOf
<1>3. led \in Lights /\ mLed \in Lights /\ stray \in BOOLEAN
  BY NameAssumption DEF Init, Lights
<1>. QED
  BY <1>1, <1>2, <1>3, Delay, InputAssumption DEF Init, TypeOK, States

(* The steps of the motor HAL keep its state typed.                        *)
LEMMA HalType ==
  ASSUME HalTypeOK
  PROVE  /\ \A m \in Motions : Move(m) => HalTypeOK'
         /\ \A s \in Statuses : MotionEnds(s) => HalTypeOK'
         /\ Pushed => HalTypeOK'
         /\ CallbackLost => HalTypeOK'
         /\ UNCHANGED halVars => HalTypeOK'
<1>1. ASSUME NEW s, Notify(s) PROVE notifs' \in Seq(Notified)
  BY <1>1 DEF Notify, HalTypeOK
<1>2. ASSUME NEW m \in Motions, Move(m) PROVE HalTypeOK'
  BY <1>2, MotionAssumption DEF Move, TimeFor, HalTypeOK
<1>3. ASSUME NEW s \in Statuses, MotionEnds(s) PROVE HalTypeOK'
  BY <1>3, <1>1 DEF MotionEnds, HalTypeOK, Motions
<1>4. ASSUME Pushed PROVE HalTypeOK'
  BY <1>4, <1>1 DEF Pushed, HalTypeOK
<1>5. ASSUME CallbackLost PROVE HalTypeOK'
  <2>1. notifs' \in Seq(Notified)
    BY <1>5 DEF CallbackLost
  <2>. QED
    BY <1>5, <2>1 DEF CallbackLost, HalTypeOK
<1>6. ASSUME UNCHANGED halVars PROVE HalTypeOK'
  BY <1>6 DEF halVars, HalTypeOK
<1>. QED
  BY <1>2, <1>3, <1>4, <1>5, <1>6

(* Spending keeps the budget a budget.                                     *)
LEMMA SpendType ==
  ASSUME TypeOK, NEW e \in Bounds, Spend(e)
  PROVE  budget' \in [Bounds -> Nat]
<1>1. budget \in [Bounds -> Nat] /\ budget[e] > 0
  BY DEF TypeOK, Spend
<1>2. budget[e] - 1 \in Nat
  BY <1>1
<1>. QED
  BY <1>1, <1>2 DEF Spend

LEMMA TypeStep == TypeOK /\ [Next]_vars => TypeOK'
<1>. SUFFICES ASSUME TypeOK, [Next]_vars PROVE TypeOK'
  OBVIOUS
<1>. USE DEF cameraVars, screenVars, calibVars, ledVars, errorVars, askVars,
             runUnchanged
<1>0. HalTypeOK /\ queue \in QueueOf(Message)
  BY DEF TypeOK
<1>1. CASE Create
  <2>1. HalTypeOK'
    BY <1>1, <1>0, HalType DEF Create, Motions
  <2>2. budget' \in [Bounds -> Nat]
    BY <1>1, SpendType DEF Create, TypeOK, Bounds, Events
  <2>3. mMotor' \in [Objects -> {"null", "live", "dead"}]
    BY <1>1 DEF Create, TypeOK
  <2>4. svc' \in {"dead", "creating", "running"}
    BY <1>1 DEF Create
  <2>5. nap' \in Nat
    BY <1>1, Delay DEF Create
  <2>6. stray' \in BOOLEAN
    BY <1>1 DEF Create, TypeOK
  <2>. QED
    BY <1>1, <2>1, <2>2, <2>3, <2>4, <2>5, <2>6 DEF Create, TypeOK
<1>2. CASE CreateDone
  BY <1>2 DEF CreateDone, TypeOK, HalTypeOK
<1>3. CASE Die
  <2>1. HalTypeOK'
    BY <1>3, <1>0, HalType DEF Die
  <2>2. budget' \in [Bounds -> Nat]
    BY <1>3, SpendType DEF Die, Bounds, Events
  <2>3. queue' \in QueueOf(Message)
    BY <1>3 DEF Die, EmptyQueue, QueueOf
  <2>4. led' \in Lights /\ mLed' \in Lights
    BY <1>3, NameAssumption DEF Die, TypeOK, Lights
  <2>. QED
    BY <1>3, <2>1, <2>2, <2>3, <2>4, Delay, MessageType DEF Die, TypeOK
<1>4. ASSUME NEW s \in States, NEW t, NEW age, CameraReport(s, t, age),
             sinceOpen' \in Nat, sinceClosed' \in Nat
      PROVE  TypeOK'
  <2>1. HalTypeOK'
    BY <1>4, <1>0, HalType DEF CameraReport
  <2>2. budget' \in [Bounds -> Nat]
    BY <1>4, SpendType DEF CameraReport, Bounds, Events
  <2>3. Msg(s, "none") \in Message
    BY MessageType DEF States, Whats, Args
  <2>4. Cancelled(queue, t) \in QueueOf(Message)
    BY <1>0, MessageType, CancelledType
  <2>5. queue' \in QueueOf(Message)
    BY <1>4, <1>0, <2>3, <2>4, Delay, RequestType DEF CameraReport
  <2>. QED
    BY <1>4, <2>1, <2>2, <2>5 DEF CameraReport, TypeOK
<1>5. CASE OnCameraOpened
  BY <1>5, <1>4 DEF OnCameraOpened, States, TypeOK
<1>6. CASE OnCameraClosed
  BY <1>6, <1>4 DEF OnCameraClosed, States, TypeOK
<1>7. CASE HandleClosed
  <2>1. queue' \in QueueOf(Message)
    BY <1>7, DueType, RequestType DEF HandleClosed, States
  <2>2. HalTypeOK'
    BY <1>7, <1>0, HalType DEF HandleClosed
  <2>. QED
    BY <1>7, <2>1, <2>2 DEF HandleClosed, TypeOK, States
<1>8. CASE HandleOpen
  <2>1. queue' \in QueueOf(Message)
    BY <1>8, DueType, RequestType DEF HandleOpen, States
  <2>2. HalTypeOK'
    BY <1>8, <1>0, HalType DEF HandleOpen
  <2>3. mAlertDialog' \in {"hidden", "showing"} /\ orphans' \in Nat
    BY <1>8 DEF HandleOpen, TypeOK
  <2>. QED
    BY <1>8, <2>1, <2>2, <2>3 DEF HandleOpen, TypeOK, States
<1>9. CASE AnswerYes \/ AnswerNo
  <2>1. queue' \in QueueOf(Message)
    BY <1>9, <1>0, RequestType DEF AnswerYes, AnswerNo, States
  <2>2. HalTypeOK'
    BY <1>9, <1>0, HalType DEF AnswerYes, AnswerNo, AskAnswered
  <2>3. mAlertDialog' \in {"hidden", "showing"} /\ orphans' \in Nat
    BY <1>9 DEF AnswerYes, AnswerNo, AskAnswered, TypeOK
  <2>. QED
    BY <1>9, <2>1, <2>2, <2>3 DEF AnswerYes, AnswerNo, AskAnswered, TypeOK
<1>10. CASE Poll
  <2>1. queue' \in QueueOf(Message)
    BY <1>10, DueType, RequestType, Delay, MessageType DEF Poll
  <2>2. HalTypeOK'
    BY <1>10, <1>0, HalType DEF Poll
  <2>. QED
    BY <1>10, <2>1, <2>2 DEF Poll, TypeOK
<1>11. ASSUME NEW allowed, NEW q \in QueueOf(Message), LightUp(allowed), BusyFrom(Lit(q, allowed))
       PROVE  /\ queue' \in QueueOf(Message) /\ mMotorBusy' \in BOOLEAN
              /\ led' \in Lights /\ mLed' \in Lights /\ mLedBusy' \in BOOLEAN
  <2>1. Msg("busyOff", "none") \in Message
    BY MessageType DEF Whats, Args
  <2>2. queue' \in QueueOf(Message)
    BY <1>11, <2>1, RequestType, Delay DEF BusyFrom
  <2>. QED
    BY <1>11, <2>2 DEF LightUp, BusyFrom, TypeOK, Lights
<1>12. CASE RunRaise
  <2>1. HalTypeOK'
    BY <1>12, <1>0, HalType DEF RunRaise, Motions
  <2>2. /\ queue' \in QueueOf(Message) /\ mMotorBusy' \in BOOLEAN
        /\ led' \in Lights /\ mLed' \in Lights /\ mLedBusy' \in BOOLEAN
    BY <1>12, <1>11, DueType DEF RunRaise
  <2>. QED
    BY <1>12, <2>1, <2>2 DEF RunRaise, TypeOK
<1>13. CASE RunLower
  <2>1. HalTypeOK'
    BY <1>13, <1>0, HalType DEF RunLower, Motions
  <2>2. /\ queue' \in QueueOf(Message) /\ mMotorBusy' \in BOOLEAN
        /\ led' \in Lights /\ mLed' \in Lights /\ mLedBusy' \in BOOLEAN
    BY <1>13, <1>11, DueType DEF RunLower
  <2>. QED
    BY <1>13, <2>1, <2>2 DEF RunLower, TypeOK
<1>14. CASE RunRefused
  <2>1. HalTypeOK'
    BY <1>14, <1>0, HalType DEF RunRefused
  <2>2. Taken(queue) \in QueueOf(Message)
    BY <1>14, DueType DEF RunRefused
  <2>3. Msg("error", status) \in Message
    BY <1>0, MessageType DEF HalTypeOK, Whats
  <2>4. queue' \in QueueOf(Message)
    BY <1>14, <2>2, <2>3, RequestType, Delay DEF RunRefused, Complain
  <2>5. mErrorDialogShowing' \in BOOLEAN
    BY <1>14 DEF RunRefused, Complain, TypeOK
  <2>. QED
    BY <1>14, <2>1, <2>4, <2>5 DEF RunRefused, TypeOK
<1>15. CASE RunFails
  <2>1. HalTypeOK'
    BY <1>15, <1>0, HalType DEF RunFails
  <2>2. Taken(queue) \in QueueOf(Message)
    BY <1>15, DueType DEF RunFails
  <2>3. BusyFrom(Taken(queue)) => queue' \in QueueOf(Message) /\ mMotorBusy' \in BOOLEAN
    BY <2>2, MessageType, RequestType, Delay DEF BusyFrom, Whats, Args
  <2>4. /\ queue' \in QueueOf(Message) /\ mMotorBusy' \in BOOLEAN
        /\ led' \in Lights /\ mLed' \in Lights /\ mLedBusy' \in BOOLEAN
    BY <1>15, <1>11, <2>2, <2>3 DEF RunFails, TypeOK
  <2>5. mMotor' \in [Objects -> {"null", "live", "dead"}]
    BY <1>15 DEF RunFails, TypeOK
  <2>6. budget' \in [Bounds -> Nat]
    BY <1>15, SpendType DEF RunFails, TypeOK, Bounds, Events
  <2>. QED
    BY <1>15, <2>1, <2>4, <2>5, <2>6 DEF RunFails, TypeOK
<1>16. CASE BusyOff
  BY <1>16, <1>0, HalType, DueType DEF BusyOff, TypeOK
<1>17. CASE LedRestore
  BY <1>17, <1>0, HalType, DueType DEF LedRestore, TypeOK
<1>18. CASE FreeFall
  <2>1. HalTypeOK'
    BY <1>18, <1>0, HalType DEF FreeFall, Motions
  <2>2. budget' \in [Bounds -> Nat]
    BY <1>18, SpendType DEF FreeFall, Bounds, Events
  <2>3. armed' \in BOOLEAN /\ stray' \in BOOLEAN
    BY <1>18 DEF FreeFall, TypeOK
  <2>. QED
    BY <1>18, <2>1, <2>2, <2>3 DEF FreeFall, TypeOK
<1>19. CASE NotifyBegin
  <2>1. notifs \in Seq(Notified) /\ notifs # << >>
    BY <1>0, <1>19 DEF HalTypeOK, NotifyBegin
  <2>2. Head(notifs) \in Notified /\ Tail(notifs) \in Seq(Notified)
    BY <2>1
  <2>3. HalTypeOK'
    BY <1>0, <1>19, <2>2 DEF HalTypeOK, NotifyBegin
  <2>4. Request("closed") \in Message
    BY MessageType DEF Args, States
  <2>5. ASSUME Head(notifs) # "PRESSED"
        PROVE  Msg("error", Head(notifs)) \in Message /\ Msg("result", Head(notifs)) \in Message
    <3>1. Head(notifs) \in Args
      BY <2>2, <2>5 DEF Notified, Jammed, Args, Statuses
    <3>. QED
      BY <3>1, MessageType DEF Whats
  <2>6. notifier' \in Message
    BY <1>19, <2>4, <2>5, MessageType DEF NotifyBegin
  <2>. QED
    BY <1>19, <2>3, <2>6 DEF NotifyBegin, TypeOK
<1>20. CASE NotifyPost
  <2>1. HalTypeOK'
    BY <1>20, <1>0, HalType DEF NotifyPost
  <2>2. queue' \in QueueOf(Message)
    BY <1>20, <1>0, RequestType, Delay DEF NotifyPost, TypeOK
  <2>3. mErrorDialogShowing' \in BOOLEAN
    BY <1>20 DEF NotifyPost, TypeOK
  <2>. QED
    BY <1>20, <2>1, <2>2, <2>3, MessageType DEF NotifyPost, TypeOK
<1>21. ASSUME NEW w, NEW text \in Texts, Due(w), Show(text) PROVE TypeOK'
  <2>1. HalTypeOK'
    BY <1>21, <1>0, HalType DEF Show
  <2>2. queue' \in QueueOf(Message)
    BY <1>21, DueType DEF Show
  <2>3. dialogs' \in [Texts -> Nat]
    BY <1>21 DEF Show, TypeOK
  <2>. QED
    BY <1>21, <2>1, <2>2, <2>3 DEF Show, TypeOK
<1>22. CASE ShowError
  BY <1>22, <1>21 DEF ShowError, ErrorText, Texts
<1>23. CASE ShowResult
  BY <1>23, <1>21 DEF ShowResult, ResultText, Texts
<1>24. ASSUME NEW text \in Texts, Dismiss(text)
       PROVE  dialogs' \in [Texts -> Nat] /\ mErrorDialogShowing' \in BOOLEAN
  <2>1. dialogs \in [Texts -> Nat] /\ dialogs[text] - 1 \in Nat
    BY <1>24 DEF Dismiss, TypeOK
  <2>. QED
    BY <1>24, <2>1 DEF Dismiss
<1>25. CASE DialogClosed
  <2>1. HalTypeOK'
    BY <1>25, <1>0, HalType DEF DialogClosed
  <2>2. dialogs' \in [Texts -> Nat] /\ mErrorDialogShowing' \in BOOLEAN
    BY <1>25, <1>24 DEF DialogClosed
  <2>. QED
    BY <1>25, <2>1, <2>2 DEF DialogClosed, TypeOK
<1>26. ASSUME NEW o \in Objects, CalibrateMotor(o)
       PROVE  /\ HalTypeOK' /\ queue' \in QueueOf(Message)
              /\ mMotor' \in [Objects -> {"null", "live", "dead"}]
              /\ mMotorCalibrating' \in [Objects -> BOOLEAN]
              /\ budget' \in [Bounds -> Nat]
  <2>1. HalTypeOK'
    BY <1>26, <1>0, HalType DEF CalibrateMotor, Motions
  <2>2. Msg("calibOff", o) \in Message
    BY MessageType DEF Whats
  <2>3. queue' \in QueueOf(Message)
    BY <1>26, <1>0, <2>2, RequestType, Delay DEF CalibrateMotor
  <2>4. mMotor' \in [Objects -> {"null", "live", "dead"}]
    BY <1>26 DEF CalibrateMotor, TypeOK
  <2>5. mMotorCalibrating' \in [Objects -> BOOLEAN]
    BY <1>26 DEF CalibrateMotor, TypeOK
  <2>6. budget' \in [Bounds -> Nat]
    BY <1>26, SpendType DEF CalibrateMotor, TypeOK, Bounds, Events
  <2>. QED
    BY <2>1, <2>3, <2>4, <2>5, <2>6
<1>27. CASE DialogCalibrate
  <2>1. dialogs' \in [Texts -> Nat] /\ mErrorDialogShowing' \in BOOLEAN
    BY <1>27, <1>24 DEF DialogCalibrate, ErrorText, Texts
  <2>2. "service" \in Objects
    BY DEF Objects
  <2>. QED
    BY <1>27, <1>26, <2>1, <2>2 DEF DialogCalibrate, TypeOK
<1>28. CASE OpenPage
  <2>1. HalTypeOK'
    BY <1>28, <1>0, HalType DEF OpenPage
  <2>. QED
    BY <1>28, <2>1 DEF OpenPage, TypeOK
<1>29. CASE PageCalibrate
  <2>1. PICK p \in pages : CalibrateMotor(p)
    BY <1>29 DEF PageCalibrate
  <2>2. p \in Objects
    BY DEF Objects, TypeOK
  <2>. QED
    BY <1>29, <1>26, <2>1, <2>2 DEF PageCalibrate, TypeOK
<1>30. CASE CalibOff
  <2>1. HalTypeOK'
    BY <1>30, <1>0, HalType DEF CalibOff
  <2>2. queue' \in QueueOf(Message)
    BY <1>30, DueType DEF CalibOff
  <2>3. mMotorCalibrating' \in [Objects -> BOOLEAN]
    BY <1>30 DEF CalibOff, TypeOK
  <2>. QED
    BY <1>30, <2>1, <2>2, <2>3 DEF CalibOff, TypeOK
<1>31. CASE ScreenSwitched
  <2>1. HalTypeOK'
    BY <1>31, <1>0, HalType DEF ScreenSwitched
  <2>2. budget' \in [Bounds -> Nat]
    BY <1>31, SpendType DEF ScreenSwitched, Bounds, Events
  <2>3. Msg("screen", "off") \in Message /\ Msg("screen", "on") \in Message
    BY MessageType DEF Whats, Args
  <2>4. queue' \in QueueOf(Message)
    BY <1>31, <1>0, <2>3, RequestType, Delay DEF ScreenSwitched
  <2>. QED
    BY <1>31, <2>1, <2>2, <2>4 DEF ScreenSwitched, TypeOK
<1>32. CASE HandleScreen
  <2>1. HalTypeOK'
    BY <1>32, <1>0, HalType DEF HandleScreen
  <2>2. queue' \in QueueOf(Message)
    BY <1>32, DueType DEF HandleScreen
  <2>3. mScreenOn' \in BOOLEAN
    BY <1>32 DEF HandleScreen
  <2>. QED
    BY <1>32, <2>1, <2>2, <2>3 DEF HandleScreen, TypeOK
<1>33. CASE StepOver
  BY <1>33, <1>0, HalType, DueType DEF StepOver, TypeOK
<1>. USE DEF environmentUnchanged
<1>34. CASE MotionDone
  <2>1. EndsWell(motion) \in Statuses /\ EndsBadly(motion) \in Statuses
    BY DEF EndsWell, EndsBadly, Statuses
  <2>2. HalTypeOK'
    BY <1>34, <1>0, <2>1, HalType DEF MotionDone
  <2>3. budget' \in [Bounds -> Nat]
    BY <1>34, SpendType DEF MotionDone, TypeOK, Bounds, Events
  <2>. QED
    BY <1>34, <2>2, <2>3 DEF MotionDone, TypeOK
<1>35. CASE CameraPushed
  <2>1. HalTypeOK'
    BY <1>35, <1>0, HalType DEF CameraPushed
  <2>2. budget' \in [Bounds -> Nat]
    BY <1>35, SpendType DEF CameraPushed, Bounds, Events
  <2>. QED
    BY <1>35, <2>1, <2>2 DEF CameraPushed, TypeOK
<1>36. CASE HalDies
  <2>1. HalTypeOK'
    BY <1>36, <1>0, HalType DEF HalDies
  <2>2. budget' \in [Bounds -> Nat]
    BY <1>36, SpendType DEF HalDies, Bounds, Events
  <2>3. mMotor' \in [Objects -> {"null", "live", "dead"}]
    BY <1>36 DEF HalDies, TypeOK
  <2>. QED
    BY <1>36, <2>1, <2>2, <2>3 DEF HalDies, TypeOK
<1>37. CASE LightWritten
  <2>1. HalTypeOK'
    BY <1>37, <1>0, HalType DEF LightWritten
  <2>2. budget' \in [Bounds -> Nat]
    BY <1>37, SpendType DEF LightWritten, Bounds, Events
  <2>3. led' \in Lights
    BY <1>37 DEF LightWritten, Lights
  <2>. QED
    BY <1>37, <2>1, <2>2, <2>3 DEF LightWritten, TypeOK
<1>38. CASE Tick
  <2>1. left' \in Nat /\ nap' \in Nat /\ sinceOpen' \in Nat /\ sinceClosed' \in Nat
    BY <1>38 DEF Tick, Older, TypeOK, HalTypeOK
  <2>2. queue' \in QueueOf(Message)
    BY <1>38, <1>0, AdvancedType DEF Tick
  <2>3. HalTypeOK'
    BY <1>38, <1>0, <2>1 DEF Tick, HalTypeOK
  <2>. QED
    BY <1>38, <2>1, <2>2, <2>3 DEF Tick, TypeOK
<1>39. CASE UNCHANGED vars
  <2>1. HalTypeOK'
    BY <1>39, <1>0, HalType DEF vars
  <2>. QED
    BY <1>39, <2>1 DEF vars, TypeOK
<1>. QED
  BY <1>1, <1>2, <1>3, <1>5, <1>6, <1>7, <1>8, <1>9, <1>10, <1>12, <1>13, <1>14,
     <1>15, <1>16, <1>17, <1>18, <1>19, <1>20, <1>22, <1>23, <1>25, <1>27, <1>28,
     <1>29, <1>30, <1>31, <1>32, <1>33, <1>34, <1>35, <1>36, <1>37, <1>38, <1>39
  DEF Next, MainThread, BinderThread, Environment

(* Every reachable state is typed: statuses, messages and counters are the *)
(* ones the code knows, and nothing else is ever posted.                   *)
THEOREM TypeCorrect == Spec => []TypeOK
BY InitType, TypeStep, PTL DEF Spec

(***************************************************************************)
(* Who writes what, and who takes which message.                           *)
(***************************************************************************)
(* Every write to a field that is backed by a message, and the handlers    *)
(* that do it.                                                             *)
LEMMA Writers ==
  ASSUME [Next]_vars
  PROVE  /\ \/ Die \/ RunRaise \/ RunLower \/ RunFails \/ RunRefused
            \/ BusyOff \/ UNCHANGED mMotorBusy
         /\ \/ Die \/ RunRaise \/ RunLower \/ RunFails \/ LedRestore
            \/ LightWritten \/ UNCHANGED ledVars
         /\ \/ Die \/ RunRefused \/ NotifyPost \/ ShowError \/ ShowResult
            \/ DialogClosed \/ DialogCalibrate \/ UNCHANGED errorVars
         /\ \/ Die \/ CalibOff \/ PageCalibrate \/ DialogCalibrate
            \/ UNCHANGED mMotorCalibrating
         /\ \/ Die \/ Create \/ RunRaise \/ RunLower \/ FreeFall
            \/ MotionDone \/ PageCalibrate \/ DialogCalibrate
            \/ UNCHANGED <<status, motion, armed, stray>>
<1>1. \/ Die \/ RunRaise \/ RunLower \/ RunFails \/ RunRefused \/ BusyOff
     \/ UNCHANGED mMotorBusy
  BY Zenon
  DEF Create, CreateDone, HandleClosed, HandleOpen, Poll, LedRestore,
      ShowError, Show, ShowResult, CalibOff, HandleScreen, StepOver,
      NotifyBegin, NotifyPost, OnCameraOpened, CameraReport, OnCameraClosed,
      FreeFall, AnswerYes, AskAnswered, AnswerNo, DialogClosed, Dismiss,
      DialogCalibrate, OpenPage, PageCalibrate, ScreenSwitched, CameraPushed,
      HalDies, LightWritten, MotionDone, Tick, cameraVars, screenVars,
      calibVars, ledVars, errorVars, askVars, runUnchanged,
      environmentUnchanged, halVars, vars, Next, MainThread, BinderThread,
      Environment
<1>2. \/ Die \/ RunRaise \/ RunLower \/ RunFails \/ LedRestore
     \/ LightWritten \/ UNCHANGED ledVars
  BY Zenon
  DEF Create, CreateDone, HandleClosed, HandleOpen, Poll, RunRefused,
      BusyOff, ShowError, Show, ShowResult, CalibOff, HandleScreen, StepOver,
      NotifyBegin, NotifyPost, OnCameraOpened, CameraReport, OnCameraClosed,
      FreeFall, AnswerYes, AskAnswered, AnswerNo, DialogClosed, Dismiss,
      DialogCalibrate, OpenPage, PageCalibrate, ScreenSwitched, CameraPushed,
      HalDies, MotionDone, Tick, cameraVars, screenVars, calibVars, ledVars,
      errorVars, askVars, runUnchanged, environmentUnchanged, halVars, vars,
      Next, MainThread, BinderThread, Environment
<1>3. \/ Die \/ RunRefused \/ NotifyPost \/ ShowError \/ ShowResult
     \/ DialogClosed \/ DialogCalibrate \/ UNCHANGED errorVars
  BY Zenon
  DEF Create, CreateDone, HandleClosed, HandleOpen, Poll, RunRaise, RunLower,
      RunFails, BusyOff, LedRestore, CalibOff, HandleScreen, StepOver,
      NotifyBegin, OnCameraOpened, CameraReport, OnCameraClosed, FreeFall,
      AnswerYes, AskAnswered, AnswerNo, OpenPage, PageCalibrate,
      ScreenSwitched, CameraPushed, HalDies, LightWritten, MotionDone, Tick,
      cameraVars, screenVars, calibVars, ledVars, errorVars, askVars,
      runUnchanged, environmentUnchanged, halVars, vars, Next, MainThread,
      BinderThread, Environment
<1>4. \/ Die \/ CalibOff \/ PageCalibrate \/ DialogCalibrate
     \/ UNCHANGED mMotorCalibrating
  BY Zenon
  DEF Create, CreateDone, HandleClosed, HandleOpen, Poll, RunRaise, RunLower,
      RunRefused, RunFails, BusyOff, LedRestore, ShowError, Show, ShowResult,
      HandleScreen, StepOver, NotifyBegin, NotifyPost, OnCameraOpened,
      CameraReport, OnCameraClosed, FreeFall, AnswerYes, AskAnswered,
      AnswerNo, DialogClosed, Dismiss, OpenPage, ScreenSwitched,
      CameraPushed, HalDies, LightWritten, MotionDone, Tick, cameraVars,
      screenVars, calibVars, ledVars, errorVars, askVars, runUnchanged,
      environmentUnchanged, halVars, vars, Next, MainThread, BinderThread,
      Environment
<1>5. \/ Die \/ Create \/ RunRaise \/ RunLower \/ FreeFall \/ MotionDone
     \/ PageCalibrate \/ DialogCalibrate
     \/ UNCHANGED <<status, motion, armed, stray>>
  BY Zenon
  DEF CreateDone, HandleClosed, HandleOpen, Poll, RunRefused, RunFails,
      BusyOff, LedRestore, ShowError, Show, ShowResult, CalibOff,
      HandleScreen, StepOver, NotifyBegin, NotifyPost, OnCameraOpened,
      CameraReport, OnCameraClosed, AnswerYes, AskAnswered, AnswerNo,
      DialogClosed, Dismiss, OpenPage, ScreenSwitched, CameraPushed, HalDies,
      LightWritten, Tick, cameraVars, screenVars, calibVars, ledVars,
      errorVars, askVars, runUnchanged, environmentUnchanged, halVars, vars,
      Next, MainThread, BinderThread, Environment, Pushed, CallbackLost
<1>. QED
  BY <1>1, <1>2, <1>3, <1>4, <1>5

(* A closure with a delay, or one that shows a dialog, waits until it is   *)
(* run: no other step removes it, unless the process dies.                 *)
Closures == {"busyOff", "ledOff", "error", "result", "calibOff"}
Runs(m) == /\ queue[0] # << >> /\ m = Head(queue[0])
           /\ \/ m.what = "busyOff" /\ BusyOff
              \/ m.what = "ledOff" /\ LedRestore
              \/ m.what = "error" /\ ShowError
              \/ m.what = "result" /\ ShowResult
              \/ m.what = "calibOff" /\ CalibOff

LEMMA ClosuresStay ==
  ASSUME TypeOK, [Next]_vars, NEW m, IsQueued(queue, m), m.what \in Closures
  PROVE  IsQueued(queue', m) \/ Die \/ Runs(m)
<1>. SUFFICES ASSUME ~Die, ~Runs(m) PROVE IsQueued(queue', m)
  OBVIOUS
<1>. USE DEF runUnchanged, Closures
<1>0. queue \in QueueOf(Message)
  BY DEF TypeOK
<1>1. ASSUME NEW w, Due(w), m # Head(queue[0]) PROVE IsQueued(Taken(queue), m)
  BY <1>0, <1>1, DueType, TakenKeeps
<1>2. ASSUME NEW q \in QueueOf(Message), IsQueued(q, m)
      PROVE  /\ \A d \in Slots, x \in Message : IsQueued(Post(q, d, x), m)
             /\ \A s \in Args : IsQueued(UpdateMotor(q, s), m)
             /\ \A allowed : IsQueued(Lit(q, allowed), m)
             /\ BusyFrom(q) => IsQueued(queue', m)
  <2>1. \A d \in Slots, x \in Message : IsQueued(Post(q, d, x), m)
    BY <1>2, PostKeeps
  <2>2. /\ Msg("ledOff", "none") \in Message
        /\ Msg("busyOff", "none") \in Message
    BY MessageType DEF Whats, Args
  <2>3. \A s \in Args : IsQueued(UpdateMotor(q, s), m)
    BY <1>2, <2>1, MessageType, Delay DEF UpdateMotor
  <2>4. \A allowed : IsQueued(Lit(q, allowed), m)
    BY <1>2, <2>1, <2>2, Delay DEF Lit
  <2>5. BusyFrom(q) => IsQueued(queue', m)
    BY <2>1, <2>2, Delay DEF BusyFrom
  <2>. QED
    BY <2>1, <2>3, <2>4, <2>5
<1>3. ASSUME NEW w, Due(w), w \notin Closures
      PROVE  Taken(queue) \in QueueOf(Message) /\ IsQueued(Taken(queue), m)
  BY <1>1, <1>3, DueType
<1>4. "open" \in Args /\ "closed" \in Args
  BY DEF Args, States
<1>5. CASE OnCameraOpened \/ OnCameraClosed
  <2>0. PICK s \in States, t \in States : \E age : CameraReport(s, t, age)
    BY <1>5 DEF OnCameraOpened, OnCameraClosed, States
  <2>1. PICK age : CameraReport(s, t, age)
    BY <2>0
  <2>2. /\ Cancelled(queue, t) \in QueueOf(Message)
        /\ IsQueued(Cancelled(queue, t), m)
    BY <1>0, MessageType, CancelledType, CancelledKeeps DEF States
  <2>3. Msg(s, "none") \in Message
    BY MessageType DEF States, Whats, Args
  <2>. QED
    BY <1>0, <1>2, <2>1, <2>2, <2>3, Delay DEF CameraReport
<1>6. CASE HandleClosed \/ HandleOpen
  BY <1>6, <1>2, <1>3, <1>4 DEF HandleClosed, HandleOpen
<1>7. CASE Poll
  BY <1>7, <1>2, <1>3, DueType, MessageType, Delay DEF Poll
<1>8. CASE RunRaise \/ RunLower \/ RunFails
  <2>1. Taken(queue) \in QueueOf(Message) /\ IsQueued(Taken(queue), m)
    BY <1>8, <1>3 DEF RunRaise, RunLower, RunFails
  <2>2. \A allowed : /\ Lit(Taken(queue), allowed) \in QueueOf(Message)
                     /\ IsQueued(Lit(Taken(queue), allowed), m)
    BY <2>1, <1>2, RequestType
  <2>. QED
    BY <1>8, <1>2, <2>1, <2>2 DEF RunRaise, RunLower, RunFails
<1>9. CASE RunRefused
  <2>1. Msg("error", status) \in Message
    BY MessageType DEF Whats, TypeOK, HalTypeOK
  <2>. QED
    BY <1>9, <1>2, <1>3, <2>1, Delay DEF RunRefused, Complain
<1>10. CASE HandleScreen \/ StepOver
  BY <1>10, <1>3 DEF HandleScreen, StepOver
<1>11. CASE BusyOff
  BY <1>11, <1>1, DueType DEF BusyOff, Runs
<1>12. CASE LedRestore
  BY <1>12, <1>1, DueType DEF LedRestore, Runs
<1>13. CASE ShowError
  BY <1>13, <1>1, DueType DEF ShowError, Show, Runs
<1>14. CASE ShowResult
  BY <1>14, <1>1, DueType DEF ShowResult, Show, Runs
<1>15. CASE CalibOff
  BY <1>15, <1>1, DueType DEF CalibOff, Runs
<1>16. CASE NotifyPost
  BY <1>16, <1>0, <1>2, Delay DEF NotifyPost, TypeOK
<1>17. CASE AnswerYes \/ AnswerNo
  BY <1>17, <1>0, <1>2, <1>4 DEF AnswerYes, AnswerNo
<1>18. CASE DialogCalibrate \/ PageCalibrate
  <2>1. PICK o \in Objects : CalibrateMotor(o)
    BY <1>18 DEF DialogCalibrate, PageCalibrate, Objects, TypeOK
  <2>2. Msg("calibOff", o) \in Message
    BY MessageType DEF Whats
  <2>. QED
    BY <1>0, <1>2, <2>1, <2>2, Delay DEF CalibrateMotor
<1>19. CASE ScreenSwitched
  <2>1. Msg("screen", "off") \in Message /\ Msg("screen", "on") \in Message
    BY MessageType DEF Whats, Args
  <2>. QED
    BY <1>0, <1>2, <1>19, <2>1, Delay DEF ScreenSwitched
<1>20. CASE Tick
  BY <1>0, <1>20, AdvancedKeeps DEF Tick
<1>21. CASE \/ Create \/ CreateDone \/ FreeFall \/ NotifyBegin \/ DialogClosed
            \/ OpenPage \/ CameraPushed \/ HalDies \/ LightWritten \/ MotionDone
            \/ UNCHANGED vars
  BY <1>21, Zenon DEF Create, CreateDone, FreeFall, NotifyBegin, DialogClosed, OpenPage,
     CameraPushed, HalDies, LightWritten, MotionDone, environmentUnchanged, vars
<1>. QED
  BY <1>5, <1>6, <1>7, <1>8, <1>9, <1>10, <1>11, <1>12, <1>13, <1>14, <1>15, <1>16,
     <1>17, <1>18, <1>19, <1>20, <1>21, Zenon
  DEF Next, MainThread, BinderThread, Environment

(* The same for the field "what" alone: what waits keeps waiting, or its   *)
(* handler runs.                                                           *)
LEMMA ClosuresStayWhat ==
  ASSUME TypeOK, [Next]_vars, NEW w \in Closures, HasMessages(queue, w), ~Die
  PROVE  \/ HasMessages(queue', w)
         \/ w = "busyOff" /\ BusyOff
         \/ w = "ledOff" /\ LedRestore
         \/ w = "error" /\ ShowError
         \/ w = "result" /\ ShowResult
         \/ w = "calibOff" /\ CalibOff
<1>1. PICK m : IsQueued(queue, m) /\ m.what = w
  BY HasMessagesIsQueued, Zenon
<1>2. IsQueued(queue', m) \/ Runs(m)
  BY <1>1, ClosuresStay, Zenon
<1>3. IsQueued(queue', m) => HasMessages(queue', w)
  BY <1>1, HasMessagesIsQueued, Zenon
<1>. QED
  BY <1>1, <1>2, <1>3, Zenon DEF Runs

(* What a handler that starts a motion, or fails to, leaves in the queue.  *)
LEMMA RunPosts ==
  ASSUME TypeOK, RunRaise \/ RunLower \/ RunFails
  PROVE  /\ HasMessages(queue', "busyOff")
         /\ UNCHANGED ledVars \/ \E allowed \in LedAllowed :
              /\ LightUp(allowed)
              /\ allowed => HasMessages(queue', "ledOff")
              /\ HasMessages(queue, "ledOff") => HasMessages(queue', "ledOff")
<1>1. Taken(queue) \in QueueOf(Message) /\ Due("run")
  BY DueType DEF RunRaise, RunLower, RunFails
<1>2. /\ Msg("busyOff", "none") \in Message /\ Msg("busyOff", "none").what = "busyOff"
      /\ Msg("ledOff", "none") \in Message /\ Msg("ledOff", "none").what = "ledOff"
  BY MessageType DEF Whats, Args, Msg
<1>3. ASSUME NEW q \in QueueOf(Message), BusyFrom(q)
      PROVE  /\ HasMessages(queue', "busyOff")
             /\ HasMessages(q, "ledOff") => HasMessages(queue', "ledOff")
  BY <1>2, <1>3, PostHas, Delay DEF BusyFrom
<1>4. ASSUME NEW allowed
      PROVE  /\ Lit(Taken(queue), allowed) \in QueueOf(Message)
             /\ allowed => HasMessages(Lit(Taken(queue), allowed), "ledOff")
             /\ HasMessages(Taken(queue), "ledOff")
                  => HasMessages(Lit(Taken(queue), allowed), "ledOff")
  BY <1>1, <1>2, RequestType, PostHas, Delay DEF Lit
<1>5. HasMessages(queue, "ledOff") => HasMessages(Taken(queue), "ledOff")
  BY <1>1, DueType, TakenHas DEF TypeOK
<1>6. \/ BusyFrom(Taken(queue)) /\ UNCHANGED ledVars
      \/ \E allowed \in LedAllowed : LightUp(allowed) /\ BusyFrom(Lit(Taken(queue), allowed))
  BY DEF RunRaise, RunLower, RunFails
<1>7. CASE BusyFrom(Taken(queue)) /\ UNCHANGED ledVars
  BY <1>1, <1>3, <1>7
<1>8. CASE \E allowed \in LedAllowed : LightUp(allowed) /\ BusyFrom(Lit(Taken(queue), allowed))
  <2>1. PICK allowed \in LedAllowed : LightUp(allowed) /\ BusyFrom(Lit(Taken(queue), allowed))
    BY <1>8
  <2>2. HasMessages(queue', "busyOff")
    BY <2>1, <1>3, <1>4
  <2>3. /\ allowed => HasMessages(queue', "ledOff")
        /\ HasMessages(queue, "ledOff") => HasMessages(queue', "ledOff")
    BY <2>1, <1>3, <1>4, <1>5
  <2>. QED
    BY <2>1, <2>2, <2>3
<1>. QED
  BY <1>6, <1>7, <1>8

(***************************************************************************)
(* The motor is never busy for ever.                                       *)
(***************************************************************************)
LEMMA BusyStep == TypeOK /\ BusyBacked /\ [Next]_vars => BusyBacked'
<1>. SUFFICES ASSUME TypeOK, BusyBacked, [Next]_vars, mMotorBusy'
              PROVE  HasMessages(queue', "busyOff")
  BY DEF BusyBacked
<1>1. CASE RunRaise \/ RunLower \/ RunFails
  BY <1>1, RunPosts
<1>2. ~Die /\ ~RunRefused /\ ~BusyOff
  BY DEF Die, RunRefused, BusyOff
<1>3. CASE UNCHANGED mMotorBusy
  <2>1. HasMessages(queue, "busyOff")
    BY <1>3 DEF BusyBacked
  <2>. QED
    BY <1>2, <2>1, ClosuresStayWhat DEF Closures
<1>. QED
  BY <1>1, <1>2, <1>3, Writers

(* Whenever mMotorBusy is set the closure that clears it is in the queue:  *)
(* updateMotor posts it on every path that leaves the flag set, a failed   *)
(* call included.                                                          *)
THEOREM BusyIsBacked == Spec => []BusyBacked
<1>1. Init => BusyBacked
  BY DEF Init, BusyBacked
<1>. QED
  BY <1>1, InitType, TypeStep, BusyStep, PTL DEF Spec

(***************************************************************************)
(* The light effect.                                                       *)
(***************************************************************************)
LEMMA LedStep == TypeOK /\ LedSound /\ [Next]_vars => LedSound'
<1>. SUFFICES ASSUME TypeOK, LedSound, [Next]_vars PROVE LedSound'
  OBVIOUS
<1>0. "effect" \notin UserLights /\ "off" # "effect" /\ "leftover" # "effect"
  BY NameAssumption
<1>1. CASE UNCHANGED ledVars /\ ~Die /\ ~LedRestore
  <2>1. HasMessages(queue, "ledOff") => HasMessages(queue', "ledOff")
    BY <1>1, ClosuresStayWhat DEF Closures
  <2>. QED
    BY <1>1, <2>1 DEF LedSound, ledVars
<1>2. CASE (RunRaise \/ RunLower \/ RunFails) /\ ~UNCHANGED ledVars
  <2>1. PICK allowed \in LedAllowed :
              /\ LightUp(allowed)
              /\ allowed => HasMessages(queue', "ledOff")
              /\ HasMessages(queue, "ledOff") => HasMessages(queue', "ledOff")
    BY <1>2, RunPosts
  <2>2. allowed \in BOOLEAN
    BY InputAssumption
  <2>. QED
    BY <2>1, <2>2 DEF LightUp, LedSound, TypeOK
<1>3. CASE LedRestore
  BY <1>3 DEF LedRestore, LedSound
<1>4. CASE LightWritten
  <2>1. led' # "effect" /\ UNCHANGED <<mLedBusy, mLed, queue>>
    BY <1>0, <1>4 DEF LightWritten, environmentUnchanged
  <2>. QED
    BY <2>1 DEF LedSound
<1>5. CASE Die
  BY <1>0, <1>5 DEF Die, LedSound
<1>. QED
  BY <1>1, <1>2, <1>3, <1>4, <1>5, Writers

(* However light effects overlap, the effect shows only while mLedBusy is  *)
(* set, its end is in the queue, and it is never saved as the user's LED.  *)
THEOREM LedIsSound == Spec => []LedSound
<1>1. Init => LedSound
  BY NameAssumption DEF Init, LedSound
<1>. QED
  BY <1>1, InitType, TypeStep, LedStep, PTL DEF Spec

(***************************************************************************)
(* Calibration.                                                            *)
(***************************************************************************)
LEMMA CalibrationStep == TypeOK /\ CalibrationBacked /\ [Next]_vars => CalibrationBacked'
<1>. SUFFICES ASSUME TypeOK, CalibrationBacked, [Next]_vars,
                     NEW o \in Objects, mMotorCalibrating'[o]
              PROVE  IsQueued(queue', Msg("calibOff", o))
  BY DEF CalibrationBacked
<1>. DEFINE m == Msg("calibOff", o)
<1>0. m.what = "calibOff" /\ m.arg = o /\ m \in Message
  BY MessageType DEF Msg, Whats
<1>1. CASE IsQueued(queue, m)
  <2>1. ~Die
    BY DEF Die
  <2>2. ~Runs(m)
    <3>. SUFFICES ASSUME Runs(m) PROVE FALSE
      OBVIOUS
    <3>1. CalibOff /\ Arg = o
      BY <1>0 DEF Runs, Arg
    <3>. QED
      BY <3>1 DEF CalibOff, TypeOK
  <2>. QED
    BY <1>0, <1>1, <2>1, <2>2, ClosuresStay DEF Closures
<1>2. CASE ~IsQueued(queue, m)
  <2>1. ~mMotorCalibrating[o]
    BY <1>2 DEF CalibrationBacked
  <2>2. ~Die /\ ~CalibOff
    BY <2>1 DEF Die, CalibOff, TypeOK
  <2>3. DialogCalibrate \/ PageCalibrate
    BY <2>1, <2>2, Writers
  <2>4. PICK p \in Objects : CalibrateMotor(p)
    BY <2>3 DEF DialogCalibrate, PageCalibrate, Objects, TypeOK
  <2>5. p = o /\ queue' = Post(queue, CalibDelay, m)
    BY <2>1, <2>4 DEF CalibrateMotor, TypeOK
  <2>. QED
    BY <1>0, <2>5, PostKeeps, Delay DEF TypeOK
<1>. QED
  BY <1>1, <1>2

(* A service object that refuses to calibrate because it does so already   *)
(* has the closure in the queue that lets it again, for any number of      *)
(* objects and of calibrations that overlap.                               *)
THEOREM CalibrationIsBacked == Spec => []CalibrationBacked
<1>1. Init => CalibrationBacked
  BY DEF Init, CalibrationBacked
<1>. QED
  BY <1>1, InitType, TypeStep, CalibrationStep, PTL DEF Spec

(***************************************************************************)
(* Dialogs.                                                                *)
(***************************************************************************)
LEMMA DialogStep == TypeOK /\ DialogBacked /\ [Next]_vars => DialogBacked'
<1>. SUFFICES ASSUME TypeOK, DialogBacked, [Next]_vars, mErrorDialogShowing'
              PROVE  \/ HasMessages(queue', "error") \/ HasMessages(queue', "result")
                     \/ \E t \in Texts : dialogs'[t] > 0
  BY DEF DialogBacked
<1>1. ~Die /\ ~DialogClosed /\ ~DialogCalibrate
  BY DEF Die, DialogClosed, DialogCalibrate, Dismiss
<1>2. ASSUME NEW text \in Texts, Show(text) PROVE dialogs'[text] > 0
  BY <1>2 DEF Show, TypeOK
<1>3. CASE ShowError
  BY <1>2, <1>3 DEF ShowError, ErrorText, Texts
<1>4. CASE ShowResult
  BY <1>2, <1>4 DEF ShowResult, ResultText, Texts
<1>5. CASE mErrorDialogShowing /\ UNCHANGED dialogs /\ ~ShowError /\ ~ShowResult
  <2>1. CASE \E t \in Texts : dialogs[t] > 0
    BY <1>5, <2>1
  <2>2. CASE HasMessages(queue, "error")
    BY <1>1, <1>5, <2>2, ClosuresStayWhat DEF Closures
  <2>3. CASE HasMessages(queue, "result")
    BY <1>1, <1>5, <2>3, ClosuresStayWhat DEF Closures
  <2>. QED
    BY <1>5, <2>1, <2>2, <2>3 DEF DialogBacked
<1>6. CASE RunRefused /\ ~mErrorDialogShowing
  <2>1. Taken(queue) \in QueueOf(Message)
    BY <1>6, DueType DEF RunRefused
  <2>2. Msg("error", status) \in Message /\ Msg("error", status).what = "error"
    BY MessageType DEF Whats, TypeOK, HalTypeOK, Msg
  <2>3. queue' = Post(Taken(queue), 0, Msg("error", status))
    BY <1>6 DEF RunRefused, Complain
  <2>. QED
    BY <2>1, <2>2, <2>3, PostHas, Delay
<1>7. CASE NotifyPost /\ ~mErrorDialogShowing
  <2>1. notifier \in Message /\ notifier.what \in {"error", "result"}
    BY <1>7 DEF NotifyPost, TypeOK
  <2>2. HasMessages(queue', notifier.what)
    BY <1>7, <2>1, PostHas, Delay DEF NotifyPost, TypeOK
  <2>. QED
    BY <2>1, <2>2
<1>8. \/ RunRefused \/ NotifyPost \/ ShowError \/ ShowResult \/ UNCHANGED errorVars
  BY <1>1, Writers
<1>9. RunRefused \/ NotifyPost => UNCHANGED dialogs
  BY DEF RunRefused, NotifyPost
<1>. QED
  BY <1>3, <1>4, <1>5, <1>6, <1>7, <1>8, <1>9 DEF errorVars

(* mErrorDialogShowing is never left set with no dialog to clear it, though *)
(* two threads test and set it without a lock in common: later errors are  *)
(* never silenced for good.                                                *)
THEOREM DialogIsBacked == Spec => []DialogBacked
<1>1. Init => DialogBacked
  BY DEF Init, DialogBacked
<1>. QED
  BY <1>1, InitType, TypeStep, DialogStep, PTL DEF Spec

(***************************************************************************)
(* The guard against a fall.                                               *)
(***************************************************************************)
LEMMA GuardStep == TypeOK /\ ProtectedWhileUp /\ [Next]_vars => ProtectedWhileUp'
<1>. SUFFICES ASSUME TypeOK, ProtectedWhileUp, [Next]_vars, MotorUp'
              PROVE  armed' \/ stray'
  BY DEF ProtectedWhileUp
<1>. USE DEF MotorUp, ProtectedWhileUp
<1>1. CASE Die
  BY <1>1 DEF Die, CallbackLost, TypeOK
<1>2. CASE Create
  BY <1>2 DEF Create, Move, halVars, TypeOK, HalTypeOK
<1>3. CASE RunRaise
  BY <1>3 DEF RunRaise
<1>4. CASE RunLower
  BY <1>4 DEF RunLower, Move
<1>5. CASE FreeFall
  BY <1>5 DEF FreeFall, Move, halVars
<1>6. CASE MotionDone
  <2>1. armed' = armed /\ stray' = stray
    BY <1>6 DEF MotionDone, environmentUnchanged
  <2>2. motion = "up"
    BY <1>6 DEF MotionDone, MotionEnds, EndsWell, EndsBadly, TypeOK, HalTypeOK, Motions
  <2>. QED
    BY <2>1, <2>2
<1>7. CASE PageCalibrate \/ DialogCalibrate
  <2>1. PICK o \in Objects : CalibrateMotor(o)
    BY <1>7 DEF DialogCalibrate, PageCalibrate, Objects, TypeOK
  <2>2. armed' = armed /\ stray' = stray
    BY <1>7 DEF DialogCalibrate, PageCalibrate
  <2>3. UNCHANGED <<status, motion>> \/ motion' = "calib"
    BY <2>1 DEF CalibrateMotor, Move, halVars
  <2>. QED
    BY <2>2, <2>3
<1>8. CASE UNCHANGED <<status, motion, armed, stray>>
  BY <1>8
<1>. QED
  BY <1>1, <1>2, <1>3, <1>4, <1>5, <1>6, <1>7, <1>8, Writers

(* A camera that is raised, or rising, is guarded against a fall: every    *)
(* popupMotor of a live service arms the listener, and the listener is     *)
(* given up only with a takeback.  The exception is named: a camera raised *)
(* by a process that has died since.                                       *)
THEOREM CameraIsGuarded == Spec => []ProtectedWhileUp
<1>1. Init => ProtectedWhileUp
  BY DEF Init, ProtectedWhileUp, MotorUp
<1>. QED
  BY <1>1, InitType, TypeStep, GuardStep, PTL DEF Spec

(***************************************************************************)
(* The question is asked only while the camera is wanted.                  *)
(***************************************************************************)
LEMMA QuestionStep == QuestionIsFresh /\ [Next]_vars => QuestionIsFresh'
<1>. SUFFICES ASSUME QuestionIsFresh, [Next]_vars PROVE QuestionIsFresh'
  OBVIOUS
<1>1. \/ Die \/ HandleClosed \/ HandleOpen \/ AnswerYes \/ AnswerNo
      \/ UNCHANGED <<mAlertDialog, handled>>
  BY Zenon
  DEF Create, CreateDone, Poll, RunRaise, RunLower, RunRefused, RunFails,
      BusyOff, LedRestore, ShowError, Show, ShowResult, CalibOff,
      HandleScreen, StepOver, NotifyBegin, NotifyPost, OnCameraOpened,
      CameraReport, OnCameraClosed, FreeFall, DialogClosed, Dismiss,
      DialogCalibrate, CalibrateMotor, OpenPage, PageCalibrate,
      ScreenSwitched, CameraPushed, HalDies, LightWritten, MotionDone, Tick,
      cameraVars, screenVars, calibVars, ledVars, errorVars, askVars,
      runUnchanged, environmentUnchanged, halVars, vars, Next, MainThread,
      BinderThread, Environment
<1>2. CASE Die
  BY <1>2 DEF Die, QuestionIsFresh
<1>3. CASE HandleClosed
  BY <1>3 DEF HandleClosed, QuestionIsFresh
<1>4. CASE HandleOpen
  BY <1>4 DEF HandleOpen, QuestionIsFresh
<1>5. CASE AnswerYes \/ AnswerNo
  <2>1. AskAnswered
    BY <1>5 DEF AnswerYes, AnswerNo
  <2>. QED
    BY <2>1 DEF AskAnswered, cameraVars, QuestionIsFresh
<1>6. CASE UNCHANGED <<mAlertDialog, handled>>
  BY <1>6 DEF QuestionIsFresh
<1>. QED
  BY <1>1, <1>2, <1>3, <1>4, <1>5, <1>6

(* The question on the screen is about a camera that is still wanted: a    *)
(* report that was handled in between has taken it away (handleMessage).   *)
THEOREM QuestionsAreFresh == Spec => []QuestionIsFresh
<1>1. Init => QuestionIsFresh
  BY DEF Init, QuestionIsFresh
<1>. QED
  BY <1>1, QuestionStep, PTL DEF Spec

(***************************************************************************)
(* The last report is the one that is acted on.                            *)
(***************************************************************************)
(* The last camera message to be due is that of the last report; if none   *)
(* waits, the last one handled was.                                        *)
LastIsCamera == LastIs(queue, States, camera, EventDelay)
OrderInv ==
  /\ LastIsCamera \/ (NoneOf(queue, States) /\ handled = camera)
  /\ notifier.what \notin States

(* What has happened between q and r leaves the order of reports alone.    *)
SameOrder(q, r) ==
  /\ \A w \in States :
        LastIs(q, States, w, EventDelay) => LastIs(r, States, w, EventDelay)
  /\ NoneOf(q, States) => NoneOf(r, States)

LEMMA PostsKeepOrder ==
  ASSUME NEW q \in QueueOf(Message)
  PROVE  /\ \A d \in Slots, m \in Message : m.what \notin States => SameOrder(q, Post(q, d, m))
         /\ \A s \in States : SameOrder(q, UpdateMotor(q, s))
         /\ \A allowed : SameOrder(q, Lit(q, allowed))
         /\ BusyFrom(q) => SameOrder(q, queue')
<1>1. \A d \in Slots, m \in Message : m.what \notin States => SameOrder(q, Post(q, d, m))
  BY PostOther DEF SameOrder
<1>2. SameOrder(q, q)
  BY DEF SameOrder
<1>3. \A s \in States : SameOrder(q, UpdateMotor(q, s))
  <2>1. \A s \in States : Request(s) \in Message /\ Request(s).what \notin States
    BY MessageType DEF Request, Msg, States
  <2>. QED
    BY <1>1, <1>2, <2>1, Delay DEF UpdateMotor
<1>4. /\ Msg("ledOff", "none") \in Message /\ Msg("ledOff", "none").what \notin States
      /\ Msg("busyOff", "none") \in Message /\ Msg("busyOff", "none").what \notin States
  BY MessageType DEF Whats, Args, Msg, States
<1>5. \A allowed : SameOrder(q, Lit(q, allowed))
  BY <1>1, <1>2, <1>4, Delay DEF Lit
<1>6. BusyFrom(q) => SameOrder(q, queue')
  BY <1>1, <1>4, Delay DEF BusyFrom
<1>. QED
  BY <1>1, <1>3, <1>5, <1>6

LEMMA OrderOfOrders ==
  ASSUME NEW p, NEW q, NEW r, SameOrder(p, q), SameOrder(q, r)
  PROVE  SameOrder(p, r)
BY Zenon DEF SameOrder

(* Taking any other message does, too.                                     *)
LEMMA TakenKeepsOrder ==
  ASSUME TypeOK, NEW w, Due(w), w \notin States
  PROVE  SameOrder(queue, Taken(queue)) /\ Taken(queue) \in QueueOf(Message)
<1>1. queue \in QueueOf(Message) /\ queue[0] # << >> /\ Head(queue[0]).what \notin States
  BY DueType DEF TypeOK
<1>2. Head(queue[0]).what = w /\ Taken(queue) \in QueueOf(Message)
  BY DueType
<1>3. ASSUME NEW v \in States, LastIs(queue, States, v, EventDelay)
      PROVE  LastIs(Taken(queue), States, v, EventDelay)
  <2>1. \/ LastIs(Taken(queue), States, v, EventDelay)
        \/ Head(queue[0]).what = v /\ NoneOf(Taken(queue), States)
    BY <1>1, <1>3, TakenLast
  <2>. QED
    BY <1>1, <2>1
<1>. QED
  BY <1>1, <1>2, <1>3, TakenLast DEF SameOrder

(* Whoever else uses the queue leaves the order of the reports alone.      *)
LEMMA OthersKeepOrder ==
  ASSUME TypeOK, OrderInv, [Next]_vars, ~Die,
         ~OnCameraOpened, ~OnCameraClosed, ~HandleOpen, ~HandleClosed
  PROVE  SameOrder(queue, queue')
<1>. USE DEF runUnchanged
<1>0. queue \in QueueOf(Message) /\ States = {"open", "closed"}
  BY DEF TypeOK, States
<1>7. CASE Poll
  <2>1. Request(Arg) \in Message /\ Request(Arg).what \notin States
    BY <1>7, DueType, MessageType DEF Poll, Request, Msg, States
  <2>2. SameOrder(queue, Taken(queue)) /\ Taken(queue) \in QueueOf(Message)
    BY <1>0, <1>7, TakenKeepsOrder DEF Poll
  <2>3. SameOrder(Taken(queue), queue')
    BY <1>7, <2>1, <2>2, PostsKeepOrder, Delay DEF Poll
  <2>. QED
    BY <2>2, <2>3, OrderOfOrders
<1>8. CASE RunRaise \/ RunLower \/ RunFails
  <2>1. SameOrder(queue, Taken(queue)) /\ Taken(queue) \in QueueOf(Message)
    BY <1>0, <1>8, TakenKeepsOrder DEF RunRaise, RunLower, RunFails
  <2>2. \/ BusyFrom(Taken(queue))
        \/ \E allowed \in LedAllowed : BusyFrom(Lit(Taken(queue), allowed))
    BY <1>8 DEF RunRaise, RunLower, RunFails
  <2>3. CASE BusyFrom(Taken(queue))
    BY <2>1, <2>3, PostsKeepOrder, OrderOfOrders
  <2>4. CASE \E allowed \in LedAllowed : BusyFrom(Lit(Taken(queue), allowed))
    <3>1. PICK allowed \in LedAllowed : BusyFrom(Lit(Taken(queue), allowed))
      BY <2>4
    <3>2. /\ Lit(Taken(queue), allowed) \in QueueOf(Message)
          /\ SameOrder(Taken(queue), Lit(Taken(queue), allowed))
      BY <2>1, RequestType, PostsKeepOrder
    <3>3. SameOrder(Lit(Taken(queue), allowed), queue')
      BY <3>1, <3>2, PostsKeepOrder
    <3>. QED
      BY <2>1, <3>2, <3>3, OrderOfOrders
  <2>. QED
    BY <2>2, <2>3, <2>4
<1>9. CASE RunRefused
  <2>1. Msg("error", status) \in Message /\ Msg("error", status).what \notin States
    BY MessageType DEF Whats, TypeOK, HalTypeOK, Msg, States
  <2>2. SameOrder(queue, Taken(queue)) /\ Taken(queue) \in QueueOf(Message)
    BY <1>0, <1>9, TakenKeepsOrder DEF RunRefused
  <2>3. queue' = Taken(queue) \/ queue' = Post(Taken(queue), 0, Msg("error", status))
    BY <1>9 DEF RunRefused, Complain
  <2>4. SameOrder(Taken(queue), Post(Taken(queue), 0, Msg("error", status)))
    BY <2>1, <2>2, PostsKeepOrder, Delay
  <2>. QED
    BY <2>2, <2>3, <2>4, OrderOfOrders
<1>10. CASE HandleScreen \/ StepOver \/ BusyOff \/ LedRestore \/ CalibOff
            \/ ShowError \/ ShowResult
  <2>1. queue' = Taken(queue)
    BY <1>10 DEF HandleScreen, StepOver, BusyOff, LedRestore, CalibOff, ShowError,
                 ShowResult, Show
  <2>2. \E w : Due(w) /\ w \notin States
    BY <1>0, <1>10 DEF HandleScreen, StepOver, BusyOff, LedRestore, CalibOff,
                       ShowError, ShowResult
  <2>. QED
    BY <2>1, <2>2, TakenKeepsOrder
<1>16. CASE NotifyPost
  BY <1>16, <1>0, PostsKeepOrder, Delay DEF NotifyPost, TypeOK, OrderInv
<1>17. CASE AnswerYes \/ AnswerNo
  BY <1>17, <1>0, PostsKeepOrder DEF AnswerYes, AnswerNo, SameOrder
<1>18. CASE DialogCalibrate \/ PageCalibrate
  <2>1. PICK o \in Objects : CalibrateMotor(o)
    BY <1>18 DEF DialogCalibrate, PageCalibrate, Objects, TypeOK
  <2>2. Msg("calibOff", o) \in Message /\ Msg("calibOff", o).what \notin States
    BY MessageType DEF Whats, Msg, States
  <2>3. queue' = queue \/ queue' = Post(queue, CalibDelay, Msg("calibOff", o))
    BY <2>1 DEF CalibrateMotor
  <2>4. SameOrder(queue, Post(queue, CalibDelay, Msg("calibOff", o)))
    BY <1>0, <2>2, PostsKeepOrder, Delay
  <2>. QED
    BY <2>3, <2>4 DEF SameOrder
<1>19. CASE ScreenSwitched
  <2>1. \A a \in {"on", "off"} : /\ Msg("screen", a) \in Message
                                /\ Msg("screen", a).what \notin States
    BY MessageType DEF Whats, Args, Msg, States
  <2>2. \A a \in {"on", "off"} : SameOrder(queue, Post(queue, 0, Msg("screen", a)))
    BY <1>0, <2>1, PostsKeepOrder, Delay
  <2>3. queue' = queue \/ \E a \in {"on", "off"} : queue' = Post(queue, 0, Msg("screen", a))
    BY <1>19 DEF ScreenSwitched
  <2>. QED
    BY <2>2, <2>3 DEF SameOrder
<1>20. CASE Tick
  BY <1>0, <1>20, AdvancedLast, Delay DEF Tick, SameOrder
<1>21. CASE \/ Create \/ CreateDone \/ FreeFall \/ NotifyBegin \/ DialogClosed
            \/ OpenPage \/ CameraPushed \/ HalDies \/ LightWritten \/ MotionDone
            \/ UNCHANGED vars
  <2>1. queue' = queue
    BY <1>21, Zenon DEF Create, CreateDone, FreeFall, NotifyBegin, DialogClosed,
       OpenPage, CameraPushed, HalDies, LightWritten, MotionDone,
       environmentUnchanged, vars
  <2>. QED
    BY <2>1 DEF SameOrder
<1>. QED
  BY <1>7, <1>8, <1>9, <1>10, <1>16, <1>17, <1>18, <1>19, <1>20, <1>21, Zenon
  DEF Next, MainThread, BinderThread, Environment

LEMMA OrderStep == TypeOK /\ OrderInv /\ [Next]_vars => OrderInv'
<1>. SUFFICES ASSUME TypeOK, OrderInv, [Next]_vars PROVE OrderInv'
  OBVIOUS
<1>0. /\ queue \in QueueOf(Message) /\ EventDelay \in Slots
      /\ States = {"open", "closed"} /\ NoMessage.what \notin States
  BY Delay DEF TypeOK, States, NoMessage
<1>1. \/ Die \/ OnCameraOpened \/ OnCameraClosed \/ HandleOpen \/ HandleClosed
      \/ UNCHANGED <<camera, handled>>
  BY Zenon
  DEF Create, CreateDone, Poll, RunRaise, RunLower, RunRefused, RunFails,
      BusyOff, LedRestore, ShowError, Show, ShowResult, CalibOff,
      HandleScreen, StepOver, NotifyBegin, NotifyPost, FreeFall, AnswerYes,
      AskAnswered, AnswerNo, DialogClosed, DialogCalibrate, OpenPage,
      PageCalibrate, ScreenSwitched, CameraPushed, HalDies, LightWritten,
      MotionDone, Tick, cameraVars, runUnchanged, environmentUnchanged, vars,
      Next, MainThread, BinderThread, Environment
<1>2. notifier'.what \notin States
  <2>1. \/ Die \/ NotifyBegin \/ NotifyPost \/ UNCHANGED notifier
    BY Zenon
    DEF Create, CreateDone, Poll, RunRaise, RunLower, RunRefused, RunFails,
        HandleOpen, HandleClosed, OnCameraOpened, OnCameraClosed, CameraReport,
        BusyOff, LedRestore, ShowError, Show, ShowResult, CalibOff,
        HandleScreen, StepOver, FreeFall, AnswerYes, AskAnswered, AnswerNo,
        DialogClosed, DialogCalibrate, OpenPage, PageCalibrate, ScreenSwitched,
        CameraPushed, HalDies, LightWritten, MotionDone, Tick, runUnchanged,
        environmentUnchanged, vars, Next, MainThread, BinderThread, Environment
  <2>2. CASE Die \/ NotifyPost
    BY <1>0, <2>2 DEF Die, NotifyPost
  <2>3. CASE NotifyBegin
    BY <1>0, <2>3 DEF NotifyBegin, Request, Msg
  <2>4. CASE UNCHANGED notifier
    BY <2>4 DEF OrderInv
  <2>. QED
    BY <2>1, <2>2, <2>3, <2>4
<1>3. CASE Die
  <2>1. NoneOf(queue', States) /\ handled' = camera'
    BY <1>3 DEF Die, EmptyQueue, NoneOf
  <2>. QED
    BY <1>2, <2>1 DEF OrderInv
<1>4. CASE OnCameraOpened \/ OnCameraClosed
  <2>1. PICK s \in States, t \in States : \E age : CameraReport(s, t, age)
    BY <1>4 DEF OnCameraOpened, OnCameraClosed, States
  <2>2. PICK age : CameraReport(s, t, age)
    BY <2>1
  <2>3. Upto(queue, States, EventDelay)
    BY <1>0, LastIsUpto DEF OrderInv, LastIsCamera
  <2>4. Upto(Cancelled(queue, t), States, EventDelay) /\ Cancelled(queue, t) \in QueueOf(Message)
    BY <1>0, <2>3, CancelledUpto, CancelledType, MessageType
  <2>5. Msg(s, "none") \in Message /\ Msg(s, "none").what = s
    BY MessageType DEF States, Whats, Args, Msg
  <2>6. \/ queue' = Post(queue, EventDelay, Msg(s, "none"))
        \/ queue' = Post(Cancelled(queue, t), EventDelay, Msg(s, "none"))
    BY <2>2 DEF CameraReport
  <2>7. LastIs(queue', States, s, EventDelay)
    BY <1>0, <2>3, <2>4, <2>5, <2>6, PostIsLast
  <2>8. camera' = s
    BY <2>2 DEF CameraReport
  <2>. QED
    BY <1>2, <2>7, <2>8 DEF OrderInv, LastIsCamera
<1>5. CASE HandleOpen \/ HandleClosed
  <2>1. PICK s \in States : /\ Due(s) /\ handled' = s
                           /\ \/ queue' = Taken(queue)
                              \/ queue' = UpdateMotor(Taken(queue), s)
    BY <1>0, <1>5 DEF HandleOpen, HandleClosed
  <2>2. Taken(queue) \in QueueOf(Message) /\ queue[0] # << >> /\ Head(queue[0]).what = s
    BY <2>1, DueType
  <2>3. SameOrder(Taken(queue), queue')
    BY <2>1, <2>2, PostsKeepOrder DEF SameOrder
  <2>4. camera' = camera /\ camera \in States
    BY <1>5 DEF HandleOpen, HandleClosed, TypeOK
  <2>5. ~NoneOf(queue, States)
    <3>1. 0 \in Slots /\ queue[0] \in Seq(Message)
      BY <1>0, Delay DEF QueueOf
    <3>2. 1 \in 1..Len(queue[0]) /\ queue[0][1].what = s
      BY <2>2, <3>1
    <3>. QED
      BY <3>1, <3>2 DEF NoneOf
  <2>6. \/ LastIs(Taken(queue), States, camera, EventDelay)
        \/ s = camera /\ NoneOf(Taken(queue), States)
    BY <1>0, <2>2, <2>5, TakenLast DEF OrderInv, LastIsCamera
  <2>. QED
    BY <1>2, <2>1, <2>3, <2>4, <2>6 DEF SameOrder, OrderInv, LastIsCamera
<1>6. CASE /\ UNCHANGED <<camera, handled>>
           /\ ~Die /\ ~OnCameraOpened /\ ~OnCameraClosed /\ ~HandleOpen /\ ~HandleClosed
  <2>0. camera \in States
    BY DEF TypeOK
  <2>1. SameOrder(queue, queue')
    BY <1>6, OthersKeepOrder
  <2>. QED
    BY <1>2, <1>6, <2>0, <2>1 DEF SameOrder, OrderInv, LastIsCamera
<1>. QED
  BY <1>1, <1>3, <1>4, <1>5, <1>6

(* However reports, withdrawals, delays and everything else in the queue   *)
(* interleave, once no camera message waits the last report has been       *)
(* handled, and handled last (availabilityCallback, handleMessage).        *)
THEOREM LastReportWins == Spec => []LatestEventWins
<1>1. Init => OrderInv
  BY DEF Init, OrderInv, NoneOf, EmptyQueue, NoMessage, States
<1>2. TypeOK /\ OrderInv => LatestEventWins
  <2>. SUFFICES ASSUME TypeOK, LastIsCamera
                PROVE  HasMessages(queue, "open") \/ HasMessages(queue, "closed")
    BY DEF OrderInv, LatestEventWins
  <2>1. HasMessages(queue, camera)
    BY DEF LastIsCamera, LastIs, HasMessages
  <2>. QED
    BY <2>1 DEF TypeOK, States
<1>. QED
  BY <1>1, <1>2, InitType, TypeStep, OrderStep, PTL DEF Spec

=============================================================================
