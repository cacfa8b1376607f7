# A verification project for device_xiaomi_raphael

This directory holds TLA+ models of the programs of this device tree, the
configurations with which TLC checks them on small instances, and theorems
about them that TLAPS proves for every value of the constants.

Most of the tree is data: properties, overlays, policies, key layouts, lists of
proprietary files. The programs with behaviour of their own are few, and small,
but they are concurrent, they talk to hardware that may fail, and none of them
has a test:

- an Android application that drives the motor of the front camera,
- a lights HAL in C++, and, in another process, code of that application that
  plays effects on the same LEDs,
- a fingerprint HAL in C++ with a poll thread and the threads of a vendor
  library,
- a check of the firmware in the updater of the recovery system, built on a
  string search,
- the boot: a library that gives properties their values, a script that copies
  the configuration of the modem, and the triggers of init between them.

Of the first four every operation is modelled, of the boot the parts that have
state to lose. Everything else is listed below with the reason why it is not.

| files | what they hold |
|---|---|
| `Looper`, `MotorHal` | external: the message queue of Android, the motor service |
| `PopupCameraService`, `MC_PopupCamera` | the popup camera service and its settings pages |
| `MotorControl` | what the user of the popup camera may rely on |
| `Lights`, `LedSharing`, `MC_LedSharing` | the lights HAL; the HAL and the light effects on one LED |
| `Fingerprint`, `ClientReports`, `MC_Fingerprint` | the fingerprint HAL, and what its client may rely on |
| `BoyerMoore`, `TextSearch`, `MC_BoyerMoore` | `bm_search` of the recovery updater, and what its caller may rely on |
| `RecoveryUpdater`, `MC_RecoveryUpdater` | `verify_trustzone`, which runs it |
| `InitLibrary`, `ModemConfig`, `Boot`, `MC_Boot` | the property library, `init.qcom.sh`, and the boot that composes them |
| `*Proofs` | theorems and lemmas, one module per component (for the popup camera two: its flags and queue, and its motor) |
| `*.cfg` | one run of TLC each |
| `PROJECT.json` | runs, mutants, theorems, findings, hazards, and the lines each definition models |

`tlc -config X.cfg MC_Y.tla` runs a check, `tlapm XProofs.tla` checks proofs.

## 1. Inventory

### Popup camera service (`src/parts/.../popupcamera/`)

*State.* The last camera events (`mOpenEvent`, `mClosedEvent`), `mScreenOn`,
the proxy `mMotor`, the flags `mMotorBusy`, `mMotorCalibrating`,
`mErrorDialogShowing`, `mLedBusy` with the saved LED, the dialog that asks, the
registration of the free-fall sensor, and, most of all, closures waiting in the
queue of the main thread.

*Operations.* Reports of the camera manager post a message 100 ms later and
withdraw the one before; the handler raises or lowers the motor, or asks the
user first; a motion marks the motor busy for 1200 ms and may play a light
effect of 1400 ms; a request that finds it busy polls every 100 ms. Jams,
calibrations and pushes come back through a callback on a binder thread, which
shows dialogs. A fall lowers the camera at once. `calibrateMotor` refuses a
second calibration for 7000 ms.

*Interactions.* Camera manager, motor HAL (calls and a callback), sensor
manager, settings pages (each with a service object of its own), LED files,
screen broadcasts, `START_STICKY`.

*Hard.* Timers that overlap (1200 against 1400 ms), pollers that overtake one
another, two threads on one flag, calls that throw halfway, a process or a HAL
that dies. *Correct* means: the last report is the one acted on; nothing stays
busy, calibrating or "showing a dialog" for ever; a raised camera is guarded
against a fall; an effect always ends and the LED of the user comes back.

### Lights HAL (`src/light/aidl/`)

*State.* `notif_states_`, the last state asked for per light, and the LED
files. *Operations.* `setLightState` stores a state, picks the first lit one
and writes five files per LED. *Interactions.* The LED files belong to the
popup camera too: two processes, no lock. *Correct* means: never more than
`max_brightness`; the light of highest priority shows, also after an effect.

### Fingerprint HAL (`src/fingerprint/`)

*State.* `sInstance`, `mDevice`, `mClientCallback` under
`mClientCallbackMutex`, the descriptor of `fod_ui`; outside the process, the
mode of the sensor (`COMMAND_NIT`), `fod_ui` and `fod_status`. *Operations.*
The constructor opens the vendor library and starts a thread that polls
`fod_ui`; binder calls, one at a time; `notify`, on threads of the library.
*Hard.* The library may call back before the constructor is done, or from
inside a call; clients are replaced while they are told something; switches of
`fod_ui` are merged; the process dies of a missing device and is started again.
*Correct* means: one service; a replaced client hears nothing; no lock is kept;
the sensor follows `fod_ui`.

### Recovery updater (`src/recovery/recovery_updater.cpp`)

`verify_trustzone` maps the firmware partition, searches it for a version
string with a Boyer-Moore search, whose tables are easy to get wrong by one,
copies the version behind it and compares it with those an update asks for.
*Correct* means: what is found is there, it is the first occurrence, nothing is
missed, nothing outside is read, and the search ends; whatever call fails,
nothing stays open; the verdict is that of the partition.

### Boot (`src/init/init_raphael.cpp`, `src/rootdir/etc/`)

*State.* The properties of init, some defined by several partitions; on /data,
the folder `modem_config` with its mark `ver_info.txt`, its permissions, and the
flag `copy_complete` that the RIL reads. *Operations.* `vendor_load_properties`
overrides properties by the region; the script `init.qcom.sh` removes and copies
the configuration unless the mark is that of the firmware; triggers of init
prepare the folder, reset the flag, enable NFC and set the flag. *Interactions.*
The properties of the library are triggers of init; the script runs beside init
and tells it by a property. *Hard.* The power may fail between two commands;
the script takes its own permission away; a firmware is flashed, a newer or an
earlier one, without the folder. *Correct* means: all names of the phone agree;
NFC runs where there is NFC; mark and flag never vouch for a copy that was not
finished (the code has an exception, see `modem_flashback` below), and in the
end it is.

### Not modelled

| part | reason |
|---|---|
| UDFPS extension | two pure functions that set one bit or nothing |
| LiveDisplay HAL | two switches that read and write one file each, in a process with one thread; nothing else in this tree reads the files |
| Power HAL extension, camera shim | one `ioctl`; stubs for the linker |
| the rest of `init.qcom.sh` and of the `.rc` files | starts daemons that are not in this tree, and sets permissions nothing modelled depends on |
| release tools | run once on a build host, sequentially |
| configuration data | no behaviour |

Inside what is modelled, left out are: sounds, vibration, themes (but for the
question made anew when the theme changes), the wording of texts (but for which
text is shown), the way to the home screen and the injected key. Status codes
that calls of the fingerprint HAL pass on change nothing and are left out too.

## 2. How the models follow the code

### `Looper`, `MotorHal`: contracts of what is not here

`Looper` is the queue of a main thread as a wheel of slots: slot `d` holds what
is due in `d` ticks, in the order of posting; `Tick` turns the wheel.
`removeMessages` leaves a tombstone (`NoMessage`) that `StepOver` steps over.
`MotorHal` is what the callers may assume of the motor: calls return before it
has moved, one motion at a time, and the status keeps the value of the motion
before while it moves, which is why `mMotorBusy` exists. A motion takes any time
up to `MotionTime` and ends well or jams.

### `PopupCameraService`

One action per handler, closure, callback and button. The main thread runs one
closure at a time, so each is one action, with every call it makes; what it
posts is appended to the queue inside the action. `onNotify` runs on a binder
thread and is two actions, `NotifyBegin` (it decides, by the flags it reads) and
`NotifyPost` (it posts), so that the main thread may run in between.

| code | actions |
|---|---|
| `onCreate` (with its sleep), end of process, `START_STICKY` | `Create`, `CreateDone`, `Die` |
| `availabilityCallback` | `OnCameraOpened`, `OnCameraClosed` (`CameraReport`) |
| `handleMessage`, buttons of the question | `HandleOpen`, `HandleClosed`, `AnswerYes`, `AnswerNo` |
| `updateMotor` and its closures | `UpdateMotor`, `Poll`, `RunRaise`, `RunLower`, `RunRefused`, `RunFails`, `BusyOff` |
| `lightUp` and its closure | `LightUp`, `Lit`, `LedRestore` |
| `mFreeFallListener` | `FreeFall` |
| `MotorStatusCallback`, dialogs | `NotifyBegin`, `NotifyPost`, `ShowError`, `ShowResult`, `DialogClosed`, `DialogCalibrate` |
| `calibrateMotor`, settings page | `CalibrateMotor`, `OpenPage`, `PageCalibrate`, `CalibOff` |
| screen receiver | `ScreenSwitched`, `HandleScreen` |
| motor, motor HAL, lights HAL, clock | `MotionDone`, `CameraPushed`, `HalDies`, `LightWritten`, `Tick` |

`handled` and `stray` are history variables. Any failing call of the motor is a
`RemoteException` (`Spend("hal")`); a null dereference (an LED file that cannot
be read) is the action `Die`. Stale values that a racy read without a lock
could return beyond the split of `onNotify` are not modelled.

`MotorControl` is the service without its queue, delays, pollers and windows:
reports wait, become wishes or questions, and a wish is obeyed if it fits the
status of the motor, or given up. The refinement (`Control`) takes as waiting
what has a message in the queue, as wished what has a closure `r` or a poller
there or in the hands of `onNotify`, as asked any question on the screen, a
replaced one too. A crash, a dead proxy, a fall and a calibration are actions of
their own.

### `Lights`, `LedSharing`

`Lights` is the HAL: `SetLightState` fixes the list of writes, `HalWrite` does
them one by one. `LedSharing` puts `lightUp` beside it, file by file: two reads,
fourteen writes, and the closure with its nine writes. `wanted` (what the lights
ask for), `clash` (a light was set during an effect, or an effect started while
one was being set) and `blinked` (a light that blinks has been set) are history
variables. At first no light has been set and both LEDs are dark; the commands
of `init.target.rc` that switch an LED on belong to its charger mode, in which
neither process runs. The LED driver (`Written`) is external: switching
`brightness` off ends breathing, and writing to `lux_pattern`, a file that does
not exist, has no effect.

### `Fingerprint`

The constructor is a sequence of actions (`Start`, `OpenModule`,
`SetVendorNotify`, `KeepDevice`, `StartPolling`, `RegisterService`), because the
library may call `notify` from the moment `set_notify` returns. `notify` is
`NotifyBegins` (`getInstance`), `NotifyLocks` and `NotifyTells`; the lock is the
variable `mutex`. `CallVendor` and `VendorReturns` bracket a call into the
library, during which the library may call `notify` on the same thread. The
poll thread is `OpenUi`, `ReadUi`, `CommandNit`, `FodOff`. A dereference of the
null `mDevice` ends the process (`ProcessEnds`), as an end at any other time
does (`Crash`). `ClientReports` says what this amounts to for a client: it is
told, or replaced, atomically. The refinement (`Reports`) takes as owed what the
threads in `notify` still have in hand. External: the kernel reports every switch of `fod_ui` that was
not read, and once after the file has been opened; the framework sends
`onFingerDown` as a one-way call that waits for the binder thread. A file that
cannot be written is not modelled.

### `BoyerMoore`, `RecoveryUpdater`

`BoyerMoore` has one action per step of the loops of `bm_search`. The tables are
defined by what the loops that fill them leave in them (`Delta1`, `Delta2`), so
that they are compared with a declarative definition of an occurrence
(`Stands`). Texts and patterns are inputs. A pattern is not empty and has no
NUL, as for the only caller. `TextSearch` is the same without an algorithm: one
answer, the first occurrence if the pattern has no border. `RecoveryUpdater`
runs `BoyerMoore` as one of the calls of `get_info` (`SearchGoesOn`); `Fails`
stands for an error of `open`, `lseek64` or `mmap` and the label it jumps to,
`CopyOf` for what `snprintf` makes of a text that may be longer than the buffer
or may not end, and `Accepts` for the `strncmp` up to the length of the argument.

### `InitLibrary`, `ModemConfig`, `Boot`

`InitLibrary` is `vendor_load_properties` as operators on the function `props`,
one per function of the source: a property that several partitions may define is
a pair of the partition and the name. Which partitions do is an input. What init
does itself to `ro.product.*` is not in this tree: `DeriveProperties` happens
before or after the library, and takes the value of any partition. Texts that
only differ are abstracted (descriptions by their region, the heap sizes by
small and large). `ModemConfig` has an action per command of the script, and
`rm -r` and `cp -r` have more, so that the power (`PowerLost` in `Boot`) may fail
in their middle; `rm` meets the names in the order the shell sorts them in, so
`ver_info.txt`, the mark, goes after `mbn_ota.txt`. A permission is what makes a
command of the script fail; init gives the folder its mode back in each boot
(`MkdirModemConfig`). A firmware is its version, some have no `ver_info.txt`
(those not in `Versioned`), and any other one may be flashed while the phone is
off, also one the phone has had. The history variable `cut` is the mark that was
to be removed when the power cut a removal short, until one ends. `Boot` puts
the stages of init around both, in the order of its triggers.

## 3. The runs

| run | what it shows | bounds |
|---|---|---|
| `popup_safety` | `LatestEventWins`, `QuestionIsFresh`, `BusyBacked`, `ProtectedWhileUp`, `DialogBacked`, `LedSound`, `CalibrationBacked`, `OnlyFallsReverse`, `MotorIsControlled`, `TypeOK` | one of five budgets in each behaviour: four reports with questions and a switch of the screen (`Reports`); two reports with a push, a jam, a fall and a dead HAL (`Failures`); a report with a push, a jam, a fall and a crash (`Crashes`); two reports with a light, a dead HAL and a crash (`Effects`); a report, two calibrations and a dead HAL (`Calibrations`). One page, threads may be late (`Punctual = FALSE`), scaled delays with two ticks for the 100 ms in which reports may overtake |
| `popup_liveness` | `LastReportObeyed`, `ObeyedInTime`, `EffectEnds`, `BusyEnds`, `RequestsRun`, `CalibrationEnds` | five reports, the last one after 24 ticks (`Bursts`); or four reports that are 13 ticks apart, one more than the busy window (`Paced`); or two calibrations, two pages and a dead HAL (`Retries`) |
| `led_sharing` | `LightIsBack`, `EffectIsOver`, `TypeOK` | two overlapping effects, five light states |
| `fingerprint` | `OneInstance`, `OldClientIsSilent`, `LockIsLeft`, `RestAgrees`, `UiIsFollowed`, `ReportsReachTheClient`, `TypeOK` | two clients, touches, reports and faults each |
| `recovery_updater` | `ReadsInside`, `NothingLeaks`, `VerdictIsRight`, `CallsRunOut`, `SearchIsAbstract`, `Returns`, `UpdaterTypeOK` | every partition up to 6 and pattern up to 4 over three characters, one of them NUL; a buffer for two |
| `boot` | `NamesAgree`, `NfcNeedsRaphael`, `NfcOnRaphael`, `MarkVouches`, `FlagVouches`, `CopyCompletes`, `BootTypeOK` | the three regions and an unknown one, two partitions, three firmwares, the third without a version file, flashed in any order, three power losses |

Why the bounds are enough. The delays keep their order, 100 = 100 < 1200 < 1400
< 7000, and 1400 < 2 x 1200, so at most two effects overlap; no property
depends on more than that order. Five reports are what it takes for two pollers
to wait while a third request is refused. A behaviour of the popup camera has a
*budget* of the events its question is about (`Budgets`): all events at once are
out of reach, and most properties are about the meeting of two or three; the
theorems of section 5 hold for every budget. `AgeCap` only caps clocks where
they no longer matter. For the search, a text of six leaves room for every shift
of a pattern of three with a border, twice, and for a version that is too long
for the buffer. For the boot, three power losses interrupt a copy, its
continuation and the next, and three firmwares let two others come between a
copy and the return of its firmware. Deadlock is checked in the runs of the popup camera, the LEDs and the
HALs; the search and the boot are meant to stop.

Every property has a *mutant*: an operator beside the definition it changes,
introduced by "A fault:", that is a slip a programmer could make, and breaks the
property.

### Runs that end in a counterexample

Each refutes what the repository says of the program, and is a finding.

| run | said | done |
|---|---|---|
| `running_text` | "Front camera cannot be used during calibration." | also shown when a calibration has ended well within 7 s, for the flag is cleared by a timer; the text of success is not shown |
| `effect_done` | "Unmark the LED as busy since our effect is done" | a second effect has started meanwhile; its restore comes later |
| `led_pattern` | "Restore default breath parameters" | `lut_pattern` stays as the effect has set it; the HAL writes `lux_pattern`, which is no file |
| `bm_border` | "Generate table of next possible full match" | one off: `xyx` is missed in `xxxyx`. The version string searched for has no border and is not affected |
| `modem_crash` | "Make modem config folder and copy firmware config to that folder for RIL" | the mark is copied before `mbn_ota.txt`: after a power loss between the two no later boot copies it, and each reports the copy as completed |
| `modem_flashback` | the same words | `rm` removes the mark last: firmware A has been copied, B is flashed, the power fails when the configurations have been removed and the mark of A has not, and A is flashed back; the boot finds its mark, copies nothing, and reports the copy as completed with no configurations in the folder |

`MarkVouches` and `FlagVouches`, which the run `boot` checks, name the case of
`modem_flashback` as their only exception: the mark of the firmware is the one a
removal cut short had to remove (`cut = firmware`). With `cut = firmware` struck
out TLC finds just that behaviour.

Met while modelling, but too plain for a run: `showErrorDialog`
(`PopupCameraService.java:400`) compares two constants, so the text "Couldn't
close front camera." (`strings.xml:36`) is never shown, and a jammed takeback is
reported as a failure to open.

## 4. Liveness and fairness

The popup camera runs assume weak fairness of the main thread, the binder
thread, the motor and the clock: a looper dispatches what is due, binder threads
are scheduled, a motion ends in bounded time. Nothing is assumed of users,
cameras, sensors or failures. The fingerprint run assumes weak fairness of the
main thread, the poll thread and the threads in `notify`: the scheduler, that a
call of the vendor library returns, and that init restarts the service (its `.rc`
file does not say `oneshot`). `recovery_updater` assumes that a single thread goes on. `boot` assumes weak
fairness of init and of the script: somebody switches the phone on again, and
the power does not fail for ever (`MaxLosses`); nothing is assumed of updates.

`LastReportObeyed` has a premise worth knowing: the last report comes two busy
windows after the one before (`LastGap`). With less, two pollers may run in
either order and an *earlier* request may be the last one obeyed; this follows
from the polling in `updateMotor`, and is listed among the hazards.
It is stated for behaviours without a calibration, during which the motor may
refuse.

`ObeyedInTime` is what holds of *every* report, and with a bound on the
time, when reports are further apart than the busy window, nothing else happens
but lights, and the threads run what is due before time goes on (`Punctual`; a
thread that is late adds its delay). The gap matters: when it is a tick shorter
than the busy window, TLC finds a report that has to poll and is not obeyed in
time; when it is exactly that long, the order within one tick decides, which the
property leaves out.

`UiIsFollowed` rests on a crash: a poll thread that started without a device
dies of the null pointer, and it is the next process that opens the device. The
mutant that tests the pointer first breaks the property.

## 5. What is proved

The proofs assume only the named assumptions on constants in the modules: that
delays fit the horizon, that budgets and bounds are natural numbers, that names
differ, that lengths of patterns are positive. Unless a row says more, the
property is the one TLC checks.

| module | theorems | argument |
|---|---|---|
| `LooperProofs` | lemmas | what posting, taking, advancing and withdrawing do to the messages waiting: types, that no message is lost but the one taken or withdrawn, which message of a kind is the last to be due, in how many ticks the messages of a kind are due, and when there is at most one of some kinds |
| `PopupCameraProofs` | `TypeCorrect`, `BusyIsBacked`, `LedIsSound`, `CalibrationIsBacked`, `DialogIsBacked`, `QuestionsAreFresh`, `CameraIsGuarded`, `LastReportWins` | see below |
| `PopupControlProofs` | `FallsReverse`, `ControlsTheMotor`, `ObeysInTime` | see below |
| `LedSharingProofs` | `TypeCorrect`, `LightComesBack`, `EffectsEnd` | see below |
| `FingerprintProofs` | `TypeCorrect`, `NoSecondInstance`, `ReplacedClientIsSilent`, `LockIsShort`, `AtRestFodAgrees`, `ReportsAreTold` | see below |
| `BoyerMooreProofs` | `TypeCorrect`, `FoundIsCorrect`, `ReadsAreInside`, `FirstIsReturned`, `TzVersionIsNotMissed`, `SearchImplemented`, `SearchEnds` | see below |
| `RecoveryUpdaterProofs` | `UpdaterSearches`, `UpdaterTypeCorrect`, `NothingIsLeaked`, `VerdictIsCorrect`, `UpdaterEnds` | see below |
| `BootProofs` | `NamesAlwaysAgree`, `NfcOnlyOnRaphael`, `MarkAlwaysVouches`, `FlagAlwaysVouches`, `BootTypeCorrect` | see below |

*Popup camera.* Every "backed" property pairs a flag with the closure in the
queue that clears it. Lemma `ClosuresStay` shows once that a closure which is not
the head of the queue, of a process that lives on, stays; `Writers` says which
actions write each flag. Together with the type invariant, each property is
inductive as it stands: the action that sets the flag posts the closure, and the
action that takes the closure clears the flag. `LedIsSound` needs its three parts
at once: that the saved LED is not an effect follows only because an effect is on
only while the LED is busy. `LastReportWins` is about the order of the queue:
`OrderInv` says that the last camera message to be due is that of the last report
or, if none waits, that the last one handled was. All camera messages have the
same delay, so a new one is due after those that wait, whichever of them was
withdrawn; `SameOrder` and `OthersKeepOrder` show that nothing else that is posted,
taken or advanced changes that.

*The motor.* `FallsReverse` needs `RaisesFit`: while the motor rises its status
is still the one that allowed it to, so neither a request to lower it nor a start
of the service can fit. `ControlsTheMotor` is the refinement of `MotorControl`.
Its lemmas say what each operation on the queue does to the reports and wishes
that wait in it (`PostsParts` and its neighbours), then take the actions one
group at a time; `OrderInv` and `DeadIsNull` are the invariants it needs. That a
service which relies on queues, windows and pollers neither invents nor loses a
wish is shown for every budget, every delay and late threads.

*Reports in time.* `ObeysInTime` is about time, yet a safety property, for the
delays are counted in ticks. Its inductive invariant `CalmInv` follows one report
through three phases by the age of the last report (`Age`): `Reported` (its
message is due in `EventDelay - Age` ticks; the motion and the busy window of
the report before will both be over by then), `Requested` (the closure `r` is
due, the motor is at rest where the report before wanted it, so the status fits)
and `Obeying` (the motor moves, with at most `EventDelay + MotionTime - Age`
ticks left, or rests where it should). Before the service runs, `Starting` says
that the sleep of `onCreate` outlasts the takeback. The next report comes after
more than `BusyDelay`, when the motion is over and less than `EventDelay` of the
window is left, which leads back to `Reported`. The lemmas of `LooperProofs` on
the slots of a queue (`SlotsOf`) and on queues with one message of some kinds
(`AtMostOne`) say what posting, taking and a tick do to these delays. The
hypothesis is met: the budget `Paced` of `popup_liveness` is calm.

*LEDs.* That the LED shows the right light at rest is not inductive: in between,
half of a list of writes is done. `ShowInv` says of every state what the writes
still to come will lead to: the last write of the list, if any is left, decides
what the LED shows (`Leaves`); while an effect is on, the saved values are those
of the light wanted (`Saved`); `BusyOK` ties `mLedBusy` to effects pending, so a
second effect does not save the first. `EffectsEnd` holds also when the two
processes write at once, and needs two more: `RestInv` says of the blue LED and
of the breath parameters that the writes that end the effect are still to come
if a value of the effect is there; `CalmInv` says that as long as no light has
been set to blink, the HAL writes none, nothing that breathes is saved, and the
last write of a restore is a brightness. `SoundInv` types the writes; the bound on the
brightness is lemma `BrightnessBound`, arithmetic on the weights 77, 150 and 29,
which add up to 256.

*Fingerprint.* `InstanceInv`: a process that lives has published its instance.
`LockInv`: a thread that tells a client something holds the lock, and that client
is still registered; it is what makes `OldClientIsSilent` inductive. `FodInv`
follows the poll thread from reading to writing: unless a new switch waits, what
it has read is what `fod_ui` says. `ReportsAreTold` is the refinement of
`ClientReports`: every step of the HAL is one of the abstract ones or leaves
client, reports and what was heard alone; that `NotifyTells` tells the client of
that moment follows from `LockInv`.

*Search.* `SearchInv`: what lies to the right of `j` has matched (`Matched`), and
the window lies inside the text (`Entered`). `NoneBefore` adds that no
occurrence begins before the window, for a pattern without a border; its heart
is `JumpMissesNothing`: neither table shifts past an occurrence.
`TzVersionIsNotMissed` draws the conclusion `verify_trustzone` needs: a pattern
whose last character occurs nowhere else in it has no border, and is not missed. `SearchImplemented`
collects these invariants in the refinement of `TextSearch`. `SearchEnds` bounds
the number of steps: each lessens `StepsLeft`, of which the window's way to the
end of the text is the larger part, and lemma `JumpIs` shows that every shift
takes the window on, also where one of the two tables alone would not.

*Verification of the firmware.* `UpdaterSearches` shows that a behaviour of
`verify_trustzone` is one of the search, so that all of the above holds of it.
`HeldInv` says at which calls the descriptor and the mapping are held.
`VerdictInv` says that the buffer holds the text behind the place that was found
(`Copied`); with `FirstIsReturned` and the size of the buffer the verdict follows.
`UpdaterEnds` adds the calls still to make to the steps of the search: the sum is
a natural number that every step lessens, so that with a thread that goes on
`Returns` holds. The step from the one to the other is TLC's.

*Boot.* The properties: `OverrideKeeps` and `ProductPropSets` say what one call
does, `OverriddenAgrees` follows `vendor_load_properties` call by call, and
`DerivingAgrees` shows that init can only take over a name that agrees already,
so that the order does not matter. The copy: `CopyInv` ties the
folder to the next command of the script. Any mark in the folder stands beside
its configurations, unless it is being removed or its removal was cut short; up
to the copy of the configurations (`Copying`) the mark is not that of the
firmware, and before the copy begins there is none; afterwards (`Copied`) the
configurations are complete, but for the exception; and until the folder is
locked the group may write to it, which is why no command can fail. Nothing is
assumed of the order in which firmwares are flashed: it is the part about *any*
mark, and not only that of the firmware, that carries the invariant over.

*Only model-checked:* all liveness (`LastReportObeyed`, `EffectEnds`, `BusyEnds`,
`RequestsRun`, `CalibrationEnds`, `UiIsFollowed`, `Returns`,
`NfcOnRaphael`, `CopyCompletes`), which is out of
the prover's reach together with `ENABLED`. For `Returns` and, in calm times,
for `LastReportObeyed` the part that does not need fairness is proved
(`UpdaterEnds`, `ObeysInTime`). Every invariant and every action property the
passing runs check is proved.

## 6. Plan

Done, in this order: the queue and the motor; the popup camera service with its
pages; its safety proofs; the LEDs in two processes; the search; the fingerprint
HAL; their proofs.

Then: the abstract search and the abstract client of the fingerprint HAL, with
the refinements proved; `verify_trustzone` around the search; the boot with its
property library and the modem configuration; their proofs; the order of the
reports (`LastReportWins`).

Then: the abstract motor controller with its refinement, what reverses a raise,
the time in which calm reports are obeyed, and the bounds on the steps of the
search and of `verify_trustzone`.

Then: firmwares that are flashed back, in the boot and its proofs; what two
processes that write at once may not leave of an effect (`EffectIsOver`).

Next:

1. How long the service takes to settle after a burst: the proof that a last
   report is obeyed within a bound when pollers wait (`LastReportObeyed` is
   checked only); an abstract LED with owners for `LedSharing`.
2. The touch panel in more detail: late `onFingerDown` calls and the OFF that
   comes after the ON of the next touch (both among the hazards).
