-------------------------------- MODULE Boot --------------------------------
(***************************************************************************)
(* A phone that boots: init loads the properties (InitLibrary), runs the   *)
(* actions of rootdir/etc/init.qcom.rc and init.raphael.rc in the order of *)
(* their triggers, and starts the services of the class late_start, the    *)
(* script init.qcom.sh among them (ModemConfig).  The power may fail at    *)
(* any time; properties and processes are lost, /data stays.  While the    *)
(* phone is off another firmware may be flashed.                           *)
(***************************************************************************)
EXTENDS InitLibrary, ModemConfig

CONSTANT MaxLosses   \* bound: how often the power fails

ASSUME LossAssumption == MaxLosses \in Nat

VARIABLES
  stage,          \* how far init has come
  loaded,         \* vendor_load_properties has been called
  derived,        \* init has derived ro.product.*
  nfc,            \* the NFC service has been enabled
  completed,      \* ro.vendor.ril.mbn_copy_completed
  copy_complete,  \* /data/vendor/radio/copy_complete, which the RIL reads
  losses          \* bound: how often the power will still fail

phone      == <<region, ram, builtin>>
initVars   == <<stage, loaded, derived, nfc, completed, copy_complete>>
bootVars   == <<phone, props, modemVars, initVars, losses>>

Values == {Absent, "", "generic", "raphael", "raphaelin", "Mi 9T Pro",
           "Redmi K20 Pro", "raphael_global", "raphaelin_in_global", "small",
           "large"} \cup Known

BootTypeOK ==
  /\ props \in [Names -> Values]
  /\ props[modDevice] # ""
  /\ ModemTypeOK
  /\ stage \in {"off", "properties", "mkdir", "write", "late_start"}
  /\ loaded \in BOOLEAN /\ derived \in BOOLEAN /\ nfc \in BOOLEAN
  /\ completed \in BOOLEAN /\ copy_complete \in {0, 1}
  /\ losses \in Nat

BootInit ==
  /\ LibraryInit /\ ModemInit
  /\ stage = "off" /\ loaded = FALSE /\ derived = FALSE /\ nfc = FALSE
  /\ completed = FALSE /\ copy_complete = 0
  /\ losses = MaxLosses

Stage(this, next) == stage = this /\ stage' = next

PowerOn ==
  /\ Stage("off", "properties")
  /\ props' = builtin
  /\ UNCHANGED <<phone, modemVars, loaded, derived, nfc, completed, copy_complete,
                 losses>>

LoadProperties ==
  /\ stage = "properties" /\ ~loaded
  /\ props' = Overridden(props) /\ loaded' = TRUE
  /\ UNCHANGED <<phone, modemVars, stage, derived, nfc, completed, copy_complete,
                 losses>>

(* init itself gives ro.product.* the value of some partition, unless it   *)
(* has one; this tree does not tell whether before or after.               *)
Missed == {Absent, ""}
Derived(name) ==
  LET own    == props[<<"", name>>]
      others == {props[<<s, name>>] : s \in Sources} \ Missed
  IN  IF own \in Missed /\ others # {} THEN others ELSE {own}
DeriveProperties ==
  /\ stage = "properties" /\ ~derived
  /\ \E d \in Derived("device"), m \in Derived("model") :
       props' = [props EXCEPT ![<<"", "device">>] = d, ![<<"", "model">>] = m]
  /\ derived' = TRUE
  /\ UNCHANGED <<phone, modemVars, stage, loaded, nfc, completed, copy_complete,
                 losses>>

PropertiesLoaded ==
  /\ loaded /\ derived /\ Stage("properties", "mkdir")
  /\ UNCHANGED <<phone, props, modemVars, loaded, derived, nfc, completed,
                 copy_complete, losses>>

(* mkdir /data/vendor/modem_config 0570 radio root: init sets the mode of  *)
(* the folder also if there is one.                                        *)
MkdirModemConfig ==
  /\ Stage("mkdir", "write")
  /\ groupWrites' = groupWrites \cup {"folder"}
  /\ UNCHANGED <<phone, props, firmware, cut, folder, script, loaded, derived,
                 nfc, completed, copy_complete, losses>>

(* A fault: the flag of the last boot stays.                               *)
LateStartAtOnce ==
  /\ Stage("write", "late_start")
  /\ UNCHANGED <<phone, props, modemVars, loaded, derived, nfc, completed,
                 copy_complete, losses>>

(* "Mark the copy complete flag to not completed"; then the classes start. *)
MarkNotCompleted ==
  /\ Stage("write", "late_start")
  /\ copy_complete' = 0
  /\ UNCHANGED <<phone, props, modemVars, loaded, derived, nfc, completed, losses>>

(* on property:ro.boot.product.hardware.sku=raphael                        *)
EnableNfc ==
  /\ stage = "late_start" /\ ~nfc /\ props[productSku] = "raphael"
  /\ nfc' = TRUE
  /\ UNCHANGED <<phone, props, modemVars, stage, loaded, derived, completed,
                 copy_complete, losses>>

scriptUnchanged ==
  <<phone, props, stage, loaded, derived, nfc, copy_complete, losses>>

StartScript ==
  /\ stage = "late_start" /\ Command("off", "test")
  /\ UNCHANGED <<scriptUnchanged, firmware, cut, folder, groupWrites, completed>>

RunScript == ScriptStep /\ UNCHANGED <<scriptUnchanged, completed>>

SetCompleted ==
  /\ Command("setprop", "ended")
  /\ completed' = TRUE
  /\ UNCHANGED <<scriptUnchanged, firmware, cut, folder, groupWrites>>

(* on property:ro.vendor.ril.mbn_copy_completed=1                          *)
WriteCompleted ==
  /\ stage = "late_start" /\ completed /\ copy_complete = 0
  /\ copy_complete' = 1
  /\ UNCHANGED <<phone, props, modemVars, stage, loaded, derived, nfc, completed,
                 losses>>

PowerLost ==
  /\ stage # "off" /\ losses > 0
  /\ stage' = "off" /\ losses' = losses - 1
  /\ loaded' = FALSE /\ derived' = FALSE /\ nfc' = FALSE /\ completed' = FALSE
  /\ script' = "off" /\ cut' = IF script = "rm" THEN mark ELSE cut
  /\ UNCHANGED <<phone, props, firmware, folder, groupWrites, copy_complete>>

UpdateFirmware ==
  /\ stage = "off" /\ FirmwareUpdated
  /\ UNCHANGED <<phone, props, initVars, losses>>

InitProcess ==
  \/ PowerOn \/ LoadProperties \/ DeriveProperties \/ PropertiesLoaded
  \/ MkdirModemConfig \/ MarkNotCompleted \/ EnableNfc \/ StartScript
  \/ WriteCompleted

Script == RunScript \/ SetCompleted

BootNext == InitProcess \/ Script \/ PowerLost \/ UpdateFirmware

(* Somebody switches the phone on, init goes on, and so does the script.   *)
BootSpec ==
  /\ BootInit /\ [][BootNext]_bootVars
  /\ WF_bootVars(InitProcess) /\ WF_bootVars(Script)

(***************************************************************************)
(* What a boot promises.                                                   *)
(***************************************************************************)
Booted == stage \notin {"off", "properties"}

(* Whichever partitions define them, and whenever init derives its own,    *)
(* all properties that name the device or the model agree with the region  *)
(* (set_ro_product_prop, vendor_load_properties).                          *)
NamesAgree ==
  Booted => \A s \in Sources :
    /\ props[<<s, "device">>] \in {Absent, Device(region)}
    /\ props[<<s, "model">>] \in {Absent, Model(region)}

(* The NFC service runs on a raphael only, whatever the boot loader says   *)
(* (vendor_load_properties with init.raphael.rc) ...                       *)
NfcNeedsRaphael == nfc => Device(region) = "raphael"

(* ... and there it does, unless the power fails for ever.                 *)
NfcOnRaphael == <>[](nfc <=> Device(region) = "raphael")

(* Across power losses, updates and firmwares flashed back the mark of the *)
(* firmware stands only beside its configurations, but for one case: this  *)
(* very mark was to be removed, and the power cut the removal short        *)
(* (init.qcom.sh).                                                         *)
MarkVouches == mark = firmware => configs = firmware \/ cut = firmware

(* But for that case the RIL is told of the copy only if, in this boot,    *)
(* the configurations have been found or made those of the firmware        *)
(* (init.qcom.sh with init.qcom.rc).                                       *)
FlagVouches ==
  stage = "late_start" /\ copy_complete = 1 => configs = firmware \/ cut = firmware

(* A boot without a power loss tells the RIL so in the end.                *)
CopyCompletes == <>[](copy_complete = 1)

(***************************************************************************)
(* What the repository says, and the code does not do.                     *)
(***************************************************************************)
(* "copy firmware config to that folder for RIL" (init.qcom.sh:46): when   *)
(* mbn_copy_completed is set, mbn_ota.txt is there as well.                *)
CompletedIsComplete == completed => mbn_ota = firmware

(* The same words: and so are the configurations.                          *)
ConfigsAreCopied == completed => configs = firmware
=============================================================================
