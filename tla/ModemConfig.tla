----------------------------- MODULE ModemConfig -----------------------------
(***************************************************************************)
(* rootdir/etc/init.qcom.sh, from line 45 on: the firmware brings its      *)
(* modem configuration along, and every boot copies it to the folder       *)
(* /data/vendor/modem_config, unless the mark in there, ver_info.txt, says *)
(* that this has been done for this firmware.  One action per command: the *)
(* power may fail between any two, and in the middle of rm -r and cp -r.   *)
(* What has been written survives; no command fails for another reason     *)
(* than a permission (/data does not run full), and those of the group are *)
(* what counts for the script ("the group must be root").  A firmware is   *)
(* its version: any other one may be flashed, also one the phone has had.  *)
(***************************************************************************)
EXTENDS Naturals

CONSTANTS
  MaxFirmware,   \* bound: the last firmware there is
  Versioned      \* the firmwares that have a file ver_info.txt

ASSUME FirmwareAssumption ==
  /\ MaxFirmware \in Nat \ {0}
  /\ Versioned \subseteq 1..MaxFirmware

VARIABLES
  firmware,     \* the version of the firmware
  cut,          \* history: the mark that a removal cut short had to remove
  configs,      \* the configurations in the folder: their version, or ...
  mark,         \* ver_info.txt in the folder
  mbn_ota,      \* mbn_ota.txt in the folder
  owner,        \* who owns the files in the folder
  groupWrites,  \* the group, root, may write to the folder and to what is in it
  script        \* the command of init.qcom.sh that comes next

folder  == <<configs, mark, mbn_ota, owner>>
modemVars == <<firmware, cut, folder, groupWrites, script>>

Firmwares == 1..MaxFirmware
Missing   == 0
Partial   == MaxFirmware + 1

ModemTypeOK ==
  /\ firmware \in Firmwares /\ cut \in Firmwares \cup {Missing}
  /\ configs \in Firmwares \cup {Missing, Partial}
  /\ mark \in Firmwares \cup {Missing} /\ mbn_ota \in Firmwares \cup {Missing}
  /\ owner \in {"root", "radio"}
  /\ groupWrites \subseteq {"folder", "files"}
  /\ script \in {"off", "test", "chmod", "rm", "cp configs", "cp ver_info",
                 "cp mbn_ota", "chown", "chmod folder", "setprop", "ended"}

ModemInit ==
  /\ firmware \in Firmwares /\ cut = Missing
  /\ configs = Missing /\ mark = Missing /\ mbn_ota = Missing /\ owner = "root"
  /\ groupWrites = {}
  /\ script = "off"

Command(this, next) == script = this /\ script' = next
Writable == "folder" \in groupWrites

(* /vendor/firmware_mnt/verinfo/ver_info.txt is there.                     *)
verinfo == firmware \in Versioned

(* A fault: without a version to compare there is nothing to copy, and the *)
(* script gives up.                                                        *)
TestOfVersion ==
  /\ \/ Command("test", "chmod") /\ verinfo /\ mark # firmware
     \/ Command("test", "chmod folder") /\ verinfo /\ mark = firmware
  /\ UNCHANGED <<firmware, cut, folder, groupWrites>>

(* The mark in the folder is compared with that of the firmware.           *)
Test ==
  /\ \/ Command("test", "chmod") /\ (~verinfo \/ mark # firmware)
     \/ Command("test", "chmod folder") /\ verinfo /\ mark = firmware
  /\ UNCHANGED <<firmware, cut, folder, groupWrites>>

Chmod ==
  /\ Command("chmod", "rm")
  /\ groupWrites' = groupWrites \cup {"files"}
  /\ UNCHANGED <<firmware, cut, folder>>

(* rm -rf, one thing at a time, as far as the group may.  The shell sorts  *)
(* the names, so ver_info.txt comes after mbn_ota.txt; those of the        *)
(* configurations are not in this tree.                                    *)
Emptied == configs = Missing /\ mark = Missing /\ mbn_ota = Missing
Remove ==
  /\ script = "rm" /\ groupWrites = {"folder", "files"} /\ ~Emptied
  /\ \/ configs \notin {Missing, Partial} /\ configs' = Partial
        /\ UNCHANGED <<mark, mbn_ota>>
     \/ configs = Partial /\ configs' = Missing /\ UNCHANGED <<mark, mbn_ota>>
     \/ mark # Missing /\ mbn_ota = Missing /\ mark' = Missing
        /\ UNCHANGED <<configs, mbn_ota>>
     \/ mbn_ota # Missing /\ mbn_ota' = Missing /\ UNCHANGED <<configs, mark>>
  /\ UNCHANGED <<firmware, cut, owner, groupWrites, script>>

Removed ==
  /\ Emptied \/ groupWrites # {"folder", "files"}
  /\ Command("rm", "cp configs")
  /\ cut' = Missing
  /\ UNCHANGED <<firmware, folder, groupWrites>>

(* A fault: the script does not wait for the copy.                         *)
CopyConfigsUnawaited ==
  /\ Command("cp configs", "cp ver_info")
  /\ configs' = Partial /\ owner' = "root" /\ groupWrites' = groupWrites \ {"files"}
  /\ UNCHANGED <<firmware, cut, mark, mbn_ota>>

(* cp -r: it begins, and it ends.  The files are root's, and read-only.    *)
CopyConfigs ==
  /\ script = "cp configs"
  /\ IF Writable /\ configs # Partial
     THEN /\ configs' = Partial /\ owner' = "root"
          /\ groupWrites' = groupWrites \ {"files"}
          /\ UNCHANGED script
     ELSE /\ script' = "cp ver_info"
          /\ configs' = IF Writable THEN firmware ELSE configs
          /\ UNCHANGED <<owner, groupWrites>>
  /\ UNCHANGED <<firmware, cut, mark, mbn_ota>>

CopyMark ==
  /\ Command("cp ver_info", "cp mbn_ota")
  /\ mark' = IF Writable /\ verinfo THEN firmware ELSE mark
  /\ UNCHANGED <<firmware, cut, configs, mbn_ota, owner, groupWrites>>

CopyOta ==
  /\ Command("cp mbn_ota", "chown")
  /\ mbn_ota' = IF Writable THEN firmware ELSE mbn_ota
  /\ UNCHANGED <<firmware, cut, configs, mark, owner, groupWrites>>

Chown ==
  /\ Command("chown", "chmod folder")
  /\ owner' = "radio"
  /\ UNCHANGED <<firmware, cut, configs, mark, mbn_ota, groupWrites>>

ChmodFolder ==
  /\ Command("chmod folder", "setprop")
  /\ groupWrites' = groupWrites \ {"folder"}
  /\ UNCHANGED <<firmware, cut, folder>>

ScriptStep ==
  \/ Test \/ Chmod \/ Remove \/ Removed \/ CopyConfigs \/ CopyMark \/ CopyOta
  \/ Chown \/ ChmodFolder

(* Another firmware is flashed: a newer one, or one of those before.       *)
FirmwareUpdated ==
  /\ firmware' \in Firmwares \ {firmware}
  /\ UNCHANGED <<cut, folder, groupWrites, script>>
=============================================================================
