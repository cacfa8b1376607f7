----------------------------- MODULE BootProofs -----------------------------
(***************************************************************************)
(* Proofs about Boot, for any set of regions, of partitions and of         *)
(* firmwares, flashed in any order, and any number of power losses.        *)
(***************************************************************************)
EXTENDS Boot, TLAPS

(***************************************************************************)
(* The properties.                                                         *)
(***************************************************************************)
PropsTypeOK == props \in [Names -> Values] /\ builtin \in [Names -> Values]

(* The product properties that p defines are those of the region.          *)
Agree(p) == \A s \in Sources : /\ p[<<s, "device">>] \in {Absent, Device(region)}
                               /\ p[<<s, "model">>] \in {Absent, Model(region)}

PropsInv ==
  /\ PropsTypeOK
  /\ props[modDevice] # "" /\ builtin[modDevice] # ""
  /\ loaded \in BOOLEAN
  /\ stage \in {"off", "properties", "mkdir", "write", "late_start"}
  /\ (stage = "off" => ~loaded) /\ (Booted => loaded)
  /\ loaded => Agree(props) /\ props[productSku] = Device(region)
  /\ nfc => Device(region) = "raphael" /\ stage = "late_start"

(* What the table says is a value, and so is what the builds say.          *)
LEMMA Table ==
  ASSUME NEW r
  PROVE  /\ Device(r) \in Values /\ Model(r) \in Values
         /\ Description(r) \in Values /\ ModDevice(r) \in Values
BY DEF Device, Model, Description, ModDevice, Values, Known

LEMMA HeapValue == ASSUME NEW m PROVE Heap(m) \in Values
BY DEF Heap, Values

(* The properties with a partition and those without are different ones.   *)
LEMMA NamesDiffer ==
  /\ {sku, productSku, description, modDevice, heap} \subseteq Names
  /\ ProductProps \subseteq Names
  /\ \A s \in Sources : <<s, "device">> \in Names /\ <<s, "model">> \in Names
  /\ \A s \in Sources : /\ <<s, "device">> \notin {sku, productSku, description, modDevice, heap}
                        /\ <<s, "model">> \notin {sku, productSku, description, modDevice, heap}
  /\ productSku # description /\ productSku # modDevice /\ productSku # heap
  /\ modDevice # sku /\ modDevice # productSku /\ modDevice # description
  /\ modDevice # heap
BY SourceAssumption DEF Names, ProductProps, sku, productSku, description, modDevice, heap

(* What property_override does to a property that has no partition: it     *)
(* leaves all others, those of the product among them.                     *)
Own == {sku, productSku, description, modDevice, heap}

LEMMA OverrideKeeps ==
  ASSUME NEW p \in [Names -> Values], NEW n \in Own, NEW v \in Values,
         Agree(p), p[modDevice] # "", n = modDevice => v # ""
  PROVE  /\ property_override(p, n, v) \in [Names -> Values]
         /\ property_override(p, n, v)[modDevice] # ""
         /\ Agree(property_override(p, n, v))
         /\ n = productSku => property_override(p, n, v)[productSku] = v
         /\ n # productSku => property_override(p, n, v)[productSku] = p[productSku]
<1>1. PICK q : q = property_override(p, n, v) /\ q = [p EXCEPT ![n] = v]
  BY DEF property_override
<1>2. n \in Names /\ modDevice \in Names /\ productSku \in Names
  BY NamesDiffer DEF Own
<1>3. q \in [Names -> Values] /\ q[n] = v /\ \A m \in Names : m # n => q[m] = p[m]
  BY <1>1, <1>2
<1>4. \A s \in Sources : /\ <<s, "device">> \in Names /\ <<s, "device">> # n
                        /\ <<s, "model">> \in Names /\ <<s, "model">> # n
  BY NamesDiffer DEF Own
<1>5. Agree(q)
  BY <1>3, <1>4 DEF Agree
<1>6. q[modDevice] # ""
  BY <1>2, <1>3
<1> QED BY <1>1, <1>2, <1>3, <1>5, <1>6

(* set_ro_product_prop sets what defines the property.                     *)
LEMMA ProductPropSets ==
  ASSUME NEW p \in [Names -> Values], NEW name \in {"device", "model"}, NEW v \in Values
  PROVE  /\ set_ro_product_prop(p, name, v) \in [Names -> Values]
         /\ \A s \in Sources : set_ro_product_prop(p, name, v)[<<s, name>>] \in {Absent, v}
         /\ \A n \in Names \ (Sources \X {name}) :
              set_ro_product_prop(p, name, v)[n] = p[n]
<1> DEFINE q == set_ro_product_prop(p, name, v)
<1>1. q = [n \in Names |-> IF n \in Sources \X {name} /\ p[n] # Absent THEN v ELSE p[n]]
  BY DEF set_ro_product_prop
<1>2. q \in [Names -> Values]
  BY <1>1
<1>3. \A s \in Sources : q[<<s, name>>] \in {Absent, v}
  <2> TAKE s \in Sources
  <2>1. <<s, name>> \in Names /\ <<s, name>> \in Sources \X {name}
    BY NamesDiffer
  <2> QED BY <1>1, <2>1
<1>4. \A n \in Names \ (Sources \X {name}) : q[n] = p[n]
  BY <1>1
<1> QED BY <1>2, <1>3, <1>4

(* vendor_load_properties gives every property of the device its value.    *)
LEMMA OverriddenAgrees ==
  ASSUME PropsTypeOK, props[modDevice] # "",
         NEW q, q = Overridden(props)
  PROVE  /\ q \in [Names -> Values] /\ q[modDevice] # "" /\ Agree(q)
         /\ q[productSku] = Device(region)
<1> DEFINE d == Device(region)
<1>p. PICK p1 : p1 = set_ro_product_prop(props, "device", d)
  OBVIOUS
<1>q. PICK p2 : p2 = set_ro_product_prop(p1, "model", Model(region))
  OBVIOUS
<1>r. PICK p3 : p3 = property_override(p2, sku, d)
  OBVIOUS
<1>s. PICK p4 : p4 = property_override(p3, productSku, d)
  OBVIOUS
<1>u. PICK p5 : p5 = property_override(p4, description, Description(region))
  OBVIOUS
<1>v. PICK p6 : p6 = ModDeviceOverridden(p5)
  OBVIOUS
<1>8. q = property_override(p6, heap, Heap(ram))
  BY <1>p, <1>q, <1>r, <1>s, <1>u, <1>v DEF Overridden
<1>t. /\ d \in Values /\ Model(region) \in Values /\ Description(region) \in Values
      /\ ModDevice(region) \in Values /\ Heap(ram) \in Values
  BY Table, HeapValue
<1>n. \A s \in Sources : /\ <<s, "device">> \in Names \ (Sources \X {"model"})
                         /\ <<s, "model">> \in Names
  BY NamesDiffer
<1>m. modDevice \in Names \ (Sources \X {"device"}) /\ modDevice \in Names \ (Sources \X {"model"})
  BY NamesDiffer, SourceAssumption DEF modDevice
<1>o. sku \in Own /\ productSku \in Own /\ description \in Own /\ modDevice \in Own
      /\ heap \in Own /\ sku # modDevice /\ productSku # modDevice /\ description # modDevice
      /\ heap # modDevice /\ description # productSku /\ modDevice # productSku
      /\ heap # productSku
  BY NamesDiffer DEF Own
<1>0. props \in [Names -> Values]
  BY DEF PropsTypeOK
<1> HIDE DEF d
<1>1. /\ p1 \in [Names -> Values] /\ p1[modDevice] # ""
      /\ \A s \in Sources : p1[<<s, "device">>] \in {Absent, d}
  <2>1. /\ p1 \in [Names -> Values]
        /\ \A s \in Sources : p1[<<s, "device">>] \in {Absent, d}
        /\ \A n \in Names \ (Sources \X {"device"}) : p1[n] = props[n]
    BY ONLY <1>p, <1>t, <1>0, ProductPropSets, ZenonT(60)
  <2> QED BY <2>1, <1>m
<1>2. p2 \in [Names -> Values] /\ p2[modDevice] # "" /\ Agree(p2)
  <2>1. /\ p2 \in [Names -> Values]
        /\ \A s \in Sources : p2[<<s, "model">>] \in {Absent, Model(region)}
        /\ \A n \in Names \ (Sources \X {"model"}) : p2[n] = p1[n]
    BY ONLY <1>q, <1>t, <1>1, ProductPropSets, ZenonT(60)
  <2>2. \A s \in Sources : p2[<<s, "device">>] = p1[<<s, "device">>]
    BY <2>1, <1>n
  <2>3. p2[modDevice] = p1[modDevice]
    BY <2>1, <1>m
  <2> QED BY <2>1, <2>2, <2>3, <1>1 DEF Agree, d
<1>3. p3 \in [Names -> Values] /\ p3[modDevice] # "" /\ Agree(p3)
  BY ONLY <1>r, <1>2, <1>t, <1>o, OverrideKeeps, ZenonT(60)
<1>4. p4 \in [Names -> Values] /\ p4[modDevice] # "" /\ Agree(p4) /\ p4[productSku] = d
  BY ONLY <1>s, <1>3, <1>t, <1>o, OverrideKeeps, ZenonT(60)
<1>5. p5 \in [Names -> Values] /\ p5[modDevice] # "" /\ Agree(p5) /\ p5[productSku] = d
  BY ONLY <1>u, <1>4, <1>t, <1>o, OverrideKeeps, ZenonT(60)
<1>6. p6 \in [Names -> Values] /\ p6[modDevice] # "" /\ Agree(p6) /\ p6[productSku] = d
  <2>1. CASE ModDevice(region) = ""
    BY <1>v, <2>1, <1>5 DEF ModDeviceOverridden
  <2>2. CASE ModDevice(region) # ""
    <3>1. p6 = property_override(p5, modDevice, ModDevice(region))
      BY <1>v, <2>2 DEF ModDeviceOverridden
    <3> QED BY ONLY <3>1, <2>2, <1>5, <1>t, <1>o, OverrideKeeps, ZenonT(60)
  <2> QED BY <2>1, <2>2
<1>7. LET p7 == property_override(p6, heap, Heap(ram))
      IN  p7 \in [Names -> Values] /\ p7[modDevice] # "" /\ Agree(p7) /\ p7[productSku] = d
  BY ONLY <1>6, <1>t, <1>o, OverrideKeeps, ZenonT(60)
<1> QED BY <1>7, <1>8 DEF d

LEMMA PropsInvInit == BootInit => PropsInv
<1> SUFFICES ASSUME BootInit PROVE PropsInv
  OBVIOUS
<1>0. /\ builtin \in Builtins /\ props = builtin
      /\ stage = "off" /\ loaded = FALSE /\ nfc = FALSE
  BY DEF BootInit, LibraryInit
<1>1. builtin \in [Names -> Values] /\ builtin[modDevice] # ""
  <2>1. PICK present \in SUBSET Sources, bootSku \in {Absent, "raphael"} :
          builtin = [n \in Names |-> IF n \in present \X {"device", "model"} THEN "generic"
                                    ELSE IF n = productSku THEN bootSku
                                    ELSE IF n = description THEN "generic" ELSE Absent]
    BY <1>0 DEF Builtins
  <2>2. builtin \in [Names -> Values]
    <3>1. {"generic", Absent, bootSku} \subseteq Values
      BY DEF Values, Absent
    <3> QED BY <2>1, <3>1
  <2>3. modDevice \in Names /\ builtin[modDevice] # ""
    <3>1. /\ modDevice \in Names /\ modDevice # productSku /\ modDevice # description
          /\ modDevice \notin present \X {"device", "model"}
      BY NamesDiffer, SourceAssumption DEF modDevice
    <3> QED BY <2>1, <3>1 DEF Absent
  <2> QED BY <2>2, <2>3
<1> QED BY <1>0, <1>1 DEF PropsInv, PropsTypeOK, Booted

(* Deriving ro.product.* keeps the agreement, and nothing else changes.    *)
LEMMA DerivingAgrees ==
  ASSUME PropsInv, DeriveProperties
  PROVE  /\ props' \in [Names -> Values]
         /\ \A n \in Own : props'[n] = props[n]
         /\ Agree(props) => Agree(props')
<1>1. PICK d \in Derived("device"), m \in Derived("model") :
        props' = [props EXCEPT ![<<"", "device">>] = d, ![<<"", "model">>] = m]
  BY DEF DeriveProperties
<1>2. props \in [Names -> Values]
  BY DEF PropsInv, PropsTypeOK
<1>3. ASSUME NEW name \in {"device", "model"}, NEW v \in Derived(name)
      PROVE  \E s \in Sources : v = props[<<s, name>>] /\ <<s, name>> \in Names
  <2>1. "" \in Sources /\ \A s \in Sources : <<s, name>> \in Names
    BY NamesDiffer, SourceAssumption
  <2> QED BY <2>1, <1>3 DEF Derived
<1>4. d \in Values /\ m \in Values
  BY <1>2, <1>3
<1>5. /\ \A n \in Own : n \in Names /\ n # <<"", "device">> /\ n # <<"", "model">>
      /\ \A s \in Sources : <<s, "device">> \in Names /\ <<s, "model">> \in Names
      /\ <<"", "device">> \in Names /\ <<"", "model">> \in Names
  BY NamesDiffer, SourceAssumption DEF Own
<1>6. props' \in [Names -> Values]
  BY <1>1, <1>2, <1>4
<1>7. \A n \in Own : props'[n] = props[n]
  BY <1>1, <1>2, <1>5
<1>8. ASSUME Agree(props) PROVE Agree(props')
  <2>1. d \in {Absent, Device(region)} /\ m \in {Absent, Model(region)}
    BY <1>3, <1>8 DEF Agree
  <2>2. ASSUME NEW s \in Sources
        PROVE  /\ props'[<<s, "device">>] \in {props[<<s, "device">>], d}
               /\ props'[<<s, "model">>] \in {props[<<s, "model">>], m}
    BY <1>1, <1>2, <1>5
  <2> QED BY <2>1, <2>2, <1>8 DEF Agree
<1> QED BY <1>6, <1>7, <1>8

(* The region does not change, and what it means does not either.          *)
LEMMA TableStays ==
  ASSUME region' = region
  PROVE  Device(region)' = Device(region) /\ (Agree(props') <=> Agree(props)')
BY DEF Agree, Device, Model

LEMMA PropsInvStep == PropsInv /\ [BootNext]_bootVars => PropsInv'
<1> SUFFICES ASSUME PropsInv, [BootNext]_bootVars PROVE PropsInv'
  OBVIOUS
<1> USE DEF bootVars, phone, initVars
<1>1. CASE UNCHANGED bootVars
  BY <1>1 DEF PropsInv, PropsTypeOK, Booted, Agree, Device, Model
<1>2. CASE PowerOn
  BY <1>2 DEF PowerOn, Stage, PropsInv, PropsTypeOK, Booted, Agree, Device, Model
<1>3. CASE LoadProperties
  <2>1. /\ props' = Overridden(props) /\ loaded' = TRUE /\ stage = "properties"
        /\ region' = region /\ builtin' = builtin /\ stage' = stage /\ nfc' = nfc
    BY <1>3 DEF LoadProperties
  <2>2. /\ props' \in [Names -> Values] /\ props'[modDevice] # "" /\ Agree(props')
        /\ props'[productSku] = Device(region)
    BY <2>1, OverriddenAgrees DEF PropsInv
  <2>3. Device(region)' = Device(region) /\ (Agree(props')  <=> Agree(props)')
    BY <2>1, TableStays
  <2>4. Device(region) # "raphael" => ~nfc
    BY DEF PropsInv
  <2> QED BY <2>1, <2>2, <2>3, <2>4 DEF PropsInv, PropsTypeOK, Booted
<1>4. CASE DeriveProperties
  <2>1. /\ region' = region /\ builtin' = builtin /\ stage' = stage /\ nfc' = nfc
        /\ loaded' = loaded
    BY <1>4 DEF DeriveProperties
  <2>2. /\ props' \in [Names -> Values] /\ props'[modDevice] = props[modDevice]
        /\ props'[productSku] = props[productSku]
        /\ Agree(props) => Agree(props')
    BY <1>4, DerivingAgrees DEF Own
  <2>3. Device(region)' = Device(region) /\ (Agree(props')  <=> Agree(props)')
    BY <2>1, TableStays
  <2>4. /\ props'[modDevice] # "" /\ builtin' \in [Names -> Values] /\ builtin'[modDevice] # ""
        /\ loaded' => Agree(props)' /\ props'[productSku] = Device(region)'
    BY <2>1, <2>2, <2>3 DEF PropsInv, PropsTypeOK
  <2> QED BY <2>1, <2>2, <2>3, <2>4 DEF PropsInv, PropsTypeOK, Booted
<1>5. CASE PowerLost
  BY <1>5 DEF PowerLost, PropsInv, PropsTypeOK, Booted, Agree, Device, Model
<1>6. CASE EnableNfc
  <2>1. /\ UNCHANGED <<region, builtin, props, loaded, stage>>
        /\ stage = "late_start" /\ nfc' = TRUE /\ props[productSku] = "raphael"
    BY <1>6 DEF EnableNfc
  <2>2. loaded /\ Device(region) = "raphael"
    BY <2>1 DEF PropsInv, Booted
  <2>3. Agree(props)' <=> Agree(props)
    BY <2>1 DEF Agree
  <2> QED BY <2>1, <2>2, <2>3 DEF PropsInv, PropsTypeOK, Booted
<1>7. CASE PropertiesLoaded \/ MkdirModemConfig \/ MarkNotCompleted
  <2>1. /\ UNCHANGED <<region, builtin, props, loaded, nfc>>
        /\ stage' \in {"mkdir", "write", "late_start"} /\ loaded
        /\ stage # "late_start"
    BY <1>7 DEF PropertiesLoaded, MkdirModemConfig, MarkNotCompleted, Stage, phone,
                PropsInv, Booted
  <2>2. Agree(props)' <=> Agree(props)
    BY <2>1 DEF Agree
  <2> QED BY <2>1, <2>2 DEF PropsInv, PropsTypeOK, Booted
<1>8. CASE StartScript \/ Script \/ WriteCompleted \/ UpdateFirmware
  <2>1. UNCHANGED <<region, builtin, props, loaded, nfc, stage>>
    BY <1>8 DEF StartScript, Script, RunScript, SetCompleted, WriteCompleted,
                UpdateFirmware, scriptUnchanged
  <2> QED BY <2>1 DEF PropsInv, PropsTypeOK, Booted, Agree, Device, Model
<1> QED BY <1>1, <1>2, <1>3, <1>4, <1>5, <1>6, <1>7, <1>8 DEF BootNext, InitProcess

(* vendor_load_properties: whatever defines the device or the model agrees *)
(* with the region, in every boot.                                         *)
THEOREM NamesAlwaysAgree == BootSpec => []NamesAgree
<1>1. PropsInv => NamesAgree
  BY DEF PropsInv, NamesAgree, Agree
<1> QED BY PropsInvInit, PropsInvStep, <1>1, PTL DEF BootSpec

(* The NFC service is enabled on a raphael only.                           *)
THEOREM NfcOnlyOnRaphael == BootSpec => []NfcNeedsRaphael
<1>1. PropsInv => NfcNeedsRaphael
  BY DEF PropsInv, NfcNeedsRaphael
<1> QED BY PropsInvInit, PropsInvStep, <1>1, PTL DEF BootSpec

(***************************************************************************)
(* The configurations of the modem.                                        *)
(***************************************************************************)
(* The commands that come before ver_info.txt is copied, after the test;   *)
(* those that come afterwards; and all before the folder is locked.        *)
Copying == {"chmod", "rm", "cp configs"}
Copied  == {"cp ver_info", "cp mbn_ota", "chown", "chmod folder", "setprop", "ended"}
Locked  == {"setprop", "ended"}

CopyTypeOK ==
  /\ ModemTypeOK
  /\ stage \in {"off", "properties", "mkdir", "write", "late_start"}
  /\ completed \in BOOLEAN /\ copy_complete \in {0, 1}

CopyInv ==
  /\ CopyTypeOK
  /\ mark \in Versioned \cup {Missing}
  /\ mark # Missing => configs = mark \/ cut = mark \/ script = "rm"
  /\ stage # "late_start" => script = "off"
  /\ completed => script = "ended"
  /\ stage \in {"write", "late_start"} /\ script \notin Locked => "folder" \in groupWrites
  /\ script = "rm" => "files" \in groupWrites
  /\ script = "cp configs" => mark = Missing
  /\ script \in Copying => mark # firmware
  /\ script \in Copied => configs = firmware \/ cut = firmware
  /\ stage = "late_start" /\ copy_complete = 1 => script = "ended"

LEMMA CopyInvInit == BootInit => CopyInv
<1> SUFFICES ASSUME BootInit PROVE CopyInv
  OBVIOUS
<1>1. /\ firmware \in Firmwares /\ cut = 0 /\ configs = 0 /\ mark = 0 /\ mbn_ota = 0
      /\ owner = "root" /\ groupWrites = {} /\ script = "off"
      /\ stage = "off" /\ completed = FALSE /\ copy_complete = 0
  BY DEF BootInit, ModemInit, Missing
<1>2. CopyTypeOK
  BY <1>1, FirmwareAssumption DEF CopyTypeOK, ModemTypeOK, Missing
<1>3. script \notin Copying /\ script \notin Copied
  BY <1>1 DEF Copying, Copied
<1> QED BY <1>1, <1>2, <1>3 DEF CopyInv, Missing

(* The script never takes a missing mark for that of the firmware.         *)
LEMMA FirmwareThere == CopyInv => firmware # Missing
<1>1. CopyInv => firmware \in Firmwares
  BY DEF CopyInv, CopyTypeOK, ModemTypeOK
<1>2. 0 \notin Firmwares
  BY FirmwareAssumption DEF Firmwares
<1> QED BY <1>1, <1>2 DEF Missing

(* A command of the script keeps it.                                       *)
LEMMA CopyInvScript ==
  ASSUME CopyInv, ScriptStep,
         UNCHANGED <<stage, completed, copy_complete>>
  PROVE  CopyInv'
<1> USE FirmwareAssumption DEF CopyInv, CopyTypeOK, ModemTypeOK, Firmwares, Missing, Partial,
        Copying, Copied, Locked, Command, folder
<1>0. stage = "late_start"
  BY DEF ScriptStep, Test, Chmod, Remove, Removed, CopyConfigs, CopyMark, CopyOta,
         Chown, ChmodFolder
<1>1. CASE Test
  <2>1. /\ UNCHANGED <<firmware, cut, configs, mark, mbn_ota, owner, groupWrites>>
        /\ script = "test" /\ copy_complete' # 1 /\ ~completed' /\ stage' = "late_start"
    BY <1>0, <1>1 DEF Test
  <2>2. \/ script' = "chmod" /\ mark # firmware
        \/ script' = "chmod folder" /\ mark = firmware
    BY ONLY CopyInv, <1>1, FirmwareThere DEF Test, verinfo, Command, CopyInv
  <2>3. script' = "chmod folder" => configs = firmware \/ cut = firmware
    BY ONLY CopyInv, <2>1, <2>2, FirmwareThere DEF CopyInv
  <2>4. CopyTypeOK'
    BY <2>1, <2>2
  <2> QED BY ONLY CopyInv, <1>0, <2>1, <2>2, <2>3, <2>4
          DEF CopyInv, Copying, Copied, Locked, Missing
<1>2. CASE Chmod
  BY <1>0, <1>2 DEF Chmod
<1>3. CASE Remove
  BY <1>0, <1>3 DEF Remove
<1>4. CASE Removed
  BY <1>0, <1>4 DEF Removed, Emptied
<1>5. CASE CopyConfigs
  BY <1>0, <1>5 DEF CopyConfigs, Writable
<1>6. CASE CopyMark
  <2>1. /\ configs = firmware \/ cut = firmware
        /\ "folder" \in groupWrites /\ script' = "cp mbn_ota"
        /\ UNCHANGED <<firmware, cut, configs, mbn_ota, owner, groupWrites>>
        /\ copy_complete' # 1 /\ ~completed' /\ stage' = "late_start"
        /\ script = "cp ver_info"
    BY <1>0, <1>6 DEF CopyMark
  <2>2. mark' = mark \/ (mark' = firmware /\ firmware \in Versioned)
    BY <1>6 DEF CopyMark, verinfo
  <2>3. mark' \in Versioned \cup {Missing}
    BY <2>2
  <2>4. mark' # Missing => configs' = mark' \/ cut' = mark'
    BY <2>1, <2>2
  <2>5. CopyTypeOK'
    BY <2>1, <2>3
  <2> QED BY ONLY <2>1, <2>3, <2>4, <2>5 DEF CopyInv, Copying, Missing, Copied, Locked
<1>7. CASE CopyOta
  BY <1>0, <1>7 DEF CopyOta, Writable
<1>8. CASE Chown
  BY <1>0, <1>8 DEF Chown
<1>9. CASE ChmodFolder
  BY <1>0, <1>9 DEF ChmodFolder
<1> QED BY <1>1, <1>2, <1>3, <1>4, <1>5, <1>6, <1>7, <1>8, <1>9 DEF ScriptStep

LEMMA CopyInvStep == CopyInv /\ [BootNext]_bootVars => CopyInv'
<1> SUFFICES ASSUME CopyInv, [BootNext]_bootVars PROVE CopyInv'
  OBVIOUS
<1>1. CASE UNCHANGED <<modemVars, stage, completed, copy_complete>>
  <2>1. UNCHANGED <<firmware, cut, configs, mark, mbn_ota, owner, groupWrites, script>>
    BY <1>1 DEF modemVars, folder
  <2>2. CopyTypeOK'
    BY <1>1, <2>1 DEF CopyInv, CopyTypeOK, ModemTypeOK, Firmwares, Partial
  <2> QED BY <1>1, <2>1, <2>2 DEF CopyInv, Missing
<1>2. CASE RunScript
  BY <1>2, CopyInvScript DEF RunScript, scriptUnchanged
<1> USE FirmwareAssumption DEF CopyInv, CopyTypeOK, ModemTypeOK, Firmwares, Missing, Partial,
        Copying, Copied, Locked, Command, folder, modemVars, Stage
<1>3. CASE PowerOn \/ PropertiesLoaded
  <2>1. /\ UNCHANGED <<firmware, cut, configs, mark, mbn_ota, owner, groupWrites, script,
                        completed, copy_complete>>
        /\ stage \in {"off", "properties"} /\ stage' \in {"properties", "mkdir"}
    BY <1>3 DEF PowerOn, PropertiesLoaded
  <2>2. ModemTypeOK'
    BY <2>1
  <2> QED BY <2>1, <2>2
<1>4. CASE MkdirModemConfig
  BY <1>4 DEF MkdirModemConfig
<1>5. CASE MarkNotCompleted
  BY <1>5 DEF MarkNotCompleted
<1>6. CASE StartScript
  BY <1>6 DEF StartScript, scriptUnchanged
<1>7. CASE SetCompleted
  BY <1>7 DEF SetCompleted, scriptUnchanged
<1>8. CASE WriteCompleted
  BY <1>8 DEF WriteCompleted
<1>9. CASE PowerLost
  BY <1>9 DEF PowerLost
<1>10. CASE UpdateFirmware
  BY <1>10 DEF UpdateFirmware, FirmwareUpdated, initVars
<1>11. CASE LoadProperties \/ DeriveProperties \/ EnableNfc
  BY <1>1, <1>11 DEF LoadProperties, DeriveProperties, EnableNfc
<1> QED BY <1>1, <1>2, <1>3, <1>4, <1>5, <1>6, <1>7, <1>8, <1>9, <1>10, <1>11
        DEF BootNext, InitProcess, Script, bootVars, initVars

(* init.qcom.sh: whenever the power fails, and whatever firmwares are      *)
(* flashed in whatever order, the mark of the firmware vouches for its     *)
(* configurations, unless the power has cut the removal of this mark       *)
(* short.                                                                  *)
THEOREM MarkAlwaysVouches == BootSpec => []MarkVouches
<1>1. CopyInv => MarkVouches
  BY FirmwareThere DEF CopyInv, Copying, MarkVouches
<1> QED BY CopyInvInit, CopyInvStep, <1>1, PTL DEF BootSpec

(* init.qcom.sh with init.qcom.rc: so does the flag that the RIL reads,    *)
(* with the same exception.                                                *)
THEOREM FlagAlwaysVouches == BootSpec => []FlagVouches
<1>1. CopyInv => FlagVouches
  BY DEF CopyInv, FlagVouches, Copied
<1> QED BY CopyInvInit, CopyInvStep, <1>1, PTL DEF BootSpec

(* The properties and the state of init and of the script have their types.*)
RestTypeOK == derived \in BOOLEAN /\ nfc \in BOOLEAN /\ losses \in Nat

LEMMA RestStep == RestTypeOK /\ [BootNext]_bootVars => RestTypeOK'
<1> SUFFICES ASSUME RestTypeOK, [BootNext]_bootVars PROVE RestTypeOK'
  OBVIOUS
<1>1. derived' \in BOOLEAN /\ nfc' \in BOOLEAN
  <2>1. UNCHANGED <<derived, nfc>> \/ LoadProperties \/ DeriveProperties \/ EnableNfc \/ PowerLost
    BY DEF BootNext, InitProcess, Script, bootVars, initVars, PowerOn, PropertiesLoaded,
           MkdirModemConfig, MarkNotCompleted, StartScript, WriteCompleted, RunScript,
           SetCompleted, UpdateFirmware, scriptUnchanged
  <2>2. /\ derived' = derived \/ derived' = TRUE \/ derived' = FALSE
        /\ nfc' = nfc \/ nfc' = TRUE \/ nfc' = FALSE
    BY <2>1 DEF LoadProperties, DeriveProperties, EnableNfc, PowerLost
  <2> QED BY <2>2, Zenon DEF RestTypeOK
<1>2. losses' = losses \/ PowerLost
  BY DEF BootNext, InitProcess, Script, bootVars, initVars, PowerOn, LoadProperties,
         DeriveProperties, PropertiesLoaded, MkdirModemConfig, MarkNotCompleted, EnableNfc,
         StartScript, WriteCompleted, RunScript, SetCompleted, UpdateFirmware, scriptUnchanged
<1>3. losses' \in Nat
  BY <1>2 DEF RestTypeOK, PowerLost
<1> QED BY <1>1, <1>3 DEF RestTypeOK

THEOREM BootTypeCorrect == BootSpec => []BootTypeOK
<1>1. BootInit => RestTypeOK
  BY LossAssumption DEF BootInit, RestTypeOK
<1>2. PropsInv /\ CopyInv /\ RestTypeOK => BootTypeOK
  BY DEF PropsInv, PropsTypeOK, CopyInv, CopyTypeOK, RestTypeOK, BootTypeOK
<1> QED BY PropsInvInit, PropsInvStep, CopyInvInit, CopyInvStep, RestStep, <1>1, <1>2, PTL
        DEF BootSpec
=============================================================================
