----------------------------- MODULE InitLibrary -----------------------------
(***************************************************************************)
(* init/init_raphael.cpp: vendor_load_properties, which init calls once in *)
(* every boot to give the properties the values of this phone, in one pass *)
(* of one thread.  One image runs on all phones of the family: its build   *)
(* properties name one of them, and the boot loader tells which it is.     *)
(* A property is a pair of the partition that defines it and a name.       *)
(***************************************************************************)
EXTENDS Naturals

CONSTANTS
  Regions,   \* inputs: what ro.boot.hwc may say
  Sources    \* partitions that define product properties ("" for none)

ASSUME SourceAssumption == "" \in Sources /\ "ro" \notin Sources

VARIABLES
  region,    \* ro.boot.hwc
  ram,       \* the memory of this phone, in MiB
  builtin,   \* what the build and the boot loader say
  props      \* the properties

Absent == "absent"

ProductProps == Sources \X {"device", "model"}
sku          == <<"ro", "boot.hardware.sku">>
productSku   == <<"ro", "boot.product.hardware.sku">>
description  == <<"ro", "build.description">>
modDevice    == <<"ro", "product.mod_device">>
heap         == <<"ro", "dalvik.vm.heap">>
Names == ProductProps \cup {sku, productSku, description, modDevice, heap}

(* The table of regions; a region it does not have leaves all of it empty. *)
Known == {"GLOBAL", "CN", "INDIA"}
Device(r) == IF r \in {"GLOBAL", "CN"} THEN "raphael"
             ELSE IF r = "INDIA" THEN "raphaelin" ELSE ""
Model(r) == IF r = "GLOBAL" THEN "Mi 9T Pro"
            ELSE IF r \in {"CN", "INDIA"} THEN "Redmi K20 Pro" ELSE ""
Description(r) == IF r \in Known THEN r ELSE ""
ModDevice(r) == IF r = "GLOBAL" THEN "raphael_global"
                ELSE IF r = "INDIA" THEN "raphaelin_in_global" ELSE ""

(* load_dalvikvm_properties: the heap of a phone of 4 or 6 GB, or of more. *)
Heap(m) == IF m < 7000 THEN "small" ELSE "large"

(* What the build and the boot loader may say: the partitions in present   *)
(* define the device and the model, and the boot loader may tell a SKU.    *)
Builtins ==
  {[n \in Names |-> IF n \in present \X {"device", "model"} THEN "generic"
                    ELSE IF n = productSku THEN bootSku
                    ELSE IF n = description THEN "generic" ELSE Absent] :
     present \in SUBSET Sources, bootSku \in {Absent, "raphael"}}

LibraryInit ==
  /\ region \in Regions /\ ram \in {6000, 8000}
  /\ builtin \in Builtins /\ props = builtin

(* A fault: what is defined already stays.                                 *)
PropertyAdded(p, name, value) ==
  IF p[name] = Absent THEN [p EXCEPT ![name] = value] ELSE p

property_override(p, name, value) == [p EXCEPT ![name] = value]

(* A fault: the property without a partition is left to init.              *)
SetProductPropOfSources(p, name, value) ==
  [n \in Names |-> IF n \in (Sources \ {""}) \X {name} /\ p[n] # Absent
                   THEN value ELSE p[n]]

(* set_ro_product_prop: whatever defines the property now; nothing is added.*)
set_ro_product_prop(p, name, value) ==
  [n \in Names |-> IF n \in Sources \X {name} /\ p[n] # Absent
                   THEN value ELSE p[n]]

(* A fault: an empty mod_device is written like another.                  *)
ModDeviceAlways(p) == property_override(p, modDevice, ModDevice(region))

(* mod_device is only overridden where there is one.                       *)
ModDeviceOverridden(p) ==
  IF ModDevice(region) = "" THEN p
  ELSE property_override(p, modDevice, ModDevice(region))

(* vendor_load_properties                                                  *)
Overridden(p) ==
  LET d == Device(region)
      q == set_ro_product_prop(set_ro_product_prop(p, "device", d),
                               "model", Model(region))
      s == property_override(property_override(q, sku, d), productSku, d)
      t == property_override(s, description, Description(region))
  IN  property_override(ModDeviceOverridden(t), heap, Heap(ram))
=============================================================================
