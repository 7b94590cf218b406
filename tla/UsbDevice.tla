----------------------------- MODULE UsbDevice ------------------------------
(***************************************************************************)
(* The device the USB storage driver serves (usbdevice/main.c:370-596).    *)
(* pspUsbDeviceSetDevice puts functions of its own into the memory stick   *)
(* driver, for one of the flash volumes or for the UMD, after taking the   *)
(* volumes of a mask from the file system; pspUsbDeviceFinishDevice puts   *)
(* the original functions and the volumes back.  Each call of the kernel   *)
(* they make is a step, and may fail; a device may be set over another,    *)
(* and one that is finished may be finished again.                         *)
(***************************************************************************)
EXTENDS Naturals, FiniteSets

CONSTANT Volumes    \* 0..3, the flash volumes; the unit of the UMD is above

ASSUME UsbDeviceAssumption == Volumes \subseteq 0..3 /\ 0 \in Volumes

VARIABLES
    pc,             \* what is running: "idle", "set", "umd", "switch", "finish"
    device_unit,
    mask,           \* the volumes still to go through in this call
    unassigned,     \* unassigned_devices
    sector,         \* umd_sector: is there a buffer
    table,          \* whose functions the memory stick driver has
    result,         \* of the last call: "ok", "nodev", "error"
    assigned,       \* the volumes of the file system
    owed,           \* those a SetDevice took and nobody gave back
    inUse,          \* a device was set and has not been finished
    stranded,       \* of those owed: an assign failed, or a new device forgot them
    nested          \* a device is being set over one that is in use
vars == <<pc, device_unit, mask, unassigned, sector, table, result, assigned,
          owed, inUse, stranded, nested>>

Umd == 4
Units == Volumes \cup {Umd}
First(set) == CHOOSE v \in set : \A w \in set : v <= w

Init ==
    /\ pc = "idle" /\ device_unit = 0 /\ mask = {} /\ unassigned = {}
    /\ sector = FALSE /\ table = "orig" /\ result = "ok"
    /\ assigned \in SUBSET Volumes /\ owed = {} /\ inUse = FALSE
    /\ stranded = {} /\ nested = FALSE

-----------------------------------------------------------------------------
(* The beginning of SetDevice forgets what an earlier one took, and its    *)
(* buffer, while the functions that need it may still be in place.         *)
SetDevice(unit, volumes) ==
    /\ pc = "idle"
    /\ pc' = (IF unit = Umd THEN "umd" ELSE "set")
    /\ device_unit' = unit /\ mask' = volumes
    /\ unassigned' = {} /\ sector' = FALSE
    /\ inUse' = TRUE /\ result' = "ok"
    /\ stranded' = owed /\ nested' = inUse
    /\ UNCHANGED <<table, assigned, owed>>

(* No disc, no answer of the drive, or no memory for the buffer. *)
UmdFails ==
    /\ pc = "umd" /\ pc' = "idle" /\ result' = "error"
    /\ UNCHANGED <<device_unit, mask, unassigned, sector, table, assigned,
                   owed, inUse, stranded, nested>>
UmdReady ==
    /\ pc = "umd" /\ pc' = "switch" /\ sector' = TRUE
    /\ UNCHANGED <<device_unit, mask, unassigned, table, result, assigned,
                   owed, inUse, stranded, nested>>

(* sceIoUnassign of the next volume: a volume that is not assigned is      *)
(* passed over, and its error stays in the result.                         *)
Unassign ==
    /\ pc = "set" /\ mask # {}
    /\ LET v == First(mask)
       IN /\ mask' = mask \ {v}
          /\ \/ /\ v \in assigned
                /\ assigned' = assigned \ {v} /\ owed' = owed \cup {v}
                /\ unassigned' = unassigned \cup {v} /\ result' = "ok"
                /\ UNCHANGED pc
             \/ /\ v \notin assigned /\ result' = "nodev"
                /\ UNCHANGED <<assigned, owed, unassigned, pc>>
             \/ /\ v \in assigned /\ result' = "error" /\ pc' = "idle"
                /\ UNCHANGED <<assigned, owed, unassigned>>
    /\ UNCHANGED <<device_unit, sector, table, inUse, stranded, nested>>

(* The functions are replaced, with interrupts off. *)
Switch ==
    /\ pc = "switch" \/ (pc = "set" /\ mask = {})
    /\ table' = (IF device_unit = Umd THEN "umd" ELSE "lflash")
    /\ pc' = "idle" /\ nested' = FALSE
    /\ UNCHANGED <<device_unit, mask, unassigned, sector, result, assigned,
                   owed, inUse, stranded>>

(* Mutant: the volumes are not given back. *)
FinishDeviceForgets ==
    /\ pc = "idle"
    /\ table' = "orig" /\ sector' = FALSE
    /\ mask' = {} /\ pc' = "finish" /\ result' = "ok"
    /\ inUse' = FALSE /\ nested' = FALSE
    /\ UNCHANGED <<device_unit, unassigned, assigned, owed, stranded>>

(* FinishDevice: the functions, the buffer, then the volumes in turn; the  *)
(* list of them stays as it is.                                            *)
FinishDevice ==
    /\ pc = "idle"
    /\ table' = "orig" /\ sector' = FALSE
    /\ mask' = unassigned /\ pc' = "finish" /\ result' = "ok"
    /\ inUse' = FALSE /\ nested' = FALSE
    /\ UNCHANGED <<device_unit, unassigned, assigned, owed, stranded>>

(* sceIoAssign of the next volume: it refuses one that is assigned and may *)
(* fail for another; the first error ends the call.                        *)
Assign ==
    /\ pc = "finish" /\ mask # {}
    /\ LET v == First(mask)
       IN \/ /\ v \notin assigned
             /\ assigned' = assigned \cup {v} /\ owed' = owed \ {v}
             /\ mask' = mask \ {v} /\ stranded' = stranded \ {v}
             /\ UNCHANGED <<result, pc>>
          \/ /\ result' = "error" /\ pc' = "idle" /\ mask' = {}
             /\ stranded' = stranded \cup (mask \cap owed)
             /\ UNCHANGED <<assigned, owed>>
    /\ UNCHANGED <<device_unit, unassigned, sector, table, inUse, nested>>

Finished ==
    /\ pc = "finish" /\ mask = {} /\ pc' = "idle"
    /\ UNCHANGED <<device_unit, mask, unassigned, sector, table, result,
                   assigned, owed, inUse, stranded, nested>>

Next ==
    \/ \E unit \in Units, volumes \in SUBSET Volumes : SetDevice(unit, volumes)
    \/ UmdFails \/ UmdReady \/ Unassign \/ Switch
    \/ FinishDevice \/ Assign \/ Finished

Spec == Init /\ [][Next]_vars

-----------------------------------------------------------------------------
(* Types, and no volume is both in the file system and taken. *)
TypeOK ==
    /\ pc \in {"idle", "set", "umd", "switch", "finish"}
    /\ device_unit \in Units /\ mask \subseteq Volumes
    /\ unassigned \subseteq Volumes /\ table \in {"orig", "umd", "lflash"}
    /\ result \in {"ok", "nodev", "error"}
    /\ assigned \cup owed \subseteq Volumes /\ assigned \cap owed = {}
    /\ stranded \subseteq owed /\ {inUse, nested} \subseteq BOOLEAN

(* "The flashes will be reassigned automatically after calling             *)
(* pspUsbDeviceFinishDevice" (include/pspusbdevice.h:27): when no device   *)
(* is in use and nothing runs, the volumes that stay taken are those which *)
(* an assign that failed left behind, or which a device set over another   *)
(* forgot, and no others, whatever else failed and however often a device  *)
(* was set and finished.                                                   *)
FlashesReassigned == pc = "idle" /\ ~inUse => owed = stranded

(* The host is never served by functions whose buffer is gone or whose     *)
(* unit is another one, and by the originals when no device is in use      *)
(* (main.c:383, 503-547).  While a device is set over one in use, and when *)
(* that fails, the functions are still those of the other one.             *)
InPlace ==
    /\ table = "umd" /\ ~nested => sector /\ device_unit = Umd
    /\ table = "lflash" /\ ~nested => device_unit \in Volumes
    /\ ~inUse => table = "orig"

\* Devices are set and given back, and the host is served by the right functions
\* (pspUsbDeviceSetDevice, pspUsbDeviceFinishDevice).
DevicesRight == FlashesReassigned /\ InPlace

=============================================================================
