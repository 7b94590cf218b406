------------------------------- MODULE UmdMount -------------------------------
(***************************************************************************)
(* Mounting a disc image over the disc drive: the words of the UMD driver  *)
(* that DoAnyUmd patches and sctrlSEUmountUmd puts back                    *)
(* (src/modules/systemctrl/umd9660_driver.c), the two threads that call    *)
(* them (src/modules/vshctrl/main.c), that of the menu and that of the     *)
(* XMB which starts and stops USB, and the thread of the UMD driver, which *)
(* reads the image through the patched words meanwhile.                    *)
(*                                                                         *)
(* The XMB has the pad again before the menu's thread unmounts and mounts, *)
(* so the calls of the two interleave at every delay of the driver; and    *)
(* the pad ends a menu's thread that is not done in time (src/modules/     *)
(* satelite/main.c).  Marks of what goes wrong then:                       *)
(*                                                                         *)
(*   refused   sctrlSEUmountUmd has returned -1                            *)
(*   crossed   the menu has mounted an image while USB was to give one back *)
(*   mixed     a call of one thread began within one of the other          *)
(*   cut       the thread of the menu was ended within its call            *)
(*                                                                         *)
(* Words: 1 the read call, 2 the disc info, 3 and 4 the disc type, 5 and 6 *)
(* the port that tells whether a disc is in.                               *)
(***************************************************************************)
EXTENDS Integers, Sequences

CONSTANTS
    Isos, NoFile,   \* what the menu offers
    Types,          \* disc types, all different from Orig and Hook
    Orig, Hook,     \* what a word holds: its own code, or the patch
    Bytes,          \* SECTOR_SIZE
    MaxSize         \* bound on the size of a request of the UMD driver

ASSUME SizesAssumption == Bytes \in Nat \ {0} /\ MaxSize \in Nat
ASSUME WordsAssumption == Orig # Hook /\ {Orig, Hook} \cap Types = {}

VARIABLES
    word, restore, address,     \* address: whether restore holds something
    disctype, discout,
    umdfile, mounted,           \* mounted is set by the first OpenIso
    umdsector,                  \* the buffer is there, and umdsema with it
    videoiso_mounted, return_iso, usbdev,
    pc,                         \* where each thread is with the drive
    todo,                       \* the image that the menu's thread mounts
    reader,                     \* the thread of the UMD driver
    marks,                      \* history: see above
    overlap                     \* history: a read met an unmount

hooks == <<word, restore, address>>
image == <<umdfile, mounted, umdsector>>
menu  == <<videoiso_mounted, return_iso, usbdev>>
drive == <<disctype, discout>>
vars  == <<hooks, image, menu, drive, pc, todo, reader, marks, overlap>>

Words   == 1 .. 6
Threads == {"menu", "usb"}
Idle    == [pc |-> "idle"]

TypeOK ==
    /\ \A k \in Words : word[k] \in {Orig} \cup IF k \in {3, 4} THEN Types ELSE {Hook}
    /\ restore \in [Words -> {Orig, Hook, NoFile} \cup Types]
    /\ address \in [Words -> BOOLEAN]
    /\ disctype \in Types /\ discout \in BOOLEAN
    /\ umdfile \in Isos \cup {NoFile} /\ mounted \in BOOLEAN /\ umdsector \in BOOLEAN
    /\ videoiso_mounted \in BOOLEAN /\ return_iso \in BOOLEAN /\ usbdev \in BOOLEAN
    /\ pc \in [Threads -> {"idle", "out", "unmount", "restore", "returned", "mount", "hooked"}]
    /\ todo \in Isos \cup {NoFile}
    /\ marks \subseteq {"refused", "crossed", "mixed", "cut"} /\ overlap \in BOOLEAN

Init ==
    /\ word = [k \in Words |-> Orig] /\ restore = [k \in Words |-> NoFile]
    /\ address = [k \in Words |-> FALSE]
    /\ disctype \in Types /\ discout = TRUE
    /\ umdfile = NoFile /\ mounted = FALSE /\ umdsector = FALSE
    /\ videoiso_mounted = FALSE /\ return_iso = FALSE /\ usbdev = FALSE
    /\ pc = [t \in Threads |-> "idle"] /\ todo = NoFile /\ reader = Idle
    /\ marks = {} /\ overlap = FALSE

Go(t, place) == pc' = [pc EXCEPT ![t] = place]

\* The thread has more to do than to wait: after its mount the menu's has not,
\* and that of USB still sets its flags.
Working(t) == pc[t] # "idle" /\ ~(t = "menu" /\ pc[t] = "hooked")
Settled == \A t \in Threads : ~Working(t)

-----------------------------------------------------------------------------
(* Patching.                                                               *)

\* the words of W are saved and then overwritten
Patch(W, new) ==
    /\ restore' = [k \in Words |-> IF k \in W THEN word[k] ELSE restore[k]]
    /\ address' = [k \in Words |-> k \in W \/ address[k]]
    /\ word' = [k \in Words |-> IF k \in W THEN new[k] ELSE word[k]]

New == [k \in Words |-> IF k \in {3, 4} THEN disctype ELSE Hook]

\* mutant: the port is saved once more when it has been patched before
AnyUmdWordsAll == Words
\* what DoAnyUmd patches: the port only if sctrlSESetDiscOut has not done so
AnyUmdWords == IF address[5] THEN {1, 2, 3, 4} ELSE Words

\* SetUmdFile, DoAnyUmd up to the interrupt of the drive: the menu has its own
\* image, USB gives back the one whose name is still there
MountUmdFromFile(t) ==
    /\ pc[t] = "mount" /\ Go(t, "hooked")
    /\ umdfile' = (IF t = "menu" THEN todo ELSE umdfile) /\ mounted' = FALSE
    /\ umdsector' = TRUE                                        \* umd_init
    /\ Patch(AnyUmdWords, New)
    /\ discout' = FALSE
    /\ UNCHANGED <<menu, disctype, todo, reader, marks, overlap>>

\* 50 ms after the interrupt
Mounted(t) ==
    /\ pc[t] = "hooked" /\ Go(t, "idle")
    /\ videoiso_mounted' = (videoiso_mounted \/ t = "usb")
    /\ return_iso' = (return_iso /\ t # "usb")
    /\ UNCHANGED <<hooks, image, usbdev, drive, todo, reader, marks, overlap>>

-----------------------------------------------------------------------------
(* sctrlSEUmountUmd, for ReturnToDisc and between two images.              *)

\* umd_exit frees the buffer and the semaphore while the patches stand
Unmount(t) ==
    /\ pc[t] = "unmount"
    /\ IF ~mounted
       THEN /\ Go(t, "returned") /\ marks' = marks \cup {"refused"}
            /\ UNCHANGED <<umdsector, discout, overlap>>
       ELSE /\ Go(t, "restore") /\ umdsector' = FALSE /\ discout' = TRUE
            /\ overlap' = (overlap \/ reader # Idle)
            /\ UNCHANGED marks
    /\ UNCHANGED <<hooks, umdfile, mounted, menu, disctype, todo, reader>>

\* 50 ms later
Restore(t) ==
    /\ pc[t] = "restore" /\ Go(t, "returned")
    /\ word' = [k \in Words |-> IF address[k] THEN restore[k] ELSE word[k]]
    /\ address' = [k \in Words |-> FALSE]
    /\ UNCHANGED <<restore, image, menu, drive, todo, reader, marks, overlap>>

\* mutant: ReturnToDisc leaves videoiso_mounted set
UnmountedStill(t) ==
    /\ pc[t] = "returned"
    /\ Go(t, IF t = "menu" /\ todo # NoFile THEN "mount" ELSE "idle")
    /\ UNCHANGED <<hooks, image, menu, drive, todo, reader, marks, overlap>>

\* back in vctrlVSHExitVSHMenu, which goes on to mount, or in ReturnToDisc: the
\* module of USB may then be loaded
Unmounted(t) ==
    /\ pc[t] = "returned"
    /\ IF t = "menu" /\ todo # NoFile
       THEN Go(t, "mount") /\ UNCHANGED videoiso_mounted
       ELSE Go(t, "idle") /\ videoiso_mounted' = FALSE
    /\ usbdev' \in IF t = "usb" THEN BOOLEAN ELSE {usbdev}
    /\ UNCHANGED <<hooks, image, return_iso, drive, todo, reader, marks, overlap>>

-----------------------------------------------------------------------------
(* The menu and USB.                                                       *)

Begin(t, next) ==
    /\ pc[t] = "idle" /\ Go(t, next)
    /\ UNCHANGED <<image, reader, overlap>>

Mixed(t) == {k \in {"mixed"} : \E u \in Threads \ {t} : Working(u)}

\* sctrlSESetDiscOut(1) before an image is mounted, up to its delay
DiscOut == Patch({5, 6}, New) /\ discout' = TRUE

\* and after it
Waited(t) ==
    /\ pc[t] = "out" /\ Go(t, "mount")
    /\ videoiso_mounted' = (videoiso_mounted \/ t = "menu")
    /\ UNCHANGED <<hooks, image, return_iso, usbdev, drive, todo, reader, marks, overlap>>

\* vctrlVSHExitVSHMenu: the image goes, stays, or is changed
MenuNone ==
    /\ videoiso_mounted /\ Begin("menu", "unmount") /\ todo' = NoFile
    /\ marks' = marks \cup Mixed("menu")
    /\ UNCHANGED <<hooks, menu, drive>>

MenuFirst(iso, type) ==
    /\ ~videoiso_mounted /\ Begin("menu", "out") /\ todo' = iso
    /\ disctype' = type /\ DiscOut
    /\ marks' = marks \cup Mixed("menu") \cup {k \in {"crossed"} : return_iso}
    /\ UNCHANGED menu

MenuOther(iso, type) ==
    /\ videoiso_mounted /\ umdfile # iso /\ Begin("menu", "unmount") /\ todo' = iso
    /\ disctype' = type
    /\ marks' = marks \cup Mixed("menu")
    /\ UNCHANGED <<hooks, menu, discout>>

MenuSame(iso, type) ==
    /\ videoiso_mounted /\ umdfile = iso /\ pc["menu"] = "idle"
    /\ disctype' = type
    /\ UNCHANGED <<hooks, image, menu, discout, pc, todo, reader, marks, overlap>>

\* the pad ends the thread of the menu, where it is
MenuCut ==
    /\ pc["menu"] # "idle" /\ Go("menu", "idle")
    /\ marks' = marks \cup {k \in {"cut"} : Working("menu")}
    /\ UNCHANGED <<hooks, image, menu, drive, todo, reader, overlap>>

\* sceUsbStartPatched; the drive is needed if the disc is the device
UsbStart(disc) ==
    /\ IF videoiso_mounted /\ disc
       THEN /\ Begin("usb", "unmount") /\ return_iso' = TRUE
            /\ marks' = marks \cup Mixed("usb")
            /\ UNCHANGED usbdev
       ELSE /\ Begin("usb", "idle") /\ usbdev' \in BOOLEAN
            /\ UNCHANGED <<return_iso, marks>>
    /\ UNCHANGED <<hooks, drive, todo, videoiso_mounted>>

\* sceUsbStopPatched mounts what was mounted, if the disc is the device now
UsbStop(disc) ==
    /\ usbdev /\ usbdev' \in BOOLEAN
    /\ IF return_iso /\ disc
       THEN Begin("usb", "out") /\ DiscOut /\ marks' = marks \cup Mixed("usb")
       ELSE Begin("usb", "idle") /\ UNCHANGED <<hooks, discout, marks>>
    /\ UNCHANGED <<disctype, todo, videoiso_mounted, return_iso>>

\* the XMB removes a title of the virtual files: SetUmdFile("")
TitleRemoved ==
    /\ umdfile' = NoFile /\ mounted' = FALSE
    /\ UNCHANGED <<hooks, umdsector, menu, drive, pc, todo, reader, marks, overlap>>

-----------------------------------------------------------------------------
(* The thread of the UMD driver.                                           *)

\* mutant: the first sector is not counted when it has been read
LbaAfterHeadSame(r) == r.lba
LbaAfterHead(r) == r.lba + 1

Copy(lba, o, k) == [n \in 1 .. k |-> lba * Bytes + o + n - 1]

\* a request that is told to the patched driver
ReadStart ==
    /\ reader = Idle /\ word[1] = Hook
    /\ \E lba \in 0 .. 1, offs \in 0 .. Bytes - 1, size \in 1 .. MaxSize :
          reader' = [pc |-> "open", lba |-> lba, offs |-> offs, size |-> size,
                     from |-> lba * Bytes + offs, want |-> size, data |-> <<>>, iso |-> umdfile]
    /\ overlap' = (overlap \/ \E t \in Threads : pc[t] = "restore")
    /\ UNCHANGED <<hooks, image, menu, drive, pc, todo, marks>>

\* Umd9660ReadSectors2 opens the image if need be, or fails
ReadOpen ==
    /\ reader.pc = "open"
    /\ \/ umdfile # NoFile /\ mounted' = TRUE /\ reader' = [reader EXCEPT !.pc = "read"]
       \/ reader' = Idle /\ UNCHANGED mounted
    /\ overlap' = (overlap \/ umdfile # reader.iso)
    /\ UNCHANGED <<hooks, umdfile, umdsector, menu, drive, pc, todo, marks>>

\* umd_read_block: the rest of the first sector and the last one come through
\* umdsector, the sectors between them directly
ReadBlock ==
    /\ reader.pc = "read"
    /\ LET head == IF Bytes - reader.offs > reader.size THEN reader.size ELSE Bytes - reader.offs
           n    == reader.size \div Bytes
       IN
       \/ /\ reader.offs > 0
          /\ reader' = [reader EXCEPT !.data = Copy(reader.lba, reader.offs, head), !.offs = 0,
                                      !.size = @ - head, !.lba = LbaAfterHead(reader)]
       \/ /\ reader.offs = 0 /\ n > 0
          /\ reader' = [reader EXCEPT !.data = @ \o Copy(reader.lba, 0, n * Bytes),
                                      !.size = @ - n * Bytes, !.lba = @ + n]
       \/ /\ reader.offs = 0 /\ n = 0 /\ reader.size > 0
          /\ reader' = [reader EXCEPT !.data = @ \o Copy(reader.lba, 0, reader.size), !.size = 0]
       \/ /\ reader.size = 0 /\ reader' = [reader EXCEPT !.pc = "done"]
    /\ UNCHANGED <<hooks, image, menu, drive, pc, todo, marks, overlap>>

ReadEnd ==
    /\ reader.pc = "done" /\ reader' = Idle
    /\ UNCHANGED <<hooks, image, menu, drive, pc, todo, marks, overlap>>

Next ==
    \/ \E t \in Threads :
          MountUmdFromFile(t) \/ Mounted(t) \/ Unmount(t) \/ Restore(t) \/ Unmounted(t) \/ Waited(t)
    \/ MenuNone \/ MenuCut \/ TitleRemoved
    \/ \E disc \in BOOLEAN : UsbStart(disc) \/ UsbStop(disc)
    \/ \E iso \in Isos, type \in Types :
          MenuFirst(iso, type) \/ MenuOther(iso, type) \/ MenuSame(iso, type)
    \/ ReadStart \/ ReadOpen \/ ReadBlock \/ ReadEnd

Spec == Init /\ [][Next]_vars

\* bound: what follows once a patch may have been saved as an original is
\* not looked at
Guarded == marks = {}
-----------------------------------------------------------------------------
(* Properties.                                                             *)

\* Whatever the menu and USB do, the drive can be had back: a word that is
\* patched has its own code saved, and no other word is patched.  The code
\* saves what it finds, so two mounts without an unmount lose the originals;
\* the four marks are the ways that may lead there.
OriginalsKept ==
    Guarded => \A k \in Words : IF address[k] THEN restore[k] = Orig ELSE word[k] = Orig

\* Between the calls of the menu and USB the image is served through the patches
\* when one is mounted, and the drive is as it was when none is: unless the two
\* have met or the menu's thread was ended, and without an image unless any mark.
MountedServed ==
    Settled /\ marks \cap {"mixed", "cut"} = {} =>
        IF videoiso_mounted
        THEN word[1] = Hook /\ word[3] \in Types /\ umdsector /\ ~discout
        ELSE Guarded => (\A k \in Words : word[k] = Orig) /\ discout /\ ~umdsector

\* A request that no unmount and no mount has met finds the buffer, and gets
\* the bytes it asked for, whatever its offset and its size.
RequestsServed ==
    Guarded /\ reader # Idle /\ ~overlap =>
        /\ umdsector
        /\ reader.pc = "done" => reader.data = [n \in 1 .. reader.want |-> reader.from + n - 1]

=============================================================================
