------------------------------- MODULE VshMenu -------------------------------
(***************************************************************************)
(* The menu of the XMB: vshctrl loads the satelite module when SELECT is   *)
(* pressed, hands it every read of the pad while its thread is registered, *)
(* and stops it once it is not (satelite/main.c, satelite/menu.c,          *)
(* vshctrl/main.c).  Three actors: the XMB, which reads the pad; the       *)
(* thread of the menu; and USB, which uses the settings the menu changes.  *)
(*                                                                         *)
(* The pad has at most one button pressed.  The mount and the unmount of   *)
(* an image are a step each: UmdMount has what is in them.                 *)
(***************************************************************************)
EXTENDS Integers, Sequences, FiniteSets

CONSTANTS
    Isos, NoIso,
    Prefixes,       \* the pairs <<a, b>> such that the name a begins the name b
    Listings,       \* what GetVideoIsos may return
    Speeds,         \* the speeds are numbered 0 (the default) to Speeds
    Disc,           \* the USB devices are numbered 0 (the stick) to Disc
    Buttons,        \* those the user presses
    MaxMoves        \* bound: the settings are moved so often

VshMenuAssumption ==
    /\ NoIso \notin Isos /\ Speeds \in Nat /\ Disc \in Nat \ {0}
    /\ \A l \in Listings : l \in Seq(Isos)
    /\ Buttons \subseteq {"up", "down", "left", "right", "cross", "select", "other"}

VARIABLES
    file,               \* flash1:/config.se
    config,             \* the settings vshctrl goes by
    videoiso_mounted, umdfile,
    served,             \* the image the drive shows
    storage,            \* USB storage has been started
    return_iso, usbdev,
    module, hook, pad,  \* satelite, vshmenu_ctrl, the thread of the XMB
    menu,               \* the variables of satelite
    pc,                 \* its thread
    chosen,             \* history: the image shown when the menu was closed
    turned,             \* history: the lines moved in this menu
    opened,             \* history: the settings and the image as this menu found them
    moves,              \* history: how often a line was moved
    marks               \* history: what went wrong, see the actions

vars == <<file, config, videoiso_mounted, umdfile, served, storage, return_iso, usbdev,
          module, hook, pad, menu, pc, chosen, turned, opened, moves, marks>>
settings == <<file, config>>
drive    == <<videoiso_mounted, umdfile, served>>
usb      == <<storage, return_iso, usbdev>>
history  == <<chosen, turned, opened, moves, marks>>

None == "none"
\* what sctrlSEGetConfig leaves when the file cannot be read
Zeros == [vsh |-> 0, game |-> 0, usb |-> 0, umd |-> 0]

Unopened == [config |-> Zeros, image |-> NoIso]

\* the variables of a module that has just been loaded
Loaded(given) ==
    [stopit |-> 0, mode |-> 0, inited |-> 0, config |-> Zeros, changed |-> FALSE, sel |-> 0,
     selected |-> 0, given |-> given, isos |-> <<>>, held |-> None, on |-> None]

-----------------------------------------------------------------------------
(* The settings.                                                           *)

Limit(val, min, max) == IF val < min THEN max ELSE IF val > max THEN min ELSE val

\* UMD, M33 driver, NP9660, OE isofs and round again
AfterUmd  == [m \in 0 .. 3 |-> <<2, 0, 3, 1>>[m + 1]]
BeforeUmd == [m \in 0 .. 3 |-> <<1, 3, 0, 2>>[m + 1]]

Known(speed) == IF speed \in 0 .. Speeds THEN speed ELSE 0      \* GetCpuIndex

\* line s of the menu is moved by d
Turn(c, s, d) ==
    CASE s = 0 -> [c EXCEPT !.vsh = Limit(Known(@) + d, 0, Speeds)]
      [] s = 1 -> [c EXCEPT !.game = Limit(Known(@) + d, 0, Speeds)]
      [] s = 2 -> [c EXCEPT !.usb = Limit(@ + d, 0, Disc)]
      [] s = 3 -> [c EXCEPT !.umd = IF d > 0 THEN AfterUmd[@] ELSE BeforeUmd[@]]
      [] OTHER -> c

\* menu_setup puts right what is out of range
Corrected(c) ==
    [c EXCEPT !.usb = IF @ \in 0 .. Disc THEN @ ELSE 0, !.umd = IF @ \in 0 .. 3 THEN @ ELSE 0]

Setup(m) == [m EXCEPT !.config = Corrected(@),
                      !.changed = IF Corrected(m.config) # m.config THEN TRUE ELSE @]

-----------------------------------------------------------------------------
(* The lines of the menu: 0-3 the settings, 4 the image, 5 standby, 6 a    *)
(* reset, 7 the exit.                                                      *)

Step(b) == CASE b = "down" -> 1 [] b = "up" -> -1 [] OTHER -> 0
Acting  == {"left", "cross", "right", "select"}
Direction(b) == CASE b = "left" -> -1 [] b = "right" -> 1 [] OTHER -> 0

\* menu_sel after the button
Line(m, b) == IF b = "select" THEN 7 ELSE Limit(m.sel + Step(b), 0, 7)

\* mutant: an image that is moved counts as a changed setting, a setting does not
MenuCtrlImage(m) ==
    LET b == m.on   s == Line(m, b)   d == Direction(b)   acts == b \in Acting
    IN  [m EXCEPT
          !.sel = s,
          !.changed = IF acts /\ d # 0 /\ s = 4 THEN TRUE ELSE @,
          !.config = IF acts /\ d # 0 THEN Turn(@, s, d) ELSE @,
          !.selected = IF acts /\ d # 0 /\ s = 4 THEN Limit(@ + d, 0, Len(m.isos)) ELSE @,
          !.mode = CASE acts /\ s = 7 /\ d = 0 -> 2
                     [] acts /\ s = 5 -> 3
                     [] acts /\ s = 6 -> 4
                     [] OTHER -> 1]

\* menu_ctrl with the buttons of m, and the mode that follows from its answer
MenuCtrl(m) ==
    LET b == m.on   s == Line(m, b)   d == Direction(b)   acts == b \in Acting
    IN  [m EXCEPT
          !.sel = s,
          !.changed = IF acts /\ d # 0 /\ s # 4 THEN TRUE ELSE @,
          !.config = IF acts /\ d # 0 THEN Turn(@, s, d) ELSE @,
          !.selected = IF acts /\ d # 0 /\ s = 4 THEN Limit(@ + d, 0, Len(m.isos)) ELSE @,
          !.mode = CASE acts /\ s = 7 /\ d = 0 -> 2
                     [] acts /\ s = 5 -> 3
                     [] acts /\ s = 6 -> 4
                     [] OTHER -> 1]

\* the first image whose name begins the one that was given, 0 for none
Mounted(l, given) ==
    LET fits == {i \in 1 .. Len(l) : l[i] = given \/ <<l[i], given>> \in Prefixes}
    IN  IF fits = {} THEN 0 ELSE CHOOSE i \in fits : \A j \in fits : i <= j

Shown(m) == IF m.selected = 0 THEN NoIso ELSE m.isos[m.selected]

-----------------------------------------------------------------------------
Init ==
    /\ file \in {[vsh |-> Speeds + 1, game |-> 1, usb |-> Disc, umd |-> 3],
                 [vsh |-> 1, game |-> 0, usb |-> Disc + 1, umd |-> 4]}
    /\ config = file
    /\ videoiso_mounted = FALSE /\ umdfile = NoIso /\ served = NoIso
    /\ storage = FALSE /\ return_iso = FALSE /\ usbdev = FALSE
    /\ module = FALSE /\ hook = FALSE /\ pad = "read"
    /\ menu = Loaded(NoIso) /\ pc = "none"
    /\ chosen = NoIso /\ turned = {} /\ opened = Unopened /\ moves = 0 /\ marks = {}

-----------------------------------------------------------------------------
(* The XMB: sceCtrlReadBufferPositivePatched.                              *)

\* SELECT loads the menu and starts its thread
PadOpen ==
    /\ pad = "read" /\ ~module
    /\ module' = TRUE /\ pc' = "start"
    /\ menu' = Loaded(IF videoiso_mounted THEN umdfile ELSE NoIso)
    /\ turned' = {} /\ opened' = [config |-> file, image |-> menu'.given]
    /\ UNCHANGED <<settings, drive, usb, hook, pad, chosen, moves, marks>>

\* the buttons go to the menu: CtrlHooked.  Those that come when the thread has
\* left its loop make no difference
PadMenu(b) ==
    /\ pad = "read" /\ module /\ hook /\ pc = "loop"
    /\ menu' = [menu EXCEPT !.on = IF b = menu.held THEN None ELSE b, !.held = b]
    /\ UNCHANGED <<settings, drive, usb, module, hook, pad, pc, history>>

\* a menu that has no hook is stopped: module_stop waits for the thread.  Mark
\* "early": the thread had not come to register yet
PadStop ==
    /\ pad = "read" /\ module /\ ~hook
    /\ menu' = [menu EXCEPT !.stopit = 1] /\ pad' = "wait"
    /\ marks' = IF pc = "start" THEN marks \cup {"early"} ELSE marks
    /\ UNCHANGED <<settings, drive, usb, module, hook, pc, chosen, turned, opened, moves>>

Unload ==
    /\ pad = "wait" /\ pad' = "read" /\ module' = FALSE
    /\ pc' = "none" /\ menu' = Loaded(NoIso)
    /\ chosen' = NoIso /\ turned' = {} /\ opened' = Unopened
    /\ UNCHANGED <<settings, drive, usb, hook, moves>>

PadUnload == pc = "ended" /\ Unload /\ UNCHANGED marks

\* after 100 ms the thread is ended where it is.  Mark "cut"
PadTimeout == pc # "ended" /\ Unload /\ marks' = marks \cup {"cut"}

-----------------------------------------------------------------------------
(* The thread of the menu: vshmenu_thread.                                 *)

\* the settings are read, or all are zero.  Mark "blind"
Register ==
    /\ pc = "start" /\ pc' = "loop" /\ hook' = TRUE
    /\ \/ menu' = [menu EXCEPT !.config = file] /\ UNCHANGED marks
       \/ menu' = [menu EXCEPT !.config = Zeros] /\ marks' = marks \cup {"blind"}
    /\ UNCHANGED <<settings, drive, usb, module, pad, chosen, turned, opened, moves>>

\* the first frame of the menu proper lists the images
Listed(m, l) == [m EXCEPT !.inited = 1, !.isos = l, !.selected = Mounted(l, m.given)]

\* button_func
ButtonFunc(m) ==
    CASE m.mode = 0 ->
            {IF m.held \notin {None, "select"} THEN [m EXCEPT !.mode = 1] ELSE m}
      [] m.mode = 1 /\ m.inited = 0 -> {Listed(m, l) : l \in Listings}
      [] m.mode = 1 /\ m.inited # 0 -> {MenuCtrl(m)}
      [] OTHER ->
            {IF m.held = None THEN [m EXCEPT !.mode = 0, !.stopit = m.mode - 1] ELSE m}

\* a frame: what the file had out of range counts as turned
Frame ==
    /\ pc = "loop" /\ menu.stopit = 0
    /\ LET m == IF menu.inited = 0 THEN menu ELSE [Setup(menu) EXCEPT !.inited = 2]
           acts == m.mode = 1 /\ m.inited # 0 /\ Direction(m.on) # 0
       IN  /\ menu' \in ButtonFunc(m)
           /\ turned' = turned
                \cup (IF acts THEN {Line(m, m.on)} ELSE {})
                \cup (IF m.config.usb # menu.config.usb THEN {2} ELSE {})
                \cup (IF m.config.umd # menu.config.umd THEN {3} ELSE {})
           /\ moves' = IF acts THEN moves + 1 ELSE moves
    /\ chosen' = IF menu'.stopit # 0 THEN Shown(menu') ELSE chosen
    /\ UNCHANGED <<settings, drive, usb, module, hook, pad, pc, opened, marks>>

\* sctrlSESetConfig: the file and what went wrong.  Mark "unsaved": it could not
\* be opened; "emptied": it was, and could not be written
Saved(c) == {[file |-> c, mark |-> {}], [file |-> file, mark |-> {"unsaved"}],
             [file |-> Zeros, mark |-> {"emptied"}]}

\* the settings are saved if one was turned
Leave ==
    /\ pc = "loop" /\ menu.stopit # 0 /\ pc' = "exit"
    /\ \E s \in IF menu.changed THEN Saved(menu.config) ELSE {[file |-> file, mark |-> {}]} :
          file' = s.file /\ marks' = marks \cup s.mark
    /\ menu' = [menu EXCEPT !.sel = 0, !.held = None, !.on = None]      \* not used any more
    /\ UNCHANGED <<config, drive, usb, module, hook, pad, chosen, turned, opened, moves>>

\* vctrlVSHExitVSHMenu
Exit ==
    /\ pc = "exit"
    /\ hook' = FALSE /\ config' = menu.config
    /\ LET iso == Shown(menu) IN
       /\ pc' = CASE iso = NoIso /\ ~videoiso_mounted -> "ended"
                  [] iso = NoIso /\ videoiso_mounted -> "return"
                  [] iso # NoIso /\ ~videoiso_mounted -> "mount"
                  [] OTHER -> IF umdfile = iso THEN "ended" ELSE "unmount"
       /\ videoiso_mounted' = IF iso # NoIso THEN TRUE ELSE videoiso_mounted
    /\ marks' = marks \cup (IF storage /\ config.usb # menu.config.usb THEN {"switched"} ELSE {})
                      \cup (IF return_iso THEN {"crossed"} ELSE {})
    /\ UNCHANGED <<file, umdfile, served, usb, module, pad, menu, chosen, turned, opened, moves>>

\* ReturnToDisc
ReturnToDisc ==
    /\ pc = "return" /\ pc' = "ended"
    /\ served' = NoIso /\ videoiso_mounted' = FALSE
    /\ UNCHANGED <<settings, umdfile, usb, module, hook, pad, menu, history>>

\* sctrlSEUmountUmd of the image before
Umount ==
    /\ pc = "unmount" /\ pc' = "mount" /\ served' = NoIso
    /\ UNCHANGED <<settings, videoiso_mounted, umdfile, usb, module, hook, pad, menu, history>>

\* sctrlSEMountUmdFromFile
Mount ==
    /\ pc = "mount" /\ pc' = "ended"
    /\ umdfile' = Shown(menu) /\ served' = Shown(menu)
    /\ UNCHANGED <<settings, videoiso_mounted, usb, module, hook, pad, menu, history>>

-----------------------------------------------------------------------------
(* USB.  Mark "crossed": the menu is closed while USB has the image away,   *)
(* or USB takes or returns it while the menu mounts; "switched": the menu  *)
(* changes the device while it is in use; "nodevice": the image went for a *)
(* device whose module could not be loaded.                                *)

Crossing == pc \in {"return", "unmount", "mount"}

\* sceUsbStartPatched: a device that is not the stick has a module of its own
UsbStart ==
    /\ ~storage /\ storage' = TRUE
    /\ IF config.usb \in 1 .. Disc
       THEN LET away == videoiso_mounted /\ config.usb = Disc IN
            /\ usbdev' \in BOOLEAN
            /\ return_iso' = IF away THEN TRUE ELSE return_iso
            /\ videoiso_mounted' = IF away THEN FALSE ELSE videoiso_mounted
            /\ served' = IF away THEN NoIso ELSE served
            /\ marks' = marks \cup (IF away /\ Crossing THEN {"crossed"} ELSE {})
                              \cup (IF away /\ ~usbdev' THEN {"nodevice"} ELSE {})
       ELSE UNCHANGED <<usbdev, return_iso, videoiso_mounted, served, marks>>
    /\ UNCHANGED <<settings, umdfile, module, hook, pad, menu, pc, chosen, turned, opened, moves>>

\* sceUsbStopPatched, with the settings of now
UsbStop ==
    /\ storage /\ storage' = FALSE
    /\ IF usbdev /\ config.usb \in 1 .. Disc
       THEN LET back == return_iso /\ config.usb = Disc IN
            /\ usbdev' \in {FALSE, usbdev}
            /\ return_iso' = IF back THEN FALSE ELSE return_iso
            /\ videoiso_mounted' = IF back THEN TRUE ELSE videoiso_mounted
            /\ served' = IF back THEN umdfile ELSE served
            /\ marks' = marks \cup (IF back /\ Crossing THEN {"crossed"} ELSE {})
       ELSE UNCHANGED <<usbdev, return_iso, videoiso_mounted, served, marks>>
    /\ UNCHANGED <<settings, umdfile, module, hook, pad, menu, pc, chosen, turned, opened, moves>>

Next ==
    \/ PadOpen \/ PadStop \/ PadUnload \/ PadTimeout
    \/ \E b \in Buttons \cup {None} : PadMenu(b)
    \/ Register \/ Frame \/ Leave \/ Exit \/ ReturnToDisc \/ Umount \/ Mount
    \/ UsbStart \/ UsbStop

Spec == Init /\ [][Next]_vars

\* bounds: the settings and the image are moved MaxMoves times, and what
\* follows a menu that got a mark is not looked at
Bounded == moves <= MaxMoves /\ (marks = {} \/ module)

-----------------------------------------------------------------------------
(* Properties, of a menu whose thread has come to its end.                 *)

Ended == pc = "ended" /\ marks \cap {"cut", "early", "crossed"} = {}

\* The drive shows the image the menu showed when it was closed, and vshctrl
\* knows it.  An unmount that is not for the user (an early stop, a listing
\* without the image) is what breaks it in the code.
ChosenServed ==
    Ended /\ ~storage /\ marks \cap {"switched", "nodevice"} = {} =>
        served = chosen /\ (videoiso_mounted <=> served # NoIso)

\* An image whose line was not moved stays mounted, if it is listed and no
\* name that begins its own is.
ImageKept ==
    LET names == {menu.isos[i] : i \in 1 .. Len(menu.isos)} IN
    /\ Ended /\ ~storage /\ marks \cap {"switched", "nodevice"} = {}
    /\ 4 \notin turned /\ opened.image \in names
    /\ \A i \in names : <<i, opened.image>> \notin Prefixes
    => served = opened.image

\* The settings in effect are those of the file, and a setting whose line was
\* not moved is as the menu found it.
SettingsKept ==
    Ended /\ marks \cap {"blind", "unsaved", "emptied"} = {} =>
        /\ config = file
        /\ 0 \notin turned => file.vsh = opened.config.vsh
        /\ 1 \notin turned => file.game = opened.config.game
        /\ 2 \notin turned => file.usb = opened.config.usb
        /\ 3 \notin turned => file.umd = opened.config.umd

\* vshctrl calls a hook only of a module that is there, whose thread has
\* registered and not left.
HookAlive == hook /\ "cut" \notin marks => module /\ pc \in {"loop", "exit"}

\* When USB is over the image it took away is back.
ImageReturned ==
    ~storage /\ marks \cap {"switched", "nodevice", "crossed"} = {} => ~return_iso

MenuObeyed == ChosenServed /\ ImageKept /\ SettingsKept /\ HookAlive /\ ImageReturned
=============================================================================
