---------------------------- MODULE UsbDeviceProofs ---------------------------
(***************************************************************************)
(* What is proved of the USB device and of what chooses it.                *)
(*                                                                         *)
(* The device (UsbDevice), for any volumes, whatever fails and however     *)
(* devices are set over one another: what is taken from the file system is *)
(* given back but for what is known to be stranded, and the functions in   *)
(* place are those of the device that was set.                             *)
(*                                                                         *)
(* The volume made of a UMD (UmdVfat, the instance V), for any disc, any   *)
(* layout and requests of any length: the host reads the disc and a table  *)
(* that chains its clusters, and one that reads on never meets a drive     *)
(* that is somewhere else.                                                 *)
(*                                                                         *)
(* The menu (VshMenu, the instance M), for any images, listings, speeds    *)
(* and buttons: what it showed when it was closed is what the settings,    *)
(* the drive and USB go by.                                                *)
(*                                                                         *)
(* The list of its video images (VideoIsos, the instance I), for any names *)
(* and types, changes of the stick and size of the cache: the menu shows   *)
(* the images that are there, each once, and all that there is room for.   *)
(***************************************************************************)
EXTENDS MCUsbDevice, FiniteSetTheorems, SequenceTheorems, WellFoundedInduction, TLAPS

-----------------------------------------------------------------------------
(* A device that is finished gives back what it took.                      *)

\* While a device is in use, what it took is on its list, and what is stranded is
\* not given back by it; the functions of a device are in place only when the
\* unit and the buffer are, unless another was set over it
DeviceInv ==
    /\ TypeOK
    /\ inUse => owed \subseteq unassigned \cup stranded
    /\ pc \in {"set", "umd", "switch"} => inUse /\ (nested \/ table = "orig")
    /\ pc = "set" => device_unit \in Volumes /\ device_unit # Umd
    /\ pc \in {"umd", "switch"} => device_unit = Umd
    /\ pc = "switch" => sector
    /\ pc = "finish" => ~inUse /\ owed \subseteq mask \cup stranded
    /\ nested => inUse
    /\ FlashesReassigned /\ InPlace

\* A set of volumes has a first one
LEMMA FirstOf ==
  ASSUME NEW set \in SUBSET Volumes, set # {}
  PROVE  First(set) \in set
  <1>1. set \subseteq 0..3
    BY UsbDeviceAssumption
  <1>2. \E v \in set : \A w \in set : v <= w
    <2>1. CASE 0 \in set
      BY <1>1, <2>1
    <2>2. CASE 0 \notin set /\ 1 \in set
      BY <1>1, <2>2
    <2>3. CASE 0 \notin set /\ 1 \notin set /\ 2 \in set
      BY <1>1, <2>3
    <2>4. CASE 0 \notin set /\ 1 \notin set /\ 2 \notin set
      <3>1. \A w \in set : w = 3
        BY <1>1, <2>4
      <3> QED
        BY <3>1
    <2> QED
      BY <2>1, <2>2, <2>3, <2>4
  <1> QED
    BY <1>2 DEF First

LEMMA InitDeviceInv == Init => DeviceInv
  BY UsbDeviceAssumption DEF Init, DeviceInv, TypeOK, FlashesReassigned, InPlace, Units

LEMMA NextDeviceInv ==
  ASSUME DeviceInv, [Next]_vars
  PROVE  DeviceInv'
  <1>1. ASSUME NEW unit \in Units, NEW volumes \in SUBSET Volumes, SetDevice(unit, volumes)
        PROVE  DeviceInv'
    <2>1. pc = "idle" /\ stranded' = owed /\ owed' = owed /\ inUse' = TRUE
      BY <1>1 DEF SetDevice
    <2>2. (unit = Umd) \/ (unit \in Volumes /\ unit # Umd)
      BY UsbDeviceAssumption DEF Units, Umd
    <2>3. TypeOK'
      BY <1>1 DEF SetDevice, DeviceInv, TypeOK
    <2>4. nested' \/ table' = "orig"
      BY <1>1 DEF SetDevice, DeviceInv, TypeOK, InPlace
    <2>5. FlashesReassigned' /\ InPlace'
      BY <1>1, <2>1, <2>4 DEF SetDevice, FlashesReassigned, InPlace
    <2> QED
      BY <1>1, <2>1, <2>2, <2>3, <2>4, <2>5 DEF SetDevice, DeviceInv
  <1>2. CASE UmdFails \/ UmdReady
    BY <1>2 DEF UmdFails, UmdReady, DeviceInv, TypeOK, FlashesReassigned, InPlace
  <1>3. CASE Unassign
    <2>1. PICK v : v = First(mask)
      OBVIOUS
    <2>2. v \in mask /\ v \in Volumes
      BY <1>3, <2>1, FirstOf DEF Unassign, DeviceInv, TypeOK
    <2>3. /\ pc = "set" /\ mask' = mask \ {v}
          /\ UNCHANGED <<device_unit, sector, table, inUse, stranded, nested>>
          /\ \/ /\ v \in assigned /\ assigned' = assigned \ {v} /\ owed' = owed \cup {v}
                /\ unassigned' = unassigned \cup {v} /\ result' = "ok" /\ pc' = pc
             \/ /\ result' \in {"nodev", "error"} /\ pc' \in {pc, "idle"}
                /\ UNCHANGED <<assigned, owed, unassigned>>
      BY <1>3, <2>1 DEF Unassign
    <2>4. TypeOK'
      BY <2>2, <2>3 DEF DeviceInv, TypeOK
    <2> QED
      BY <2>2, <2>3, <2>4 DEF DeviceInv, FlashesReassigned, InPlace
  <1>4. CASE Switch
    BY <1>4 DEF Switch, DeviceInv, TypeOK, FlashesReassigned, InPlace, Units
  <1>5. CASE FinishDevice
    <2>1. owed \subseteq unassigned \cup stranded
      BY <1>5 DEF FinishDevice, DeviceInv, FlashesReassigned
    <2> QED
      BY <1>5, <2>1 DEF FinishDevice, DeviceInv, TypeOK, FlashesReassigned, InPlace
  <1>6. CASE Assign
    <2>1. PICK v : v = First(mask)
      OBVIOUS
    <2>2. v \in mask /\ v \in Volumes
      BY <1>6, <2>1, FirstOf DEF Assign, DeviceInv, TypeOK
    <2>3. /\ pc = "finish" /\ UNCHANGED <<device_unit, unassigned, sector, table, inUse, nested>>
          /\ \/ /\ v \notin assigned /\ assigned' = assigned \cup {v} /\ owed' = owed \ {v}
                /\ mask' = mask \ {v} /\ stranded' = stranded \ {v}
                /\ result' = result /\ pc' = pc
             \/ /\ result' = "error" /\ pc' = "idle" /\ mask' = {}
                /\ stranded' = stranded \cup (mask \cap owed)
                /\ UNCHANGED <<assigned, owed>>
      BY <1>6, <2>1 DEF Assign
    <2>4. TypeOK'
      BY <2>2, <2>3 DEF DeviceInv, TypeOK
    <2>5. owed' \subseteq mask' \cup stranded'
      BY <2>3 DEF DeviceInv
    <2>6. pc' = "idle" => owed' = stranded'
      BY <2>3, <2>4, <2>5 DEF TypeOK
    <2> QED
      BY <2>3, <2>4, <2>5, <2>6 DEF DeviceInv, FlashesReassigned, InPlace
  <1>7. CASE Finished
    BY <1>7 DEF Finished, DeviceInv, TypeOK, FlashesReassigned, InPlace
  <1>8. CASE UNCHANGED vars
    BY <1>8 DEF vars, DeviceInv, TypeOK, FlashesReassigned, InPlace
  <1> QED
    BY <1>1, <1>2, <1>3, <1>4, <1>5, <1>6, <1>7, <1>8 DEF Next

\* Whatever fails, and however often devices are set, set over one another and
\* finished: when no device is in use the volumes that stay taken are those a
\* failed assign left or a device set over another forgot, and the host is never
\* served by functions whose buffer or unit is not theirs, unless a device is
\* being set over one in use (usbdevice/main.c:370-596).
THEOREM SpecDevicesRight == Spec => []DevicesRight
  <1>1. DeviceInv /\ [Next]_vars => DeviceInv'
    BY NextDeviceInv
  <1>2. DeviceInv => DevicesRight
    BY DEF DeviceInv, DevicesRight
  <1> QED
    BY InitDeviceInv, <1>1, <1>2, PTL DEF Spec

-----------------------------------------------------------------------------
(* The menu (VshMenu).                                                     *)

Images   == Isos \cup {NoIso}
Pressed  == Buttons \cup {"none"}
Settings == [vsh : Int, game : Int, usb : Int, umd : Int]
Menus ==
    [stopit : Int, mode : Int, inited : Int, config : Settings, changed : BOOLEAN, sel : Int,
     selected : Nat, given : Images, isos : Seq(Isos), held : Pressed, on : Pressed]

\* The thread on its way through vctrlVSHExitVSHMenu
Mounting == mpc \in {"return", "unmount", "mount"}

MenuTypes ==
    /\ file \in Settings /\ config \in Settings /\ opened \in [config : Settings, image : Images]
    /\ menu \in Menus /\ menu.selected <= Len(menu.isos)
    /\ umdfile \in Images /\ served \in Images /\ chosen \in Images
    /\ videoiso_mounted \in BOOLEAN /\ storage \in BOOLEAN /\ return_iso \in BOOLEAN
    /\ usbdev \in BOOLEAN /\ module \in BOOLEAN /\ hook \in BOOLEAN
    /\ mpc \in {"none", "start", "loop", "exit", "return", "unmount", "mount", "ended"}

\* The thread belongs to a module that is there, and its hook to the thread in
\* its loop or behind it, unless it was cut off
MenuThread ==
    /\ module = FALSE <=> mpc = "none"
    /\ mpc \in {"loop", "exit"} => hook = TRUE
    /\ hook = TRUE /\ "cut" \notin marks => mpc \in {"loop", "exit"}
    /\ pad = "wait" => module = TRUE
    /\ mpc = "start" /\ "early" \notin marks => menu.stopit = 0

\* What was shown last is what is mounted
MenuShown ==
    /\ mpc # "none" => menu.given = opened.image
    /\ 4 \notin turned => menu.selected = M!Mounted(menu.isos, menu.given)
    /\ "cut" \notin marks /\ "early" \notin marks =>
         (Mounting \/ mpc \in {"exit", "ended"} \/ (mpc = "loop" /\ menu.stopit # 0)
            => chosen = M!Shown(menu))

\* The settings of the menu are those of the file until they are saved, but for
\* the lines that were moved
SameBut(c) ==
    /\ 0 \notin turned => c.vsh = opened.config.vsh
    /\ 1 \notin turned => c.game = opened.config.game
    /\ 2 \notin turned => c.usb = opened.config.usb
    /\ 3 \notin turned => c.umd = opened.config.umd
MenuSettings ==
    /\ mpc \in {"start", "loop"} => file = opened.config
    /\ mpc = "loop" /\ "blind" \notin marks =>
         SameBut(menu.config) /\ (menu.changed = FALSE => menu.config = file)
    /\ marks \cap {"blind", "unsaved", "emptied"} = {} =>
         /\ mpc = "exit" => menu.config = file
         /\ Mounting \/ mpc = "ended" => config = file
         /\ Mounting \/ mpc \in {"exit", "ended"} => SameBut(file)

\* The image that USB took away comes back when USB is over
MenuReturn ==
    marks \cap {"switched", "nodevice", "crossed"} = {} =>
        (return_iso = TRUE => storage = TRUE /\ usbdev = TRUE /\ config.usb = Disc)

\* The drive serves the image vshctrl takes for mounted, unless USB has it away
MenuDrive ==
    marks \cap {"cut", "early", "crossed", "switched", "nodevice"} = {} =>
        /\ return_iso = TRUE =>
             videoiso_mounted = FALSE /\ served = NoIso /\ umdfile # NoIso /\ ~Mounting
        /\ ~Mounting => /\ videoiso_mounted = TRUE <=> served # NoIso
                        /\ videoiso_mounted = TRUE => served = umdfile
        /\ mpc = "return" => chosen = NoIso
        /\ mpc \in {"unmount", "mount"} => chosen # NoIso /\ videoiso_mounted = TRUE
        /\ mpc = "ended" => IF return_iso THEN umdfile = chosen ELSE served = chosen

MenuInv == MenuTypes /\ MenuThread /\ MenuShown /\ MenuSettings /\ MenuReturn /\ MenuDrive

LEMMA MenuConstants ==
  /\ NoIso \notin Isos /\ Speeds \in Nat /\ Disc \in Nat /\ Disc > 0
  /\ \A l \in Listings : l \in Seq(Isos)
  BY PartsAssumption DEF M!VshMenuAssumption

\* A line that is moved changes its own setting
LEMMA TurnOne ==
  ASSUME NEW c \in Settings, c.umd \in 0..3, NEW line \in Int, NEW d \in Int
  PROVE  /\ M!Turn(c, line, d) \in Settings
         /\ line # 0 => M!Turn(c, line, d).vsh = c.vsh
         /\ line # 1 => M!Turn(c, line, d).game = c.game
         /\ line # 2 => M!Turn(c, line, d).usb = c.usb
         /\ line # 3 => M!Turn(c, line, d).umd = c.umd
         /\ line = 4 => M!Turn(c, line, d) = c
  <1>1. /\ M!Limit(M!Known(c.vsh) + d, 0, Speeds) \in Int
        /\ M!Limit(M!Known(c.game) + d, 0, Speeds) \in Int
        /\ M!Limit(c.usb + d, 0, Disc) \in Int
    BY MenuConstants DEF Settings, M!Limit, M!Known
  <1>2. M!AfterUmd[c.umd] \in Int /\ M!BeforeUmd[c.umd] \in Int
    BY DEF M!AfterUmd, M!BeforeUmd
  <1> QED
    BY <1>1, <1>2 DEF M!Turn, Settings

\* What is out of range is put right
LEMMA SetUp ==
  ASSUME NEW m \in Menus
  PROVE  /\ M!Setup(m) \in Menus
         /\ M!Setup(m).config.umd \in 0..3
         /\ M!Setup(m).config.vsh = m.config.vsh /\ M!Setup(m).config.game = m.config.game
         /\ M!Setup(m).changed = FALSE => m.changed = FALSE /\ M!Setup(m).config = m.config
         /\ M!Setup(m).given = m.given /\ M!Setup(m).isos = m.isos
         /\ M!Setup(m).selected = m.selected /\ M!Setup(m).mode = m.mode
         /\ M!Setup(m).on = m.on
  <1> DEFINE c == M!Corrected(m.config)
  <1>1. c \in Settings /\ c.umd \in 0..3 /\ c.vsh = m.config.vsh /\ c.game = m.config.game
    <2>1. m.config \in Settings
      BY DEF Menus
    <2> DEFINE u == IF m.config.usb \in 0..Disc THEN m.config.usb ELSE 0
               v == IF m.config.umd \in 0..3 THEN m.config.umd ELSE 0
    <2>2. u \in Int /\ v \in 0..3
      BY MenuConstants
    <2>3. c = [m.config EXCEPT !.usb = u, !.umd = v]
      BY DEF M!Corrected
    <2> HIDE DEF u, v, c
    <2>4. c = [vsh |-> m.config.vsh, game |-> m.config.game, usb |-> u, umd |-> v]
      BY <2>1, <2>3 DEF Settings
    <2>5. m.config.vsh \in Int /\ m.config.game \in Int
      BY <2>1 DEF Settings
    <2> QED
      BY <2>2, <2>4, <2>5 DEF Settings
  <1> HIDE DEF c
  <1>2. M!Setup(m) = [m EXCEPT !.config = c,
                               !.changed = IF c # m.config THEN TRUE ELSE m.changed]
    BY DEF M!Setup, c, Menus
  <1> QED
    BY <1>1, <1>2 DEF Menus

\* A set of places has a first one
LEMMA FirstPlace ==
  ASSUME NEW at \in SUBSET Nat, at # {}
  PROVE  (CHOOSE i \in at : \A j \in at : i <= j) \in at
  <1>1. IsWellFoundedOn(OpToRel(<, Nat), Nat)
    BY NatLessThanWellFounded
  <1>2. PICK x \in at : \A y \in at : <<y, x>> \notin OpToRel(<, Nat)
    BY <1>1, WFMin, at \subseteq Nat
  <1>3. \A y \in at : ~(y < x)
    BY <1>2, at \subseteq Nat DEF OpToRel
  <1>4. \A y \in at : x <= y
    BY <1>3, at \subseteq Nat
  <1> QED
    BY <1>4

\* The image that was given is found in the list, unless a name that begins its
\* own comes in between
LEMMA MountedAt ==
  ASSUME NEW l \in Seq(Isos), NEW given \in Images
  PROVE  /\ M!Mounted(l, given) \in 0..Len(l)
         /\ (\E i \in 1..Len(l) : l[i] = given)
              /\ (\A i \in 1..Len(l) : <<l[i], given>> \notin Prefixes)
            => M!Mounted(l, given) # 0 /\ l[M!Mounted(l, given)] = given
  <1> DEFINE fits == {i \in 1..Len(l) : l[i] = given \/ <<l[i], given>> \in Prefixes}
  <1> DEFINE least == CHOOSE i \in fits : \A j \in fits : i <= j
  <1>1. M!Mounted(l, given) = IF fits = {} THEN 0 ELSE least
    BY DEF M!Mounted
  <1>2. fits # {} => least \in fits
    BY FirstPlace, fits \in SUBSET Nat
  <1>3. M!Mounted(l, given) \in 0..Len(l) /\ (fits # {} => M!Mounted(l, given) \in fits)
    <2>1. fits \subseteq 1..Len(l) /\ Len(l) \in Nat
      OBVIOUS
    <2> HIDE DEF fits, least
    <2>2. CASE fits = {}
      BY <1>1, <2>1, <2>2
    <2>3. CASE fits # {}
      <3>1. M!Mounted(l, given) \in fits
        BY <1>1, <1>2, <2>3
      <3>2. M!Mounted(l, given) \in 1..Len(l)
        BY <2>1, <3>1, Zenon
      <3> QED
        BY <2>1, <3>1, <3>2
    <2> QED
      BY <2>2, <2>3
  <1>4. ASSUME NEW i \in 1..Len(l), l[i] = given PROVE fits # {}
    BY <1>4
  <1>5. ASSUME \A i \in 1..Len(l) : <<l[i], given>> \notin Prefixes, NEW i \in fits
        PROVE  i # 0 /\ l[i] = given
    BY <1>5
  <1> QED
    BY <1>3, <1>4, <1>5

\* The image of a line is one of the list
LEMMA ShownImage ==
  ASSUME NEW m \in Menus, m.selected <= Len(m.isos)
  PROVE  M!Shown(m) \in Images
  BY DEF M!Shown, Menus, Images

\* menu_ctrl moves the line it is on: its setting is then changed, the others and
\* the list are not
LEMMA MovesOne ==
  ASSUME NEW m \in Menus, m.config.umd \in 0..3, m.selected <= Len(m.isos),
         NEW r, r = M!MenuCtrl(m)
  PROVE  /\ r \in Menus /\ r.selected <= Len(r.isos)
         /\ r.given = m.given /\ r.isos = m.isos /\ r.stopit = m.stopit
         /\ r.changed = FALSE => m.changed = FALSE /\ r.config = m.config
         /\ M!Direction(m.on) = 0 => r.config = m.config /\ r.selected = m.selected
         /\ M!Line(m, m.on) # 0 => r.config.vsh = m.config.vsh
         /\ M!Line(m, m.on) # 1 => r.config.game = m.config.game
         /\ M!Line(m, m.on) # 2 => r.config.usb = m.config.usb
         /\ M!Line(m, m.on) # 3 => r.config.umd = m.config.umd
         /\ M!Line(m, m.on) # 4 => r.selected = m.selected
  <1> DEFINE line == M!Line(m, m.on)
             d == M!Direction(m.on)
             moves1 == m.on \in M!Acting /\ d # 0
             changed == IF moves1 /\ line # 4 THEN TRUE ELSE m.changed
             turn == IF moves1 THEN M!Turn(m.config, line, d) ELSE m.config
             picked == IF moves1 /\ line = 4
                       THEN M!Limit(m.selected + d, 0, Len(m.isos)) ELSE m.selected
             next == CASE m.on \in M!Acting /\ line = 7 /\ d = 0 -> 2
                       [] m.on \in M!Acting /\ line = 5 -> 3
                       [] m.on \in M!Acting /\ line = 6 -> 4
                       [] OTHER -> 1
  <1>1. line \in Int /\ d \in Int /\ next \in Int
    BY DEF M!Line, M!Direction, M!Limit, M!Step, Menus
  <1>2. m.config \in Settings /\ m.selected \in Nat /\ m.isos \in Seq(Isos) /\ m.changed \in BOOLEAN
    BY DEF Menus
  <1>3. picked \in Nat /\ picked <= Len(m.isos)
    <2>1. Len(m.isos) \in Nat
      BY <1>2
    <2> QED
      BY <1>1, <1>2, <2>1 DEF M!Limit
  <1>4. /\ turn \in Settings
        /\ line # 0 => turn.vsh = m.config.vsh
        /\ line # 1 => turn.game = m.config.game
        /\ line # 2 => turn.usb = m.config.usb
        /\ line # 3 => turn.umd = m.config.umd
        /\ line = 4 => turn = m.config
    <2>1. CASE moves1
      BY <1>1, <1>2, <2>1, TurnOne
    <2>2. CASE ~moves1
      BY <1>2, <2>2
    <2> QED
      BY <2>1, <2>2
  <1>5. changed \in BOOLEAN /\ (changed = FALSE => m.changed = FALSE /\ turn = m.config)
    BY <1>2, <1>4
  <1>6. d = 0 => turn = m.config /\ picked = m.selected
    OBVIOUS
  <1>7. line # 4 => picked = m.selected
    OBVIOUS
  <1>8. r = [m EXCEPT !.sel = line, !.changed = changed, !.config = turn, !.selected = picked,
                      !.mode = next]
    BY DEF M!MenuCtrl
  <1> HIDE DEF line, d, changed, turn, picked, next
  <1>9. r = [stopit |-> m.stopit, mode |-> next, inited |-> m.inited, config |-> turn,
             changed |-> changed, sel |-> line, selected |-> picked, given |-> m.given,
             isos |-> m.isos, held |-> m.held, on |-> m.on]
    BY <1>8 DEF Menus
  <1>10. r \in Menus
    BY <1>1, <1>3, <1>4, <1>5, <1>9 DEF Menus
  <1> QED
    BY <1>3, <1>4, <1>5, <1>6, <1>7, <1>9, <1>10 DEF line, d

\* What a frame may change of the menu
KeptBy(r) ==
    /\ r \in Menus /\ r.selected <= Len(r.isos) /\ r.given = menu.given
    /\ r.changed = FALSE => menu.changed = FALSE /\ r.config = menu.config
    /\ 0 \notin turned' => r.config.vsh = menu.config.vsh
    /\ 1 \notin turned' => r.config.game = menu.config.game
    /\ 2 \notin turned' => r.config.usb = menu.config.usb
    /\ 3 \notin turned' => r.config.umd = menu.config.umd
    /\ 4 \notin turned' => \/ r.selected = menu.selected /\ r.isos = menu.isos
                           \/ r.selected = M!Mounted(r.isos, menu.given)

LEMMA FrameKeeps ==
  ASSUME MenuTypes, M!Frame
  PROVE  KeptBy(menu') /\ turned \subseteq turned'
  <1> DEFINE m == IF menu.inited = 0 THEN menu ELSE [M!Setup(menu) EXCEPT !.inited = 2]
             acts == m.mode = 1 /\ m.inited # 0 /\ M!Direction(m.on) # 0
  <1>1. /\ menu' \in M!ButtonFunc(m)
        /\ turned' = turned
             \cup (IF acts THEN {M!Line(m, m.on)} ELSE {})
             \cup (IF m.config.usb # menu.config.usb THEN {2} ELSE {})
             \cup (IF m.config.umd # menu.config.umd THEN {3} ELSE {})
    BY DEF M!Frame
  <1>2. menu \in Menus /\ menu.selected <= Len(menu.isos) /\ menu.isos \in Seq(Isos)
        /\ menu.given \in Images
    BY DEF MenuTypes, Menus
  <1>3. /\ m \in Menus /\ m.selected = menu.selected /\ m.isos = menu.isos /\ m.given = menu.given
        /\ m.config.vsh = menu.config.vsh /\ m.config.game = menu.config.game
        /\ m.changed = FALSE => menu.changed = FALSE /\ m.config = menu.config
        /\ m.inited # 0 => m.config.umd \in 0..3
    <2>1. CASE menu.inited = 0
      BY <1>2, <2>1
    <2>2. CASE menu.inited # 0
      <3>1. M!Setup(menu) \in Menus
        BY <1>2, SetUp
      <3>2. m = [M!Setup(menu) EXCEPT !.inited = 2]
        BY <2>2
      <3>3. /\ m \in Menus /\ m.config = M!Setup(menu).config /\ m.changed = M!Setup(menu).changed
            /\ m.selected = M!Setup(menu).selected /\ m.isos = M!Setup(menu).isos
            /\ m.given = M!Setup(menu).given
        BY <3>1, <3>2 DEF Menus
      <3>4. /\ M!Setup(menu).config.umd \in 0..3
            /\ M!Setup(menu).config.vsh = menu.config.vsh
            /\ M!Setup(menu).config.game = menu.config.game
            /\ M!Setup(menu).changed = FALSE =>
                 menu.changed = FALSE /\ M!Setup(menu).config = menu.config
            /\ M!Setup(menu).given = menu.given /\ M!Setup(menu).isos = menu.isos
            /\ M!Setup(menu).selected = menu.selected
        BY <1>2, SetUp
      <3> HIDE DEF m
      <3> QED
        BY <3>3, <3>4
    <2> QED
      BY <2>1, <2>2
  <1> HIDE DEF m
  <1>4. m.isos \in Seq(Isos) /\ m.selected <= Len(m.isos) /\ m.mode \in Int
    BY <1>2, <1>3 DEF Menus
  <1>5. turned \subseteq turned'
        /\ (2 \notin turned' => m.config.usb = menu.config.usb)
        /\ (3 \notin turned' => m.config.umd = menu.config.umd)
        /\ (acts => M!Line(m, m.on) \in turned')
    BY <1>1
  <1>6. KeptBy(m)
    BY <1>3, <1>4, <1>5 DEF KeptBy
  <1>7. ASSUME /\ menu' \in Menus /\ menu'.config = m.config /\ menu'.changed = m.changed
               /\ menu'.isos = m.isos /\ menu'.selected = m.selected /\ menu'.given = m.given
        PROVE  KeptBy(menu')
    BY <1>6, <1>7 DEF KeptBy
  <1>8. CASE m.mode = 0
    <2>1. menu' \in {m, [m EXCEPT !.mode = 1]}
      BY <1>1, <1>8 DEF M!ButtonFunc
    <2>2. /\ menu' \in Menus /\ menu'.config = m.config /\ menu'.changed = m.changed
          /\ menu'.isos = m.isos /\ menu'.selected = m.selected /\ menu'.given = m.given
      <3>1. CASE menu' = m
        BY <1>3, <3>1
      <3>2. CASE menu' = [m EXCEPT !.mode = 1]
        BY <1>3, <3>2 DEF Menus
      <3> QED
        BY <2>1, <3>1, <3>2
    <2>3. KeptBy(menu')
      BY <1>7, <2>2
    <2> QED
      BY <1>5, <2>3
  <1>9. CASE m.mode = 1 /\ m.inited = 0
    <2>1. PICK l \in Listings : menu' = M!Listed(m, l)
      BY <1>1, <1>9 DEF M!ButtonFunc
    <2>2. l \in Seq(Isos) /\ M!Mounted(l, m.given) \in 0..Len(l)
      BY <1>2, <1>3, MenuConstants, MountedAt
    <2>3. Len(l) \in Nat
      BY <2>2
    <2> DEFINE k == M!Mounted(l, m.given)
    <2>4. menu' = [m EXCEPT !.inited = 1, !.isos = l, !.selected = k]
      BY <2>1 DEF M!Listed
    <2>5. k \in Nat /\ k <= Len(l)
      BY <2>2, <2>3
    <2> HIDE DEF k
    <2>6. menu' = [stopit |-> m.stopit, mode |-> m.mode, inited |-> 1, config |-> m.config,
                   changed |-> m.changed, sel |-> m.sel, selected |-> k, given |-> m.given,
                   isos |-> l, held |-> m.held, on |-> m.on]
      BY <1>3, <2>4 DEF Menus
    <2>7. menu' \in Menus
      BY <1>3, <2>2, <2>5, <2>6 DEF Menus
    <2>8. menu'.selected = M!Mounted(menu'.isos, menu.given)
      BY <1>3, <2>6 DEF k
    <2>9. /\ menu'.given = m.given /\ menu'.config = m.config /\ menu'.changed = m.changed
          /\ menu'.selected = k /\ menu'.isos = l
      BY <2>6
    <2> QED
      BY <1>5, <1>6, <2>5, <2>7, <2>8, <2>9 DEF KeptBy
  <1>10. CASE m.mode = 1 /\ m.inited # 0
    <2>1. menu' = M!MenuCtrl(m)
      BY <1>1, <1>10 DEF M!ButtonFunc
    <2>2. /\ menu' \in Menus /\ menu'.selected <= Len(menu'.isos)
          /\ menu'.given = m.given /\ menu'.isos = m.isos
          /\ menu'.changed = FALSE => m.changed = FALSE /\ menu'.config = m.config
          /\ M!Direction(m.on) = 0 => menu'.config = m.config /\ menu'.selected = m.selected
          /\ M!Line(m, m.on) # 0 => menu'.config.vsh = m.config.vsh
          /\ M!Line(m, m.on) # 1 => menu'.config.game = m.config.game
          /\ M!Line(m, m.on) # 2 => menu'.config.usb = m.config.usb
          /\ M!Line(m, m.on) # 3 => menu'.config.umd = m.config.umd
          /\ M!Line(m, m.on) # 4 => menu'.selected = m.selected
      BY <1>3, <1>4, <1>10, <2>1, MovesOne
    <2>3. acts <=> M!Direction(m.on) # 0
      BY <1>10
    <2> HIDE DEF acts
    <2> QED
      BY <1>3, <1>5, <2>2, <2>3 DEF KeptBy
  <1>11. CASE m.mode # 0 /\ m.mode # 1
    <2>1. menu' \in {m, [m EXCEPT !.mode = 0, !.stopit = m.mode - 1]}
      BY <1>1, <1>11 DEF M!ButtonFunc
    <2>2. m.mode - 1 \in Int
      BY <1>4
    <2>3. /\ menu' \in Menus /\ menu'.config = m.config /\ menu'.changed = m.changed
          /\ menu'.isos = m.isos /\ menu'.selected = m.selected /\ menu'.given = m.given
      <3>1. CASE menu' = m
        BY <1>3, <3>1
      <3>2. CASE menu' = [m EXCEPT !.mode = 0, !.stopit = m.mode - 1]
        <4> DEFINE b == m.mode - 1
        <4>1. b \in Int /\ menu' = [m EXCEPT !.mode = 0, !.stopit = b]
          BY <2>2, <3>2
        <4> HIDE DEF b
        <4>2. menu' = [stopit |-> b, mode |-> 0, inited |-> m.inited, config |-> m.config,
                       changed |-> m.changed, sel |-> m.sel, selected |-> m.selected,
                       given |-> m.given, isos |-> m.isos, held |-> m.held, on |-> m.on]
          BY <1>3, <4>1 DEF Menus
        <4> QED
          BY <1>3, <4>1, <4>2 DEF Menus
      <3> QED
        BY <2>1, <3>1, <3>2
    <2>4. KeptBy(menu')
      BY <1>7, <2>3
    <2> QED
      BY <1>5, <2>4
  <1> QED
    BY <1>8, <1>9, <1>10, <1>11

\* The variables of a module that has just been loaded
LEMMA LoadedMenu ==
  ASSUME NEW given \in Images
  PROVE  /\ M!Loaded(given) \in Menus /\ M!Loaded(given).selected = 0
         /\ M!Loaded(given).isos = <<>> /\ M!Loaded(given).given = given
         /\ M!Loaded(given).stopit = 0 /\ M!Mounted(<<>>, given) = 0
         /\ M!Loaded(given).selected <= Len(M!Loaded(given).isos)
  <1>1. <<>> \in Seq(Isos) /\ Len(<<>>) = 0
    OBVIOUS
  <1>2. M!Mounted(<<>>, given) \in 0..Len(<<>>)
    BY <1>1, MountedAt
  <1>3. M!Zeros \in Settings
    BY DEF M!Zeros, Settings
  <1> QED
    BY <1>1, <1>2, <1>3 DEF M!Loaded, M!None, Menus, Pressed

LEMMA MenuInit == M!Init => MenuInv
  <1> SUFFICES ASSUME M!Init PROVE MenuInv
    OBVIOUS
  <1>1. NoIso \in Images
    BY DEF Images
  <1>2. menu \in Menus /\ menu.selected = 0 /\ menu.isos = <<>> /\ menu.given = NoIso
        /\ M!Mounted(<<>>, NoIso) = 0 /\ menu.selected <= Len(menu.isos)
    BY <1>1, LoadedMenu DEF M!Init
  <1>3. file \in Settings /\ config \in Settings
    BY MenuConstants DEF M!Init, Settings
  <1>4. opened \in [config : Settings, image : Images]
    BY <1>1 DEF M!Init, M!Unopened, M!Zeros, Settings
  <1>5. MenuTypes
    BY <1>1, <1>2, <1>3, <1>4 DEF MenuTypes, M!Init
  <1>6. MenuThread /\ MenuShown
    BY <1>2 DEF MenuThread, MenuShown, Mounting, M!Init
  <1>7. MenuSettings /\ MenuReturn /\ MenuDrive
    BY DEF MenuSettings, MenuReturn, MenuDrive, Mounting, M!Init
  <1> QED
    BY <1>5, <1>6, <1>7 DEF MenuInv

\* SELECT loads the menu, and one that has no hook is unloaded
LEMMA MenuOpens ==
  ASSUME MenuInv, M!PadOpen \/ M!PadUnload \/ M!PadTimeout
  PROVE  MenuInv'
  <1>1. PICK given \in Images : menu' = M!Loaded(given)
    BY DEF M!PadOpen, M!PadUnload, M!PadTimeout, M!Unload, MenuInv, MenuTypes, Images
  <1>2. menu' \in Menus /\ menu'.selected = 0 /\ menu'.isos = <<>> /\ menu'.given = given
        /\ M!Mounted(<<>>, given) = 0 /\ menu'.stopit = 0 /\ menu'.selected <= Len(menu'.isos)
    BY <1>1, LoadedMenu
  <1>3. UNCHANGED <<file, config, videoiso_mounted, umdfile, served, storage, return_iso, usbdev>>
        /\ marks \subseteq marks' /\ turned' = {} /\ hook' = hook
    BY DEF M!PadOpen, M!PadUnload, M!PadTimeout, M!Unload, M!settings, M!drive, M!usb
  <1>4. \/ mpc' = "start" /\ module' = TRUE /\ mpc = "none" /\ pad' = pad /\ marks' = marks
           /\ opened' = [config |-> file, image |-> given] /\ chosen' = chosen
        \/ mpc' = "none" /\ module' = FALSE /\ pad' = "read" /\ opened' = M!Unopened
           /\ chosen' = NoIso /\ ((marks' = marks /\ mpc = "ended") \/ "cut" \in marks')
    BY <1>1, <1>2 DEF M!PadOpen, M!PadUnload, M!PadTimeout, M!Unload, MenuInv, MenuThread
  <1>5. opened' \in [config : Settings, image : Images] /\ chosen' \in Images
    BY <1>4 DEF M!Unopened, M!Zeros, Settings, MenuInv, MenuTypes, Images
  <1>6. MenuTypes'
    BY <1>2, <1>3, <1>4, <1>5 DEF MenuInv, MenuTypes
  <1>7. MenuThread'
    BY <1>2, <1>3, <1>4 DEF MenuInv, MenuThread
  <1>8. MenuShown'
    BY <1>2, <1>3, <1>4 DEF MenuShown, Mounting
  <1>9. MenuSettings' /\ MenuReturn'
    BY <1>3, <1>4 DEF MenuInv, MenuSettings, MenuReturn, Mounting
  <1>10. MenuDrive'
    BY <1>3, <1>4 DEF MenuInv, MenuDrive, Mounting
  <1> QED
    BY <1>6, <1>7, <1>8, <1>9, <1>10 DEF MenuInv

\* The pad's buttons, and the stop of a menu that has no hook
LEMMA MenuPads ==
  ASSUME MenuInv, (\E b \in Buttons \cup {M!None} : M!PadMenu(b)) \/ M!PadStop
  PROVE  MenuInv'
  <1>1. /\ menu' \in Menus /\ menu'.config = menu.config /\ menu'.changed = menu.changed
        /\ menu'.isos = menu.isos /\ menu'.selected = menu.selected /\ menu'.given = menu.given
        /\ \/ menu'.stopit = menu.stopit
           \/ mpc # "loop" /\ (mpc = "start" => "early" \in marks')
    <2>1. CASE \E b \in Buttons \cup {M!None} : M!PadMenu(b)
      <3>1. PICK b \in Buttons \cup {M!None} : M!PadMenu(b)
        BY <2>1
      <3> DEFINE on == IF b = menu.held THEN M!None ELSE b
      <3>2. on \in Pressed /\ b \in Pressed
        BY DEF Pressed, M!None
      <3>3. menu' = [menu EXCEPT !.on = on, !.held = b]
        BY <3>1 DEF M!PadMenu
      <3> HIDE DEF on
      <3> QED
        BY <3>2, <3>3 DEF MenuInv, MenuTypes, Menus
    <2>2. CASE M!PadStop
      BY <2>2 DEF M!PadStop, MenuInv, MenuTypes, MenuThread, Menus
    <2> QED
      BY <2>1, <2>2
  <1>2. UNCHANGED <<file, config, videoiso_mounted, umdfile, served, storage, return_iso, usbdev,
                    module, hook, mpc, chosen, turned, opened>>
        /\ marks \subseteq marks' /\ marks' \subseteq marks \cup {"early"}
        /\ pad' \in {pad, "wait"} /\ module = TRUE
    BY DEF M!PadMenu, M!PadStop, M!settings, M!drive, M!usb, M!history, MenuInv, MenuTypes
  <1>3. MenuTypes'
    BY <1>1, <1>2 DEF MenuInv, MenuTypes
  <1>4. MenuThread'
    BY <1>1, <1>2 DEF MenuInv, MenuThread
  <1>5. MenuShown'
    BY <1>1, <1>2 DEF MenuInv, MenuShown, Mounting, M!Shown
  <1>6. MenuSettings'
    BY <1>1, <1>2 DEF MenuInv, MenuSettings, SameBut, Mounting
  <1>7. MenuReturn' /\ MenuDrive'
    BY <1>2 DEF MenuInv, MenuReturn, MenuDrive, Mounting
  <1> QED
    BY <1>3, <1>4, <1>5, <1>6, <1>7 DEF MenuInv

\* The thread reads the settings and registers
LEMMA MenuRegisters ==
  ASSUME MenuInv, M!Register
  PROVE  MenuInv'
  <1>1. PICK c \in Settings : /\ menu' = [menu EXCEPT !.config = c]
                              /\ \/ c = file /\ marks' = marks
                                 \/ marks' = marks \cup {"blind"}
    <2>1. M!Zeros \in Settings
      BY DEF M!Zeros, Settings
    <2> QED
      BY <2>1 DEF M!Register, MenuInv, MenuTypes
  <1>2. /\ menu' \in Menus /\ menu'.config = c /\ menu'.changed = menu.changed
        /\ menu'.isos = menu.isos /\ menu'.selected = menu.selected /\ menu'.given = menu.given
        /\ menu'.stopit = menu.stopit
    BY <1>1 DEF MenuInv, MenuTypes, Menus
  <1>3. UNCHANGED <<file, config, videoiso_mounted, umdfile, served, storage, return_iso, usbdev,
                    module, pad, chosen, turned, opened>>
        /\ mpc = "start" /\ mpc' = "loop" /\ hook' = TRUE
    BY DEF M!Register, M!settings, M!drive, M!usb
  <1>4. MenuTypes'
    BY <1>2, <1>3 DEF MenuInv, MenuTypes
  <1>5. MenuThread' /\ MenuShown'
    BY <1>1, <1>2, <1>3 DEF MenuInv, MenuThread, MenuShown, Mounting
  <1>6. MenuSettings'
    BY <1>1, <1>2, <1>3 DEF MenuInv, MenuSettings, SameBut, Mounting
  <1>7. MenuReturn' /\ MenuDrive'
    BY <1>1, <1>3 DEF MenuInv, MenuReturn, MenuDrive, Mounting
  <1> QED
    BY <1>4, <1>5, <1>6, <1>7 DEF MenuInv

\* A frame
LEMMA MenuFrames ==
  ASSUME MenuInv, M!Frame
  PROVE  MenuInv'
  <1>1. KeptBy(menu') /\ turned \subseteq turned'
    BY FrameKeeps DEF MenuInv
  <1>2. UNCHANGED <<file, config, videoiso_mounted, umdfile, served, storage, return_iso, usbdev,
                    module, hook, pad, mpc, opened, marks>>
        /\ mpc = "loop"
        /\ chosen' = IF menu'.stopit # 0 THEN M!Shown(menu') ELSE chosen
    BY DEF M!Frame, M!settings, M!drive, M!usb
  <1>3. chosen' \in Images
    BY <1>1, <1>2, ShownImage DEF KeptBy, MenuInv, MenuTypes
  <1>4. MenuTypes'
    BY <1>1, <1>2, <1>3 DEF MenuInv, MenuTypes, KeptBy
  <1>5. MenuThread'
    BY <1>2 DEF MenuInv, MenuThread
  <1>6. MenuShown'
    <2>1. mpc' # "none" => menu'.given = opened'.image
      BY <1>1, <1>2 DEF MenuInv, MenuShown, KeptBy
    <2>2. 4 \notin turned' => menu'.selected = M!Mounted(menu'.isos, menu'.given)
      BY <1>1 DEF MenuInv, MenuShown, KeptBy
    <2>3. menu'.stopit # 0 => chosen' = M!Shown(menu')
      BY <1>2
    <2>4. mpc' = "loop"
      BY <1>2
    <2> QED
      BY <2>1, <2>2, <2>3, <2>4 DEF MenuShown, Mounting, M!Shown
  <1>7. MenuSettings'
    <2>1. ASSUME SameBut(menu.config) PROVE SameBut(menu.config)'
      BY <1>1, <1>2, <2>1 DEF SameBut, KeptBy
    <2>2. menu'.changed = FALSE => menu.changed = FALSE /\ menu'.config = menu.config
      BY <1>1 DEF KeptBy
    <2> QED
      BY <1>2, <2>1, <2>2 DEF MenuInv, MenuSettings, Mounting
  <1>8. MenuReturn' /\ MenuDrive'
    BY <1>2 DEF MenuInv, MenuReturn, MenuDrive, Mounting
  <1> QED
    BY <1>4, <1>5, <1>6, <1>7, <1>8 DEF MenuInv

\* The settings are saved
LEMMA MenuLeaves ==
  ASSUME MenuInv, M!Leave
  PROVE  MenuInv'
  <1>1. /\ menu' \in Menus /\ menu'.config = menu.config
        /\ menu'.isos = menu.isos /\ menu'.selected = menu.selected /\ menu'.given = menu.given
        /\ menu'.stopit = menu.stopit /\ menu.stopit # 0
    <2>1. menu' = [menu EXCEPT !.sel = 0, !.held = M!None, !.on = M!None] /\ menu.stopit # 0
      BY DEF M!Leave
    <2>2. M!None \in Pressed /\ menu \in Menus
      BY DEF M!None, Pressed, MenuInv, MenuTypes
    <2>3. menu' = [stopit |-> menu.stopit, mode |-> menu.mode, inited |-> menu.inited,
                   config |-> menu.config, changed |-> menu.changed, sel |-> 0,
                   selected |-> menu.selected, given |-> menu.given, isos |-> menu.isos,
                   held |-> M!None, on |-> M!None]
      BY <2>1, <2>2 DEF Menus
    <2>4. menu' \in Menus
      BY <2>2, <2>3 DEF Menus
    <2> QED
      BY <2>1, <2>3, <2>4
  <1>2. UNCHANGED <<config, videoiso_mounted, umdfile, served, storage, return_iso, usbdev,
                    module, hook, pad, chosen, turned, opened>>
        /\ mpc = "loop" /\ mpc' = "exit"
    BY DEF M!Leave, M!drive, M!usb
  <1>3. /\ marks \subseteq marks' /\ marks' \subseteq marks \cup {"unsaved", "emptied"}
        /\ file' \in {file, menu.config, M!Zeros}
        /\ \/ menu.changed = FALSE /\ file' = file
           \/ file' = menu.config
           \/ "unsaved" \in marks' \/ "emptied" \in marks'
    BY DEF M!Leave, M!Saved, MenuInv, MenuTypes, Menus
  <1>4. MenuTypes'
    <2>1. M!Zeros \in Settings
      BY DEF M!Zeros, Settings
    <2>2. menu.config \in Settings /\ file \in Settings
      BY DEF MenuInv, MenuTypes, Menus
    <2>3. file' \in Settings
      BY <1>3, <2>1, <2>2
    <2> QED
      BY <1>1, <1>2, <2>3 DEF MenuInv, MenuTypes
  <1>5. MenuThread' /\ MenuShown'
    BY <1>1, <1>2, <1>3 DEF MenuInv, MenuThread, MenuShown, Mounting, M!Shown
  <1>6. MenuSettings'
    BY <1>1, <1>2, <1>3 DEF MenuInv, MenuSettings, SameBut, Mounting
  <1>7. MenuReturn' /\ MenuDrive'
    BY <1>2, <1>3 DEF MenuInv, MenuReturn, MenuDrive, Mounting
  <1> QED
    BY <1>4, <1>5, <1>6, <1>7 DEF MenuInv

\* vshctrl takes the settings, and finds what there is to mount
LEMMA MenuExits ==
  ASSUME MenuInv, M!Exit
  PROVE  MenuInv'
  <1> DEFINE iso == M!Shown(menu)
  <1>1. /\ mpc = "exit" /\ hook' = FALSE /\ config' = menu.config
        /\ \/ iso = NoIso /\ videoiso_mounted = FALSE /\ mpc' = "ended"
              /\ videoiso_mounted' = videoiso_mounted
           \/ iso = NoIso /\ videoiso_mounted = TRUE /\ mpc' = "return"
              /\ videoiso_mounted' = videoiso_mounted
           \/ iso # NoIso /\ videoiso_mounted = FALSE /\ mpc' = "mount"
              /\ videoiso_mounted' = TRUE
           \/ iso # NoIso /\ videoiso_mounted = TRUE /\ umdfile = iso /\ mpc' = "ended"
              /\ videoiso_mounted' = TRUE
           \/ iso # NoIso /\ videoiso_mounted = TRUE /\ mpc' = "unmount"
              /\ videoiso_mounted' = TRUE
        /\ UNCHANGED <<file, umdfile, served, storage, return_iso, usbdev, module, pad, menu,
                       chosen, turned, opened>>
    BY DEF M!Exit, M!usb, MenuInv, MenuTypes
  <1>2. /\ marks \subseteq marks' /\ marks' \subseteq marks \cup {"switched", "crossed"}
        /\ storage = TRUE /\ config.usb # menu.config.usb => "switched" \in marks'
        /\ return_iso = TRUE => "crossed" \in marks'
    BY DEF M!Exit
  <1>3. MenuTypes'
    BY <1>1 DEF MenuInv, MenuTypes, Menus
  <1>4. MenuThread' /\ MenuShown'
    BY <1>1, <1>2 DEF MenuInv, MenuThread, MenuShown, Mounting
  <1>5. MenuSettings'
    BY <1>1, <1>2 DEF MenuInv, MenuSettings, SameBut, Mounting
  <1>6. MenuReturn'
    BY <1>1, <1>2 DEF MenuInv, MenuReturn, Mounting
  <1>7. MenuDrive'
    <2> SUFFICES ASSUME marks' \cap {"cut", "early", "crossed", "switched", "nodevice"} = {}
                 PROVE  /\ return_iso = FALSE
                        /\ mpc' = "ended" => (videoiso_mounted' = TRUE <=> served # NoIso)
                                             /\ (videoiso_mounted' = TRUE => served = umdfile)
                                             /\ served = chosen
                        /\ mpc' = "return" => chosen = NoIso
                        /\ mpc' \in {"unmount", "mount"} =>
                             chosen # NoIso /\ videoiso_mounted' = TRUE
      BY <1>1 DEF MenuDrive, Mounting, MenuInv, MenuTypes
    <2>1. marks \cap {"cut", "early", "crossed", "switched", "nodevice"} = {}
          /\ return_iso = FALSE
      BY <1>2 DEF MenuInv, MenuTypes
    <2>2. chosen = iso /\ (videoiso_mounted = TRUE <=> served # NoIso)
          /\ (videoiso_mounted = TRUE => served = umdfile)
      BY <1>1, <2>1 DEF MenuInv, MenuShown, MenuDrive, Mounting
    <2> QED
      BY <1>1, <2>1, <2>2
  <1> QED
    BY <1>3, <1>4, <1>5, <1>6, <1>7 DEF MenuInv

\* An image is taken out of the drive, or put into it
LEMMA MenuMounts ==
  ASSUME MenuInv, M!ReturnToDisc \/ M!Umount \/ M!Mount
  PROVE  MenuInv'
  <1> DEFINE iso == M!Shown(menu)
  <1>1. /\ \/ mpc = "return" /\ mpc' = "ended" /\ served' = NoIso /\ umdfile' = umdfile
              /\ videoiso_mounted' = FALSE
           \/ mpc = "unmount" /\ mpc' = "mount" /\ served' = NoIso /\ umdfile' = umdfile
              /\ videoiso_mounted' = videoiso_mounted
           \/ mpc = "mount" /\ mpc' = "ended" /\ served' = iso /\ umdfile' = iso
              /\ videoiso_mounted' = videoiso_mounted
        /\ UNCHANGED <<file, config, storage, return_iso, usbdev, module, hook, pad, menu,
                       chosen, turned, opened, marks>>
    BY DEF M!ReturnToDisc, M!Umount, M!Mount, M!settings, M!usb, M!history
  <1>2. iso \in Images /\ NoIso \in Images
    BY ShownImage DEF MenuInv, MenuTypes, Images
  <1>3. MenuTypes'
    BY <1>1, <1>2 DEF MenuInv, MenuTypes
  <1>4. MenuThread' /\ MenuShown'
    BY <1>1 DEF MenuInv, MenuThread, MenuShown, Mounting
  <1>5. MenuSettings'
    BY <1>1 DEF MenuInv, MenuSettings, SameBut, Mounting
  <1>6. MenuReturn'
    BY <1>1 DEF MenuInv, MenuReturn
  <1>7. MenuDrive'
    BY <1>1 DEF MenuInv, MenuShown, MenuDrive, Mounting
  <1> QED
    BY <1>3, <1>4, <1>5, <1>6, <1>7 DEF MenuInv

\* USB takes the image away and brings it back
LEMMA MenuUsb ==
  ASSUME MenuInv, M!UsbStart \/ M!UsbStop \/ UNCHANGED M!vars
  PROVE  MenuInv'
  <1>1. UNCHANGED <<file, config, umdfile, module, hook, pad, menu, mpc, chosen, turned, opened>>
        /\ marks \subseteq marks' /\ marks' \subseteq marks \cup {"crossed", "nodevice"}
    BY DEF M!UsbStart, M!UsbStop, M!vars, M!settings
  <1>2. \/ /\ UNCHANGED <<videoiso_mounted, served, marks>> /\ return_iso' = return_iso
           /\ (return_iso = FALSE \/ (storage' = storage /\ usbdev' = usbdev)
               \/ usbdev = FALSE \/ config.usb # Disc \/ storage = FALSE)
           /\ storage' \in BOOLEAN /\ usbdev' \in BOOLEAN
        \/ /\ storage = FALSE /\ storage' = TRUE /\ return_iso' = TRUE
           /\ videoiso_mounted = TRUE /\ videoiso_mounted' = FALSE /\ served' = NoIso
           /\ config.usb = Disc /\ usbdev' \in BOOLEAN
           /\ (Mounting => "crossed" \in marks') /\ (usbdev' = FALSE => "nodevice" \in marks')
        \/ /\ return_iso = TRUE /\ return_iso' = FALSE
           /\ videoiso_mounted' = TRUE /\ served' = umdfile
           /\ storage' \in BOOLEAN /\ usbdev' \in BOOLEAN
           /\ (Mounting => "crossed" \in marks')
    <2>1. CASE M!UsbStart
      <3>1. CASE config.usb \in 1..Disc /\ videoiso_mounted = TRUE /\ config.usb = Disc
        BY <2>1, <3>1 DEF M!UsbStart, M!Crossing, Mounting
      <3>2. CASE config.usb \in 1..Disc /\ ~(videoiso_mounted = TRUE /\ config.usb = Disc)
        BY <2>1, <3>2 DEF M!UsbStart, MenuInv, MenuTypes
      <3>3. CASE config.usb \notin 1..Disc
        BY <2>1, <3>3 DEF M!UsbStart, MenuInv, MenuTypes
      <3> QED
        BY <3>1, <3>2, <3>3
    <2>2. CASE M!UsbStop
      <3>1. CASE /\ usbdev = TRUE /\ config.usb \in 1..Disc
                 /\ return_iso = TRUE /\ config.usb = Disc
        BY <2>2, <3>1 DEF M!UsbStop, M!Crossing, Mounting
      <3>2. CASE /\ usbdev = TRUE /\ config.usb \in 1..Disc
                 /\ ~(return_iso = TRUE /\ config.usb = Disc)
        BY <2>2, <3>2 DEF M!UsbStop, MenuInv, MenuTypes
      <3>3. CASE usbdev = FALSE \/ config.usb \notin 1..Disc
        <4>1. usbdev = FALSE \/ config.usb # Disc
          BY <3>3, MenuConstants
        <4> QED
          BY <2>2, <3>3, <4>1 DEF M!UsbStop, MenuInv, MenuTypes
      <3> QED
        BY <3>1, <3>2, <3>3 DEF MenuInv, MenuTypes
    <2>3. CASE UNCHANGED M!vars
      BY <2>3 DEF M!vars, MenuInv, MenuTypes
    <2> QED
      BY <2>1, <2>2, <2>3
  <1>3. MenuTypes'
    BY <1>1, <1>2 DEF MenuInv, MenuTypes, Images
  <1>4. MenuThread' /\ MenuShown'
    BY <1>1 DEF MenuInv, MenuThread, MenuShown, Mounting
  <1>5. MenuSettings'
    BY <1>1 DEF MenuInv, MenuSettings, SameBut, Mounting
  <1>6. MenuReturn'
    BY <1>1, <1>2 DEF MenuInv, MenuReturn
  <1>7. MenuDrive'
    BY <1>1, <1>2 DEF MenuInv, MenuDrive, MenuTypes, Mounting
  <1> QED
    BY <1>3, <1>4, <1>5, <1>6, <1>7 DEF MenuInv


\* A menu that has come to its end did what it showed
LEMMA MenuPromises ==
  ASSUME MenuInv
  PROVE  M!MenuObeyed
  <1>1. M!ChosenServed
    <2> SUFFICES ASSUME mpc = "ended", marks \cap {"cut", "early", "crossed"} = {},
                        storage = FALSE, marks \cap {"switched", "nodevice"} = {}
                 PROVE  served = chosen /\ (videoiso_mounted = TRUE <=> served # NoIso)
      BY DEF M!ChosenServed, M!Ended, MenuInv, MenuTypes
    <2>1. return_iso = FALSE
      BY DEF MenuInv, MenuReturn, MenuTypes
    <2> QED
      BY <2>1 DEF MenuInv, MenuDrive, Mounting
  <1>2. M!ImageKept
    <2> DEFINE found == {menu.isos[i] : i \in 1..Len(menu.isos)}
    <2> SUFFICES ASSUME mpc = "ended", marks \cap {"cut", "early", "crossed"} = {},
                        storage = FALSE, marks \cap {"switched", "nodevice"} = {},
                        4 \notin turned, opened.image \in found,
                        \A n \in found : <<n, opened.image>> \notin Prefixes
                 PROVE  served = opened.image
      BY DEF M!ImageKept, M!Ended, MenuInv, MenuTypes
    <2>1. served = chosen
      BY <1>1 DEF M!ChosenServed, M!Ended
    <2>2. chosen = M!Shown(menu) /\ menu.given = opened.image
          /\ menu.selected = M!Mounted(menu.isos, menu.given)
      BY DEF MenuInv, MenuShown, Mounting
    <2>3. menu.isos \in Seq(Isos) /\ menu.given \in Images
      BY DEF MenuInv, MenuTypes, Menus
    <2>4. \E i \in 1..Len(menu.isos) : menu.isos[i] = menu.given
      BY <2>2
    <2>5. \A i \in 1..Len(menu.isos) : <<menu.isos[i], menu.given>> \notin Prefixes
      BY <2>2
    <2>6. M!Mounted(menu.isos, menu.given) # 0
          /\ menu.isos[M!Mounted(menu.isos, menu.given)] = menu.given
      BY <2>3, <2>4, <2>5, MountedAt
    <2>7. M!Shown(menu) = menu.isos[menu.selected]
      BY <2>2, <2>6 DEF M!Shown
    <2> QED
      BY <2>1, <2>2, <2>6, <2>7
  <1>3. M!SettingsKept
    BY DEF M!SettingsKept, M!Ended, MenuInv, MenuSettings, SameBut, Mounting
  <1>4. M!HookAlive
    BY DEF M!HookAlive, MenuInv, MenuTypes, MenuThread
  <1>5. M!ImageReturned
    BY DEF M!ImageReturned, MenuInv, MenuTypes, MenuReturn
  <1> QED
    BY <1>1, <1>2, <1>3, <1>4, <1>5 DEF M!MenuObeyed

\* Every step of the pad, of the thread of the menu and of USB keeps the
\* invariant (vshctrl/main.c, satelite/main.c)
THEOREM SpecMenuInv == M!Spec => []MenuInv
  <1>1. MenuInv /\ [M!Next]_(M!vars) => MenuInv'
    <2> SUFFICES ASSUME MenuInv, [M!Next]_(M!vars) PROVE MenuInv'
      OBVIOUS
    <2>1. CASE M!PadOpen \/ M!PadUnload \/ M!PadTimeout
      BY <2>1, MenuOpens
    <2>2. CASE (\E b \in Buttons \cup {M!None} : M!PadMenu(b)) \/ M!PadStop
      BY <2>2, MenuPads
    <2>3. CASE M!Register
      BY <2>3, MenuRegisters
    <2>4. CASE M!Frame
      BY <2>4, MenuFrames
    <2>5. CASE M!Leave
      BY <2>5, MenuLeaves
    <2>6. CASE M!Exit
      BY <2>6, MenuExits
    <2>7. CASE M!ReturnToDisc \/ M!Umount \/ M!Mount
      BY <2>7, MenuMounts
    <2>8. CASE M!UsbStart \/ M!UsbStop \/ UNCHANGED M!vars
      BY <2>8, MenuUsb
    <2> QED
      BY <2>1, <2>2, <2>3, <2>4, <2>5, <2>6, <2>7, <2>8 DEF M!Next
  <1> QED
    BY MenuInit, <1>1, PTL DEF M!Spec

\* However the pad, the thread and USB take turns: a menu that ended of itself
\* leaves the image it showed in the drive and the settings it showed in effect,
\* what the user did not move is as it was, vshctrl never calls a hook of a
\* module that is gone, and USB gives the image back (satelite/main.c:64-190,
\* vshctrl/main.c:118-265, 304-360).
THEOREM SpecMenuObeyed == AllSpec => []MenuObeyed
  <1>1. AllInit /\ part = "menu" => M!Init
    BY DEF AllInit
  <1>2. part = "menu" /\ [AllNext]_allVars => (part = "menu")' /\ [M!Next]_(M!vars)
    BY DEF AllNext, allVars, menuVars, M!vars
  <1>3. ~(part = "menu") /\ [AllNext]_allVars => ~(part = "menu")'
    BY DEF AllNext, allVars
  <1>4. MenuInv \/ ~(part = "menu") => MenuObeyed
    BY MenuPromises DEF MenuObeyed
  <1> QED
    BY <1>1, <1>2, <1>3, <1>4, SpecMenuInv, PTL DEF AllSpec, M!Spec


-----------------------------------------------------------------------------
(* The volume made of a UMD (UmdVfat).                                     *)

LEMMA VolumeConstants ==
  /\ FileSizes \subseteq Nat /\ \A n \in FileSizes : n > 0 /\ 4 * n <= VfatSize
  /\ Lengths \subseteq Nat /\ \A n \in Lengths : n > 0
  /\ PerCluster \in Nat /\ PerCluster > 0 /\ PerFat \in Nat /\ PerFat > 2
  /\ Reserved \in Nat /\ Reserved > 0 /\ FatLength \in Nat /\ RootLength \in Nat /\ RootLength > 0
  /\ VfatSize \in Nat /\ VfatSize <= PerCluster * (PerFat * FatLength - 2)
  /\ V!DataStart \in Nat
  BY PartsAssumption DEF V!UmdVfatAssumption, V!DataStart

LEMMA Quotient ==
  ASSUME NEW a \in Nat, NEW w \in Nat, w > 0
  PROVE  /\ a = (a \div w) * w + (a % w)
         /\ a \div w \in Nat /\ a % w \in 0..(w - 1)
  <1>1. a = (a \div w) * w + (a % w) /\ a % w \in 0..(w - 1)
    OBVIOUS
  <1>2. a \div w \in Nat
    OBVIOUS
  <1> QED
    BY <1>1, <1>2

\* The clusters are just enough for the disc, and the table has room for them
LEMMA ClustersFit ==
  ASSUME fileSize \in FileSizes
  PROVE  /\ V!Clusters \in Nat /\ V!Clusters > 0
         /\ V!Clusters * PerCluster >= V!Size /\ (V!Clusters - 1) * PerCluster < V!Size
         /\ V!Clusters + 1 < PerFat * FatLength
  <1> DEFINE size == V!Size
             q == size \div PerCluster
             r == size % PerCluster
             room == PerFat * FatLength - 2
             c == V!Clusters
  <1>1. size \in Nat /\ size > 0 /\ size <= VfatSize
    BY VolumeConstants DEF V!Size
  <1>2. size = q * PerCluster + r /\ q \in Nat /\ r \in 0..(PerCluster - 1)
    BY <1>1, VolumeConstants, Quotient
  <1>3. c = IF r # 0 THEN q + 1 ELSE q
    BY <1>2, VolumeConstants DEF V!Clusters
  <1>4. size <= PerCluster * room /\ room \in Int
    BY <1>1, VolumeConstants
  <1>5. PerCluster \in Nat /\ PerCluster > 0
    BY VolumeConstants
  <1> HIDE DEF size, q, r, room, c
  <1>6. c \in Nat /\ c * PerCluster >= size /\ (c - 1) * PerCluster < size /\ c > 0
    <2>1. CASE r = 0
      <3>1. c = q /\ size = q * PerCluster
        BY <1>2, <1>3, <1>5, <2>1
      <3>2. q # 0
        BY <1>1, <1>5, <3>1
      <3> QED
        BY <1>2, <1>5, <3>1, <3>2
    <2>2. CASE r # 0
      <3>1. c = q + 1 /\ (q + 1) * PerCluster = q * PerCluster + PerCluster
        BY <1>2, <1>3, <1>5, <2>2
      <3>2. (c - 1) * PerCluster = q * PerCluster
        BY <1>2, <3>1
      <3> QED
        BY <1>2, <1>5, <2>2, <3>1, <3>2
    <2> QED
      BY <2>1, <2>2
  <1>7. c - 1 < room
    <2> SUFFICES ASSUME room <= c - 1 PROVE FALSE
      BY <1>4, <1>6
    <2>1. PerCluster * room <= (c - 1) * PerCluster
      BY <1>4, <1>5, <1>6
    <2>2. (c - 1) * PerCluster \in Int /\ PerCluster * room \in Int /\ size \in Int
      BY <1>1, <1>4, <1>5, <1>6
    <2> QED
      BY <1>4, <1>6, <2>1, <2>2
  <1> QED
    BY <1>6, <1>7, VolumeConstants DEF size, room, c

\* Entry n of either copy is that of cluster n - 2 of the file
LEMMA EntryOf ==
  ASSUME NEW copy \in {0, 1}, NEW n \in Nat, n < PerFat * FatLength
  PROVE  V!Entry(copy, n) = IF n < 2 THEN V!EndOfFile
                            ELSE IF n - 2 >= V!Clusters THEN 0
                            ELSE IF n - 2 = V!Clusters - 1 THEN V!EndOfFile
                            ELSE n + 1
  <1> DEFINE q == n \div PerFat
             r == n % PerFat
             place == Reserved + copy * FatLength + q
  <1>1. n = q * PerFat + r /\ q \in Nat /\ r \in 0..(PerFat - 1)
    BY VolumeConstants, Quotient
  <1>2. PerFat \in Nat /\ PerFat > 2 /\ Reserved \in Nat /\ Reserved > 0 /\ FatLength \in Nat
    BY VolumeConstants
  <1>3. V!Entry(copy, n) = V!MadeUp(place)[2][r + 1]
    BY DEF V!Entry
  <1> HIDE DEF q, r
  <1>4. q < FatLength
    <2> SUFFICES ASSUME q >= FatLength PROVE FALSE
      BY <1>1, <1>2
    <2>1. q * PerFat >= PerFat * FatLength
      BY <1>1, <1>2
    <2>2. q * PerFat \in Int /\ PerFat * FatLength \in Int
      BY <1>1, <1>2
    <2> QED
      BY <1>1, <1>2, <2>1, <2>2
  <1>5. V!MadeUp(place) = <<"fat", V!AllocTableSector(q)>>
    <2>1. CASE copy = 0
      <3>1. place = Reserved + q /\ place # 0 /\ place \in Reserved..(Reserved + FatLength - 1)
            /\ place - Reserved = q
        BY <1>1, <1>2, <1>4, <2>1
      <3> HIDE DEF place
      <3> QED
        BY <3>1 DEF V!MadeUp
    <2>2. CASE copy = 1
      <3>1. /\ place = Reserved + FatLength + q /\ place # 0
            /\ place \notin Reserved..(Reserved + FatLength - 1)
            /\ place \in (Reserved + FatLength)..(Reserved + 2 * FatLength - 1)
            /\ place - Reserved - FatLength = q
        BY <1>1, <1>2, <1>4, <2>2
      <3> HIDE DEF place
      <3> QED
        BY <3>1 DEF V!MadeUp
    <2> QED
      BY <2>1, <2>2
  <1>6. V!Entry(copy, n) = V!AllocTableSector(q)[r + 1]
    BY <1>3, <1>5
  <1> DEFINE first == IF q = 0 THEN 0 ELSE PerFat * q - 2
             cluster(i) == IF q = 0 THEN i - 2 ELSE first + i
             entry(c) == IF c < 0 THEN V!EndOfFile
                         ELSE IF c >= V!Clusters THEN 0
                         ELSE IF c = V!Clusters - 1 THEN V!EndOfFile
                         ELSE c + 3
  <1>7. V!AllocTableSector(q) = [k \in 1..PerFat |-> entry(cluster(k - 1))]
    BY DEF V!AllocTableSector
  <1>8. cluster(r) = n - 2
    BY <1>1, <1>2
  <1>9. r + 1 \in 1..PerFat /\ (r + 1) - 1 = r
    BY <1>1, <1>2
  <1> HIDE DEF cluster, entry
  <1>10. V!AllocTableSector(q)[r + 1] = entry(n - 2)
    BY <1>7, <1>8, <1>9
  <1>11. (n - 2) + 3 = n + 1 /\ (n - 2 < 0 <=> n < 2)
    OBVIOUS
  <1> QED
    BY <1>6, <1>10, <1>11 DEF entry

\* Both copies of the table chain the clusters of the file
LEMMA TableChains ==
  ASSUME fileSize \in FileSizes
  PROVE  V!ChainCovers
  <1> DEFINE c == V!Clusters
             room == PerFat * FatLength
  <1>1. c \in Nat /\ c > 0 /\ c + 1 < room /\ room \in Nat
    BY ClustersFit, VolumeConstants
  <1>2. ASSUME NEW copy \in {0, 1}
        PROVE  /\ \A n \in 2..c : V!Entry(copy, n) = n + 1
               /\ V!Entry(copy, c + 1) = V!EndOfFile
               /\ \A n \in (c + 2)..(room - 1) : V!Entry(copy, n) = 0
    <2>1. \A n \in Nat : n < room =>
            V!Entry(copy, n) = IF n < 2 THEN V!EndOfFile
                               ELSE IF n - 2 >= c THEN 0
                               ELSE IF n - 2 = c - 1 THEN V!EndOfFile
                               ELSE n + 1
      BY EntryOf
    <2> HIDE DEF c, room
    <2> QED
      BY <1>1, <2>1
  <1> QED
    BY <1>2, ClustersFit DEF V!ChainCovers


\* A drive, and the buffer of ReadUmdSector with what it is said to hold
Drives == [last : Int, buf : Int, pos : Int, astray : BOOLEAN]
Reads  == [d : Drives, rem : Nat, lba : Nat, data : Seq({"umd"} \X Int)]
Holds(d) == d.astray = FALSE => d.last = -1 \/ d.buf = d.last

\* k host sectors of the disc from n on
Umds(n, k) == [i \in 1..k |-> <<"umd", n + i - 1>>]

LEMMA UmdsLength ==
  ASSUME NEW n \in Int, NEW k \in Nat
  PROVE  Umds(n, k) \in Seq({"umd"} \X Int) /\ Len(Umds(n, k)) = k
  BY DEF Umds

\* Sectors that follow one another
Join(n, a, m, b) == Umds(n, a) \o Umds(m, b) = Umds(n, a + b)

LEMMA UmdsJoin ==
  ASSUME NEW n \in Int, NEW m \in Int, NEW a \in Nat, NEW b \in Nat, b > 0 => m = n + a
  PROVE  Join(n, a, m, b)
  <1> DEFINE x == Umds(n, a)
             y == Umds(m, b)
             both == Umds(n, a + b)
             E == {"umd"} \X Int
  <1>1. /\ x \in Seq(E) /\ Len(x) = a /\ y \in Seq(E) /\ Len(y) = b
        /\ both \in Seq(E) /\ Len(both) = a + b
    BY UmdsLength, a + b \in Nat
  <1>2. /\ \A i \in 1..a : x[i] = <<"umd", n + i - 1>>
        /\ \A i \in 1..b : y[i] = <<"umd", m + i - 1>>
        /\ \A i \in 1..(a + b) : both[i] = <<"umd", n + i - 1>>
    BY DEF Umds
  <1> HIDE DEF x, y, both, E
  <1>3. x \o y \in Seq(E) /\ Len(x \o y) = a + b
    BY <1>1, ConcatProperties
  <1>4. ASSUME NEW i \in 1..(a + b) PROVE (x \o y)[i] = both[i]
    <2>1. (x \o y)[i] = IF i <= a THEN x[i] ELSE y[i - a]
      BY <1>1, ConcatProperties
    <2>2. CASE i <= a
      <3>1. i \in 1..a
        BY <2>2
      <3> QED
        BY <1>2, <2>1, <2>2, <3>1
    <2>3. CASE i > a
      <3>1. i - a \in 1..b /\ b > 0 /\ ~(i <= a)
        BY <2>3
      <3>2. m + (i - a) - 1 = n + i - 1
        BY <3>1
      <3>3. y[i - a] = <<"umd", m + (i - a) - 1>>
        BY <1>2, <3>1
      <3> QED
        BY <1>2, <2>1, <3>1, <3>2, <3>3
    <2>4. i <= a \/ i > a
      OBVIOUS
    <2> QED
      BY <2>2, <2>3, <2>4, Zenon
  <1>5. x \o y = both
    BY <1>1, <1>3, <1>4, SeqEqual
  <1> QED
    BY <1>5 DEF x, y, both, Join

\* What a call of ReadUmdSector for sector n makes of the drive d
OneRead(d, n, ok, r) ==
    /\ r \in Drives
    /\ Holds(d) => Holds(r)
    /\ r.astray = FALSE => d.astray = FALSE
    /\ Holds(d) /\ r.astray = FALSE /\ ok = TRUE /\ n < fileSize => r.buf = n
    /\ d.astray = FALSE /\ (d.last = n - 1 => d.pos = n) =>
         /\ r.astray = FALSE
         /\ \/ d.last = n /\ r = d
            \/ d.last # n /\ r.last = n /\ r.pos = n + 1
            \/ /\ d.last # n /\ r.last = d.last /\ r.pos = n
               /\ ok = FALSE \/ n >= fileSize

\* A sector is in the buffer when the drive was where it was taken to be
LEMMA ReadsOne ==
  ASSUME NEW d \in Drives, NEW n \in Nat, NEW ok \in BOOLEAN, fileSize \in Nat,
         NEW r, r = V!ReadUmdSector(d, n, ok)
  PROVE  OneRead(d, n, ok, r)
  <1> DEFINE at == IF d.last # n - 1 THEN n ELSE d.pos
             off == IF at = n THEN d.astray ELSE TRUE
  <1>1. at \in Int /\ off \in BOOLEAN
    <2>1. d.pos \in Int /\ d.astray \in BOOLEAN
      BY DEF Drives
    <2>2. at \in Int
      BY <2>1
    <2>3. off \in BOOLEAN
      BY <2>1, Zenon
    <2> QED
      BY <2>2, <2>3
  <1>2. CASE d.last = n
    <2>1. r = d
      BY <1>2 DEF V!ReadUmdSector
    <2> QED
      BY <1>2, <2>1 DEF Drives, Holds, OneRead
  <1>3. CASE d.last # n /\ ok = TRUE /\ at < fileSize
    <2>1. r = [d EXCEPT !.last = n, !.buf = at, !.pos = at + 1, !.astray = off]
      BY <1>3 DEF V!ReadUmdSector
    <2>2. off = FALSE => at = n /\ d.astray = FALSE
      OBVIOUS
    <2>3. d.astray = FALSE /\ (d.last = n - 1 => d.pos = n) => off = FALSE /\ at = n
      OBVIOUS
    <2> HIDE DEF at, off
    <2>4. r = [last |-> n, buf |-> at, pos |-> at + 1, astray |-> off]
      BY <2>1 DEF Drives
    <2> QED
      BY <1>1, <1>3, <2>2, <2>3, <2>4 DEF Drives, Holds, OneRead
  <1>4. CASE d.last # n /\ ~(ok = TRUE /\ at < fileSize)
    <2>1. r = [d EXCEPT !.pos = at, !.astray = off]
      BY <1>4 DEF V!ReadUmdSector
    <2>2. off = FALSE => at = n /\ d.astray = FALSE
      OBVIOUS
    <2>3. d.astray = FALSE /\ (d.last = n - 1 => d.pos = n) => off = FALSE /\ at = n
      OBVIOUS
    <2> HIDE DEF at, off
    <2>4. r = [last |-> d.last, buf |-> d.buf, pos |-> at, astray |-> off]
      BY <2>1 DEF Drives
    <2> QED
      BY <1>1, <1>4, <2>2, <2>3, <2>4 DEF Drives, Holds, OneRead
  <1> QED
    BY <1>2, <1>3, <1>4

LEMMA MovesDrive ==
  ASSUME NEW d \in Drives, NEW p \in Int, NEW a \in BOOLEAN,
         NEW r, r = [d EXCEPT !.pos = p, !.astray = a]
  PROVE  r = [last |-> d.last, buf |-> d.buf, pos |-> p, astray |-> a]
  BY DEF Drives

\* What the whole sectors of a read make of what it was
WholeRight(b, w) ==
    /\ w \in Reads /\ w.rem < 4 /\ (b.rem < 4 => w = b)
    /\ w.lba >= b.lba /\ 4 * (w.lba - b.lba) + w.rem = b.rem
    /\ w.d.last = b.d.last /\ w.d.buf = b.d.buf /\ w.d.pos = b.d.pos + (w.lba - b.lba)
    /\ w.d.astray = FALSE => b.d.astray = FALSE
    /\ w.d.astray = FALSE =>
         w.data = b.data \o Umds(4 * b.lba, 4 * (w.lba - b.lba))
    /\ b.d.astray = FALSE /\ (w.lba = b.lba \/ b.d.pos = b.lba) => w.d.astray = FALSE

\* The whole sectors of a read, and the sectors that are left
LEMMA ReadsWhole ==
  ASSUME NEW b \in Reads, NEW w, w = V!WholeSectors(b)
  PROVE  WholeRight(b, w)
  <1> DEFINE n == b.rem \div 4
             off == IF b.d.pos = b.lba THEN b.d.astray ELSE TRUE
             more == [k \in 1..(4 * n) |-> V!OfDisc(b.d.pos, k - 1)]
  <1>1. b.d \in Drives /\ b.rem \in Nat /\ b.lba \in Nat /\ b.data \in Seq({"umd"} \X Int)
    BY DEF Reads
  <1>2. n \in Nat /\ 4 * n <= b.rem /\ b.rem - 4 * n < 4 /\ b.rem - 4 * n \in Nat
    BY <1>1
  <1>3. CASE n = 0
    <2>1. w = b
      BY <1>3 DEF V!WholeSectors
    <2>2. Umds(4 * b.lba, 0) = <<>>
      BY DEF Umds
    <2>3. b.data \o <<>> = b.data
      BY <1>1, ConcatEmptySeq
    <2>4. b.d.pos \in Int
      BY <1>1 DEF Drives
    <2>5. b.lba - b.lba = 0 /\ b.lba >= b.lba /\ b.rem < 4
      <3> HIDE DEF n
      <3> QED
        BY <1>1, <1>2, <1>3
    <2>6. 4 * 0 + b.rem = b.rem /\ b.d.pos + 0 = b.d.pos /\ 4 * 0 = 0
      BY <1>1, <2>4
    <2>7. b.data = b.data \o Umds(4 * b.lba, 4 * (b.lba - b.lba))
      BY <2>2, <2>3, <2>5, <2>6
    <2>8. 4 * (b.lba - b.lba) + b.rem = b.rem /\ b.d.pos = b.d.pos + (b.lba - b.lba)
      BY <2>5, <2>6
    <2> HIDE DEF n
    <2> QED
      BY <1>1, <2>1, <2>5, <2>7, <2>8 DEF WholeRight
  <1>4. CASE n # 0
    <2>1. w = [d |-> [b.d EXCEPT !.pos = b.d.pos + n, !.astray = off],
               rem |-> b.rem - 4 * n, lba |-> b.lba + n, data |-> b.data \o more]
      BY <1>4 DEF V!WholeSectors
    <2>2. b.d.pos \in Int /\ off \in BOOLEAN
      <3>1. b.d.pos \in Int /\ b.d.astray \in BOOLEAN
        BY <1>1 DEF Drives
      <3> QED
        BY <3>1, Zenon
    <2>3. more = Umds(4 * b.d.pos, 4 * n)
      <3>1. \A k \in 1..(4 * n) : 4 * b.d.pos + (k - 1) = 4 * b.d.pos + k - 1
        BY <1>2, <2>2
      <3> QED
        BY <3>1 DEF Umds, V!OfDisc
    <2>4. b.data \o more \in Seq({"umd"} \X Int)
      <3>1. 4 * n \in Nat /\ 4 * b.d.pos \in Int
        BY <1>2, <2>2
      <3>2. more \in Seq({"umd"} \X Int)
        BY <2>3, <3>1, UmdsLength
      <3> HIDE DEF more
      <3> QED
        BY <1>1, <3>2, ConcatProperties
    <2>5. off = FALSE => b.d.pos = b.lba /\ b.d.astray = FALSE
      OBVIOUS
    <2>6. b.d.pos = b.lba /\ b.d.astray = FALSE => off = FALSE
      OBVIOUS
    <2> HIDE DEF n, off, more
    <2> DEFINE d == [last |-> b.d.last, buf |-> b.d.buf, pos |-> b.d.pos + n, astray |-> off]
    <2>7. [b.d EXCEPT !.pos = b.d.pos + n, !.astray = off] = d
      <3> DEFINE p == b.d.pos + n
      <3>1. p \in Int
        BY <1>2, <2>2
      <3> HIDE DEF p
      <3>2. [b.d EXCEPT !.pos = p, !.astray = off]
              = [last |-> b.d.last, buf |-> b.d.buf, pos |-> p, astray |-> off]
        BY <1>1, <2>2, <3>1, MovesDrive
      <3> QED
        BY <3>2 DEF p
    <2>8. d \in Drives
      BY <1>1, <1>2, <2>2 DEF Drives
    <2>9. w.d = d /\ w.rem = b.rem - 4 * n /\ w.lba = b.lba + n /\ w.data = b.data \o more
      BY <2>1, <2>7
    <2>10. w \in Reads
      BY <1>1, <1>2, <2>1, <2>4, <2>7, <2>8 DEF Reads
    <2>11. w.lba - b.lba = n /\ w.lba >= b.lba /\ w.lba # b.lba
      BY <1>1, <1>2, <1>4, <2>9
    <2>12. w.rem < 4 /\ 4 * (w.lba - b.lba) + w.rem = b.rem /\ ~(b.rem < 4)
      <3>1. w.rem < 4 /\ 4 * n + w.rem = b.rem
        BY <1>1, <1>2, <2>9
      <3>2. ~(b.rem < 4)
        BY <1>1, <1>2, <1>4
      <3> QED
        BY <2>11, <3>1, <3>2
    <2>13. w.d.last = b.d.last /\ w.d.buf = b.d.buf /\ w.d.pos = b.d.pos + n /\ w.d.astray = off
      BY <2>9
    <2>14. w.d.astray = FALSE => w.data = b.data \o Umds(4 * b.lba, 4 * (w.lba - b.lba))
      BY <2>3, <2>5, <2>9, <2>11, <2>13
    <2> QED
      BY <2>5, <2>6, <2>10, <2>11, <2>12, <2>13, <2>14 DEF WholeRight
  <1> QED
    BY <1>3, <1>4


\* What the beginning of a read of c host sectors from s on makes of it
BegunRight(s, c, ok, b) ==
    /\ b \in Reads /\ b.rem <= c
    /\ Holds(V!Drive) => Holds(b.d)
    /\ b.d.astray = FALSE => V!Drive.astray = FALSE
    /\ b.rem > 0 => 4 * b.lba = s + (c - b.rem)
    /\ Holds(V!Drive) /\ b.d.astray = FALSE /\ ok = TRUE => b.data = Umds(s, c - b.rem)
    /\ s % 4 = 0 => /\ b.d.pos = s \div 4 /\ b.d.last = V!Drive.last
                    /\ b.d.astray = V!Drive.astray
                    /\ b.rem = c /\ b.lba = s \div 4
    /\ s % 4 # 0 => /\ b.d = V!ReadUmdSector(V!Drive, s \div 4, ok)
                    /\ b.lba = s \div 4 + 1
                    /\ b.rem = IF c < 4 - (s % 4) THEN 0 ELSE c - (4 - (s % 4))

\* The rest of a disc sector, at the beginning of a read of c host sectors
LEMMA ReadsBegun ==
  ASSUME NEW s \in Nat, NEW c \in Nat, NEW ok \in BOOLEAN, fileSize \in Nat, s < 4 * fileSize,
         V!Drive \in Drives, NEW b, b = V!Begun(s, c, ok)
  PROVE  BegunRight(s, c, ok, b)
  <1> DEFINE x == s % 4
             q == s \div 4
             m == IF c < 4 - x THEN c ELSE 4 - x
             d == V!ReadUmdSector(V!Drive, q, ok)
             drive == V!Drive
             some == [k \in 1..m |-> V!OfDisc(d.buf, x + k - 1)]
  <1>1. s = 4 * q + x /\ q \in Nat /\ x \in 0..3 /\ q < fileSize
    OBVIOUS
  <1>2. /\ d \in Drives /\ (Holds(drive) => Holds(d))
        /\ d.astray = FALSE => drive.astray = FALSE
        /\ Holds(drive) /\ d.astray = FALSE /\ ok = TRUE => d.buf = q
    <2>1. d = V!ReadUmdSector(drive, q, ok) /\ drive \in Drives
      OBVIOUS
    <2> HIDE DEF d, drive, q
    <2>2. OneRead(drive, q, ok, d)
      BY <1>1, <2>1, ReadsOne
    <2> QED
      BY <1>1, <2>2 DEF OneRead
  <1>3. CASE x = 0
    <2>1. b = [d |-> [drive EXCEPT !.pos = q], rem |-> c, lba |-> q, data |-> <<>>]
      BY <1>3 DEF V!Begun
    <2>2. Umds(s, 0) = <<>> /\ <<>> \in Seq({"umd"} \X Int)
      BY DEF Umds
    <2> HIDE DEF drive, q
    <2> DEFINE p == [drive EXCEPT !.pos = q]
    <2>3. p \in Drives /\ p.last = drive.last /\ p.buf = drive.buf /\ p.astray = drive.astray
          /\ p.pos = q
      <3>1. drive \in Drives
        BY DEF drive
      <3>2. q \in Int
        BY <1>1
      <3> HIDE DEF drive, q
      <3> QED
        BY <3>1, <3>2 DEF Drives
    <2> HIDE DEF p
    <2>4. b.d = p /\ b.rem = c /\ b.lba = q /\ b.data = <<>>
      BY <2>1 DEF p
    <2>5. b \in Reads
      BY <1>1, <2>1, <2>2, <2>3 DEF p, Reads
    <2>6. 4 * b.lba = s + (c - b.rem) /\ c - b.rem = 0 /\ b.rem <= c
      BY <1>1, <1>3, <2>4
    <2>7. Holds(drive) => Holds(b.d)
      BY <2>3, <2>4 DEF Holds
    <2> QED
      BY <1>3, <2>2, <2>3, <2>4, <2>5, <2>6, <2>7 DEF drive, q, BegunRight
  <1>4. CASE x # 0
    <2>1. b = [d |-> d, rem |-> c - m, lba |-> q + 1, data |-> some]
      BY <1>4 DEF V!Begun
    <2>2. m \in Nat /\ m <= c /\ c - m \in Nat /\ (c - m > 0 => m = 4 - x) /\ c - (c - m) = m
          /\ c - m = IF c < 4 - x THEN 0 ELSE c - (4 - x)
      <3> HIDE DEF x
      <3> QED
        BY <1>1
    <2>3. d.buf \in Int
      BY <1>2 DEF Drives
    <2>4. some = Umds(4 * d.buf + x, m)
      <3>1. \A k \in 1..m : 4 * d.buf + (x + k - 1) = 4 * d.buf + x + k - 1
        <4> HIDE DEF x, d, m
        <4> QED
          BY <1>1, <2>2, <2>3
      <3> QED
        BY <3>1 DEF Umds, V!OfDisc
    <2>5. some \in Seq({"umd"} \X Int)
      <3>1. 4 * d.buf + x \in Int
        BY <1>1, <2>3
      <3> QED
        BY <2>2, <2>4, <3>1, UmdsLength
    <2>6. 4 * q + x = s /\ (c - m > 0 => 4 * (q + 1) = s + m)
      <3> HIDE DEF x, q, m
      <3> QED
        BY <1>1, <2>2
    <2> HIDE DEF some, d, m
    <2>7. b.d = d /\ b.rem = c - m /\ b.lba = q + 1 /\ b.data = some
      BY <2>1
    <2>8. b \in Reads
      <3>1. q + 1 \in Nat
        BY <1>1
      <3> HIDE DEF q
      <3> QED
        BY <1>2, <2>1, <2>2, <2>5, <3>1 DEF Reads
    <2>9. b.rem <= c /\ c - b.rem = m
      BY <2>2, <2>7
    <2>10. b.rem > 0 => 4 * b.lba = s + (c - b.rem)
      BY <2>2, <2>6, <2>7
    <2>11. Holds(drive) /\ b.d.astray = FALSE /\ ok = TRUE => b.data = Umds(s, c - b.rem)
      BY <1>2, <2>2, <2>4, <2>6, <2>7
    <2> HIDE DEF drive, x, q
    <2>12. x # 0 => /\ b.d = d /\ b.lba = q + 1
                    /\ b.rem = IF c < 4 - x THEN 0 ELSE c - (4 - x)
      BY <2>2, <2>7
    <2> QED
      BY <1>2, <1>4, <2>7, <2>8, <2>9, <2>10, <2>11, <2>12 DEF drive, x, q, d, BegunRight
  <1> QED
    BY <1>3, <1>4

\* The beginning of a disc sector, at the end of a read
LEMMA ReadsEnded ==
  ASSUME NEW w \in Reads, NEW ok \in BOOLEAN, fileSize \in Nat, NEW e, e = V!Ended(w, ok)
  PROVE  /\ e.d \in Drives
         /\ Holds(w.d) => Holds(e.d)
         /\ e.d.astray = FALSE => w.d.astray = FALSE
         /\ e.d = IF w.rem = 0 THEN w.d ELSE V!ReadUmdSector(w.d, w.lba, ok)
         /\ Holds(w.d) /\ e.d.astray = FALSE /\ ok = TRUE /\ (w.rem > 0 => w.lba < fileSize) =>
              e.data = w.data \o Umds(4 * w.lba, w.rem)
  <1>1. w.d \in Drives /\ w.rem \in Nat /\ w.lba \in Nat /\ w.data \in Seq({"umd"} \X Int)
    BY DEF Reads
  <1>2. CASE w.rem = 0
    <2>1. e = w
      BY <1>2 DEF V!Ended
    <2>2. Umds(4 * w.lba, 0) = <<>>
      BY DEF Umds
    <2>3. w.data \o <<>> = w.data
      BY <1>1, ConcatEmptySeq
    <2> QED
      BY <1>1, <1>2, <2>1, <2>2, <2>3
  <1>3. CASE w.rem # 0
    <2> DEFINE d == V!ReadUmdSector(w.d, w.lba, ok)
               some == [k \in 1..w.rem |-> V!OfDisc(d.buf, k - 1)]
    <2>1. e = [w EXCEPT !.d = d, !.data = w.data \o some]
      BY <1>3 DEF V!Ended
    <2>2. /\ d \in Drives /\ (Holds(w.d) => Holds(d))
          /\ d.astray = FALSE => w.d.astray = FALSE
          /\ Holds(w.d) /\ d.astray = FALSE /\ ok = TRUE /\ w.lba < fileSize => d.buf = w.lba
      <3>1. d = V!ReadUmdSector(w.d, w.lba, ok)
        OBVIOUS
      <3> HIDE DEF d
      <3>2. OneRead(w.d, w.lba, ok, d)
        BY <1>1, <3>1, ReadsOne
      <3> QED
        BY <1>1, <3>2 DEF OneRead
    <2>3. some = Umds(4 * d.buf, w.rem)
      <3>1. d.buf \in Int
        BY <2>2 DEF Drives
      <3>2. \A k \in 1..w.rem : 4 * d.buf + (k - 1) = 4 * d.buf + k - 1
        <4> HIDE DEF d
        <4> QED
          BY <1>1, <3>1
      <3> QED
        BY <3>2 DEF Umds, V!OfDisc
    <2> HIDE DEF d, some
    <2> DEFINE data == w.data \o some
    <2>4. e = [w EXCEPT !.d = d, !.data = data]
      BY <2>1
    <2> HIDE DEF data
    <2>5. e.d = d /\ e.data = data
      BY <2>4 DEF Reads
    <2> QED
      BY <1>1, <1>3, <2>2, <2>3, <2>5, w.rem > 0 DEF data, d
  <1> QED
    BY <1>2, <1>3


\* The buffer holds the sector it is said to hold, as long as the drive was
\* where it was taken to be, and the last read was right
VolInv ==
    /\ fileSize \in FileSizes /\ ptr \in Nat
    /\ V!Drive \in Drives /\ Holds(V!Drive)
    /\ V!ReadsRight

\* The volume is that of the disc, which stays
LEMMA VolumeStays ==
  ASSUME fileSize' = fileSize
  PROVE  V!Size' = V!Size /\ \A k : V!Volume(k)' = V!Volume(k)
  BY DEF V!Volume, V!MadeUp, V!AllocTableSector, V!Clusters, V!Size

LEMMA TakesDrive ==
  ASSUME NEW d \in Drives, V!Take(d)
  PROVE  V!Drive' = d
  BY DEF V!Take, V!Drive, Drives

\* The three parts of a read of c host sectors from s on: brem of them are left
\* when the sectors from blba on are read, wrem when that at wlba is
Joined(s, c, brem, blba, wrem, wlba) ==
    /\ (Umds(s, c - brem) \o Umds(4 * blba, 4 * (wlba - blba))) \o Umds(4 * wlba, wrem)
         = Umds(s, c)
    /\ wrem > 0 => wlba < fileSize

LEMMA PartsJoin ==
  ASSUME fileSize \in Nat, NEW s \in Nat, NEW c \in Nat, NEW brem \in Nat, NEW blba \in Nat,
         NEW wrem \in Nat, NEW wlba \in Nat,
         s + c <= 4 * fileSize, brem <= c, brem > 0 => 4 * blba = s + (c - brem),
         wlba >= blba, 4 * (wlba - blba) + wrem = brem
  PROVE  Joined(s, c, brem, blba, wrem, wlba)
  <1> DEFINE a == c - brem
             j == 4 * (wlba - blba)
             m == a + j
             y == 4 * blba
             z == 4 * wlba
  <1>1. /\ a \in Nat /\ j \in Nat /\ m \in Nat /\ s \in Int /\ y \in Int /\ z \in Int
        /\ j > 0 => y = s + a
        /\ wrem > 0 => z = s + m /\ wlba < fileSize
        /\ m = a + j /\ m + wrem = c
    OBVIOUS
  <1> HIDE DEF a, j, m, y, z
  <1>2. Join(s, a, y, j) /\ Join(s, m, z, wrem)
    BY <1>1, UmdsJoin
  <1>3. (Umds(s, a) \o Umds(y, j)) \o Umds(z, wrem) = Umds(s, c)
    BY <1>1, <1>2 DEF Join
  <1> QED
    BY <1>1, <1>3 DEF a, j, y, z, Joined

\* The parts of a read inside the disc are what it asked for
AllRead(s, c, b, w, e, ok) == ok = TRUE /\ e.d.astray = FALSE => e.data = Umds(s, c)

LEMMA ReadsAll ==
  ASSUME fileSize \in Nat, NEW s \in Nat, NEW c \in Nat, s + c <= 4 * fileSize,
         NEW b \in Reads, b.rem <= c, Holds(b.d), b.rem > 0 => 4 * b.lba = s + (c - b.rem),
         NEW ok \in BOOLEAN, ok = TRUE /\ b.d.astray = FALSE => b.data = Umds(s, c - b.rem),
         NEW w, w = V!WholeSectors(b), NEW e, e = V!Ended(w, ok)
  PROVE  AllRead(s, c, b, w, e, ok)
  <1>1. /\ w \in Reads /\ w.lba >= b.lba /\ 4 * (w.lba - b.lba) + w.rem = b.rem
        /\ w.d.last = b.d.last /\ w.d.buf = b.d.buf
        /\ w.d.astray = FALSE => b.d.astray = FALSE
        /\ w.d.astray = FALSE => w.data = b.data \o Umds(4 * b.lba, 4 * (w.lba - b.lba))
    <2>1. WholeRight(b, w)
      BY ReadsWhole
    <2> QED
      BY <2>1 DEF WholeRight
  <1>2. Holds(w.d)
    BY <1>1 DEF Holds
  <1>3. b.rem \in Nat /\ b.lba \in Nat /\ w.rem \in Nat /\ w.lba \in Nat
    BY <1>1 DEF Reads
  <1>4. Joined(s, c, b.rem, b.lba, w.rem, w.lba)
    BY <1>1, <1>3, PartsJoin
  <1>5. w.rem > 0 => w.lba < fileSize
    BY <1>4 DEF Joined
  <1>6. /\ e.d.astray = FALSE => w.d.astray = FALSE
        /\ e.d.astray = FALSE /\ ok = TRUE => e.data = w.data \o Umds(4 * w.lba, w.rem)
    BY <1>1, <1>2, <1>5, ReadsEnded
  <1> QED
    BY <1>1, <1>4, <1>6 DEF AllRead, Joined

\* A read of the data area
LEMMA VolumeReads ==
  ASSUME VolInv, NEW len \in Lengths, NEW ok \in BOOLEAN, V!ReadData(len, ok)
  PROVE  VolInv'
  <1> DEFINE s == ptr - V!DataStart
             c == V!Cut(s, len)
             b == V!Begun(s, c, ok)
             w == V!WholeSectors(b)
             e == V!Ended(w, ok)
             from == V!DataStart
  <1>1. fileSize \in FileSizes /\ fileSize \in Nat /\ 4 * fileSize <= VfatSize /\ ptr \in Nat
        /\ len \in Nat /\ len > 0 /\ VfatSize \in Nat /\ from \in Nat
        /\ V!Drive \in Drives /\ Holds(V!Drive)
    BY VolumeConstants DEF VolInv
  <1>2. ptr >= from /\ s < 4 * fileSize /\ fileSize' = fileSize
    BY DEF V!ReadData, V!InData, V!Size
  <1>3. s \in Nat /\ ptr = from + s
    BY <1>1, <1>2
  <1>4. c \in Nat /\ (s + len <= 4 * fileSize => c = len)
    BY <1>1, <1>2, <1>3 DEF V!Cut
  <1>5. \/ /\ V!Take(b.d) /\ ptr' = ptr /\ answer' = V!Nothing
        \/ /\ V!Take(e.d) /\ ptr' = ptr + len
           /\ answer' = [from |-> ptr, len |-> len, data |-> e.data, ok |-> ok]
    BY DEF V!ReadData
  <1> HIDE DEF s, c, from
  <1>6. b \in Reads /\ b.d \in Drives /\ Holds(b.d)
    <2>1. b = V!Begun(s, c, ok)
      OBVIOUS
    <2> HIDE DEF b
    <2>2. BegunRight(s, c, ok, b)
      BY <1>1, <1>2, <1>3, <1>4, <2>1, ReadsBegun
    <2>3. b \in Reads /\ Holds(b.d)
      BY <1>1, <2>2 DEF BegunRight
    <2> QED
      BY <2>3 DEF Reads
  <1>7. e.d \in Drives /\ Holds(e.d)
    <2>1. w = V!WholeSectors(b) /\ e = V!Ended(w, ok)
      OBVIOUS
    <2> HIDE DEF b, w, e
    <2>2. w \in Reads /\ w.d.last = b.d.last /\ w.d.buf = b.d.buf
          /\ (w.d.astray = FALSE => b.d.astray = FALSE)
      <3>1. WholeRight(b, w)
        BY <1>6, <2>1, ReadsWhole
      <3> QED
        BY <3>1 DEF WholeRight
    <2>3. Holds(w.d)
      BY <1>6, <2>2 DEF Holds
    <2> QED
      BY <1>1, <2>1, <2>2, <2>3, ReadsEnded
  <1>8. V!Drive' \in Drives /\ Holds(V!Drive')
    BY <1>5, <1>6, <1>7, TakesDrive
  <1>9. V!ReadsRight'
    <2>1. CASE answer' = V!Nothing
      BY <2>1 DEF V!ReadsRight, V!Nothing
    <2>2. CASE /\ V!Take(e.d)
               /\ answer' = [from |-> ptr, len |-> len, data |-> e.data, ok |-> ok]
      <3> SUFFICES ASSUME answer'.ok, ~astray',
                          V!InOneArea(answer.from, answer.from + answer.len)'
                   PROVE  answer'.data
                            = [k \in 1..answer'.len |-> V!Volume(answer.from + k - 1)']
        BY DEF V!ReadsRight
      <3>0. ok = TRUE /\ e.d.astray = FALSE /\ V!InOneArea(ptr, ptr + len)
        <4>1. V!Size' = V!Size
          BY <1>2, VolumeStays
        <4>2. answer'.from = ptr /\ answer'.len = len /\ answer'.ok = ok /\ astray' = e.d.astray
          BY <2>2 DEF V!Take
        <4>3. e.d.astray \in BOOLEAN
          BY <1>7 DEF Drives
        <4> HIDE DEF e
        <4> QED
          BY <4>1, <4>2, <4>3 DEF V!InOneArea
      <3>1. s + len <= 4 * fileSize
        BY <1>1, <1>3, <3>0 DEF V!InOneArea, V!Size, from
      <3>2. e.data = Umds(s, len)
        <4>1. b = V!Begun(s, len, ok) /\ w = V!WholeSectors(b) /\ e = V!Ended(w, ok)
          BY <1>4, <3>1
        <4> HIDE DEF b, w, e
        <4>2. BegunRight(s, len, ok, b)
          BY <1>1, <1>2, <1>3, <4>1, ReadsBegun
        <4>3. /\ b \in Reads /\ b.rem <= len /\ Holds(b.d)
              /\ b.rem > 0 => 4 * b.lba = s + (len - b.rem)
              /\ ok = TRUE /\ b.d.astray = FALSE => b.data = Umds(s, len - b.rem)
          BY <1>1, <4>2 DEF BegunRight
        <4>4. AllRead(s, len, b, w, e, ok)
          BY <1>1, <1>3, <3>1, <4>1, <4>3, ReadsAll
        <4> QED
          BY <3>0, <4>4 DEF AllRead
      <3>3. \A k \in 1..len : V!Volume(ptr + k - 1) = <<"umd", s + k - 1>>
        <4> SUFFICES ASSUME NEW k \in 1..len
                     PROVE  V!Volume(ptr + k - 1) = <<"umd", s + k - 1>>
          OBVIOUS
        <4>1. ptr + k - 1 >= from /\ ptr + k - 1 < from + 4 * fileSize
              /\ (ptr + k - 1) - from = s + k - 1
          BY <1>1, <1>3, <3>1
        <4> QED
          BY <4>1 DEF V!Volume, V!Size, from
      <3>4. \A k : V!Volume(k)' = V!Volume(k)
        BY <1>2, VolumeStays
      <3>5. answer'.from = ptr /\ answer'.len = len /\ answer'.data = e.data
        BY <2>2
      <3> HIDE DEF e
      <3> QED
        BY <3>2, <3>3, <3>4, <3>5 DEF Umds
    <2> QED
      BY <1>5, <2>1, <2>2
  <1>10. ptr' \in Nat /\ fileSize' \in FileSizes
    BY <1>1, <1>2, <1>5
  <1> QED
    BY <1>8, <1>9, <1>10 DEF VolInv


\* A read before the data area, or behind it
LEMMA VolumeMadeUp ==
  ASSUME VolInv, NEW len \in Lengths, V!ReadMadeUp(len)
  PROVE  VolInv'
  <1> DEFINE from == V!DataStart
  <1>1. fileSize \in FileSizes /\ fileSize \in Nat /\ ptr \in Nat /\ len \in Nat /\ len > 0
        /\ from \in Nat
    BY VolumeConstants DEF VolInv
  <1>2. ptr' = ptr + len /\ UNCHANGED <<fileSize, last, buf, pos, astray>>
        /\ (ptr < from \/ ptr - from >= 4 * fileSize)
    BY <1>1 DEF V!ReadMadeUp, V!InData, V!Size
  <1>3. V!Drive' = V!Drive
    BY <1>2 DEF V!Drive
  <1>4. V!ReadsRight'
    <2> SUFFICES ASSUME V!InOneArea(answer.from, answer.from + answer.len)'
                 PROVE  answer'.data
                          = [k \in 1..answer'.len |-> V!Volume(answer.from + k - 1)']
      BY DEF V!ReadsRight
    <2>1. /\ answer'.from = ptr /\ answer'.len = len
          /\ answer'.data = [k \in 1..len |-> V!MadeUp(ptr + k - 1)]
      BY DEF V!ReadMadeUp
    <2>2. ptr + len <= from \/ ptr >= from + 4 * fileSize
      <3>1. V!Size' = V!Size /\ V!Size = 4 * fileSize
        BY <1>2, VolumeStays DEF V!Size
      <3>2. ptr + len <= from \/ (ptr >= from /\ ptr + len <= from + 4 * fileSize)
        BY <2>1, <3>1 DEF V!InOneArea
      <3> HIDE DEF from
      <3> QED
        BY <1>1, <1>2, <3>2
    <2>3. \A k \in 1..len : V!Volume(ptr + k - 1) = V!MadeUp(ptr + k - 1)
      <3> SUFFICES ASSUME NEW k \in 1..len
                   PROVE  V!Volume(ptr + k - 1) = V!MadeUp(ptr + k - 1)
        OBVIOUS
      <3>1. ~(ptr + k - 1 >= from /\ ptr + k - 1 < from + 4 * fileSize)
        <4> HIDE DEF from
        <4> QED
          BY <1>1, <2>2
      <3> QED
        BY <3>1 DEF V!Volume, V!Size, from
    <2>4. \A k : V!Volume(k)' = V!Volume(k)
      BY <1>2, VolumeStays
    <2> QED
      BY <2>1, <2>3, <2>4
  <1>5. ptr' \in Nat
    BY <1>1, <1>2
  <1> QED
    BY <1>1, <1>2, <1>3, <1>4, <1>5 DEF VolInv

LEMMA VolumeInit == V!Init => VolInv
  <1> SUFFICES ASSUME V!Init PROVE VolInv
    OBVIOUS
  <1>1. V!Drive \in Drives /\ Holds(V!Drive)
    <2>1. V!Drive = [last |-> -1, buf |-> -1, pos |-> 0, astray |-> FALSE]
      BY DEF V!Init, V!Drive, V!NoSector
    <2> QED
      BY <2>1 DEF Drives, Holds
  <1>2. V!ReadsRight
    BY DEF V!Init, V!Nothing, V!ReadsRight
  <1> QED
    BY <1>1, <1>2 DEF V!Init, VolInv

\* Every step of the host keeps it
LEMMA VolumeSteps ==
  ASSUME VolInv, [V!Next]_(V!vars)
  PROVE  VolInv'
  <1>1. CASE V!Open
    <2>1. /\ last' = -1 /\ astray' = FALSE /\ buf' = buf /\ pos' = 0 /\ ptr' = 0
          /\ fileSize' = fileSize /\ answer'.ok = FALSE
      BY <1>1 DEF V!Open, V!NoSector, V!Nothing
    <2>2. V!Drive' \in Drives /\ Holds(V!Drive)'
      <3>1. V!Drive' = [last |-> -1, buf |-> buf, pos |-> 0, astray |-> FALSE]
        BY <2>1 DEF V!Drive
      <3>2. V!Drive.buf = buf /\ V!Drive.buf \in Int
        BY DEF VolInv, V!Drive, Drives
      <3> QED
        BY <3>1, <3>2 DEF Drives, Holds
    <2>3. V!ReadsRight'
      BY <2>1 DEF V!ReadsRight
    <2> QED
      BY <2>1, <2>2, <2>3 DEF VolInv
  <1>2. ASSUME NEW s \in 0..(V!DataStart + V!Size), V!Lseek(s) PROVE VolInv'
    <2>1. s \in Nat /\ ptr' = s /\ UNCHANGED <<fileSize, last, buf, pos, astray>>
          /\ answer'.ok = FALSE
      BY <1>2 DEF V!Lseek, V!Nothing
    <2>2. V!Drive' = V!Drive
      BY <2>1 DEF V!Drive
    <2>3. V!ReadsRight'
      BY <2>1 DEF V!ReadsRight
    <2> QED
      BY <2>1, <2>2, <2>3 DEF VolInv
  <1>3. ASSUME NEW len \in Lengths, NEW ok \in BOOLEAN, V!ReadData(len, ok) PROVE VolInv'
    BY <1>3, VolumeReads
  <1>4. ASSUME NEW len \in Lengths, V!ReadMadeUp(len) PROVE VolInv'
    BY <1>4, VolumeMadeUp
  <1>5. CASE UNCHANGED V!vars
    <2>1. UNCHANGED <<fileSize, ptr, last, buf, pos, astray, answer>>
      BY <1>5 DEF V!vars
    <2>2. V!Drive' = V!Drive /\ V!ReadsRight'
      BY <2>1, VolumeStays DEF V!Drive, V!ReadsRight, V!InOneArea, VolInv
    <2> QED
      BY <2>1, <2>2 DEF VolInv
  <1> QED
    BY <1>1, <1>2, <1>3, <1>4, <1>5 DEF V!Next, V!ReadOn


\* Where the drive is when the host has read on to sector 4 * q + x of the disc
PlacedAt(d, q, x) ==
    /\ d.last < q \/ (d.last = q /\ x # 0)
    /\ d.last = q => d.pos = q + 1
    /\ x # 0 /\ d.last = q - 1 => d.pos = q

Placed(d, s) == PlacedAt(d, s \div 4, s % 4)

StreamInv ==
    /\ VolInv /\ astray = FALSE
    /\ ptr < V!DataStart => last = -1 /\ pos = 0
    /\ V!InData => Placed(V!Drive, ptr - V!DataStart)

\* The end of a read leaves the drive behind what was read
LEMMA EndsPlaced ==
  ASSUME fileSize \in Nat, NEW w \in Reads, w.d.astray = FALSE, w.d.last < w.lba,
         w.rem > 0 /\ w.d.last = w.lba - 1 => w.d.pos = w.lba,
         NEW ok \in BOOLEAN, NEW e, e = V!Ended(w, ok)
  PROVE  e.d.astray = FALSE /\ PlacedAt(e.d, w.lba, w.rem)
  <1>1. w.d \in Drives /\ w.rem \in Nat /\ w.lba \in Nat /\ w.d.last \in Int
    BY DEF Reads, Drives
  <1>2. e.d = IF w.rem = 0 THEN w.d ELSE V!ReadUmdSector(w.d, w.lba, ok)
    BY ReadsEnded
  <1>3. CASE w.rem = 0
    BY <1>1, <1>2, <1>3 DEF PlacedAt
  <1>4. CASE w.rem # 0
    <2>1. OneRead(w.d, w.lba, ok, e.d)
      BY <1>1, <1>2, <1>4, ReadsOne
    <2>2. /\ e.d.astray = FALSE
          /\ \/ e.d.last = w.lba /\ e.d.pos = w.lba + 1
             \/ e.d.last = w.d.last /\ e.d.pos = w.lba
      BY <1>1, <1>4, <2>1 DEF OneRead
    <2> QED
      BY <1>1, <1>4, <2>2 DEF PlacedAt
  <1> QED
    BY <1>3, <1>4

\* What remains of a read of c host sectors from 4 * q + x on
LEMMA PlaceAfter ==
  ASSUME NEW s \in Nat, NEW c \in Nat, NEW lba \in Nat, NEW rem \in Nat, rem < 4,
         s + c = 4 * lba + rem
  PROVE  (s + c) \div 4 = lba /\ (s + c) % 4 = rem
  OBVIOUS

Onward(s, c, b, w, e, ok) ==
    /\ b.d.astray = FALSE /\ Placed(b.d, s)
    /\ ok = TRUE \/ b.rem < 4 => e.d.astray = FALSE /\ Placed(e.d, s + c)

LEMMA ReadsOnward ==
  ASSUME fileSize \in Nat, NEW s \in Nat, NEW c \in Nat, s < 4 * fileSize, c > 0,
         V!Drive \in Drives, V!Drive.astray = FALSE, Placed(V!Drive, s),
         NEW ok \in BOOLEAN, NEW b, BegunRight(s, c, ok, b),
         NEW w, w = V!WholeSectors(b), NEW e, e = V!Ended(w, ok)
  PROVE  Onward(s, c, b, w, e, ok)
  <1> DEFINE q == s \div 4
             x == s % 4
             d == V!Drive
  <1>1. s = 4 * q + x /\ q \in Nat /\ x \in 0..3 /\ q < fileSize
    OBVIOUS
  <1>2. b \in Reads /\ b.d \in Drives /\ b.rem \in Nat /\ b.lba \in Nat /\ b.d.last \in Int
    BY DEF BegunRight, Reads, Drives
  <1>3. PlacedAt(d, q, x) /\ d \in Drives /\ d.astray = FALSE /\ d.last \in Int
    BY DEF Placed, Drives
  <1>4. /\ w \in Reads /\ w.rem < 4 /\ (b.rem < 4 => w = b)
        /\ w.lba >= b.lba /\ 4 * (w.lba - b.lba) + w.rem = b.rem
        /\ w.d.last = b.d.last /\ w.d.pos = b.d.pos + (w.lba - b.lba)
        /\ b.d.astray = FALSE /\ (w.lba = b.lba \/ b.d.pos = b.lba) => w.d.astray = FALSE
    <2>1. WholeRight(b, w)
      BY <1>2, ReadsWhole
    <2> QED
      BY <2>1 DEF WholeRight
  <1>5. w.rem \in Nat /\ w.lba \in Nat /\ w.d.last \in Int
    BY <1>4 DEF Reads, Drives
  <1>6. w.d.astray = FALSE /\ w.d.last < w.lba
        /\ (w.rem > 0 /\ w.d.last = w.lba - 1 => w.d.pos = w.lba)
          => e.d.astray = FALSE /\ PlacedAt(e.d, w.lba, w.rem)
    BY <1>4, EndsPlaced
  <1>7. s + c = 4 * b.lba + b.rem => Placed(e.d, s + c) = PlacedAt(e.d, w.lba, w.rem)
    <2>1. ASSUME s + c = 4 * b.lba + b.rem PROVE s + c = 4 * w.lba + w.rem
      <3>1. 4 * (w.lba - b.lba) + w.rem = b.rem
        BY <1>4
      <3> QED
        BY <1>2, <1>5, <2>1, <3>1
    <2>2. s + c = 4 * w.lba + w.rem => (s + c) \div 4 = w.lba /\ (s + c) % 4 = w.rem
      BY <1>4, <1>5, PlaceAfter
    <2> QED
      BY <2>1, <2>2 DEF Placed
  <1> HIDE DEF q, x, d
  <1>8. CASE x = 0
    <2>1. b.d.pos = q /\ b.d.last = d.last /\ b.d.astray = d.astray /\ b.rem = c /\ b.lba = q
      BY <1>8 DEF BegunRight, q, x, d
    <2>2. PlacedAt(b.d, q, x) /\ b.d.last < q
      BY <1>1, <1>3, <1>8, <2>1 DEF PlacedAt
    <2>3. s + c = 4 * b.lba + b.rem
      BY <1>1, <1>8, <2>1
    <2>4. w.d.astray = FALSE /\ w.d.pos = w.lba /\ w.d.last < w.lba
      <3>1. w.lba >= q /\ w.d.last < q /\ w.d.pos = q + (w.lba - q)
        BY <1>4, <2>1, <2>2
      <3>2. w.d.astray = FALSE
        BY <1>3, <1>4, <2>1
      <3> QED
        BY <1>1, <1>5, <3>1, <3>2
    <2> QED
      BY <1>3, <1>6, <1>7, <2>1, <2>2, <2>3, <2>4 DEF Onward, Placed, q, x
  <1>9. CASE x # 0
    <2>1. /\ b.d = V!ReadUmdSector(d, q, ok) /\ b.lba = q + 1
          /\ b.rem = IF c < 4 - x THEN 0 ELSE c - (4 - x)
      BY <1>9 DEF BegunRight, q, x, d
    <2>2. OneRead(d, q, ok, b.d)
      BY <1>1, <1>3, <2>1, ReadsOne
    <2>3. /\ b.d.astray = FALSE
          /\ \/ b.d.last = q /\ b.d.pos = q + 1
             \/ b.d.last < q /\ b.d.pos = q /\ ok = FALSE
      <3>1. d.last = q - 1 => d.pos = q
        BY <1>3, <1>9 DEF PlacedAt
      <3>2. d.last = q => d.pos = q + 1
        BY <1>3 DEF PlacedAt
      <3>3. d.last # q => d.last < q
        BY <1>3 DEF PlacedAt
      <3>4. ~(q >= fileSize)
        BY <1>1
      <3> QED
        BY <1>3, <2>2, <3>1, <3>2, <3>3, <3>4 DEF OneRead
    <2>4. PlacedAt(b.d, q, x)
      BY <1>1, <1>2, <1>9, <2>3 DEF PlacedAt
    <2>5. CASE b.rem = 0
      <3>1. w = b
        BY <1>4, <2>5
      <3>2. w.d.astray = FALSE /\ e.d = w.d
        BY <1>4, <2>3, <2>5, <3>1, ReadsEnded
      <3>3. w.d.last = b.d.last /\ w.d.pos = b.d.pos
        BY <3>1
      <3>4. CASE c < 4 - x
        <4>1. s + c = 4 * q + (x + c) /\ x + c \in Nat /\ x + c < 4 /\ x + c # 0
          BY <1>1, <1>9, <3>4
        <4>2. (s + c) \div 4 = q /\ (s + c) % 4 = x + c
          BY <1>1, <4>1, PlaceAfter
        <4>3. PlacedAt(e.d, q, x + c)
          BY <1>1, <1>2, <2>3, <3>2, <3>3, <4>1 DEF PlacedAt
        <4> QED
          BY <2>3, <2>4, <3>2, <4>2, <4>3 DEF Onward, Placed, q, x
      <3>5. CASE ~(c < 4 - x)
        <4>1. s + c = 4 * (q + 1) + 0
          BY <1>1, <2>1, <2>5, <3>5
        <4>2. (s + c) \div 4 = q + 1 /\ (s + c) % 4 = 0
          BY <1>1, <4>1, PlaceAfter
        <4>3. PlacedAt(e.d, q + 1, 0)
          BY <1>1, <1>2, <2>3, <3>2, <3>3 DEF PlacedAt
        <4> QED
          BY <2>3, <2>4, <3>2, <4>2, <4>3 DEF Onward, Placed, q, x
      <3> QED
        BY <3>4, <3>5
    <2>6. CASE b.rem # 0
      <3>1. s + c = 4 * b.lba + b.rem
        BY <1>1, <1>2, <2>1, <2>6
      <3>2. ASSUME ok = TRUE \/ b.rem < 4
            PROVE  w.d.astray = FALSE /\ w.d.last < w.lba
                   /\ (w.rem > 0 /\ w.d.last = w.lba - 1 => w.d.pos = w.lba)
        <4>1. CASE b.d.last = q /\ b.d.pos = q + 1
          <5>1. w.lba >= q + 1 /\ w.d.last = q /\ w.d.pos = (q + 1) + (w.lba - (q + 1))
            BY <1>4, <2>1, <4>1
          <5>2. w.d.astray = FALSE
            BY <1>4, <2>1, <2>3, <4>1
          <5> QED
            BY <1>1, <1>5, <5>1, <5>2
        <4>2. CASE b.d.last < q /\ b.d.pos = q /\ ok = FALSE
          <5>1. b.rem < 4
            BY <3>2, <4>2
          <5>2. w.lba = b.lba
            BY <1>4, <5>1
          <5>3. w.d.astray = FALSE /\ w.d.last < q /\ w.lba = q + 1
            BY <1>4, <2>1, <2>3, <4>2, <5>2
          <5> QED
            BY <1>1, <1>5, <5>3
        <4> QED
          BY <2>3, <4>1, <4>2
      <3> QED
        BY <1>6, <1>7, <2>3, <2>4, <3>1, <3>2 DEF Onward, Placed, q, x
    <2> QED
      BY <2>5, <2>6
  <1> QED
    BY <1>8, <1>9


\* A read of the data area leaves the drive where the next one takes it to be
LEMMA StreamReads ==
  ASSUME StreamInv, NEW len \in Lengths, NEW ok \in BOOLEAN, V!ReadData(len, ok)
  PROVE  StreamInv'
  <1> DEFINE s == ptr - V!DataStart
             c == V!Cut(s, len)
             b == V!Begun(s, c, ok)
             w == V!WholeSectors(b)
             e == V!Ended(w, ok)
             from == V!DataStart
  <1>1. fileSize \in Nat /\ 4 * fileSize <= VfatSize /\ ptr \in Nat
        /\ len \in Nat /\ len > 0 /\ VfatSize \in Nat /\ from \in Nat
        /\ V!Drive \in Drives
    BY VolumeConstants DEF StreamInv, VolInv
  <1>2. ptr >= from /\ s < 4 * fileSize /\ fileSize' = fileSize /\ Placed(V!Drive, s)
    BY DEF V!ReadData, V!InData, V!Size, StreamInv
  <1>3. s \in Nat /\ ptr = from + s
    BY <1>1, <1>2
  <1>4. c \in Nat /\ c > 0 /\ (s + len < 4 * fileSize => c = len)
    BY <1>1, <1>2, <1>3 DEF V!Cut
  <1>5. \/ V!Take(b.d) /\ ptr' = ptr
        \/ V!Take(e.d) /\ ptr' = ptr + len /\ (ok = TRUE \/ ~(b.rem \div 4 > 0))
    BY DEF V!ReadData
  <1>6. V!Drive.astray = FALSE
    BY DEF V!Drive, StreamInv
  <1> HIDE DEF s, c, from
  <1>7. BegunRight(s, c, ok, b)
    BY <1>1, <1>2, <1>3, <1>4, ReadsBegun
  <1>8. Onward(s, c, b, w, e, ok)
    <2>1. w = V!WholeSectors(b) /\ e = V!Ended(w, ok)
      OBVIOUS
    <2> HIDE DEF b, w, e
    <2> QED
      BY <1>1, <1>2, <1>3, <1>4, <1>6, <1>7, <2>1, ReadsOnward
  <1>9. e.d \in Drives
    <2>1. w = V!WholeSectors(b) /\ e = V!Ended(w, ok) /\ b \in Reads
      BY <1>7 DEF BegunRight
    <2> HIDE DEF b, w, e
    <2>2. w \in Reads
      BY <2>1, ReadsWhole DEF WholeRight
    <2> QED
      BY <1>1, <2>1, <2>2, ReadsEnded
  <1> HIDE DEF b, w, e
  <1>10. b.rem \in Nat
    BY <1>7 DEF BegunRight, Reads
  <1>11. VolInv'
    BY VolumeReads DEF StreamInv
  <1>12. V!DataStart' = from /\ V!Size' = 4 * fileSize
         /\ (V!InData' <=> ptr' >= from /\ ptr' - from < 4 * fileSize)
    BY <1>2 DEF V!DataStart, V!Size, V!InData, from
  <1>13. CASE V!Take(b.d) /\ ptr' = ptr
    <2>1. V!Drive' = b.d /\ astray' = b.d.astray
      <3>1. b.d \in Drives
        BY <1>7 DEF BegunRight, Reads
      <3> QED
        BY <1>13, <3>1, TakesDrive DEF V!Take
    <2>2. Placed(V!Drive', s) /\ astray' = FALSE
      BY <1>8, <2>1 DEF Onward
    <2>3. ~(ptr' < from) /\ ptr' - from = s
      BY <1>1, <1>3, <1>13
    <2> QED
      BY <1>11, <1>12, <2>2, <2>3 DEF StreamInv, Placed, PlacedAt, from
  <1>14. CASE V!Take(e.d) /\ ptr' = ptr + len /\ (ok = TRUE \/ ~(b.rem \div 4 > 0))
    <2>1. ok = TRUE \/ b.rem < 4
      BY <1>10, <1>14
    <2>2. e.d.astray = FALSE /\ Placed(e.d, s + c)
      BY <1>8, <2>1 DEF Onward
    <2>3. V!Drive' = e.d /\ astray' = FALSE
      BY <1>14, <1>9, <2>2, TakesDrive DEF V!Take
    <2>4. ~(ptr' < from) /\ ptr' - from = s + len
      BY <1>1, <1>3, <1>14
    <2>5. V!InData' => Placed(V!Drive, ptr - V!DataStart)'
      <3> SUFFICES ASSUME V!InData' PROVE Placed(V!Drive, ptr - V!DataStart)'
        OBVIOUS
      <3>1. s + len < 4 * fileSize
        BY <1>12, <2>4
      <3>2. Placed(V!Drive', ptr' - V!DataStart')
        BY <1>4, <1>12, <2>2, <2>3, <2>4, <3>1
      <3> QED
        BY <3>2 DEF Placed, PlacedAt
    <2> QED
      BY <1>11, <1>12, <2>3, <2>4, <2>5 DEF StreamInv
  <1> QED
    BY <1>5, <1>13, <1>14

\* A host that reads on keeps it
LEMMA StreamSteps ==
  ASSUME StreamInv, [V!ReadOn]_(V!vars)
  PROVE  StreamInv'
  <1>1. VolInv'
    BY VolumeSteps DEF StreamInv, V!Next
  <1>2. CASE V!Open
    <2>1. last' = -1 /\ pos' = 0 /\ astray' = FALSE /\ ptr' = 0
      BY <1>2 DEF V!Open, V!NoSector
    <2>2. V!DataStart > 0 /\ V!DataStart' = V!DataStart /\ V!DataStart \in Nat
      BY VolumeConstants DEF V!DataStart
    <2>3. ptr' < V!DataStart' /\ ~V!InData'
      BY <2>1, <2>2 DEF V!InData
    <2> QED
      BY <1>1, <2>1, <2>3 DEF StreamInv
  <1>3. ASSUME NEW len \in Lengths, NEW ok \in BOOLEAN, V!ReadData(len, ok) PROVE StreamInv'
    BY <1>3, StreamReads
  <1>4. ASSUME NEW len \in Lengths, V!ReadMadeUp(len) PROVE StreamInv'
    <2> DEFINE from == V!DataStart
               s == (ptr + len) - from
    <2>1. fileSize \in Nat /\ ptr \in Nat /\ len \in Nat /\ len > 0 /\ from \in Nat
      BY VolumeConstants DEF StreamInv, VolInv
    <2>2. ptr' = ptr + len /\ UNCHANGED <<fileSize, last, buf, pos, astray>>
          /\ (ptr < from \/ ptr - from >= 4 * fileSize)
      BY <1>4, <2>1 DEF V!ReadMadeUp, V!InData, V!Size
    <2>3. V!Drive' = V!Drive /\ V!Drive.last = last /\ V!Drive.pos = pos /\ from' = from
          /\ (V!InData' <=> ptr' >= from /\ ptr' - from < 4 * fileSize)
      BY <2>2 DEF V!Drive, V!DataStart, V!InData, V!Size
    <2> HIDE DEF from
    <2>4. CASE ptr < from
      <3>1. last = -1 /\ pos = 0
        BY <2>4 DEF StreamInv, from
      <3>2. s >= 0 => PlacedAt(V!Drive, s \div 4, s % 4)
        <4> SUFFICES ASSUME s >= 0 PROVE PlacedAt(V!Drive, s \div 4, s % 4)
          OBVIOUS
        <4>1. s \div 4 \in Nat
          BY <2>1
        <4> HIDE DEF s
        <4> QED
          BY <2>3, <3>1, <4>1 DEF PlacedAt
      <3>3. V!InData' => s >= 0 /\ ptr' - from = s
        BY <2>1, <2>2, <2>3
      <3>4. V!InData' => Placed(V!Drive', ptr' - V!DataStart')
        BY <2>3, <3>2, <3>3 DEF Placed, from
      <3> QED
        BY <1>1, <2>2, <3>1, <3>4 DEF StreamInv, Placed, PlacedAt
    <2>5. CASE ptr - from >= 4 * fileSize
      <3>1. ~V!InData' /\ ~(ptr' < V!DataStart')
        BY <2>1, <2>2, <2>3, <2>5 DEF from
      <3> QED
        BY <1>1, <2>2, <3>1 DEF StreamInv
    <2> QED
      BY <2>2, <2>4, <2>5
  <1>5. CASE UNCHANGED V!vars
    <2>1. UNCHANGED <<fileSize, ptr, last, buf, pos, astray>>
      BY <1>5 DEF V!vars
    <2>2. V!Drive' = V!Drive /\ V!InData' = V!InData /\ V!DataStart' = V!DataStart
      BY <2>1 DEF V!Drive, V!InData, V!Size, V!DataStart
    <2> QED
      BY <1>1, <2>1, <2>2 DEF StreamInv, Placed, PlacedAt
  <1> QED
    BY <1>2, <1>3, <1>4, <1>5 DEF V!ReadOn

LEMMA StreamInit == V!Init => StreamInv
  <1> SUFFICES ASSUME V!Init PROVE StreamInv
    OBVIOUS
  <1>1. last = -1 /\ pos = 0 /\ ptr = 0 /\ astray = FALSE
    BY DEF V!Init, V!NoSector
  <1>2. V!DataStart > 0
    BY VolumeConstants DEF V!DataStart
  <1>3. ~V!InData
    BY <1>1, <1>2, VolumeConstants DEF V!InData
  <1> QED
    BY <1>1, <1>3, VolumeInit DEF StreamInv

\* Wherever the host reads the volume: the buffer of ReadUmdSector holds the
\* sector it is said to hold (usbdevice/main.c:197-224).
THEOREM SpecVolInv == V!Spec => []VolInv
  <1>1. VolInv /\ [V!Next]_(V!vars) => VolInv'
    BY VolumeSteps
  <1> QED
    BY VolumeInit, <1>1, PTL DEF V!Spec

\* A host that opens the volume and reads on never makes the drive read from
\* somewhere else than where the code takes it to be, whatever the lengths of its
\* reads and whichever of them fail (usbdevice/main.c:197-224, 261-330).
THEOREM StreamsNeverAstray == V!Streams => []V!NeverAstray
  <1>1. StreamInv /\ [V!ReadOn]_(V!vars) => StreamInv'
    BY StreamSteps
  <1>2. StreamInv => V!NeverAstray
    BY DEF StreamInv, V!NeverAstray
  <1> QED
    BY StreamInit, <1>1, <1>2, PTL DEF V!Streams

\* The host sees the disc: a read inside the file, or before the data area,
\* returns the sectors it asks for as long as the drive was where it was taken
\* to be; the table chains every cluster of the file once and in order; and a
\* host that only reads on never meets a drive that is somewhere else
\* (usbdevice/main.c:136-368).
THEOREM SpecVolumeServed == AllSpec => []VolumeServed
  <1>1. AllInit /\ part \in {"seek", "stream"} => V!Init
    BY DEF AllInit
  <1>2. part = "seek" /\ [AllNext]_allVars => (part = "seek")' /\ [V!Next]_(V!vars)
    BY DEF AllNext, allVars, vfatVars, V!vars
  <1>3. part = "stream" /\ [AllNext]_allVars => (part = "stream")' /\ [V!ReadOn]_(V!vars)
    BY DEF AllNext, allVars, vfatVars, V!vars
  <1> DEFINE Inv == \/ part = "seek" /\ VolInv
                    \/ part = "stream" /\ StreamInv
                    \/ part \notin {"seek", "stream"}
  <1>4. AllInit => Inv
    BY <1>1, VolumeInit, StreamInit
  <1>5. Inv /\ [AllNext]_allVars => Inv'
    <2> SUFFICES ASSUME Inv, [AllNext]_allVars PROVE Inv'
      OBVIOUS
    <2>1. part' = part
      BY DEF AllNext, allVars
    <2>2. CASE part = "seek" /\ VolInv
      BY <1>2, <2>1, <2>2, VolumeSteps
    <2>3. CASE part = "stream" /\ StreamInv
      BY <1>3, <2>1, <2>3, StreamSteps
    <2> QED
      BY <2>1, <2>2, <2>3
  <1>6. Inv => VolumeServed
    <2>1. VolInv => V!ReadsRight /\ V!ChainCovers
      BY TableChains DEF VolInv
    <2> QED
      BY <2>1 DEF VolumeServed, StreamInv, V!NeverAstray
  <1> HIDE DEF Inv
  <1> QED
    BY <1>4, <1>5, <1>6, PTL DEF AllSpec

-----------------------------------------------------------------------------
(* The list of the video images (VideoIsos).                               *)

VideoEntries ==
    [filename : VideoNames, disctype : VideoTypes \ {"none"}, mtime : Nat]

\* An entry is not from the future, and what it says of a file that it is of is so
Told(e) ==
    /\ e \in VideoEntries /\ e.mtime <= clock
    /\ I!Current(e) => e.disctype = stick[e.filename].type

\* A file on the stick has the time of a change that was made
StickInv ==
    /\ clock \in Nat /\ stick \in [VideoNames -> [type : VideoTypes, mtime : Nat]]
    /\ \A n \in VideoNames :
          stick[n].mtime <= clock /\ (stick[n] # I!NoFile => stick[n].mtime > 0)

\* A list of entries that are so, of which no two are of one file
EntriesInv(c) ==
    /\ c \in Seq(VideoEntries) /\ Len(c) <= VideoCells
    /\ \A i \in 1 .. Len(c) : Told(c[i])
    /\ \A i, j \in 1 .. Len(c) :
          I!Current(c[i]) /\ I!Current(c[j]) /\ c[i].filename = c[j].filename => i = j

\* An image that the directory has given is in the list, or there was no room
Met(n) ==
    \/ misread
    \/ \E i \in referenced : cache[i].filename = n
    \/ /\ Len(cache) >= VideoCells
       /\ \A i \in 1 .. Len(cache) : I!Current(cache[i]) => cache[i].filename # n

Outdated(c) == {i \in 1 .. Len(c) : ~I!Current(c[i])}

\* While the directory is read, the entries that are kept are of files that it
\* has given, and those that no file has are as many as they were
ListInv ==
    /\ names \subseteq I!Files /\ referenced \subseteq 1 .. Len(cache)
    /\ \A i \in referenced : I!Current(cache[i]) /\ cache[i].filename \notin names
    /\ stale = Cardinality(Outdated(cache))
    /\ \A n \in I!Files \ names : stick[n].type # "none" => Met(n)

VideosInv ==
    /\ StickInv /\ EntriesInv(stored) /\ EntriesInv(cache)
    /\ vpc \in {"idle", "list", "show"}
    /\ vpc = "list" => ListInv
    /\ vpc = "show" => I!ListRight

LEMMA VideoConstants ==
  /\ IsFiniteSet(VideoNames) /\ "none" \in VideoTypes /\ VideoCells \in Nat
  <1>1. I!VideoIsosAssumption
    BY PartsAssumption
  <1> QED
    BY <1>1 DEF I!VideoIsosAssumption, I!IsFiniteSet, IsFiniteSet

\* The instance counts like the module of finite sets
LEMMA Counted ==
  ASSUME NEW set
  PROVE  I!Cardinality(set) = Cardinality(set)
  BY DEF I!Cardinality, Cardinality, I!IsFiniteSet, IsFiniteSet

LEMMA NoEntries == EntriesInv(<<>>)
  <1>1. Len(<<>>) = 0 /\ <<>> \in Seq(VideoEntries)
    OBVIOUS
  <1>2. \A i \in 1 .. Len(<<>>) : FALSE
    BY <1>1
  <1> QED
    BY <1>1, <1>2, VideoConstants DEF EntriesInv

LEMMA VideosInit == I!Init => VideosInv
  <1> SUFFICES ASSUME I!Init PROVE VideosInv
    OBVIOUS
  <1>1. I!NoFile \in [type : VideoTypes, mtime : Nat] /\ I!NoFile.mtime = 0
    BY VideoConstants DEF I!NoFile
  <1>2. StickInv
    BY <1>1 DEF I!Init, StickInv
  <1> QED
    BY <1>2, NoEntries DEF I!Init, VideosInv

\* A change of the stick makes no entry current
LEMMA ChangedEntry ==
  ASSUME StickInv, I!Change, NEW e, Told(e)
  PROVE  Told(e)' /\ (I!Current(e)' => I!Current(e))
  <1>1. PICK n \in VideoNames, t \in VideoTypes :
          \/ stick' = [stick EXCEPT ![n] = [type |-> t, mtime |-> clock']]
          \/ stick[n] # I!NoFile /\ stick' = [stick EXCEPT ![n] = I!NoFile]
    BY DEF I!Change
  <1>2. e \in VideoEntries /\ e.filename \in VideoNames /\ e.mtime \in Nat
        /\ clock' = clock + 1 /\ clock \in Nat /\ e.mtime <= clock
    BY DEF Told, VideoEntries, I!Change, StickInv
  <1>3. CASE e.filename = n
    <2>1. ~I!Current(e)'
      <3>1. CASE stick' = [stick EXCEPT ![n] = [type |-> t, mtime |-> clock']]
        <4>1. stick'[n].mtime = clock'
          BY <3>1 DEF StickInv
        <4> QED
          BY <1>2, <1>3, <4>1 DEF I!Current
      <3>2. CASE stick' = [stick EXCEPT ![n] = I!NoFile]
        <4>1. stick'[n] = I!NoFile
          BY <3>2 DEF StickInv
        <4> QED
          BY <1>3, <4>1 DEF I!Current
      <3> QED
        BY <1>1, <3>1, <3>2
    <2> QED
      BY <1>2, <2>1 DEF Told
  <1>4. CASE e.filename # n
    <2>1. stick'[e.filename] = stick[e.filename]
      BY <1>1, <1>2, <1>4 DEF StickInv
    <2>2. I!Current(e)' <=> I!Current(e)
      BY <2>1 DEF I!Current
    <2> QED
      BY <1>2, <2>1, <2>2 DEF Told
  <1> QED
    BY <1>3, <1>4

LEMMA VideoChanges ==
  ASSUME VideosInv, I!Change
  PROVE  VideosInv'
  <1>1. StickInv'
    <2>1. PICK n \in VideoNames, t \in VideoTypes :
            \/ stick' = [stick EXCEPT ![n] = [type |-> t, mtime |-> clock']]
            \/ stick[n] # I!NoFile /\ stick' = [stick EXCEPT ![n] = I!NoFile]
      BY DEF I!Change
    <2>2. clock' = clock + 1 /\ clock \in Nat /\ clock' \in Nat
      BY DEF I!Change, VideosInv, StickInv
    <2> DEFINE f == stick'[n]
    <2>3. /\ f \in [type : VideoTypes, mtime : Nat] /\ f.mtime <= clock'
          /\ f # I!NoFile => f.mtime > 0
      <3>1. CASE stick' = [stick EXCEPT ![n] = [type |-> t, mtime |-> clock']]
        <4>1. f = [type |-> t, mtime |-> clock']
          BY <3>1 DEF VideosInv, StickInv
        <4> QED
          BY <2>2, <4>1
      <3>2. CASE stick' = [stick EXCEPT ![n] = I!NoFile]
        <4>1. f = I!NoFile
          BY <3>2 DEF VideosInv, StickInv
        <4> QED
          BY <2>2, <4>1, VideoConstants DEF I!NoFile
      <3> QED
        BY <2>1, <3>1, <3>2
    <2>4. stick' = [stick EXCEPT ![n] = f]
      BY <2>1 DEF VideosInv, StickInv
    <2> HIDE DEF f
    <2>5. stick' \in [VideoNames -> [type : VideoTypes, mtime : Nat]]
      BY <2>3, <2>4 DEF VideosInv, StickInv
    <2>6. ASSUME NEW m \in VideoNames
          PROVE  stick'[m].mtime <= clock' /\ (stick'[m] # I!NoFile => stick'[m].mtime > 0)
      <3>1. CASE m = n
        BY <2>3, <3>1 DEF f
      <3>2. CASE m # n
        <4>1. stick'[m] = stick[m]
          BY <2>4, <3>2 DEF VideosInv, StickInv
        <4>2. stick[m].mtime \in Nat /\ stick[m].mtime <= clock
              /\ (stick[m] # I!NoFile => stick[m].mtime > 0)
          BY DEF VideosInv, StickInv
        <4> QED
          BY <2>2, <4>1, <4>2
      <3> QED
        BY <3>1, <3>2
    <2>7. I!NoFile' = I!NoFile
      BY DEF I!NoFile
    <2> QED
      BY <2>2, <2>5, <2>6, <2>7 DEF StickInv
  <1>2. EntriesInv(stored)'
    <2>1. stored' = stored
      BY DEF I!Change
    <2>2. \A i \in 1 .. Len(stored) :
             Told(stored[i])' /\ (I!Current(stored[i])' => I!Current(stored[i]))
      BY <2>1, ChangedEntry DEF VideosInv, EntriesInv
    <2> QED
      BY <2>1, <2>2 DEF VideosInv, EntriesInv
  <1>3. EntriesInv(cache)'
    <2>1. cache' = cache
      BY DEF I!Change
    <2>2. \A i \in 1 .. Len(cache) :
             Told(cache[i])' /\ (I!Current(cache[i])' => I!Current(cache[i]))
      BY <2>1, ChangedEntry DEF VideosInv, EntriesInv
    <2> QED
      BY <2>1, <2>2 DEF VideosInv, EntriesInv
  <1>4. vpc' = "idle"
    BY DEF I!Change
  <1> QED
    BY <1>1, <1>2, <1>3, <1>4 DEF VideosInv

\* A step that leaves the stick alone leaves what is said of a list
LEMMA EntriesStay ==
  ASSUME UNCHANGED <<stick, clock>>
  PROVE  /\ \A e : (Told(e)' <=> Told(e)) /\ (I!Current(e)' <=> I!Current(e))
         /\ StickInv => StickInv'
         /\ I!Files' = I!Files
  BY DEF Told, I!Current, I!NoFile, StickInv, I!Files

LEMMA VideoReads ==
  ASSUME VideosInv, I!ReadCache
  PROVE  VideosInv'
  <1>1. UNCHANGED <<stick, clock, stored>>
    BY DEF I!ReadCache
  <1>2. StickInv'
    BY <1>1, EntriesStay DEF VideosInv
  <1>3. EntriesInv(stored)' /\ EntriesInv(cache)'
    <2>2. EntriesInv(stored)'
      BY <1>1, EntriesStay DEF EntriesInv, VideosInv
    <2>3. CASE cache' = stored
      BY <1>1, <2>2, <2>3, EntriesStay DEF EntriesInv, VideosInv
    <2>4. CASE cache' = <<>>
      <3>1. Len(cache') = 0 /\ cache' \in Seq(VideoEntries)
        BY <2>4
      <3>2. \A i \in 1 .. Len(cache') : FALSE
        BY <3>1
      <3> QED
        BY <2>2, <3>1, <3>2, VideoConstants DEF EntriesInv
    <2> QED
      BY <2>2, <2>3, <2>4 DEF I!ReadCache
  <1>4. ListInv'
    <2>1. I!Files' = I!Files /\ names' = I!Files /\ referenced' = {}
      BY <1>1, EntriesStay DEF I!ReadCache
    <2>2. stale' = I!Cardinality(Outdated(cache)')
      BY DEF I!ReadCache, Outdated, I!Current, I!NoFile
    <2> QED
      BY <2>1, <2>2, Counted DEF ListInv
  <1>5. vpc' = "list"
    BY DEF I!ReadCache
  <1> QED
    BY <1>2, <1>3, <1>4, <1>5 DEF VideosInv

\* The entry that has the name and the time of a file is a current one
LEMMA CachedEntry ==
  ASSUME VideosInv, NEW n \in I!Files
  PROVE  /\ I!IsCached(n, stick[n].mtime) # 0 =>
              /\ I!IsCached(n, stick[n].mtime) \in 1 .. Len(cache)
              /\ I!Current(cache[I!IsCached(n, stick[n].mtime)])
              /\ cache[I!IsCached(n, stick[n].mtime)].filename = n
         /\ I!IsCached(n, stick[n].mtime) = 0 =>
              \A i \in 1 .. Len(cache) : I!Current(cache[i]) => cache[i].filename # n
  <1> DEFINE at == {i \in 1 .. Len(cache) :
                       cache[i].filename = n /\ cache[i].mtime = stick[n].mtime}
             k == I!IsCached(n, stick[n].mtime)
  <1>1. k = IF at = {} THEN 0 ELSE CHOOSE i \in at : \A j \in at : i <= j
    BY DEF I!IsCached
  <1>2. Len(cache) \in Nat
    BY DEF VideosInv, EntriesInv
  <1>3. \A i \in at : i \in Nat /\ i # 0
    BY <1>2
  <1>4. CASE at = {}
    <2>1. k = 0
      BY <1>1, <1>4
    <2> QED
      BY <1>4, <2>1 DEF I!Current
  <1>5. CASE at # {}
    <2> HIDE DEF at
    <2>1. k \in at
      <3>1. at \in SUBSET Nat
        BY <1>3
      <3>2. (CHOOSE i \in at : \A j \in at : i <= j) \in at
        BY <1>5, <3>1, FirstPlace
      <3> QED
        BY <1>1, <1>5, <3>2
    <2>2. k # 0
      BY <1>3, <2>1
    <2> QED
      BY <2>1, <2>2 DEF at, I!Current, I!Files
  <1> QED
    BY <1>4, <1>5

LEMMA VideoDread ==
  ASSUME VideosInv, I!Dread
  PROVE  VideosInv'
  <1>1. UNCHANGED <<stick, clock, stored, vpc, stale>> /\ vpc = "list"
    BY DEF I!Dread
  <1>2. StickInv' /\ EntriesInv(stored)' /\ I!Files' = I!Files
    BY <1>1, EntriesStay DEF VideosInv, EntriesInv
  <1>3. ListInv /\ EntriesInv(cache)
    BY <1>1 DEF VideosInv
  <1>4. \A e : (I!Current(e)' <=> I!Current(e)) /\ (Told(e)' <=> Told(e))
    BY <1>1, EntriesStay
  <1>5. PICK n \in names :
          LET f == stick[n]   i == I!IsCached(n, f.mtime) IN
          /\ names' = names \ {n}
          /\ IF i # 0
             THEN /\ referenced' = referenced \cup {i}
                  /\ UNCHANGED <<cache, cachechanged, misread>>
             ELSE \/ /\ IF I!CheckIso(n) # "none"
                        THEN I!Cache(I!Entry(n, I!CheckIso(n), f.mtime))
                        ELSE UNCHANGED <<cache, referenced, cachechanged>>
                     /\ UNCHANGED misread
                  \/ misread' = TRUE /\ UNCHANGED <<cache, referenced, cachechanged>>
    BY DEF I!Dread
  <1>6. n \in I!Files /\ n \in VideoNames /\ stick[n] # I!NoFile
    BY <1>3 DEF ListInv, I!Files
  <1> DEFINE k == I!IsCached(n, stick[n].mtime)
  <1>7. /\ names' = names \ {n} /\ names' \subseteq I!Files
        /\ I!Files \ names' = (I!Files \ names) \cup {n}
    BY <1>3, <1>5, <1>6 DEF ListInv
  <1>8. /\ k # 0 => k \in 1 .. Len(cache) /\ I!Current(cache[k]) /\ cache[k].filename = n
        /\ k = 0 => \A i \in 1 .. Len(cache) : I!Current(cache[i]) => cache[i].filename # n
    BY <1>6, CachedEntry
  <1>9. Len(cache) \in Nat /\ VideoCells \in Nat
    BY <1>3, VideoConstants DEF EntriesInv
  <1> HIDE DEF k
  \* the list stays as it is
  <1>10. ASSUME UNCHANGED cache, referenced \subseteq referenced',
                referenced' \subseteq 1 .. Len(cache),
                \A i \in referenced' : I!Current(cache[i]) /\ cache[i].filename \notin names',
                misread => misread', stick[n].type # "none" => Met(n)'
         PROVE  EntriesInv(cache)' /\ ListInv'
    <2>1. EntriesInv(cache)'
      BY <1>3, <1>4, <1>10 DEF EntriesInv
    <2>2. ASSUME NEW m, Met(m) PROVE Met(m)'
      BY <1>4, <1>10, <2>2 DEF Met
    <2>3. Outdated(cache)' = Outdated(cache)
      BY <1>4, <1>10 DEF Outdated
    <2>4. stale' = Cardinality(Outdated(cache)')
      BY <1>1, <1>3, <2>3 DEF ListInv
    <2>5. \A m \in I!Files' \ names' : stick'[m].type # "none" => Met(m)'
      BY <1>1, <1>2, <1>3, <1>7, <1>10, <2>2 DEF ListInv
    <2> QED
      BY <1>2, <1>4, <1>7, <1>10, <2>1, <2>4, <2>5 DEF ListInv
  <1>11. \A i \in referenced :
            i \in 1 .. Len(cache) /\ I!Current(cache[i]) /\ cache[i].filename \notin names'
    BY <1>3, <1>7 DEF ListInv
  <1>12. CASE k # 0
    <2>1. referenced' = referenced \cup {k} /\ UNCHANGED <<cache, misread>>
      BY <1>5, <1>12 DEF k
    <2>2. cache[k].filename = n /\ n \notin names' /\ I!Current(cache[k]) /\ k \in 1 .. Len(cache)
      BY <1>7, <1>8, <1>12
    <2>3. Met(n)'
      BY <2>1, <2>2 DEF Met
    <2>4. EntriesInv(cache)' /\ ListInv'
      BY <1>10, <1>11, <2>1, <2>2, <2>3
    <2> QED
      BY <1>1, <1>2, <2>4 DEF VideosInv
  <1>13. CASE k = 0 /\ UNCHANGED <<cache, referenced>>
              /\ (misread' = TRUE \/ UNCHANGED misread)
              /\ (misread' = TRUE \/ stick[n].type = "none" \/ Len(cache) >= VideoCells)
    <2>1. stick[n].type # "none" => Met(n)'
      BY <1>4, <1>8, <1>13 DEF Met
    <2>2. EntriesInv(cache)' /\ ListInv'
      BY <1>10, <1>11, <1>13, <2>1
    <2> QED
      BY <1>1, <1>2, <2>2 DEF VideosInv
  <1>14. CASE /\ k = 0 /\ UNCHANGED misread /\ stick[n].type # "none" /\ Len(cache) < VideoCells
              /\ cache' = Append(cache, I!Entry(n, stick[n].type, stick[n].mtime))
              /\ referenced' = referenced \cup {Len(cache) + 1}
    <2> DEFINE e == I!Entry(n, stick[n].type, stick[n].mtime)
    <2>1. /\ e \in VideoEntries /\ e.filename = n /\ I!Current(e) /\ Told(e)
      <3>1. stick[n] \in [type : VideoTypes, mtime : Nat] /\ stick[n].mtime <= clock
        BY <1>6 DEF VideosInv, StickInv
      <3>2. stick[n].type \in VideoTypes \ {"none"} /\ stick[n].mtime \in Nat
        BY <1>14, <3>1
      <3>3. /\ e \in VideoEntries /\ e.filename = n /\ e.mtime = stick[n].mtime
            /\ e.disctype = stick[n].type
        BY <1>6, <3>2 DEF I!Entry, VideoEntries
      <3> HIDE DEF e
      <3> QED
        BY <1>6, <3>1, <3>3 DEF I!Current, Told
    <2> HIDE DEF e
    <2>2. cache' = Append(cache, e)
      BY <1>14 DEF e
    <2>3. /\ cache' \in Seq(VideoEntries) /\ Len(cache') = Len(cache) + 1
          /\ \A i \in 1 .. Len(cache) : cache'[i] = cache[i]
          /\ cache'[Len(cache) + 1] = e
      BY <1>3, <2>1, <2>2 DEF EntriesInv
    <2>4. \A i \in 1 .. Len(cache') : i \in 1 .. Len(cache) \/ i = Len(cache) + 1
      BY <1>9, <2>3
    <2>5. EntriesInv(cache)'
      <3>1. \A i \in 1 .. Len(cache') : Told(cache'[i])
        BY <1>3, <2>1, <2>3, <2>4 DEF EntriesInv
      <3>2. ASSUME NEW i \in 1 .. Len(cache'), NEW j \in 1 .. Len(cache'),
                   I!Current(cache'[i]), I!Current(cache'[j]),
                   cache'[i].filename = cache'[j].filename
            PROVE  i = j
        <4>1. CASE i \in 1 .. Len(cache) /\ j \in 1 .. Len(cache)
          BY <1>3, <2>3, <3>2, <4>1 DEF EntriesInv
        <4>2. CASE i = Len(cache) + 1 /\ j \in 1 .. Len(cache)
          BY <1>8, <1>14, <2>1, <2>3, <3>2, <4>2
        <4>3. CASE j = Len(cache) + 1 /\ i \in 1 .. Len(cache)
          BY <1>8, <1>14, <2>1, <2>3, <3>2, <4>3
        <4> QED
          BY <2>4, <4>1, <4>2, <4>3
      <3>3. Len(cache') <= VideoCells
        BY <1>9, <1>14, <2>3
      <3> QED
        BY <1>4, <2>3, <3>1, <3>2, <3>3 DEF EntriesInv
    <2>6. Outdated(cache)' = Outdated(cache)
      <3>1. \A i : i \in Outdated(cache)' <=> i \in 1 .. Len(cache') /\ ~I!Current(cache'[i])
        BY <1>4 DEF Outdated
      <3>2. \A i : i \in Outdated(cache) <=> i \in 1 .. Len(cache) /\ ~I!Current(cache[i])
        BY DEF Outdated
      <3>3. 1 .. Len(cache) \subseteq 1 .. Len(cache')
        BY <1>9, <2>3
      <3> QED
        BY <2>1, <2>3, <2>4, <3>1, <3>2, <3>3
    <2>7. stale' = Cardinality(Outdated(cache)')
      BY <1>1, <1>3, <2>6 DEF ListInv
    <2>8. Len(cache) + 1 \in 1 .. Len(cache') /\ 1 .. Len(cache) \subseteq 1 .. Len(cache')
      BY <1>9, <2>3
    <2>9. /\ referenced' \subseteq 1 .. Len(cache')
          /\ \A i \in referenced' : I!Current(cache'[i]) /\ cache'[i].filename \notin names'
      BY <1>7, <1>11, <1>14, <2>1, <2>3, <2>8
    <2>10. Met(n)'
      BY <1>14, <2>1, <2>3 DEF Met
    <2>11. ASSUME NEW m \in I!Files \ names, Met(m) PROVE Met(m)'
      <3>1. CASE misread
        BY <1>14, <3>1 DEF Met
      <3>2. ASSUME NEW i \in referenced, cache[i].filename = m PROVE Met(m)'
        BY <1>11, <1>14, <2>3, <3>2 DEF Met
      <3>3. CASE Len(cache) >= VideoCells
        BY <1>9, <1>14, <3>3
      <3> QED
        BY <2>11, <3>1, <3>2, <3>3 DEF Met
    <2>12. \A m \in I!Files' \ names' : stick'[m].type # "none" => Met(m)'
      BY <1>1, <1>2, <1>3, <1>7, <2>10, <2>11 DEF ListInv
    <2>13. ListInv'
      BY <1>2, <1>4, <1>7, <2>7, <2>9, <2>12 DEF ListInv
    <2> QED
      BY <1>1, <1>2, <2>5, <2>13 DEF VideosInv
  <1>15. ASSUME k = 0
         PROVE  \/ /\ IF stick[n].type # "none"
                      THEN I!Cache(I!Entry(n, stick[n].type, stick[n].mtime))
                      ELSE UNCHANGED <<cache, referenced, cachechanged>>
                   /\ UNCHANGED misread
                \/ misread' = TRUE /\ UNCHANGED <<cache, referenced, cachechanged>>
    BY <1>5, <1>15 DEF k, I!CheckIso
  <1>16. ASSUME NEW e, I!Cache(e)
         PROVE  \/ /\ Len(cache) < VideoCells /\ cache' = Append(cache, e)
                   /\ referenced' = referenced \cup {Len(cache) + 1}
                \/ Len(cache) >= VideoCells /\ UNCHANGED <<cache, referenced>>
    BY <1>9, <1>16 DEF I!Cache
  <1> QED
    BY <1>12, <1>13, <1>14, <1>15, <1>16

\* How many of a set come up to one of them
Rank(set, i) == Cardinality({j \in set : j <= i})

LEMMA RankRises ==
  ASSUME NEW set \in SUBSET Nat, IsFiniteSet(set), NEW i \in set
  PROVE  /\ Rank(set, i) \in 1 .. Cardinality(set)
         /\ \A k \in set : i < k => Rank(set, i) < Rank(set, k)
  <1> DEFINE Upto(k) == {j \in set : j <= k}
  <1>1. \A k \in set : IsFiniteSet(Upto(k)) /\ Cardinality(Upto(k)) \in Nat
                        /\ Cardinality(Upto(k)) <= Cardinality(set)
    <2> SUFFICES ASSUME NEW k \in set
                 PROVE  IsFiniteSet(Upto(k)) /\ Cardinality(Upto(k)) \in Nat
                        /\ Cardinality(Upto(k)) <= Cardinality(set)
      OBVIOUS
    <2>1. Upto(k) \in SUBSET set
      OBVIOUS
    <2> HIDE DEF Upto
    <2> QED
      BY <2>1, FS_Subset, FS_CardinalityType
  <1>2. Cardinality(set) \in Nat
    BY FS_CardinalityType
  <1>3. Cardinality(Upto(i)) # 0
    <2>1. i \in Upto(i)
      OBVIOUS
    <2> HIDE DEF Upto
    <2> QED
      BY <1>1, <2>1, FS_EmptySet
  <1>4. ASSUME NEW k \in set, i < k PROVE Cardinality(Upto(i)) < Cardinality(Upto(k))
    <2>1. Upto(i) \in SUBSET Upto(k) /\ k \in Upto(k) /\ k \notin Upto(i)
      <3>1. i \in Nat /\ k \in Nat /\ \A j \in set : j \in Nat
        OBVIOUS
      <3>2. \A j \in set : j <= i => j <= k
        BY <1>4, <3>1
      <3>3. k <= k /\ ~(k <= i)
        BY <1>4, <3>1
      <3> QED
        BY <3>2, <3>3, Zenon
    <2>2. Upto(i) # Upto(k)
      BY <2>1
    <2> HIDE DEF Upto
    <2>3. Cardinality(Upto(i)) <= Cardinality(Upto(k))
      BY <1>1, <2>1, FS_Subset
    <2>4. Cardinality(Upto(k)) # Cardinality(Upto(i))
      BY <1>1, <2>1, <2>2, FS_Subset
    <2> QED
      BY <1>1, <2>3, <2>4
  <1>5. Rank(set, i) = Cardinality(Upto(i)) /\ \A k \in set : Rank(set, k) = Cardinality(Upto(k))
    BY DEF Rank
  <1> HIDE DEF Upto
  <1> QED
    BY <1>1, <1>2, <1>3, <1>4, <1>5

\* Every place up to the number of a set is that of one of them
LEMMA Ranked ==
  ASSUME NEW set \in SUBSET Nat, IsFiniteSet(set)
  PROVE  \A k \in 1 .. Cardinality(set) : \E i \in set : Rank(set, i) = k
  <1> DEFINE f == [i \in set |-> Rank(set, i)]
             places == 1 .. Cardinality(set)
  <1>1. Cardinality(set) \in Nat
    BY FS_CardinalityType
  <1>2. IsFiniteSet(places) /\ Cardinality(places) = Cardinality(set)
    <2> DEFINE n == Cardinality(set)
    <2>1. n \in Nat
      BY <1>1
    <2> HIDE DEF n
    <2>2. IsFiniteSet(1 .. n) /\ Cardinality(1 .. n) = n
      BY <2>1, FS_Interval
    <2> QED
      BY <2>2 DEF n
  <1>3. f \in [set -> places] /\ \A i \in set : f[i] = Rank(set, i)
    BY RankRises
  <1>4. ASSUME NEW i \in set, NEW j \in set, f[i] = f[j] PROVE i = j
    <2>1. Rank(set, i) = Rank(set, j) /\ i \in Nat /\ j \in Nat
      BY <1>4
    <2>2. Rank(set, i) \in Nat
      BY RankRises
    <2>3. (i < j => Rank(set, i) < Rank(set, j)) /\ (j < i => Rank(set, j) < Rank(set, i))
      BY RankRises
    <2> QED
      BY <2>1, <2>2, <2>3
  <1> HIDE DEF f, places
  <1>5. f \in Injection(set, places)
    BY <1>3, <1>4 DEF Injection, IsInjective
  <1>6. f \in Surjection(set, places)
    BY <1>2, <1>5, FS_Injection
  <1>7. \A k \in places : \E i \in set : f[i] = k
    BY <1>6 DEF Surjection
  <1> QED
    BY <1>3, <1>7 DEF places

\* What SaveCache keeps: the entries that are referenced, each once
LEMMA PurgedEntries ==
  ASSUME VideosInv, ListInv
  PROVE  /\ EntriesInv(I!Purged)
         /\ \A k \in 1 .. Len(I!Purged) : \E i \in referenced : I!Purged[k] = cache[i]
         /\ \A i \in referenced : \E k \in 1 .. Len(I!Purged) : I!Purged[k] = cache[i]
  <1> DEFINE n == Cardinality(referenced)
             from(k) == CHOOSE i \in referenced : I!Place(i) = k
             p == I!Purged
  <1>1. Len(cache) \in Nat /\ Len(cache) <= VideoCells /\ VideoCells \in Nat
        /\ cache \in Seq(VideoEntries)
    BY VideoConstants DEF VideosInv, EntriesInv
  <1>2. referenced \in SUBSET Nat /\ referenced \in SUBSET (1 .. Len(cache))
    BY <1>1 DEF ListInv
  <1>3. IsFiniteSet(referenced) /\ n \in Nat /\ n <= Len(cache)
    <2> DEFINE m == Len(cache)
    <2>1. m \in Nat /\ referenced \in SUBSET (1 .. m)
      BY <1>1, <1>2
    <2> HIDE DEF m
    <2>2. IsFiniteSet(1 .. m) /\ Cardinality(1 .. m) = m
      BY <2>1, FS_Interval
    <2>3. IsFiniteSet(referenced) /\ Cardinality(referenced) <= m
      BY <2>1, <2>2, FS_Subset
    <2>4. n \in Nat
      BY <2>3, FS_CardinalityType
    <2> QED
      BY <2>3, <2>4 DEF m
  <1>4. p = [k \in 1 .. n |-> cache[from(k)]]
    <2>1. I!Cardinality(referenced) = n
      BY Counted
    <2> QED
      BY <2>1 DEF I!Purged
  <1>5. \A k \in 1 .. n : from(k) \in referenced /\ Rank(referenced, from(k)) = k
    <2>1. \A i : I!Place(i) = Rank(referenced, i)
      BY Counted DEF I!Place, Rank
    <2>2. \A k \in 1 .. n : \E i \in referenced : I!Place(i) = k
      BY <1>2, <1>3, <2>1, Ranked
    <2>3. \A k \in 1 .. n : from(k) \in referenced /\ I!Place(from(k)) = k
      BY <2>2
    <2> HIDE DEF from
    <2> QED
      BY <2>1, <2>3
  <1>6. \A i \in referenced : Rank(referenced, i) \in 1 .. n
    BY <1>2, <1>3, RankRises
  <1>7. \A i \in referenced : from(Rank(referenced, i)) = i
    <2> SUFFICES ASSUME NEW i \in referenced PROVE from(Rank(referenced, i)) = i
      OBVIOUS
    <2> DEFINE j == from(Rank(referenced, i))
    <2>1. j \in referenced /\ Rank(referenced, j) = Rank(referenced, i)
      BY <1>5, <1>6
    <2> HIDE DEF j
    <2>2. i \in Nat /\ j \in Nat /\ Rank(referenced, i) \in Nat
      BY <1>2, <1>3, <1>6, <2>1
    <2>3. /\ i < j => Rank(referenced, i) < Rank(referenced, j)
          /\ j < i => Rank(referenced, j) < Rank(referenced, i)
      BY <1>2, <1>3, <2>1, RankRises
    <2>4. i = j
      BY <2>1, <2>2, <2>3
    <2> QED
      BY <2>4 DEF j
  <1> HIDE DEF n, from, p
  <1>8. \A i \in referenced : cache[i] \in VideoEntries
    BY <1>1, <1>2
  <1>9. p \in Seq(VideoEntries) /\ Len(p) = n /\ \A k \in 1 .. n : p[k] = cache[from(k)]
    <2>1. p \in [1 .. n -> VideoEntries]
      BY <1>4, <1>5, <1>8
    <2> QED
      BY <1>3, <1>4, <2>1
  <1>10. \A i \in referenced : \E k \in 1 .. Len(p) : p[k] = cache[i]
    BY <1>6, <1>7, <1>9
  <1>11. \A k \in 1 .. Len(p) : p[k] = cache[from(k)] /\ from(k) \in referenced
    BY <1>5, <1>9
  <1>12. EntriesInv(p)
    <2>1. \A k \in 1 .. Len(p) : Told(p[k])
      BY <1>2, <1>11 DEF VideosInv, EntriesInv
    <2>2. ASSUME NEW k \in 1 .. Len(p), NEW l \in 1 .. Len(p),
                 I!Current(p[k]), I!Current(p[l]), p[k].filename = p[l].filename
          PROVE  k = l
      <3>1. from(k) = from(l)
        BY <1>2, <1>11, <2>2 DEF VideosInv, EntriesInv
      <3> QED
        BY <1>5, <1>9, <3>1
    <2>3. Len(p) <= VideoCells
      BY <1>1, <1>3, <1>9
    <2> QED
      BY <1>9, <2>1, <2>2, <2>3 DEF EntriesInv
  <1> QED
    BY <1>10, <1>11, <1>12 DEF p

\* A file of entries that was not written to its end
LEMMA TornEntries ==
  ASSUME StickInv, NEW c, EntriesInv(c), NEW k \in 0 .. Len(c) - 1
  PROVE  EntriesInv(I!Torn(c, k))
  <1> DEFINE head == SubSeq(c, 1, k)
             e == c[k + 1]
             t == [e EXCEPT !.mtime = 0]
             d == I!Torn(c, k)
  <1>1. Len(c) \in Nat /\ Len(c) <= VideoCells /\ VideoCells \in Nat /\ c \in Seq(VideoEntries)
        /\ k \in Nat /\ k + 1 \in 1 .. Len(c) /\ k < Len(c)
    BY VideoConstants DEF EntriesInv
  <1>2. head \in Seq(VideoEntries) /\ Len(head) = k /\ \A i \in 1 .. k : head[i] = c[i]
    BY <1>1
  <1>3. e \in VideoEntries
    BY <1>1
  <1>4. t \in VideoEntries /\ t.mtime = 0 /\ t.filename \in VideoNames
    BY <1>3 DEF VideoEntries
  <1> HIDE DEF e, t
  <1>5. ~I!Current(t) /\ Told(t)
    <2>1. ~I!Current(t)
      BY <1>4 DEF I!Current, StickInv
    <2> QED
      BY <1>4, <2>1 DEF Told, StickInv
  <1>6. d = Append(head, t)
    BY DEF I!Torn, t, e
  <1> HIDE DEF head, d
  <1>7. /\ d \in Seq(VideoEntries) /\ Len(d) = k + 1
        /\ \A i \in 1 .. k : d[i] = c[i]
        /\ d[k + 1] = t
    BY <1>1, <1>2, <1>4, <1>6
  <1>8. \A i \in 1 .. Len(d) : (i \in 1 .. k /\ i \in 1 .. Len(c)) \/ i = k + 1
    BY <1>1, <1>7
  <1>9. \A i \in 1 .. Len(d) : Told(d[i]) /\ (I!Current(d[i]) => i \in 1 .. Len(c) /\ d[i] = c[i])
    BY <1>5, <1>7, <1>8 DEF EntriesInv
  <1>10. \A i, j \in 1 .. Len(d) :
            I!Current(d[i]) /\ I!Current(d[j]) /\ d[i].filename = d[j].filename => i = j
    BY <1>9 DEF EntriesInv
  <1>11. Len(d) <= VideoCells
    BY <1>1, <1>7
  <1>12. EntriesInv(d)
    BY <1>7, <1>9, <1>10, <1>11 DEF EntriesInv
  <1> QED
    BY <1>12 DEF d

\* A list that has no room has an entry of each image, or stale ones too many
LEMMA RoomForAll ==
  ASSUME VideosInv, ListInv, NEW n \in I!Valid, Len(cache) >= VideoCells,
         \A i \in 1 .. Len(cache) : I!Current(cache[i]) =>
            cache[i].filename \in I!Valid /\ cache[i].filename # n
  PROVE  ~(Cardinality(I!Valid) + stale <= VideoCells)
  <1> DEFINE len == Len(cache)
             all == 1 .. len
             current == all \ Outdated(cache)
             others == I!Valid \ {n}
             f == [i \in current |-> cache[i].filename]
  <1>1. len \in Nat /\ VideoCells \in Nat /\ len >= VideoCells
    BY VideoConstants DEF VideosInv, EntriesInv
  <1>2. IsFiniteSet(I!Valid) /\ Cardinality(I!Valid) \in Nat
    <2>1. I!Valid \in SUBSET VideoNames
      BY DEF I!Valid
    <2> QED
      BY <2>1, VideoConstants, FS_Subset, FS_CardinalityType
  <1>3. IsFiniteSet(others) /\ Cardinality(others) = Cardinality(I!Valid) - 1
    BY <1>2, FS_RemoveElement
  <1>4. f \in Injection(current, others)
    <2>1. \A i \in current : i \in 1 .. len /\ I!Current(cache[i])
      BY DEF Outdated
    <2>2. f \in [current -> others]
      BY <2>1
    <2>3. \A i, j \in current : f[i] = f[j] => i = j
      BY <2>1 DEF VideosInv, EntriesInv
    <2> HIDE DEF f, current, others
    <2> QED
      BY <2>2, <2>3 DEF Injection, IsInjective
  <1>5. Outdated(cache) \subseteq all
    BY DEF Outdated
  <1> HIDE DEF len
  <1>6. IsFiniteSet(all) /\ Cardinality(all) = len
    BY <1>1, FS_Interval
  <1> HIDE DEF all
  <1>7. all \cap Outdated(cache) = Outdated(cache)
    BY <1>5
  <1>8. IsFiniteSet(current) /\ Cardinality(current) = len - Cardinality(Outdated(cache))
    BY <1>6, <1>7, FS_Difference
  <1>9. Cardinality(Outdated(cache)) \in Nat
    BY <1>5, <1>6, FS_Subset, FS_CardinalityType
  <1> HIDE DEF current, others, f
  <1>10. Cardinality(current) <= Cardinality(others)
    BY <1>3, <1>4, FS_Injection
  <1>11. stale = Cardinality(Outdated(cache))
    BY DEF ListInv
  <1> QED
    BY <1>1, <1>2, <1>3, <1>8, <1>9, <1>10, <1>11

\* When the directory has been read, the list that is kept is right
LEMMA PurgedRight ==
  ASSUME VideosInv, ListInv, names = {}
  PROVE  /\ \A k \in 1 .. Len(I!Purged) :
               /\ I!Purged[k].filename \in I!Valid
               /\ I!Purged[k].disctype = stick[I!Purged[k].filename].type
         /\ \A k, l \in 1 .. Len(I!Purged) : I!Purged[k].filename = I!Purged[l].filename => k = l
         /\ ~misread /\ Cardinality(I!Valid) + stale <= VideoCells =>
               \A n \in I!Valid : \E k \in 1 .. Len(I!Purged) : I!Purged[k].filename = n
  <1> DEFINE p == I!Purged
  <1>1. /\ EntriesInv(p)
        /\ \A k \in 1 .. Len(p) : \E i \in referenced : p[k] = cache[i]
        /\ \A i \in referenced : \E k \in 1 .. Len(p) : p[k] = cache[i]
    BY PurgedEntries
  <1> HIDE DEF p
  <1>2. \A i \in 1 .. Len(cache) : I!Current(cache[i]) =>
           cache[i].filename \in I!Valid /\ cache[i].disctype = stick[cache[i].filename].type
    <2> SUFFICES ASSUME NEW i \in 1 .. Len(cache), I!Current(cache[i])
                 PROVE  /\ cache[i].filename \in I!Valid
                        /\ cache[i].disctype = stick[cache[i].filename].type
      OBVIOUS
    <2>1. Told(cache[i])
      BY DEF VideosInv, EntriesInv
    <2>2. cache[i].filename \in VideoNames /\ cache[i].disctype # "none"
          /\ cache[i].disctype = stick[cache[i].filename].type
      BY <2>1 DEF Told, VideoEntries
    <2> QED
      BY <2>2 DEF I!Valid
  <1>3. \A k \in 1 .. Len(p) : I!Current(p[k])
    BY <1>1 DEF ListInv
  <1>4. \A k \in 1 .. Len(p) :
           p[k].filename \in I!Valid /\ p[k].disctype = stick[p[k].filename].type
    BY <1>1, <1>2 DEF ListInv
  <1>5. \A k, l \in 1 .. Len(p) : p[k].filename = p[l].filename => k = l
    BY <1>1, <1>3 DEF EntriesInv
  <1>6. ASSUME ~misread, Cardinality(I!Valid) + stale <= VideoCells, NEW n \in I!Valid
        PROVE  \E k \in 1 .. Len(p) : p[k].filename = n
    <2>1. n \in I!Files \ names /\ stick[n].type # "none"
      BY DEF I!Valid, I!Files, I!NoFile
    <2>2. Met(n)
      BY <2>1 DEF ListInv
    <2>3. ~(/\ Len(cache) >= VideoCells
            /\ \A i \in 1 .. Len(cache) : I!Current(cache[i]) => cache[i].filename # n)
      <3> SUFFICES ASSUME Len(cache) >= VideoCells,
                          \A i \in 1 .. Len(cache) : I!Current(cache[i]) => cache[i].filename # n
                   PROVE  FALSE
        OBVIOUS
      <3> QED
        BY <1>2, <1>6, RoomForAll
    <2> QED
      BY <1>1, <1>6, <2>2, <2>3 DEF Met
  <1> QED
    BY <1>4, <1>5, <1>6 DEF p

LEMMA VideoSaves ==
  ASSUME VideosInv, I!SaveCache
  PROVE  VideosInv'
  <1> DEFINE p == I!Purged
  <1>1. /\ UNCHANGED <<stick, clock, names, misread, stale>>
        /\ vpc = "list" /\ names = {} /\ vpc' = "show" /\ cache' = p
        /\ \/ stored' \in {stored, p}
           \/ \E k \in 0 .. Len(p) - 1 : stored' = I!Torn(p, k)
    BY DEF I!SaveCache
  <1>2. ListInv /\ StickInv /\ EntriesInv(stored) /\ EntriesInv(p)
    BY <1>1, PurgedEntries DEF VideosInv
  <1>3. EntriesInv(stored')
    BY <1>1, <1>2, TornEntries
  <1>4. StickInv' /\ EntriesInv(stored)' /\ EntriesInv(cache)'
    <2> HIDE DEF p
    <2> QED
      BY <1>1, <1>2, <1>3, EntriesStay DEF EntriesInv
  <1>5. /\ \A k \in 1 .. Len(p) :
              p[k].filename \in I!Valid /\ p[k].disctype = stick[p[k].filename].type
        /\ \A k, l \in 1 .. Len(p) : p[k].filename = p[l].filename => k = l
        /\ ~misread /\ Cardinality(I!Valid) + stale <= VideoCells =>
              \A n \in I!Valid : \E k \in 1 .. Len(p) : p[k].filename = n
    BY <1>1, <1>2, PurgedRight
  <1> HIDE DEF p
  <1>6. I!Valid' = I!Valid
    BY <1>1 DEF I!Valid
  <1>7. I!ShownTrue'
    BY <1>1, <1>5, <1>6 DEF I!ShownTrue
  <1>8. I!ShownWhole'
    <2>1. I!Cardinality(I!Valid)' = Cardinality(I!Valid)
      BY <1>6, Counted
    <2>2. I!Listed' = {p[i].filename : i \in 1 .. Len(p)}
      BY <1>1 DEF I!Listed
    <2> QED
      BY <1>1, <1>5, <1>6, <2>1, <2>2 DEF I!ShownWhole
  <1> QED
    BY <1>1, <1>4, <1>7, <1>8 DEF VideosInv, I!ListRight

LEMMA VideoCloses ==
  ASSUME VideosInv, I!Close
  PROVE  VideosInv'
  <1>1. UNCHANGED <<stick, clock, stored>> /\ cache' = <<>> /\ vpc' = "idle"
    BY DEF I!Close
  <1>2. StickInv' /\ EntriesInv(stored)'
    BY <1>1, EntriesStay DEF VideosInv, EntriesInv
  <1>3. EntriesInv(cache)'
    <2>1. Len(cache') = 0 /\ cache' \in Seq(VideoEntries)
      BY <1>1
    <2>2. \A i \in 1 .. Len(cache') : FALSE
      BY <2>1
    <2> QED
      BY <2>1, <2>2, VideoConstants DEF EntriesInv
  <1> QED
    BY <1>1, <1>2, <1>3 DEF VideosInv

LEMMA VideoSteps == VideosInv /\ [I!Next]_(I!vars) => VideosInv'
  <1> SUFFICES ASSUME VideosInv, [I!Next]_(I!vars) PROVE VideosInv'
    OBVIOUS
  <1>1. CASE UNCHANGED I!vars
    <2>1. UNCHANGED <<stick, clock, stored, vpc, names, cache, referenced, misread, stale>>
      BY <1>1 DEF I!vars
    <2>2. ListInv => ListInv'
      <3>1. Outdated(cache)' = Outdated(cache)
        BY <2>1, EntriesStay DEF Outdated
      <3>2. \A n : Met(n)' <=> Met(n)
        BY <2>1, EntriesStay DEF Met
      <3> QED
        BY <2>1, <3>1, <3>2, EntriesStay DEF ListInv
    <2>3. I!ListRight => I!ListRight'
      BY <2>1 DEF I!ListRight, I!ShownTrue, I!ShownWhole, I!Valid, I!Listed
    <2> QED
      BY <2>1, <2>2, <2>3, EntriesStay DEF VideosInv, EntriesInv
  <1> QED
    BY <1>1, VideoChanges, VideoReads, VideoDread, VideoSaves, VideoCloses DEF I!Next

\* Whatever changes on the stick between two menus, whatever the cache file holds
\* of them and however a save of it ends: an entry is never from the future, and
\* what it says of a file that has its name and time is so (satelite/videoiso.c).
THEOREM SpecVideosInv == I!Spec => []VideosInv
  BY VideosInit, VideoSteps, PTL DEF I!Spec

\* The menu shows the images of the stick, each once and with the type that is in
\* it, and all of them while the cache has room for them beside the entries of
\* files that are gone (GetVideoIsos, SaveCache), for any names, types and cache.
THEOREM SpecVideosListed == AllSpec => []VideosListed
  <1>1. AllInit /\ part = "videos" => I!Init
    BY DEF AllInit
  <1>2. part = "videos" /\ [AllNext]_allVars => (part = "videos")' /\ [I!Next]_(I!vars)
    BY DEF AllNext, allVars, videoVars, I!vars
  <1> DEFINE Inv == IF part = "videos" THEN VideosInv ELSE TRUE
  <1>3. AllInit => Inv
    BY <1>1, VideosInit
  <1>4. Inv /\ [AllNext]_allVars => Inv'
    <2>1. [AllNext]_allVars => part' = part
      BY DEF AllNext, allVars
    <2> QED
      BY <1>2, <2>1, VideoSteps
  <1>5. Inv => VideosListed
    <2>1. VideosInv => I!ListRight
      BY DEF VideosInv, I!ListRight, I!ShownTrue, I!ShownWhole
    <2> QED
      BY <2>1 DEF VideosListed
  <1> HIDE DEF Inv
  <1> QED
    BY <1>3, <1>4, <1>5, PTL DEF AllSpec
=============================================================================
