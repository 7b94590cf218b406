----------------------------- MODULE MCUsbDevice -----------------------------
(***************************************************************************)
(* The modules of the USB device, the menu that chooses it, and what the   *)
(* boot reads from the memory stick.  One part runs in a behaviour and the *)
(* others stay as they begin:                                              *)
(*                                                                         *)
(*   device   devices are set and finished (UsbDevice)                     *)
(*   seek     the host reads the volume made of a UMD anywhere (UmdVfat)   *)
(*   stream   it reads on from the beginning (UmdVfat)                     *)
(*   menu     the menu of the XMB, beside the pad and USB (VshMenu)        *)
(*   videos   the images it lists (VideoIsos)                              *)
(*   boot     files are found and read (MsFat)                             *)
(*   card     sectors are read and written before there is a kernel        *)
(*            (MsCard)                                                     *)
(*   plugins  modules are started, and plugins before them (BootPlugins)   *)
(*   config   the configuration of the boot and its text (BootConfig)      *)
(*   chain    what the buttons and the chips choose before it (BootChain)  *)
(*                                                                         *)
(* The proofs (UsbDeviceProofs) are for every value of the constants of    *)
(* UsbDevice, UmdVfat, VshMenu and VideoIsos; the configuration gives them *)
(* theirs.                                                                 *)
(***************************************************************************)
EXTENDS UsbDevice, Integers, Sequences

CONSTANTS
    Parts,
    \* UmdVfat
    FileSizes, PerCluster, PerFat, Reserved, FatLength, RootLength, VfatSize, Lengths,
    \* VshMenu
    Isos, NoIso, Prefixes, Listings, Speeds, Disc, Buttons, MaxMoves,
    \* VideoIsos
    VideoNames, VideoTypes, VideoCells, VideoTimes

VARIABLES
    part,
    fileSize, ptr, last, buf, pos, astray, answer,
    vol, geo, thefile, path, mbuf, left, lost,
    \* the menu
    file, config, videoiso_mounted, umdfile, served, storage, return_iso, usbdev, module,
    hook, pad, menu, mpc, chosen, turned, opened, moves, marks,
    \* the list of its images
    stick, clock, stored, vpc, names, cache, referenced, cachechanged, misread, stale,
    \* the plugins
    mode, list, skiplogo, card, np9660, drm, ready, plugindone, ms_status, bpc, starting,
    begun, plugins, logo, why, stray,
    \* the card
    cpc, call, words, res, slot, sectors, late, ended,
    \* the boot
    board, service, fromstick, kpc, ctrl, asked, held, gen, listed, damaged, unread,
    text

\* lists of plugins: short ones, and some of the lines that a user may write
Lists ==
    UNION {[1..k -> {"n", "1", "s", "e"}] : k \in 0..2} \cup
    {<<"n", "s", "1">>, <<"n", "t", "1", "e", "1">>, <<"n", "s", "1", "s">>,
     <<"n", "s", "1", "t">>, <<"n", "s", "s", "1">>, <<"n", "1", "s", "1", "e", "e", "n", "1">>,
     <<"h", "n", "s", "1", "h", "n", "s", "1", "t">>, <<"n", "e", "n", "e", "n", "s", "1">>,
     <<"n", "e", "n", "s", "1", "e", "n", "s">>, <<"n", "n", "n", "e", "n", "n", "s", "1", "1">>,
     <<"s", "1", "e", "n", "s", "1">>}

\* Volumes: two entries to a sector, sectors of two units, one volume of 16-bit
\* entries with its root directory in two sectors, one of 32-bit entries whose
\* root is a chain of two clusters that are not next to each other.  Each has a
\* file of three clusters out of order with a long name behind deleted entries,
\* and one in a directory.
Short(n, dir, cluster, size) ==
    [kind |-> "short", name |-> n, dir |-> dir, archive |-> ~dir,
     cluster |-> cluster, size |-> size]
Lfn(piece) == [kind |-> "lfn", piece |-> piece]
Deleted == [kind |-> "deleted"]
End == [kind |-> "end"]

Eof == 99
Next16 == [c \in 2..9 |-> CASE c = 2 -> Eof [] c = 3 -> 7 [] c = 7 -> 5
                            [] c = 5 -> Eof [] c = 4 -> 8 [] OTHER -> Eof]
Next32 == [c \in 2..9 |-> CASE c = 2 -> 6 [] c = 3 -> 7 [] c = 7 -> 5
                            [] c = 4 -> 8 [] OTHER -> Eof]

LongFile(size) == [path |-> <<<<"long", "er">>>>, alias |-> <<<<"long~1">>>>,
                   chain |-> <<3, 7, 5>>, size |-> size]
Inner == [path |-> <<<<"dir">>, <<"inner">>>>, alias |-> <<<<"dir">>, <<"inner">>>>,
          chain |-> <<9>>, size |-> 3]

Root == <<<<Lfn(<<"gone">>), Deleted>>,
          <<Lfn(<<"er">>), Lfn(<<"long">>)>>,
          <<Short(<<"long~1">>, FALSE, 3, 0), Short(<<"dir">>, TRUE, 4, 0)>>,
          <<End, Short(<<"gone">>, FALSE, 3, 0)>>>>
WithSize(entries, size) ==
    [k \in DOMAIN entries |->
        IF entries[k].kind = "short" /\ entries[k].cluster = 3
        THEN [entries[k] EXCEPT !.size = size] ELSE entries[k]]
Dir == <<<<Deleted, Lfn(<<"old">>)>>, <<Deleted, Deleted>>,
         <<Short(<<"other">>, TRUE, 3, 0), Deleted>>,
         <<Short(<<"inner">>, FALSE, 9, 3), End>>>>

Volume16(size) ==
    [total |-> 40, reserved |-> 1, fats |-> 2, fatSize |-> 1, rootSectors |-> 4,
     rootCluster |-> 0, perCluster |-> 2, next |-> Next16,
     files |-> {LongFile(size), Inner},
     dir |-> [s \in 3..40 |->
                IF s \in 3..6 THEN WithSize(Root[s - 2], size)
                ELSE IF s \in 11..12 THEN Dir[s - 10]
                ELSE IF s \in 19..20 THEN Dir[s - 16]
                ELSE <<>>]]
Volume32(size) ==
    [total |-> 60, reserved |-> 3, fats |-> 2, fatSize |-> 2, rootSectors |-> 0,
     rootCluster |-> 2, perCluster |-> 2, next |-> Next32,
     files |-> {LongFile(size), Inner},
     dir |-> [s \in 7..60 |->
                IF s \in 7..8 THEN WithSize(Root[s - 6], size)
                ELSE IF s \in 15..16 THEN WithSize(Root[s - 12], size)
                ELSE IF s \in 11..12 THEN Dir[s - 10]
                ELSE IF s \in 19..20 THEN Dir[s - 16]
                ELSE <<>>]]

MCVolumes == {Volume16(n) : n \in {12, 11, 8, 3}} \cup {Volume32(n) : n \in {12, 9}}
MCPaths == {<<<<"long", "er">>>>, <<<<"long~1">>>>, <<<<"dir">>, <<"inner">>>>,
            <<<<"gone">>>>, <<<<"dir">>>>, <<<<"long~1">>, <<"inner">>>>,
            <<<<"dir">>, <<"old">>>>}

V == INSTANCE UmdVfat
F == INSTANCE MsFat WITH
    Volumes <- MCVolumes, Paths <- MCPaths, Sizes <- {2, 6, 8, 20}, SectorSize <- 2,
    Fat12Limit <- 10, Fat16Limit <- 25, buf <- mbuf
M == INSTANCE VshMenu WITH pc <- mpc
I == INSTANCE VideoIsos WITH
    Names <- VideoNames, Types <- VideoTypes, CacheSize <- VideoCells,
    MaxTime <- VideoTimes, pc <- vpc, left <- names
P == INSTANCE BootPlugins WITH
    Lists <- Lists, BufSize <- 8, MaxLines <- 2, Modules <- {"x", "y"},
    pc <- bpc, astray <- stray
S == INSTANCE MsCard WITH
    Base <- 2, Words <- 2, Used <- {1, 2, 5}, pc <- cpc, card <- slot, stored <- sectors
C == INSTANCE BootConfig WITH Garbage <- {{}, {1}}
\* a board of every file of msipl, and hands that hold nothing, one choice or two
K == INSTANCE BootChain WITH
    Boards <- {<<\h14, \h10600, 1>>, <<\h40, \h121000, 1>>, <<\h50, \h243000, 2>>,
               <<\h60, \h243000, 2>>, <<\h60, \h263100, 3>>, <<\h81, \h2C4000, 4>>,
               <<\h72, \h285000, 5>>, <<\h80, \h285000, 5>>, <<\h81, \h2E4000, 7>>,
               <<\h82, \h2E4000, 9>>, <<\h90, \h304000, 11>>},
    Holds <- {{}, {"L"}, {"L", "HOME"}, {"L", "HOME", "R"}, {"R"}, {"START"},
              {"HOME", "TRIANGLE"}, {"HOME", "TRIANGLE", "UP"},
              {"HOME", "TRIANGLE", "UP", "R"}},
    card <- fromstick, pc <- kpc, list <- listed

ASSUME PartsAssumption ==
    /\ V!UmdVfatAssumption /\ F!MsFatAssumption /\ M!VshMenuAssumption
    /\ I!VideoIsosAssumption /\ P!BootPluginsAssumption /\ C!GarbageAssumption
    /\ S!MsCardAssumption /\ K!BootChainAssumption

vfatVars == <<fileSize, ptr, last, buf, pos, astray, answer>>
bootVars == <<vol, geo, thefile, path, mbuf, left, lost>>
menuVars == <<file, config, videoiso_mounted, umdfile, served, storage, return_iso, usbdev,
              module, hook, pad, menu, mpc, chosen, turned, opened, moves, marks>>
videoVars == <<stick, clock, stored, vpc, names, cache, referenced, cachechanged, misread, stale>>
pluginVars == <<mode, list, skiplogo, card, np9660, drm, ready, plugindone, ms_status, bpc,
                starting, begun, plugins, logo, why, stray>>
cardVars == <<cpc, call, words, res, slot, sectors, late, ended>>
chainVars == <<board, service, fromstick, kpc, ctrl, asked, held, gen, listed, damaged, unread>>

\* a variable of a part that does not run stays 0, or the like of it
NoVfat ==
    fileSize = 0 /\ ptr = 0 /\ last = 0 /\ buf = 0 /\ pos = 0 /\ astray = FALSE /\ answer = 0
NoBoot ==
    vol = 0 /\ geo = 0 /\ thefile = 0 /\ path = 0 /\ mbuf = 0 /\ left = 0 /\ lost = FALSE
NoMenu ==
    /\ file = 0 /\ config = 0 /\ videoiso_mounted = FALSE /\ umdfile = 0 /\ served = 0
    /\ storage = FALSE /\ return_iso = FALSE /\ usbdev = FALSE /\ module = FALSE
    /\ hook = FALSE /\ pad = 0 /\ menu = 0 /\ mpc = 0 /\ chosen = 0 /\ turned = {}
    /\ opened = 0 /\ moves = 0 /\ marks = {}
NoVideos ==
    /\ stick = 0 /\ clock = 0 /\ stored = <<>> /\ vpc = 0 /\ names = {} /\ cache = <<>>
    /\ referenced = {} /\ cachechanged = FALSE /\ misread = FALSE /\ stale = 0
NoPlugins ==
    /\ mode = 0 /\ list = 0 /\ skiplogo = FALSE /\ card = 0 /\ np9660 = FALSE /\ drm = FALSE
    /\ ready = FALSE /\ plugindone = FALSE /\ ms_status = 0 /\ bpc = 0 /\ starting = 0
    /\ begun = {} /\ plugins = <<>> /\ logo = FALSE /\ why = 0 /\ stray = FALSE
NoCard ==
    /\ cpc = 0 /\ call = 0 /\ words = <<>> /\ res = 0 /\ slot = 0 /\ sectors = 0
    /\ late = FALSE /\ ended = FALSE
NoChain ==
    /\ board = 0 /\ service = FALSE /\ fromstick = FALSE /\ kpc = 0 /\ ctrl = {}
    /\ asked = FALSE /\ held = {} /\ gen = 0 /\ listed = 0 /\ damaged = FALSE /\ unread = FALSE

\* texts of up to three lines, with names that lie in one another
ModuleNames == {<<"a">>, <<"b", "a">>, <<"a", "b">>, <<"a", "b", "a">>}
Entries ==
    [kind : {"entry"}, dollar : BOOLEAN, percent : {0, 2}, name : ModuleNames,
     flags : {{1}, {2, 4}}]
Bare  == [kind : {"bare"}, dollar : {FALSE}, percent : {1}, name : ModuleNames, flags : {{}}]
Texts == UNION {[1..n -> Entries \cup Bare \cup {C!Blank}] : n \in 0..2}
            \cup [1..3 -> {e \in Entries \cup {C!Blank} : ~e.dollar /\ e.percent = 0}]

AllInit ==
    /\ part \in Parts
    /\ Init /\ (part # "device" => assigned = {})
    /\ IF part \in {"seek", "stream"} THEN V!Init ELSE NoVfat
    /\ IF part = "boot" THEN F!Init ELSE NoBoot
    /\ IF part = "menu" THEN M!Init ELSE NoMenu
    /\ IF part = "videos" THEN I!Init ELSE NoVideos
    /\ IF part = "plugins" THEN P!Init ELSE NoPlugins
    /\ IF part = "card" THEN S!Init ELSE NoCard
    /\ IF part = "chain" THEN K!Init ELSE NoChain
    /\ IF part = "config" THEN text \in Texts ELSE text = <<>>

AllNext ==
    /\ UNCHANGED <<part, text>>
    /\ IF part = "device" THEN Next ELSE UNCHANGED vars
    /\ IF part = "seek" THEN V!Next ELSE IF part = "stream" THEN V!ReadOn ELSE UNCHANGED vfatVars
    /\ IF part = "boot" THEN F!Next ELSE UNCHANGED bootVars
    /\ IF part = "menu" THEN M!Next ELSE UNCHANGED menuVars
    /\ IF part = "videos" THEN I!Next ELSE UNCHANGED videoVars
    /\ IF part = "plugins" THEN P!Next ELSE UNCHANGED pluginVars
    /\ IF part = "card" THEN S!Next ELSE UNCHANGED cardVars
    /\ IF part = "chain" THEN K!Next ELSE UNCHANGED chainVars

allVars == <<part, text, vars, vfatVars, bootVars, menuVars, videoVars, pluginVars, cardVars,
             chainVars>>

AllSpec == AllInit /\ [][AllNext]_allVars

Bounded ==
    /\ part \in {"seek", "stream"} => V!Bounded
    /\ part = "menu" => M!Bounded
    /\ S!Guarded

\* The volume the host sees is the disc, wherever it reads: see ReadsRight,
\* ChainCovers and NeverAstray of UmdVfat (UmdRead, AllocTableSector).
VolumeServed ==
    /\ part \in {"seek", "stream"} => V!ReadsRight /\ V!ChainCovers
    /\ part = "stream" => V!NeverAstray

\* What the menu showed when it was closed is what the settings, the drive and
\* USB go by: see MenuObeyed of VshMenu (vshmenu_thread, vctrlVSHExitVSHMenu).
MenuObeyed == part = "menu" => M!MenuObeyed

\* The menu lists the images of the stick: see ListRight of VideoIsos
\* (GetVideoIsos).
VideosListed == part = "videos" => I!ListRight

\* What the boot reads is what the stick has: its code finds the files of a
\* volume and reads them whole, and a configuration says what its text says:
\* see SectorsRight of MsCard (pspMsReadSector), OpensRight and ReadsRight of
\* MsFat (MsFatOpen, MsFatRead), ConfigRight of BootConfig
\* (CBootConfig::ParseText, WriteBinary); and what is booted is what the
\* buttons and the chips said: see BootRight of BootChain (payloadex entry).
BootRead ==
    /\ part = "card" => S!SectorsRight
    /\ part = "boot" => F!OpensRight /\ F!ReadsRight
    /\ part = "config" => C!ConfigRight(text)
    /\ part = "chain" => K!BootRight

\* The plugins of the list are started once: see PluginsStarted of BootPlugins
\* (sceKernelStartModulePatched).
PluginsStarted == part = "plugins" => P!PluginsStarted

-----------------------------------------------------------------------------
(* Values for the configuration. *)
OnePrefix   == {<<"p", "pa">>}
TwoListings == {<<>>, <<"p", "pa">>}
=============================================================================
