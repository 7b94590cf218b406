------------------------------ MODULE GameStart ------------------------------
(***************************************************************************)
(* How a title is started and which drivers it finds                       *)
(* (src/modules/vshctrl/main.c, src/modules/systemctrl/sysmodpatches.c).   *)
(*                                                                         *)
(* The XMB chooses an image, a homebrew or the disc; vshctrl notes the     *)
(* image and a list of modules for it.  The settings, the image, the list  *)
(* and the memory pass the reboot in an area of memory (LoadRebootex,      *)
(* module_start).  The loader takes the list (sceBootLfatOpenPatched) and  *)
(* starts its modules one by one; when some of them start, systemctrl puts *)
(* its own drivers in their place.  A title may start another one or give  *)
(* the device back to the XMB, over the same area.                         *)
(*                                                                         *)
(* Three marks end promises: a list left by a start that failed, settings  *)
(* that could not be read, memory that an earlier title had.               *)
(***************************************************************************)
EXTENDS Sequences

CONSTANTS
    Images,         \* the images of the memory stick
    Long,           \* those whose path is longer than umdfile holds
    NoFile

ImagesAssumption == Long \subseteq Images /\ NoFile \notin Images

VARIABLES
    pc,             \* "xmb", "boot" or "game"
    config,         \* umdmode in config.se
    vsh,            \* umdmode of vshctrl, read when it starts
    sys,            \* umdmode of systemctrl, of the area or read
    bootfile,       \* the list to boot with
    umdfile,        \* the image
    ram2,           \* the memory to give, 0 for none
    exec,           \* what is started
    left,           \* the modules that are still to start
    umd, isofs,     \* whose driver serves the disc, and its file system
    hooked,         \* the driver of the firmware was made to read an image
    given,          \* the memory the title has
    wanted,         \* the memory asked for the title before it started
    leftover, blind, carried

vars == <<pc, config, vsh, sys, bootfile, umdfile, ram2, exec, left, umd, isofs, hooked,
          given, wanted, leftover, blind, carried>>

Modes == {"umd", "legacy", "march33", "np9660"}
Large == 52

Xmb      == [kind |-> "xmb", image |-> NoFile, large |-> FALSE]
Disc     == [kind |-> "disc", image |-> NoFile, large |-> FALSE]
Homebrew == [kind : {"pbp"}, image : {NoFile}, large : BOOLEAN]
IsoGames == [kind : {"iso"}, image : Images, large : {FALSE}]

\* what strncpy leaves of a path
Cut(file) == IF file \in Long THEN "cut" ELSE file

\* The modules of a list that matter here, in its order: for the XMB every
\* list has those of the firmware, and the registry of the region.
BootList(n, kind) ==
    IF kind = "xmb"
    THEN <<"umd9660", "isofs", "chkreg", "mediasync", "impose", "vshctrl">>
    ELSE CASE n = 1 -> <<"march33", "isofs", "mediasync", "impose">>
           [] n = 2 -> <<"np9660", "isofs", "mediasync", "impose">>
           [] OTHER -> <<"umd9660", "isofs", "mediasync", "impose">>

Index(mode) == IF mode = "march33" THEN 1 ELSE 2

-----------------------------------------------------------------------------
\* power on: the area is cleared, the settings are read on the way
Init ==
    /\ pc = "boot" /\ config \in Modes
    /\ vsh = "umd" /\ sys = "umd" /\ bootfile = 0 /\ umdfile = NoFile /\ ram2 = 0
    /\ exec = Xmb /\ left = BootList(0, "xmb")
    /\ umd = "none" /\ isofs = "none" /\ hooked = FALSE
    /\ given = 0 /\ wanted = 0
    /\ leftover = FALSE /\ blind = FALSE /\ carried = FALSE

\* A reboot into title x: what LoadRebootex writes of the settings, the image,
\* the list and the memory, module_start reads back.
Reboot(x, list) ==
    /\ pc' = "boot" /\ exec' = x
    /\ left' = BootList(list, x.kind)
    /\ umd' = "none" /\ isofs' = "none" /\ hooked' = FALSE /\ given' = 0

\* a list of its own is chosen for it
Chosen(x) == x.kind = "iso" /\ vsh \in {"march33", "np9660"}

\* The XMB starts title x.  When the kernel refuses, the image and the list
\* stay as they were set.
LoadExecVSHCommon(x, fails) ==
    /\ pc = "xmb"
    /\ umdfile' = Cut(x.image)
    /\ bootfile' = IF Chosen(x) THEN Index(vsh) ELSE bootfile
    /\ leftover' = IF fails THEN bootfile' # 0 ELSE leftover /\ ~Chosen(x)
    /\ IF fails
       THEN UNCHANGED <<pc, exec, left, umd, isofs, hooked, given>>
       ELSE Reboot(x, bootfile')
    /\ wanted' = 0
    /\ UNCHANGED <<config, vsh, sys, ram2, blind, carried>>

\* The menu changes the mode: both copies, and the file unless that fails.
ExitVSHMenu(mode, saved) ==
    /\ pc = "xmb" /\ mode # vsh
    /\ vsh' = mode /\ sys' = mode
    /\ config' = IF saved THEN mode ELSE config
    /\ UNCHANGED <<pc, bootfile, umdfile, ram2, exec, left, umd, isofs, hooked, given, wanted,
                   leftover, blind, carried>>

\* A homebrew asks for memory for the title it starts next, or does not, and
\* starts it; a title from a disc may start itself again.
LoadExec(x, request) ==
    /\ pc = "game"
    /\ IF exec.kind = "pbp" THEN x.kind = "pbp" ELSE x = exec /\ request = 0
    /\ ram2' = IF request = 0 THEN ram2 ELSE request
    /\ wanted' = request
    /\ carried' = (request = 0 /\ ram2 # 0)
    /\ Reboot(x, bootfile)
    /\ leftover' = (leftover /\ bootfile # 0)
    /\ UNCHANGED <<config, vsh, sys, bootfile, umdfile, blind>>

\* The title ends.
ExitGame ==
    /\ pc = "game"
    /\ carried' = (ram2 # 0) /\ wanted' = 0
    /\ Reboot(Xmb, bootfile)
    /\ leftover' = FALSE
    /\ UNCHANGED <<config, vsh, sys, bootfile, umdfile, ram2, blind>>

-----------------------------------------------------------------------------
Starts(module) == pc = "boot" /\ left # <<>> /\ Head(left) = module /\ left' = Tail(left)

\* what a module does to the rest, when it is not the last one
Kept == UNCHANGED <<pc, config, bootfile, umdfile, exec, wanted, leftover, carried>>

StartDriver(module) ==
    /\ module \in {"umd9660", "march33", "np9660"} /\ Starts(module)
    /\ umd' = module
    /\ UNCHANGED <<vsh, sys, ram2, isofs, hooked, given, blind>> /\ Kept

\* The registry of the region; that it is there is all that is asked of it.
StartChkreg ==
    /\ Starts("chkreg")
    /\ UNCHANGED <<vsh, sys, ram2, umd, isofs, hooked, given, blind>> /\ Kept

\* The file system of the firmware ends at once when another will take its
\* place.
PatchIsofsDriver ==
    /\ Starts("isofs")
    /\ isofs' = IF exec.kind \in {"iso", "disc"} /\ umdfile # NoFile /\ sys = "legacy"
                THEN "none" ELSE "firmware"
    /\ UNCHANGED <<vsh, sys, ram2, umd, hooked, given, blind>> /\ Kept

\* Memory for a homebrew: what was asked for it, or what its header asks for.
CheckSfo ==
    IF exec.kind # "pbp" THEN UNCHANGED <<ram2, given>>
    ELSE IF ram2 # 0 THEN given' = ram2 /\ ram2' = 0
    ELSE /\ given' = IF exec.large THEN Large ELSE 0
         /\ ram2' = given'

\* The drivers of an image, and nothing left of one when another title runs.
PatchInitLoadExecAndMediaSync ==
    /\ Starts("mediasync")
    /\ CheckSfo
    /\ IF exec.kind \in {"iso", "disc"} /\ umdfile # NoFile
       THEN /\ umd' = IF sys = "legacy" THEN "ours" ELSE umd
            /\ hooked' = (sys = "umd" /\ umd = "umd9660")
            /\ UNCHANGED <<umdfile, bootfile>>
       ELSE /\ umdfile' = NoFile /\ bootfile' = 0
            /\ UNCHANGED <<umd, hooked>>
    /\ UNCHANGED <<pc, config, vsh, sys, exec, isofs, wanted, leftover, blind,
                   carried>>

\* a mutant: the settings are read again in a game
OnImposeLoadReread(fails) ==
    /\ Starts("impose") /\ ~fails
    /\ sys' = config
    /\ isofs' = IF exec.kind # "xmb" /\ umdfile # NoFile /\ sys' = "legacy"
                THEN "ours" ELSE isofs
    /\ pc' = IF left' = <<>> THEN "game" ELSE pc
    /\ UNCHANGED <<config, vsh, bootfile, umdfile, ram2, exec, umd, hooked, given, wanted,
                   leftover, blind, carried>>

\* The settings are read when the registry of the region is there; in a game
\* the file system of an image comes in.
OnImposeLoad(fails) ==
    /\ Starts("impose")
    /\ IF exec.kind = "xmb"
       THEN /\ sys' = IF fails THEN "umd" ELSE config
            /\ blind' = (fails /\ config # "umd")
       ELSE ~fails /\ UNCHANGED <<sys, blind>>
    /\ isofs' = IF exec.kind # "xmb" /\ umdfile # NoFile /\ sys = "legacy"
                THEN "ours" ELSE isofs
    /\ pc' = IF left' = <<>> THEN "game" ELSE pc
    /\ UNCHANGED <<config, vsh, bootfile, umdfile, ram2, exec, umd, hooked, given, wanted,
                   leftover, carried>>

\* vshctrl reads them again.
StartVshctrl(fails) ==
    /\ Starts("vshctrl")
    /\ vsh' = IF fails THEN "umd" ELSE config
    /\ blind' = (blind \/ (fails /\ config # "umd"))
    /\ pc' = "xmb"
    /\ UNCHANGED <<config, sys, bootfile, umdfile, ram2, exec, umd, isofs, hooked, given,
                   wanted, leftover, carried>>

Next ==
    \/ \E x \in IsoGames \cup Homebrew \cup {Disc}, fails \in BOOLEAN : LoadExecVSHCommon(x, fails)
    \/ \E mode \in Modes, saved \in BOOLEAN : ExitVSHMenu(mode, saved)
    \/ \E x \in IsoGames \cup Homebrew \cup {Disc}, request \in {0, 32} : LoadExec(x, request)
    \/ ExitGame
    \/ \E module \in {"umd9660", "march33", "np9660"} : StartDriver(module)
    \/ StartChkreg \/ PatchIsofsDriver \/ PatchInitLoadExecAndMediaSync
    \/ \E fails \in BOOLEAN : OnImposeLoad(fails) \/ StartVshctrl(fails)

Spec == Init /\ [][Next]_vars

-----------------------------------------------------------------------------
\* what the title finds in the place of the disc
Served ==
    IF umd = "ours" THEN IF isofs = "ours" THEN umdfile ELSE "nothing"
    ELSE IF isofs # "firmware" THEN "nothing"
    ELSE IF hooked \/ (umd \in {"march33", "np9660"} /\ umdfile # NoFile) THEN umdfile
    ELSE IF umd = "umd9660" THEN NoFile ELSE "nothing"

\* A title runs with the image that was chosen for it, and a disc with none,
\* in every mode and however often it starts itself again
\* (LoadExecVSHCommonPatched, PatchInitLoadExecAndMediaSync, OnImposeLoad).
ImageServed ==
    pc = "game" /\ exec.kind \in {"iso", "disc"} /\ exec.image \notin Long
        /\ ~leftover /\ ~blind => Served = exec.image

\* Nothing of an image stays once the XMB or a homebrew runs: the list of the
\* firmware is the next one, and the drive is its own
\* (PatchInitLoadExecAndMediaSync).
NothingLeft ==
    (pc = "game" /\ exec.kind = "pbp") \/ (pc = "xmb" /\ ~leftover) =>
        bootfile = 0 /\ ~hooked /\ umd # "ours" /\ isofs = "firmware"

\* A homebrew has the memory that was asked for it, by the homebrew before it
\* or by its header, unless memory of an earlier one is still to be given
\* (CheckSfoPatched, sctrlHENSetMemory).
MemoryAsked ==
    pc = "game" /\ exec.kind = "pbp" /\ ~carried =>
        given = IF wanted # 0 THEN wanted ELSE IF exec.large THEN Large ELSE 0

GameStarted == ImageServed /\ NothingLeft /\ MemoryAsked
=============================================================================
