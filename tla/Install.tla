------------------------------- MODULE Install -------------------------------
(***************************************************************************)
(* The installer of a firmware (vunbricker/install.c): a thread loads the  *)
(* drivers of the updater, formats the first partitions of the flash,      *)
(* copies the files from the firmware it runs from, writes the loader      *)
(* (IplUpdate) and, for M33, the files of M33 behind it.  The first error  *)
(* ends the thread and shows the menu again; the power may go at any step. *)
(* What is left to chance is what the copy abstracts: a file is whole,     *)
(* part of it, or not there.  A short write counts as written.             *)
(***************************************************************************)
EXTENDS Integers, Sequences, Functions

CONSTANTS
    Models,         \* 0 to 2, and those the installer does not know
    Files,          \* how many files each list has
    Drivers,        \* emc_sm, lfatfs, fatfmt, ipl_update, pspdecrypt: 5
    Fatfs, Fatfmt, Updater  \* 2, 3 and 4

InstallAssumption == Files \in Nat \ {0} /\ Drivers \in Nat

VARIABLES
    model,      \* kuKernelGetModel
    page,       \* "menu", "busy", "done"
    fw,         \* what is being installed: "ofw", "m33", "tt"
    step,       \* where the thread is
    drivers,    \* the updater's modules: "out", "loaded", "started"
    flash,      \* files on the flash: the whole ones, and the others
    loader,     \* whose loader the boot blocks hold: firmware and model
    cancelmode, \* a suspend is refused
    wiped,      \* flash0 was formatted and the loader not yet set again
    lost,       \* a write since the format came out short unseen
    ahead       \* the loader was set, and the files of M33 behind it are not all copied
vars == <<model, page, fw, step, drivers, flash, loader, cancelmode, wiped, lost, ahead>>

Driver == 1..Drivers
None   == <<"none">>
Known  == Models \cap 0..2

-----------------------------------------------------------------------------
(* The lists of files, in the order they are copied: before the loader is  *)
(* written, and behind it.                                                 *)
If(condition, list) == IF condition THEN <<list>> ELSE <<>>
Of(m, lists) == IF m \in Known THEN <<lists[m + 1]>> ELSE <<>>

Base(w, m) ==
    <<"common", IF w = "tt" THEN "common_testingtool" ELSE "common_retail">>
    \o If(m # 0, "slim") \o If(m # 0 /\ w # "tt", "slim_retail")
    \o Of(m, <<"spec_01g", "spec_02g", "spec_03g">>)
    \o (IF w = "tt" THEN <<>>
        ELSE Of(m, <<"spec_01g_retail", "spec_02g_retail", "spec_03g_retail">>))

Extra(w, m) ==
    IF w = "ofw" THEN <<>>
    ELSE <<"common_m33">> \o Of(m, <<"spec_01g_m33", "spec_02g_m33", "spec_03g_m33">>)

In(list)     == [k \in 1..Files |-> <<list, k>>]
\* list after list
Paths(lists) ==
    [n \in 1..(Len(lists) * Files) |-> In(lists[((n - 1) \div Files) + 1])[((n - 1) % Files) + 1]]
Needed(w, m) == Range(Paths(Base(w, m)))

Init ==
    /\ model \in Models /\ page = "menu" /\ fw = "ofw" /\ step = None
    /\ drivers = [d \in Driver |-> "out"]
    /\ flash = [whole |-> {}, part |-> {}] /\ loader = None
    /\ cancelmode = FALSE /\ wiped = TRUE /\ lost = FALSE /\ ahead = FALSE

-----------------------------------------------------------------------------
(* OnMainMenuSelect, Install: without a thread the page stays. *)
Install(w) ==
    /\ page = "menu" /\ page' = "busy" /\ fw' = w
    /\ \/ step' = <<"load", 1>> /\ cancelmode' = TRUE
       \/ step' = None /\ UNCHANGED cancelmode
    /\ UNCHANGED <<model, drivers, flash, loader, wiped, lost, ahead>>

(* LoadUpdaterModules: a module that is there already is taken as started, *)
(* even if its start failed the time before.                               *)
LoadUpdaterModule(d) ==
    /\ step = <<"load", d>>
    /\ \/ drivers[d] # "out" /\ UNCHANGED drivers /\ step' = <<"load", d + 1>>
       \/ /\ drivers[d] = "out"
          /\ drivers' = [drivers EXCEPT ![d] = "started"] /\ step' = <<"load", d + 1>>
       \/ /\ drivers[d] = "out" /\ step' = <<"failed">>
          /\ \E s \in {"out", "loaded"} : drivers' = [drivers EXCEPT ![d] = s]
    /\ UNCHANGED <<model, page, fw, flash, loader, cancelmode, wiped, lost, ahead>>

\* a call that may fail, or that needs a driver
Call(next)     == step' \in {next, <<"failed">>}
CallOf(d, next) == Call(next) /\ (step' = next => drivers[d] = "started")

(* The format of flash0 begins with the table of its files: they are gone  *)
(* even if it fails.  flash2 may fail unseen.                              *)
FormatFlash0 ==
    /\ step = <<"load", Drivers + 1>> /\ CallOf(Fatfmt, <<"flash1">>)
    /\ \/ flash' = [whole |-> {}, part |-> {}] /\ wiped' = TRUE /\ lost' = FALSE
       \/ step' = <<"failed">> /\ UNCHANGED <<flash, wiped, lost>>
    /\ UNCHANGED <<model, page, fw, drivers, loader, cancelmode, ahead>>

FormatFlash1 ==
    /\ step = <<"flash1">> /\ CallOf(Fatfmt, <<"assign">>)
    /\ UNCHANGED <<model, page, fw, drivers, flash, loader, cancelmode, wiped, lost, ahead>>

(* The flashes are assigned, their directories made; only now is it seen   *)
(* that the model is not known.                                            *)
AssignFlashes ==
    /\ step = <<"assign">>
    /\ IF model \in Known THEN CallOf(Fatfs, <<"base", 1>>) ELSE step' = <<"failed">>
    /\ UNCHANGED <<model, page, fw, drivers, flash, loader, cancelmode, wiped, lost, ahead>>

\* a file after an attempt to copy it
Copied(f)  == [whole |-> flash.whole \cup {f}, part |-> flash.part \ {f}]
Spoiled(f) == [whole |-> flash.whole \ {f}, part |-> flash.part \cup {f}]

(* Mutant: the thread goes on behind a file that could not be copied. *)
CopyFileUnseen(phase, paths, next) ==
    \E k \in DOMAIN paths :
        /\ step = <<phase, k>>
        /\ \/ flash' = Copied(paths[k]) /\ UNCHANGED lost
           \/ flash' = Spoiled(paths[k]) /\ lost' = TRUE
           \/ flash' \in {flash, Spoiled(paths[k])} /\ UNCHANGED lost
        /\ step' = IF k = Len(paths) THEN next ELSE <<phase, k + 1>>
        /\ UNCHANGED <<model, page, fw, drivers, loader, cancelmode, wiped>>

(* CopyFileList, a file: opened, copied in pieces and closed. *)
CopyFile(phase, paths, next) ==
    \E k \in DOMAIN paths :
        /\ step = <<phase, k>>
        /\ \/ /\ \/ flash' = Copied(paths[k]) /\ UNCHANGED lost
                 \/ flash' = Spoiled(paths[k]) /\ lost' = TRUE
              /\ step' = IF k = Len(paths) THEN next ELSE <<phase, k + 1>>
           \/ /\ flash' \in {flash, Spoiled(paths[k])} /\ UNCHANGED lost
              /\ step' = <<"failed">>
        /\ UNCHANGED <<model, page, fw, drivers, loader, cancelmode, wiped>>

CopyBase == CopyFile("base", Paths(Base(fw, model)), <<"registry">>) /\ UNCHANGED ahead

(* The directories of flash1, init.dat, the loader's file; act.dat may     *)
(* stay behind.                                                            *)
RestoreRegistry ==
    /\ step = <<"registry">> /\ Call(<<"clear">>)
    /\ UNCHANGED <<model, page, fw, drivers, flash, loader, cancelmode, wiped, lost, ahead>>

(* pspIplUpdateClearIpl, and SetIpl: whole or nothing (IplUpdate).  What   *)
(* follows is the end, or the files of M33.                                *)
ClearIpl ==
    /\ step = <<"clear">> /\ CallOf(Updater, <<"set">>)
    /\ loader' = IF step' = <<"set">> THEN None ELSE loader
    /\ UNCHANGED <<model, page, fw, drivers, flash, cancelmode, wiped, lost, ahead>>

SetIpl ==
    /\ step = <<"set">>
    /\ \/ /\ step' = IF fw = "ofw" THEN <<"complete">> ELSE <<"extra", 1>>
          /\ loader' = <<fw, model>> /\ wiped' = FALSE
       \/ step' = <<"failed">> /\ loader' = None /\ UNCHANGED wiped
    /\ ahead' = IF step' = <<"failed">> THEN ahead ELSE fw # "ofw"
    /\ UNCHANGED <<model, page, fw, drivers, flash, cancelmode, lost>>

CopyExtra ==
    /\ CopyFile("extra", Paths(Extra(fw, model)), <<"complete">>)
    /\ ahead' = (step' # <<"complete">>)

(* The handlers left to the pages; the settings of the plugins are put     *)
(* away and config.se copied without a look at the result.                 *)
InstallComplete ==
    /\ step = <<"complete">> /\ page' = "done" /\ step' = None /\ cancelmode' = FALSE
    /\ UNCHANGED <<model, fw, drivers, flash, loader, wiped, lost, ahead>>

InstallError ==
    /\ step = <<"failed">> /\ page' = "menu" /\ step' = None /\ cancelmode' = FALSE
    /\ UNCHANGED <<model, fw, drivers, flash, loader, wiped, lost, ahead>>

(* The power goes or the device is reset from the last page; a file or a   *)
(* loader that is being written is lost.                                   *)
PowerOff ==
    /\ page # "menu" /\ page' = "menu" /\ step' = None /\ cancelmode' = FALSE
    /\ drivers' = [d \in Driver |-> "out"]
    /\ UNCHANGED <<model, fw, flash, loader, wiped, lost, ahead>>

Next ==
    \/ FormatFlash0 \/ FormatFlash1 \/ AssignFlashes \/ CopyBase \/ RestoreRegistry
    \/ ClearIpl \/ SetIpl \/ CopyExtra \/ InstallComplete \/ InstallError \/ PowerOff
    \/ \E w \in {"ofw", "m33", "tt"} : Install(w)
    \/ \E d \in Driver : LoadUpdaterModule(d)

Spec == Init /\ [][Next]_vars

-----------------------------------------------------------------------------
(* An install that is shown as complete, after whatever failed or was cut  *)
(* off before it, has left the loader of this firmware and model, every    *)
(* file of its lists whole, and nothing of another firmware                *)
(* (install_thread).  Not when a short write went unseen.                  *)
Complete ==
    page = "done" /\ ~lost =>
        /\ loader = <<fw, model>> /\ flash.part = {}
        /\ flash.whole = Needed(fw, model) \cup Range(Paths(Extra(fw, model)))

(* Whenever the power goes, a loader that was set has the files of its     *)
(* firmware beside it, until the next install formats them away.  The      *)
(* loaders of M33 and the testing tool also open files of M33 in place of  *)
(* the firmware's lists of modules (payloadex, sceBootLfatOpenPatched),    *)
(* and those come behind the loader: it has them too, unless an error or   *)
(* the power ended an install ahead of them.                               *)
LoaderHasFiles ==
    loader # None /\ ~wiped /\ ~lost =>
        /\ Needed(loader[1], loader[2]) \subseteq flash.whole
        /\ ~ahead => Range(Paths(Extra(loader[1], loader[2]))) \subseteq flash.whole

(* No suspend while the flash is between two firmwares, none refused after *)
(* an error.                                                               *)
SuspendRefused ==
    /\ step # None => cancelmode
    /\ page = "menu" => ~cancelmode

(* The three together. *)
Installed == Complete /\ LoaderHasFiles /\ SuspendRefused
=============================================================================
