------------------------------- MODULE MCFlash -------------------------------
(***************************************************************************)
(* What writes the flash: the unbricker and the drivers it uses.  One part *)
(* runs in a behaviour and the others stay as they begin:                  *)
(*                                                                         *)
(*   ipl      the blocks of the loader (IplUpdate, which this extends)     *)
(*   tables   the partition tables (FlashFormat)                           *)
(*   format   the page that divides the flash (FlashFormat)                *)
(*   copy     a dump of the flash and its return (NandCopy)                *)
(*   install  a firmware (Install)                                         *)
(*   ids      the identification storage (IdsTools)                        *)
(*   dcman    what dcman does for them (Dcman): every board, and the calls  *)
(*            on one of them                                               *)
(*                                                                         *)
(* The proofs (FlashProofs) are for every value of the constants; the      *)
(* configurations give them theirs, some from the end of this module.      *)
(***************************************************************************)
EXTENDS IplUpdate

CONSTANTS
    Tools, Boards,
    Total, Fit, MaxErrors, BadAtCopy,               \* NandCopy
    Models, Files, Drivers, Fatfs, Fatfmt, Updater, \* Install
    Tried, Batch,                                   \* IdsTools
    Callers, Nobody                                 \* Dcman

VARIABLES
    part, page, step, cancelmode, lost,
    req,
    sizes, limit, sel, drivers, disk, fat,
    file, buf, at, cancel, full, held, errors, trapped,
    model, fw, flash, loader, wiped, ahead,
    mb, region, macrandom, macaddress, thread, event, maker, driver, setparam, head, rest,
    stored, dirty, said, late, shared,
    board, found, format_thid, format_res, call, outcome, answer, updater, scramble, raw,
    met, unmade, between

F == INSTANCE FlashFormat WITH
        Width <- 1024, DefSectors <- 2, Cylinders <- 4, MaxHeads <- 3,
        Default <- <<3, 1, 1>>, Least <- 1, Heads <- 2, Sectors <- 2, Spare <- 1
N == INSTANCE NandCopy WITH Bads <- BadAtCopy
W == INSTANCE Install
S == INSTANCE IdsTools
D == INSTANCE Dcman WITH mb <- found

ASSUME FlashAssumption ==
    /\ IplUpdateAssumption /\ N!NandCopyAssumption /\ W!InstallAssumption
    /\ S!IdsToolsAssumption

\* the variables of each part, and those that more than one has
iplOwn == <<pc, ipl, block, table, written, res, stale, wrapped>>
formatOwn == <<sizes, limit, sel, disk, fat>>
copyOwn == <<file, buf, at, cancel, full, held, errors, trapped>>
installOwn == <<model, fw, flash, loader, wiped, ahead>>
idsOwn == <<mb, region, macrandom, macaddress, thread, event, maker, driver, setparam,
            head, rest, stored, dirty, said, late, shared>>
dcmanOwn == <<board, found, format_thid, format_res, call, outcome, answer, updater, scramble,
              raw, met, unmade, between>>

\* a variable that the part does not have stays 0, or where nothing is claimed
NoIpl ==
    /\ pc = "none" /\ ipl = 0 /\ block = 0 /\ table = 0 /\ written = 0 /\ res = 0
    /\ stale = 0 /\ wrapped = TRUE
NoFormat == sizes = 0 /\ limit = 0 /\ sel = 0 /\ disk = 0 /\ fat = 0
NoCopy ==
    /\ file = 0 /\ buf = 0 /\ at = 0 /\ cancel = 0 /\ full = 0 /\ held = 0
    /\ errors = 0 /\ trapped = 0
NoInstall == model = 0 /\ fw = 0 /\ flash = 0 /\ loader = 0 /\ wiped = 0 /\ ahead = 0
NoIds ==
    /\ mb = 0 /\ region = 0 /\ macrandom = 0 /\ macaddress = 0 /\ thread = 0 /\ event = 0
    /\ maker = 0 /\ driver = 0 /\ setparam = 0 /\ head = 0 /\ rest = 0 /\ stored = 0
    /\ dirty = 0 /\ said = 0 /\ late = 0 /\ shared = 0
NoDcman ==
    /\ board = 0 /\ found = 0 /\ format_thid = 0 /\ format_res = 0 /\ call = 0 /\ outcome = 0
    /\ answer = 0 /\ updater = 0 /\ scramble = 0 /\ raw = 0 /\ met = 0 /\ unmade = 0
    /\ between = 0

Requests == [blocks : 5..30, heads : {0, 2}, sectors : {2},
             sizes : UNION {[1..n -> 0..4] : n \in 1..4}]

AllInit ==
    /\ part \in Tools
    /\ IF part = "ipl" THEN Init ELSE NoIpl
    /\ IF part = "tables" THEN req \in Requests ELSE req = 0
    /\ IF part = "format" THEN F!Init ELSE NoFormat
    /\ IF part = "copy" THEN N!Init ELSE NoCopy
    /\ IF part = "install" THEN W!Init ELSE NoInstall
    /\ IF part = "ids" THEN S!Init ELSE NoIds
    /\ IF part = "dcman" THEN D!Init ELSE NoDcman
    /\ part \notin {"format", "copy", "install", "ids"} => page = 0
    /\ part \notin {"format", "copy", "install"} => step = 0
    /\ part \notin {"format", "copy", "install", "ids"} => cancelmode = 0
    /\ part \notin {"copy", "install"} => lost = 0
    /\ part \notin {"ipl", "copy"} => nand = 0
    /\ part \notin {"ipl", "copy"} => bad = 0
    /\ part \notin {"format", "install"} => drivers = 0

AllNext ==
    /\ UNCHANGED <<part, req>>
    /\ part # "dcman" => UNCHANGED dcmanOwn
    /\ \/ /\ part = "ipl" /\ Next
          /\ UNCHANGED <<page, step, cancelmode, lost, drivers>>
          /\ UNCHANGED <<formatOwn, copyOwn, installOwn, idsOwn>>
       \/ /\ part = "format" /\ F!Next
          /\ UNCHANGED <<lost, nand, bad, iplOwn, copyOwn, installOwn, idsOwn>>
       \/ /\ part = "copy" /\ N!Next
          /\ UNCHANGED <<drivers, iplOwn, formatOwn, installOwn, idsOwn>>
       \/ /\ part = "install" /\ W!Next
          /\ UNCHANGED <<nand, bad, iplOwn, formatOwn, copyOwn, idsOwn>>
       \/ /\ part = "ids" /\ S!Next
          /\ UNCHANGED <<step, lost, nand, bad, drivers>>
          /\ UNCHANGED <<iplOwn, formatOwn, copyOwn, installOwn>>
       \/ /\ part = "dcman" /\ found = "TA-079v1" /\ D!Next
          /\ UNCHANGED <<page, step, cancelmode, lost, nand, bad, drivers>>
          /\ UNCHANGED <<iplOwn, formatOwn, copyOwn, installOwn, idsOwn>>

allVars == <<part, req, page, step, cancelmode, lost, nand, bad, drivers,
             iplOwn, formatOwn, copyOwn, installOwn, idsOwn, dcmanOwn>>

AllSpec == AllInit /\ [][AllNext]_allVars

Bounded == part = "ipl" => block <= 12

-----------------------------------------------------------------------------
\* The flash is divided as the page that asks shows it: see TablesRight
\* (DoFdisk), SizesFit, Formatted and SuspendRefused (format_thread) of FlashFormat.
PartitionsRight ==
    /\ part = "tables" => F!TablesRight(req)
    /\ part = "format" => F!SizesFit /\ F!Formatted /\ F!SuspendRefused

\* A dump and its return: see NandCopied of NandCopy (dump_thread, restore_thread).
NandCopied == part = "copy" => N!NandCopied

\* A firmware that is installed is whole: see Installed of Install (install_thread).
Installed == part = "install" => W!Installed

\* The identification storage is what the pages say: see Created, AddressShown,
\* MessagesTrue and SuspendRefused of IdsTools (idscreate_thread, fixmac_thread,
\* changereg_thread); and dcman, which finds the board for them, formats the
\* storage and reads the flash, answers for what it did: see DcmanAnswers of
\* Dcman (GetHardwareInfo, dcIdStorageFormat, dcReadNandBlock).
IdsRight ==
    /\ part = "ids" => S!Created /\ S!AddressShown /\ S!MessagesTrue /\ S!SuspendRefused
    /\ part = "dcman" => D!DcmanAnswers

\* The keys are those of the board, as the comments of idsregeneration have it:
\* see KeysOfBoard of IdsTools.
KeysOfBoard == part = "ids" => S!KeysOfBoard

-----------------------------------------------------------------------------
(* Values for the configurations. *)
BlocksOfIpl == [l \in {2, 3} |-> l]
BadsOfArea  == {b \in SUBSET (0..6) : Cardinality(b) <= 2 \/ b = {1, 2, 3}}
BadsOfFlash == {{}, {2}, {1, 3, 4}}
=============================================================================
