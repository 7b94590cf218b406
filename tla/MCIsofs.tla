------------------------------- MODULE MCIsofs -------------------------------
(***************************************************************************)
(* Instances of the modules of the disc file system for TLC.  One part     *)
(* runs in a behaviour and the others stay as they begin:                  *)
(*                                                                         *)
(*   share  two threads and two files share the table of handles (Isofs)   *)
(*   read   one thread reads pieces of any length at any place (Isofs)     *)
(*   walk   directories are searched and listed (IsoDirectory)             *)
(***************************************************************************)
EXTENDS Isofs

CONSTANTS t1, t2, i1, i2, Zero, None

VARIABLES
    part,
    rsema, rhandlers, riob, rpc, rreq, rout, rsought, rkept,
    dir, sectors, user, find, handle, listed, misled

TwoThreads == {t1, t2}
TwoIobs    == {i1, i2}
Small      == {[lba |-> 1, size |-> 1, dir |-> FALSE], [lba |-> 2, size |-> 1, dir |-> TRUE]}
\* a file of two and a half sectors, one of two, a directory of one
AllFiles   == {[lba |-> 1, size |-> 8, dir |-> FALSE], [lba |-> 4, size |-> 6, dir |-> FALSE],
               [lba |-> 6, size |-> 3, dir |-> TRUE]}

R == INSTANCE Isofs WITH
    Threads <- {t1}, Iobs <- {i1}, Handlers <- {1}, Files <- AllFiles, Bytes <- 3,
    MaxLen <- 9, MaxPos <- 9, Truncated <- TRUE,
    isofs_sema <- rsema, handlers <- rhandlers, iob <- riob, pc <- rpc, req <- rreq,
    out <- rout, sought <- rsought, kept <- rkept

\* sectors of four units, records of one, of three and of a whole sector
W == INSTANCE IsoDirectory WITH
    SectorSize <- 4, Window <- 2, Margin <- 3, Lengths <- {1, 3}, LongName <- 4,
    MaxEntries <- 6, Other <- <<1, 1, 1, 4, 1>>

ASSUME R!HandlersAssumption /\ R!FilesAssumption /\ R!BoundsAssumption /\ R!FreeAssumption
ASSUME W!SizesAssumption /\ W!LengthsAssumption

readVars == <<rsema, rhandlers, riob, rpc, rreq, rout, rsought, rkept>>
walkVars == <<dir, sectors, user, find, handle, listed, misled>>
allVars  == <<part, vars, readVars, walkVars>>

NoWalk ==
    /\ dir = <<>> /\ sectors = <<>> /\ user = None /\ find = [pc |-> None]
    /\ handle = <<>> /\ listed = <<>> /\ misled = FALSE

AllInit ==
    /\ part \in {"share", "read", "walk"}
    /\ Init /\ R!Init /\ IF part = "walk" THEN W!Init ELSE NoWalk

AllNext ==
    /\ UNCHANGED part
    /\ \/ part = "share" /\ Next /\ UNCHANGED <<readVars, walkVars>>
       \/ part = "read" /\ R!Next /\ UNCHANGED <<vars, walkVars>>
       \/ part = "walk" /\ W!Next /\ UNCHANGED <<vars, readVars>>

AllSpec == AllInit /\ [][AllNext]_allVars

Guarded == part = "walk" => W!Guarded

\* One thread's reads implement the abstract byte range: see Isofs.IsByteRanges
\* (isofs_read2, isofs_lseek).
ReadsByteRanges == R!IsByteRanges

\* Listing and searching a directory find what is there and nothing behind
\* it: see ListsDirectory, FindsRecords and WalksInside of IsoDirectory
\* (FindFileLBA, isofs_dread2).
DirectoryWalked == part = "walk" => W!ListsDirectory /\ W!FindsRecords /\ W!WalksInside
=============================================================================
