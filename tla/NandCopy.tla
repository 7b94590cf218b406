------------------------------ MODULE NandCopy ------------------------------
(***************************************************************************)
(* The unbricker copies the whole flash to a file of the memory stick and  *)
(* back (vunbricker/nandoperations.c, over the block calls of dcman): a    *)
(* thread works through the blocks, a chunk of them at a time, while the   *)
(* pages show how far it is and may cancel a dump.  Bad blocks are found   *)
(* when they are read or erased.  The memory stick may fail at any call    *)
(* and the results of its reads and writes are not looked at.              *)
(***************************************************************************)
EXTENDS Integers, Sequences, SequencesExt, FiniteSets

CONSTANTS
    Total,          \* blocks of the flash
    Fit,            \* blocks that the buffer holds
    MaxErrors,      \* a restore gives up after 100 errors
    Bads            \* sets of blocks that are bad

NandCopyAssumption == Total \in Nat \ {0} /\ Fit \in Nat \ {0} /\ MaxErrors \in Nat

Block == 1..Total
Blank == <<"blank">>        \* a block of 0xFF

VARIABLES
    page,       \* "menu", "dumping", "done", "restoring", "restored"
    step,       \* where the thread is
    nand, bad,  \* what the blocks hold, and the bad ones
    file,       \* nand-dump.bin: the set of the file, or none
    buf,        \* big_buffer
    at,         \* the block that is next
    cancel,     \* cancel_dump
    full,       \* the progress bar is at its end
    held,       \* the lock of the flash is held by the restore
    errors,     \* blocks that could not be restored
    cancelmode, \* a suspend is refused
    lost,       \* a read or a write of the stick, or of a good block, failed unseen
    trapped     \* a restore found the file gone: its error is a dump's error
vars == <<page, step, nand, bad, file, buf, at, cancel, full, held, errors, cancelmode, lost,
          trapped>>
copy == <<nand, bad, file, buf, at, held, errors, lost>>

Dumped == [b \in Block |-> <<"kept", b>>]

Init ==
    /\ page = "menu" /\ step = "none" /\ bad \in Bads
    /\ nand = [b \in Block |-> <<"now", b>>] /\ file \in {{}, {Dumped}}
    /\ buf = <<>> /\ at = 1 /\ cancel = FALSE /\ full = FALSE /\ held = FALSE /\ errors = 0
    /\ cancelmode = FALSE /\ lost = FALSE /\ trapped = FALSE

-----------------------------------------------------------------------------
(* DumpNand: the page follows the thread, if there is one. *)
DumpNand ==
    /\ page = "menu" /\ page' = "dumping"
    /\ step' \in {"create", "none"}
    /\ cancel' = FALSE /\ full' = FALSE
    /\ UNCHANGED <<copy, cancelmode, trapped>>

(* OnCancelDump, while the bar is not at its end. *)
OnCancelDump ==
    /\ page = "dumping" /\ ~cancel /\ ~full
    /\ cancel' = TRUE
    /\ UNCHANGED <<page, step, copy, full, cancelmode, trapped>>

DumpCreate ==
    /\ step = "create"
    /\ \/ step' = "dump" /\ file' = {<<>>} /\ at' = 1 /\ buf' = <<>> /\ lost' = FALSE
       \/ step' = "failed" /\ UNCHANGED <<file, at, buf, lost>>
    /\ UNCHANGED <<page, nand, bad, cancel, full, held, errors, cancelmode, trapped>>

(* Mutant: a bad block is left out. *)
DumpBlockShort ==
    /\ step = "dump" /\ Len(buf) < Fit /\ at <= Total
    /\ IF cancel THEN step' = "cancelled" /\ file' = {} /\ UNCHANGED <<buf, at>>
       ELSE /\ buf' = IF at \in bad THEN buf ELSE Append(buf, nand[at])
            /\ at' = at + 1 /\ UNCHANGED <<step, file>>
    /\ full' \in {full, at' > Total}
    /\ UNCHANGED <<page, nand, bad, cancel, held, errors, cancelmode, lost, trapped>>

(* A block, read under the lock; a bad one stays as the buffer was cleared. *)
(* A dump that was cancelled takes its file away.                           *)
DumpBlock ==
    /\ step = "dump" /\ Len(buf) < Fit /\ at <= Total
    /\ IF cancel THEN step' = "cancelled" /\ file' = {} /\ UNCHANGED <<buf, at>>
       ELSE /\ buf' = Append(buf, IF at \in bad THEN Blank ELSE nand[at])
            /\ at' = at + 1 /\ UNCHANGED <<step, file>>
    /\ full' \in {full, at' > Total}
    /\ UNCHANGED <<page, nand, bad, cancel, held, errors, cancelmode, lost, trapped>>

DumpWrite ==
    /\ step = "dump" /\ (Len(buf) = Fit \/ at > Total)
    /\ \/ file' = {f \o buf : f \in file} /\ UNCHANGED lost
       \/ lost' = TRUE /\ UNCHANGED file
    /\ buf' = <<>>
    /\ step' = IF at > Total THEN "dumped" ELSE "dump"
    /\ full' = (full \/ at > Total)
    /\ UNCHANGED <<page, nand, bad, at, cancel, held, errors, cancelmode, trapped>>

(* What the thread leaves to the pages: OnDumpComplete, OnCancelCompleted, *)
(* OnDumpError.                                                            *)
DumpEnds ==
    /\ \/ step = "dumped" /\ page' = "done"
       \/ step \in {"cancelled", "failed"} /\ page' = "menu"
    /\ page = "dumping" /\ step' = "none"
    /\ UNCHANGED <<copy, cancel, full, cancelmode, trapped>>

OnBackFromDump ==
    /\ page = "done" /\ page' = "menu"
    /\ UNCHANGED <<step, copy, cancel, full, cancelmode, trapped>>

-----------------------------------------------------------------------------
(* RestoreNand: the file must have the size of the flash.  The thread then *)
(* refuses a suspend.                                                      *)
RestoreNand ==
    /\ page = "menu" /\ \E f \in file : Len(f) = Total
    /\ page' = "restoring" /\ errors' = 0
    /\ \/ step' = "open" /\ cancelmode' = TRUE
       \/ step' = "none" /\ UNCHANGED cancelmode
    /\ UNCHANGED <<nand, bad, file, buf, at, cancel, full, held, lost, trapped>>

(* The file cannot be opened: DumpError, which knows nothing of the cancel *)
(* mode.                                                                   *)
RestoreOpen ==
    /\ step = "open"
    /\ \/ step' = "read" /\ at' = 1 /\ held' = TRUE /\ UNCHANGED <<page, trapped>>
       \/ /\ step' = "none" /\ page' = "menu" /\ trapped' = TRUE
          /\ UNCHANGED <<at, held>>
    /\ UNCHANGED <<nand, bad, file, buf, cancel, full, errors, cancelmode, lost>>

(* A chunk; when the read fails the buffer keeps what it held. *)
RestoreRead ==
    /\ step = "read" /\ at <= Total /\ step' = "write"
    /\ \/ /\ \E f \in file : buf' = SubSeq(f, at, IF at + Fit > Total THEN Total ELSE at + Fit - 1)
          /\ UNCHANGED lost
       \/ lost' = TRUE /\ UNCHANGED buf
    /\ UNCHANGED <<page, nand, bad, file, at, cancel, full, held, errors, cancelmode, trapped>>

\* what the buffer holds for the block: something else, when the read failed
Restored(b) == IF ((b - 1) % Fit) + 1 \in DOMAIN buf THEN buf[((b - 1) % Fit) + 1] ELSE Blank

(* A block is erased and written, or counted; after too many the lock is let *)
(* go.  Nobody hears of a page that was erased and could not be written.     *)
RestoreBlock ==
    /\ step = "write"
    /\ \/ at \in bad /\ errors' = errors + 1 /\ UNCHANGED <<nand, lost>>
       \/ /\ at \notin bad /\ UNCHANGED errors
          /\ \/ nand' = [nand EXCEPT ![at] = Restored(at)] /\ UNCHANGED lost
             \/ nand' = [nand EXCEPT ![at] = Blank] /\ lost' = TRUE
    /\ at' = at + 1
    /\ IF errors' > MaxErrors THEN step' = "failed" /\ held' = FALSE
       ELSE step' = (IF at % Fit = 0 \/ at = Total THEN "read" ELSE "write") /\ UNCHANGED held
    /\ UNCHANGED <<page, bad, file, buf, cancel, full, cancelmode, trapped>>

(* The lock goes, then the page: OnRestoreComplete. *)
RestoreEnd ==
    /\ step = "read" /\ at > Total
    /\ step' = "restored" /\ held' = FALSE
    /\ UNCHANGED <<page, nand, bad, file, buf, at, cancel, full, errors, cancelmode, lost,
                   trapped>>

RestoreEnds ==
    /\ page = "restoring" /\ step \in {"restored", "failed"}
    /\ page' = IF step = "restored" THEN "restored" ELSE "menu"
    /\ step' = "none" /\ cancelmode' = FALSE
    /\ UNCHANGED <<copy, cancel, full, trapped>>

Next ==
    \/ DumpNand \/ OnCancelDump \/ DumpCreate \/ DumpBlock \/ DumpWrite \/ DumpEnds
    \/ OnBackFromDump
    \/ RestoreNand \/ RestoreOpen \/ RestoreRead \/ RestoreBlock \/ RestoreEnd \/ RestoreEnds

Spec == Init /\ [][Next]_vars

-----------------------------------------------------------------------------
(* A dump that is shown as completed is the flash, block by block, blank   *)
(* where it is bad, whatever chunks it was written in and whenever a       *)
(* cancel came too late (dump_thread).  Not when the stick failed a write. *)
DumpWhole ==
    page = "done" /\ ~lost =>
        file = {[b \in Block |-> IF b \in bad THEN Blank ELSE nand[b]]}

(* A restore that is shown as complete has put every block of the file     *)
(* into its place except those counted as errors (restore_thread).  Not    *)
(* when the stick failed a read, or the flash a write: dcWriteNandBlock    *)
(* drops the result (dcman/main.c:356-374).                                *)
RestoreWhole ==
    page = "restored" /\ ~lost =>
        \A f \in file : \A b \in Block \ bad : nand[b] = f[b]

(* A dump that could be restored is never one that was cancelled: whatever *)
(* has the size of the flash went to its end (OnCancelDump).               *)
CancelledGone == page = "menu" /\ cancel /\ ~lost => \A f \in file : Len(f) = Total

(* The flash is locked and a suspend refused as long as blocks are written *)
(* back, and neither is left behind (dcLockNand, dcSetCancelMode).         *)
LetGo ==
    /\ step \in {"read", "write"} => held /\ cancelmode
    /\ step \notin {"read", "write"} => ~held
    /\ page \in {"menu", "dumping"} /\ ~trapped => ~cancelmode

(* The four together. *)
NandCopied == DumpWhole /\ RestoreWhole /\ CancelledGone /\ LetGo
=============================================================================
