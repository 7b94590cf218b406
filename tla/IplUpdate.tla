----------------------------- MODULE IplUpdate ------------------------------
(***************************************************************************)
(* The writer of the boot blocks (ipl_update/main.c) and the installer's   *)
(* use of it: clear the area, then set a new loader.  The loader's blocks  *)
(* are written first, each to the next block that takes it; then the table *)
(* that lists them, to every mirror.  Blocks may be bad, and the power may *)
(* go at any step; what the boot processor then finds is what pspIplGetIpl *)
(* reads.  The contents of a block are a tuple that begins with their kind.*)
(***************************************************************************)
EXTENDS Integers, Sequences, FiniteSets, FiniteSetsExt

CONSTANTS
    Area,           \* blocks of the boot area, 0x30
    Mirrors,        \* where the table is written, blocks 4 to 0xB
    FirstData,      \* 0x11
    Wrap,           \* blocks after which the page number, 32 bits wide, wraps
    Ipls,           \* loaders
    Blocks,         \* their sizes in blocks
    Bads            \* sets of blocks that cannot be written

(* The mirrors lie between the first block and those of the data, and each *)
(* loader fits behind them.                                                *)
IplUpdateAssumption ==
    /\ Area \in Nat /\ Wrap \in Nat /\ FirstData \in Nat
    /\ FirstData <= Area /\ Area <= Wrap
    /\ Mirrors \subseteq 1..(FirstData - 1) /\ Mirrors # {}
    /\ Blocks \in [Ipls -> Nat \ {0}] /\ \A l \in Ipls : FirstData + Blocks[l] <= Area

VARIABLES
    nand,       \* what each block holds
    bad,        \* the blocks that can be neither written nor erased
    pc,         \* what the writer does: "idle", "clear", "data", "mirrors"
    ipl,        \* the loader being set
    block,      \* the block it is at
    table,      \* the blocks written so far
    written,    \* a mirror has been written
    res,        \* the result of the last call
    stale,      \* a table of an earlier loader could not be erased
    wrapped     \* the area was full and the page number wrapped
vars == <<nand, bad, pc, ipl, block, table, written, res, stale, wrapped>>

Whole(l) == [k \in 1..Blocks[l] |-> <<"data", l, k>>]

-----------------------------------------------------------------------------
(* pspIplGetIpl: the first mirror that holds a table, and the blocks it    *)
(* names up to the first zero.                                             *)
Tables == {b \in Mirrors : nand[b][1] = "table"}

Named(t) == LET zeros == {k \in DOMAIN t : t[k] = 0}
            IN IF zeros = {} THEN t ELSE SubSeq(t, 1, Min(zeros) - 1)

GetIpl == IF Tables = {} THEN <<>>
          ELSE LET t == Named(nand[Min(Tables)][2])
               IN [k \in DOMAIN t |-> nand[t[k]]]

-----------------------------------------------------------------------------
(* A device that works, its bad blocks grown since; or one whose area was  *)
(* cleared, its bad blocks from the factory.                               *)
Loaded(l) ==
    [b \in 0..(Area - 1) |->
        IF b \in Mirrors
        THEN <<"table", [k \in 1..Blocks[l] |-> FirstData + k - 1]>>
        ELSE IF b - FirstData + 1 \in 1..Blocks[l]
        THEN <<"data", l, b - FirstData + 1>> ELSE <<"blank">>]

Cleared == [b \in 0..(Area - 1) |-> IF b \in bad THEN <<"torn">> ELSE <<"blank">>]

Init ==
    /\ bad \in Bads
    /\ nand \in {Loaded(l) : l \in Ipls} \cup {Cleared}
    /\ pc = "idle" /\ ipl \in Ipls /\ block = 0 /\ table = <<>>
    /\ written = FALSE /\ res = "none" /\ stale = FALSE /\ wrapped = FALSE

(* pspIplUpdateClearIpl. *)
ClearIpl ==
    /\ pc = "idle" /\ pc' = "clear" /\ block' = 0 /\ res' = "none"
    /\ UNCHANGED <<nand, bad, ipl, table, written, stale, wrapped>>

(* sceNandEraseIplBlockWithRetry on a block that can be erased, or not;    *)
(* the result is ignored.                                                  *)
Erased(b) == IF b \in bad THEN nand ELSE [nand EXCEPT ![b] = <<"blank">>]

EraseBlock ==
    /\ pc = "clear" /\ block < Area
    /\ nand' = Erased(block)
    /\ stale' = (stale \/ (block \in bad /\ nand[block][1] = "table"))
    /\ block' = block + 1
    /\ UNCHANGED <<bad, pc, ipl, table, written, res, wrapped>>

(* pspIplUpdateSetIpl, once the area is clear; the installer refuses a     *)
(* loader of no bytes.                                                     *)
SetIpl(l) ==
    /\ pc = "clear" /\ block = Area
    /\ pc' = "data" /\ ipl' = l /\ block' = FirstData /\ table' = <<>>
    /\ UNCHANGED <<nand, bad, written, res, stale, wrapped>>

(* sceNandWriteIplBlockWithVerify: a bad block may be left half written or *)
(* as it was.  A page number behind the area is refused.                   *)
Writable(b) == b % Wrap < Area /\ b % Wrap \notin bad
Spoilt(b) == {nand} \cup IF b % Wrap < Area
                         THEN {[nand EXCEPT ![b % Wrap] = <<"torn">>]} ELSE {}

(* Mutant: a block that could not be written is entered. *)
WriteDataBad ==
    /\ pc = "data" /\ Len(table) < Blocks[ipl]
    /\ \E n \in IF Writable(block)
                THEN {[nand EXCEPT ![block % Wrap] =
                        <<"data", ipl, Len(table) + 1>>]} ELSE Spoilt(block) :
            nand' = n
    /\ table' = Append(table, block % Wrap)
    /\ block' = block + 1
    /\ wrapped' = (wrapped \/ block' >= Wrap)
    /\ UNCHANGED <<bad, pc, ipl, written, res, stale>>

(* One turn of the loop over the loader's blocks: the block is written and *)
(* entered in the table, or the next one is tried, without end.            *)
WriteData ==
    /\ pc = "data" /\ Len(table) < Blocks[ipl]
    /\ IF Writable(block)
       THEN /\ nand' = [nand EXCEPT ![block % Wrap] =
                            <<"data", ipl, Len(table) + 1>>]
            /\ table' = Append(table, block % Wrap)
       ELSE nand' \in Spoilt(block) /\ UNCHANGED table
    /\ block' = block + 1
    /\ wrapped' = (wrapped \/ block' >= Wrap)
    /\ UNCHANGED <<bad, pc, ipl, written, res, stale>>

(* The loader is written; the mirrors follow. *)
BeginMirrors ==
    /\ pc = "data" /\ Len(table) = Blocks[ipl]
    /\ pc' = "mirrors" /\ block' = Min(Mirrors) /\ written' = FALSE
    /\ UNCHANGED <<nand, bad, ipl, table, res, stale, wrapped>>

WriteMirror ==
    /\ pc = "mirrors" /\ block \in Mirrors
    /\ IF Writable(block)
       THEN /\ nand' = [nand EXCEPT ![block] = <<"table", table>>]
            /\ written' = TRUE
       ELSE nand' \in Spoilt(block) /\ UNCHANGED written
    /\ block' = block + 1
    /\ UNCHANGED <<bad, pc, ipl, table, res, stale, wrapped>>

Return ==
    /\ pc = "mirrors" /\ block \notin Mirrors
    /\ pc' = "idle" /\ res' = IF written THEN "set" ELSE "error"
    /\ UNCHANGED <<nand, bad, ipl, block, table, written, stale, wrapped>>

(* The power goes; the next start begins with what the blocks hold. *)
PowerOff ==
    /\ pc # "idle" /\ pc' = "idle" /\ res' = "none"
    /\ UNCHANGED <<nand, bad, ipl, block, table, written, stale, wrapped>>

Next ==
    \/ ClearIpl \/ EraseBlock \/ WriteData \/ BeginMirrors \/ WriteMirror
    \/ Return \/ PowerOff
    \/ \E l \in Ipls : SetIpl(l)

Spec == Init /\ [][Next]_vars

-----------------------------------------------------------------------------
(* A loader that was set is the one the boot processor reads, whatever     *)
(* blocks were skipped and however many mirrors failed (main.c:113-233).   *)
(* Not when the area ran out of blocks (wrapped), nor when an old table    *)
(* survives in a bad block before the new ones (stale).                    *)
SetReadsBack ==
    pc = "idle" /\ res = "set" /\ ~wrapped /\ ~stale => GetIpl = Whole(ipl)

(* Whenever the power goes, the boot processor finds a whole loader or no  *)
(* table at all, never a table of blocks that are gone or half written.    *)
NeverTorn ==
    ~wrapped /\ ~stale => GetIpl \in {<<>>} \cup {Whole(l) : l \in Ipls}

(* Both. *)
LoaderRight == SetReadsBack /\ NeverTorn
=============================================================================
