------------------------------ MODULE UmdVfat -------------------------------
(***************************************************************************)
(* The UMD shown over USB as a FAT16 volume with one file, UMD9660.ISO     *)
(* (usbdevice/main.c:136-368).  The host reads the volume in sectors of    *)
(* 512 bytes, four to a sector of the disc; those before DataStart are     *)
(* made up, the others are read off the disc, a part of a disc sector by   *)
(* way of a buffer that remembers which one it holds.                      *)
(***************************************************************************)
EXTENDS Integers, Sequences, SequencesExt, FiniteSets, FiniteSetsExt

CONSTANTS
    FileSizes,      \* sizes of the disc, in its sectors
    PerCluster,     \* 0x40
    PerFat,         \* 0x100 entries to a sector of the table
    Reserved,       \* 8
    FatLength,      \* 0xF4
    RootLength,     \* 0x20
    VfatSize,       \* umd_vfat_size, 0x3CF800, in host sectors
    Lengths         \* what the host reads at a time, in host sectors

(* A disc is smaller than the volume (a UMD has less than 0xF3E00 sectors), *)
(* and the table has an entry for each of its clusters.                     *)
UmdVfatAssumption ==
    /\ FileSizes \subseteq Nat \ {0} /\ Lengths \subseteq Nat \ {0}
    /\ PerCluster \in Nat \ {0} /\ PerFat \in Nat /\ PerFat > 2
    /\ Reserved \in Nat \ {0} /\ FatLength \in Nat /\ RootLength \in Nat \ {0}
    /\ VfatSize \in Nat /\ \A n \in FileSizes : 4 * n <= VfatSize
    /\ VfatSize <= PerCluster * (PerFat * FatLength - 2)

VARIABLES
    fileSize,   \* the disc, in its sectors
    ptr,        \* umd_vfat_ptr
    last,       \* umd_last_sector
    buf,        \* the disc sector umd_sector holds
    pos,        \* where the drive reads next
    astray,     \* a disc sector was read where the drive was not
    answer      \* the last read
vars == <<fileSize, ptr, last, buf, pos, astray, answer>>

DataStart == Reserved + 2 * FatLength + RootLength
Size == 4 * fileSize
NoSector == -1
Nothing == [from |-> 0, len |-> 0, data |-> <<>>, ok |-> FALSE]

Clusters == Size \div PerCluster + (IF Size % PerCluster # 0 THEN 1 ELSE 0)
EndOfFile == -1

-----------------------------------------------------------------------------
(* ReadAllocTableSector: entry c + 2 belongs to cluster c of the file.     *)
AllocTableSector(fatsec) ==
    LET first == IF fatsec = 0 THEN 0 ELSE PerFat * fatsec - 2
        cluster(i) == IF fatsec = 0 THEN i - 2 ELSE first + i
    IN [k \in 1..PerFat |->
            LET c == cluster(k - 1) IN
            IF c < 0 THEN EndOfFile
            ELSE IF c >= Clusters THEN 0
            ELSE IF c = Clusters - 1 THEN EndOfFile
            ELSE c + 3]

(* ReadUmdVfatSector: what is not listed is zero.                          *)
MadeUp(sector) ==
    IF sector = 0 THEN <<"boot">>
    ELSE IF sector \in Reserved..(Reserved + FatLength - 1)
    THEN <<"fat", AllocTableSector(sector - Reserved)>>
    ELSE IF sector \in (Reserved + FatLength)..(Reserved + 2 * FatLength - 1)
    THEN <<"fat", AllocTableSector(sector - Reserved - FatLength)>>
    ELSE IF sector = Reserved + 2 * FatLength THEN <<"root">>
    ELSE <<"zero">>

OfDisc(sector, k) == <<"umd", 4 * sector + k>>

ReadUmdSectorMarks(d, sector, ok) ==
    LET at == IF d.last # sector - 1 THEN sector ELSE d.pos
    IN IF d.last = sector THEN d
       ELSE [d EXCEPT !.last = sector, !.pos = IF ok THEN at + 1 ELSE at,
                      !.buf = IF ok THEN at ELSE @,
                      !.astray = IF at = sector THEN @ ELSE TRUE]

(* ReadUmdSector: nothing to do when the buffer holds the sector, no seek  *)
(* when it holds the one before.  d is the drive and the buffer.           *)
ReadUmdSector(d, sector, ok) ==
    LET at == IF d.last # sector - 1 THEN sector ELSE d.pos
    IN IF d.last = sector THEN d
       ELSE IF ok /\ at < fileSize
            THEN [d EXCEPT !.last = sector, !.buf = at, !.pos = at + 1,
                           !.astray = IF at = sector THEN @ ELSE TRUE]
       ELSE [d EXCEPT !.pos = at, !.astray = IF at = sector THEN @ ELSE TRUE]

Drive == [last |-> last, buf |-> buf, pos |-> pos, astray |-> astray]

(* UmdVfat_Read in the data area: the rest of a disc sector, whole disc    *)
(* sectors, the beginning of one.                                          *)
Begun(s, rem, ok) ==
    LET x == s % 4
        m == IF rem < 4 - x THEN rem ELSE 4 - x
        d == ReadUmdSector(Drive, s \div 4, ok)
    IN IF x = 0
       THEN [d |-> [Drive EXCEPT !.pos = s \div 4], rem |-> rem,
             lba |-> s \div 4, data |-> <<>>]
       ELSE [d |-> d, rem |-> rem - m, lba |-> s \div 4 + 1,
             data |-> [k \in 1..m |-> OfDisc(d.buf, x + k - 1)]]

WholeSectors(b) ==
    LET n == b.rem \div 4
        data == [k \in 1..(4 * n) |-> OfDisc(b.d.pos, k - 1)]
    IN IF n = 0 THEN b
       ELSE [d |-> [b.d EXCEPT !.pos = @ + n,
                               !.astray = IF b.d.pos = b.lba THEN @ ELSE TRUE],
             rem |-> b.rem - 4 * n, lba |-> b.lba + n, data |-> b.data \o data]

Ended(b, ok) ==
    LET d == ReadUmdSector(b.d, b.lba, ok)
    IN IF b.rem = 0 THEN b
       ELSE [b EXCEPT !.d = d,
                !.data = @ \o [k \in 1..b.rem |-> OfDisc(d.buf, k - 1)]]

(* The drive refuses whole sectors beyond the disc; the code cuts a        *)
(* request at the end of the volume, not of the disc.                      *)
Cut(s, len) == IF s + len >= VfatSize THEN VfatSize - s ELSE len
Beyond(b) == b.rem \div 4 > 0 /\ b.d.pos + b.rem \div 4 > fileSize

Take(d) == last' = d.last /\ buf' = d.buf /\ pos' = d.pos /\ astray' = d.astray

-----------------------------------------------------------------------------
Init ==
    /\ fileSize \in FileSizes
    /\ ptr = 0 /\ last = NoSector /\ buf = NoSector /\ pos = 0
    /\ astray = FALSE /\ answer = Nothing

(* UmdVfat_Open. *)
Open ==
    /\ ptr' = 0 /\ last' = NoSector /\ pos' = 0 /\ astray' = FALSE
    /\ answer' = Nothing
    /\ UNCHANGED <<fileSize, buf>>

(* UmdVfat_IoLseek to a sector of the volume. *)
Lseek(s) ==
    /\ ptr' = s /\ answer' = Nothing
    /\ UNCHANGED <<fileSize, last, buf, pos, astray>>

InData == ptr >= DataStart /\ ptr - DataStart < Size

(* A read of the data area.  ok is whether the disc can be read: a part of *)
(* a sector that could not be is taken from what the buffer holds.         *)
ReadData(len, ok) ==
    /\ InData
    /\ LET s == ptr - DataStart
           begun == Begun(s, Cut(s, len), ok)
           failed == Beyond(begun) \/ (~ok /\ begun.rem \div 4 > 0)
           ended == Ended(WholeSectors(begun), ok)
       IN IF failed
          THEN Take(begun.d) /\ answer' = Nothing /\ UNCHANGED ptr
          ELSE /\ Take(ended.d) /\ ptr' = ptr + len
               /\ answer' = [from |-> ptr, len |-> len, data |-> ended.data,
                             ok |-> ok]
    /\ UNCHANGED fileSize

(* A read from anywhere else: each sector is made up, those of the data    *)
(* area too when the read runs into it.                                    *)
ReadMadeUp(len) ==
    /\ ~InData
    /\ ptr' = ptr + len
    /\ answer' = [from |-> ptr, len |-> len, ok |-> TRUE,
                  data |-> [k \in 1..len |-> MadeUp(ptr + k - 1)]]
    /\ UNCHANGED <<fileSize, last, buf, pos, astray>>

(* A host that opens the volume and reads on, and one that seeks as well. *)
ReadOn ==
    \/ Open
    \/ \E len \in Lengths :
        \/ \E ok \in BOOLEAN : ReadData(len, ok)
        \/ ReadMadeUp(len)

Next == ReadOn \/ \E s \in 0..(DataStart + Size) : Lseek(s)

Bounded == ptr <= DataStart + Size + Max(Lengths)

Spec    == Init /\ [][Next]_vars
Streams == Init /\ [][ReadOn]_vars

-----------------------------------------------------------------------------
(* Types: what the buffer holds, and what it is said to hold, is a sector  *)
(* of the disc.                                                            *)
TypeOK ==
    /\ fileSize \in FileSizes /\ ptr \in Nat
    /\ buf \in NoSector..(fileSize - 1) /\ last \in Nat \cup {NoSector}
    /\ pos \in Nat /\ astray \in BOOLEAN

(* The volume a host should see: the one file laid out from DataStart on.  *)
Volume(k) ==
    IF k >= DataStart /\ k < DataStart + Size THEN <<"umd", k - DataStart>>
    ELSE MadeUp(k)

InOneArea(from, to) ==
    to <= DataStart \/ (from >= DataStart /\ to <= DataStart + Size)

(* However the host's requests are cut into parts of disc sectors, and     *)
(* whatever the buffer holds, a read inside the file, or before the data   *)
(* area, returns the sectors it asks for.  This is as long as the drive    *)
(* was where the code took it to be (astray): ReadUmdSector goes by the    *)
(* sector it read last, and a seek or a read of whole sectors in between   *)
(* moves the drive (main.c:204, 296, 303).                                 *)
ReadsRight ==
    answer.ok /\ ~astray /\ InOneArea(answer.from, answer.from + answer.len)
        => answer.data = [k \in 1..answer.len |-> Volume(answer.from + k - 1)]

(* A host that reads on from where it was, without a seek between reads    *)
(* of the data area, never meets a drive that is somewhere else.           *)
NeverAstray == ~astray

(* The table in either copy chains, from the cluster the directory entry   *)
(* names (2), every cluster of the file once and in order, and marks       *)
(* nothing else as used (main.c:161-195, 425-431).                         *)
Entry(copy, n) ==
    LET sector == Reserved + copy * FatLength + n \div PerFat
    IN MadeUp(sector)[2][(n % PerFat) + 1]
ChainCovers ==
    \A copy \in {0, 1} :
        /\ \A n \in 2..Clusters : Entry(copy, n) = n + 1
        /\ Entry(copy, Clusters + 1) = EndOfFile
        /\ Clusters * PerCluster >= Size /\ (Clusters - 1) * PerCluster < Size
        /\ \A n \in (Clusters + 2)..(PerFat * FatLength - 1) : Entry(copy, n) = 0
=============================================================================
