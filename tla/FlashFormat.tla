------------------------------ MODULE FlashFormat -----------------------------
(***************************************************************************)
(* How the flash is divided: the driver that writes its partition tables   *)
(* (lflash_fdisk/main.c), and the page of the unbricker that uses it       *)
(* (vunbricker/flash_format.c).                                            *)
(*                                                                         *)
(* The tables: sizes are asked for in cylinders, 0 meaning what is left,   *)
(* and become one extended partition that holds a chain of tables, one     *)
(* before each partition.  Counts are 32 bits wide.  What a record says of *)
(* heads and types is left out.  A request names the drive's sectors and   *)
(* what the command line says.                                             *)
(*                                                                         *)
(* The page: the user sets the sizes of the four partitions, and a thread  *)
(* loads the drivers of the updater, formats the flash, has the tables     *)
(* written and makes a file system in each partition.  While it works a    *)
(* suspend is refused (dcman's cancel mode).  Sizes are in cylinders,      *)
(* 32 KB.  An error shows a message and returns to the menu, from where    *)
(* the user may begin again.                                               *)
(***************************************************************************)
EXTENDS Integers, Sequences, SequencesExt, FiniteSets, FiniteSetsExt

CONSTANTS
    Width,          \* 2^32
    DefSectors,     \* 32 sectors, when the geometry is not given
    Cylinders,      \* 1024 cylinders
    MaxHeads,       \* 256 heads
    Default,        \* sizes to begin with, of the board's flash
    Least,          \* 3 cylinders: 96 KB
    Heads, Sectors, \* 2 and 32
    Spare           \* sectors of the drive behind its last cylinder

-----------------------------------------------------------------------------
(* DoFdisk: the geometry asked for, or one that does not depend on it: the *)
(* division binds to the constant alone, so that there are always many     *)
(* heads.                                                                  *)
Geometry(req) ==
    IF req.heads # 0 /\ req.sectors # 0
    THEN [sectors |-> req.sectors, total |-> req.heads * req.sectors]
    ELSE LET heads == (req.blocks + Cylinders + DefSectors - 1) \div DefSectors
         IN [sectors |-> DefSectors, total |-> Min({heads, MaxHeads}) * DefSectors]

(* Each partition in sectors, and their sum; a size below one track stands *)
(* for the whole cylinders that are left.                                  *)
Sizes(req) ==
    LET g == Geometry(req)
        Add(acc, n) ==
            LET left == (req.blocks - g.total - acc.sum) % Width
                size == IF (n * g.total) % Width < g.sectors
                        THEN (left \div g.total) * g.total
                        ELSE (n * g.total) % Width
            IN [parts |-> Append(acc.parts, size), sum |-> (acc.sum + size) % Width]
    IN FoldLeft(Add, [parts |-> <<>>, sum |-> 0], req.sizes)

TooMany(req) ==
    (req.blocks - Geometry(req).total) % Width < Sizes(req).sum

(* create_partition_record: where a partition begins, counted from "from". *)
Record(at, len, from) == [before |-> (at - from) % Width, len |-> len % Width]

(* Where the table of the k-th partition stands. *)
TableAt(req, k) ==
    (Geometry(req).total + SumFunction(SubSeq(Sizes(req).parts, 1, k - 1))) % Width

(* write_partition_table: the table of sector 0 names the extended         *)
(* partition; that of a partition names the partition behind its track and *)
(* the table of the next one, which counts from the extended partition.    *)
FirstTable(req) ==
    [part |-> Record(Geometry(req).total, Sizes(req).sum, 0), next |-> {}]

(* Mutant: the next table counts from the one that names it. *)
PartitionTableNear(req, k) ==
    LET g == Geometry(req)
        parts == Sizes(req).parts
        at == TableAt(req, k)
        next == IF k < Len(parts) THEN parts[k + 1] ELSE 0
    IN [part |-> Record(at + g.sectors, parts[k] - g.sectors, at),
        next |-> IF next = 0 THEN {} ELSE {Record(at + parts[k], next, at)}]

PartitionTable(req, k) ==
    LET g == Geometry(req)
        parts == Sizes(req).parts
        at == TableAt(req, k)
        next == IF k < Len(parts) THEN parts[k + 1] ELSE 0
    IN [part |-> Record(at + g.sectors, parts[k] - g.sectors, at),
        next |-> IF next = 0 THEN {}
                 ELSE {Record(at + parts[k], next, g.total)}]

(* DoFdisk: the tables are written in order and the first that lies behind *)
(* the drive ends it; a table may be written over by one of an empty       *)
(* partition.                                                              *)
Refused(req) == {k \in DOMAIN req.sizes : TableAt(req, k) >= req.blocks}

Written(req) ==
    LET last == IF Refused(req) = {} THEN Len(req.sizes) ELSE Min(Refused(req)) - 1
    IN [at \in {0} \cup {TableAt(req, k) : k \in 1..last} |->
           IF at = 0 THEN FirstTable(req)
           ELSE PartitionTable(req, Max({k \in 1..last : TableAt(req, k) = at}))]

Fdisk(req) ==
    IF TooMany(req) THEN [res |-> -1, disk |-> <<>>]
    ELSE [res |-> IF Refused(req) = {} THEN 0 ELSE -3, disk |-> Written(req)]

-----------------------------------------------------------------------------
(* A driver's way through the tables: the partitions, each with its first  *)
(* sector and its length.                                                  *)
Walk(disk) ==
    LET base == disk[0].part.before
        Step(acc, k) ==
            IF acc.at = {} THEN acc
            ELSE LET at == CHOOSE a \in acc.at : TRUE
                     t  == disk[at]
                 IN [seen |-> Append(acc.seen, [start |-> at + t.part.before,
                                                len |-> t.part.len]),
                     at |-> {base + r.before : r \in t.next} \cap DOMAIN disk]
        first == IF disk[0].part.len = 0 THEN {} ELSE {base}
    IN FoldLeft(Step, [seen |-> <<>>, at |-> first \cap DOMAIN disk],
                [k \in 1..Cardinality(DOMAIN disk) |-> k]).seen

(* What was asked for: the sizes in cylinders behind the first one, the    *)
(* first 0 standing for the cylinders that are left; each partition loses  *)
(* a track to its table.                                                   *)
Asked(req) ==
    LET g == Geometry(req)
        whole == req.blocks \div g.total - 1
        zeros == {k \in DOMAIN req.sizes : req.sizes[k] = 0}
        last == IF zeros = {} THEN Len(req.sizes) ELSE Min(zeros)
        cyl == [k \in 1..last |->
                   IF req.sizes[k] # 0 THEN req.sizes[k]
                   ELSE whole - SumFunction(SubSeq(req.sizes, 1, k - 1))]
        from(k) == SumFunction(SubSeq(cyl, 1, k - 1))
        kept == SelectSeq([k \in 1..last |-> k], LAMBDA k : cyl[k] > 0)
    IN [j \in DOMAIN kept |->
           [start |-> g.total * (1 + from(kept[j])) + g.sectors,
            len   |-> g.total * cyl[kept[j]] - g.sectors]]

(* The sizes before a 0 alone are more than the drive has: what is left    *)
(* wraps, the sum wraps back, and the request is not refused.              *)
Overdrawn(req) ==
    \E k \in DOMAIN req.sizes :
        /\ req.sizes[k] = 0
        /\ (1 + SumFunction(SubSeq(req.sizes, 1, k - 1))) * Geometry(req).total > req.blocks

(* A request that is carried out leaves exactly the partitions asked for,  *)
(* each inside the drive and none over another (main.c:191-296); one that  *)
(* does not fit is refused.                                                *)
TablesRight(req) ==
    Fdisk(req).res = 0 /\ ~Overdrawn(req) =>
        LET seen == Walk(Fdisk(req).disk)
        IN /\ seen = Asked(req)
           /\ \A k \in DOMAIN seen :
                /\ seen[k].start + seen[k].len <= req.blocks
                /\ k > 1 => seen[k - 1].start + seen[k - 1].len < seen[k].start

-----------------------------------------------------------------------------
(* The page. *)
TotalSize == SumFunction(Default)
Parts  == DOMAIN Default
Driver == 1..4      \* nand, file system, fatfmt, fdisk

VARIABLES
    page,       \* "menu", "sizes", "edit", "confirm", "busy", "done"
    sizes,      \* flash_sizes
    limit,      \* the maximum of the spin selected
    sel,        \* the spin selected
    drivers,    \* each driver: "out", "loaded", "started"
    step,       \* where the thread is
    disk,       \* the tables on the flash
    fat,        \* the partitions that have a new file system
    cancelmode  \* a suspend is refused
vars == <<page, sizes, limit, sel, drivers, step, disk, fat, cancelmode>>
ui   == <<sizes, limit, sel>>

\* the command line of fdisk: the four sizes, and twice what is left
Request == [blocks |-> (TotalSize + 1) * Heads * Sectors + Spare,
            heads |-> Heads, sectors |-> Sectors, sizes |-> sizes \o <<0, 0>>]

\* how far the spin of partition k may go
Most(k) == sizes[k] + TotalSize - SumFunction(sizes)

Init ==
    /\ page = "menu" /\ sizes = Default /\ limit = Default[1] /\ sel = 1
    /\ drivers = [d \in Driver |-> "out"]
    /\ step = <<"none">> /\ disk = <<>> /\ fat = {} /\ cancelmode = FALSE

-----------------------------------------------------------------------------
(* The pages. *)
FormatFlashPage ==
    /\ page \in {"menu", "confirm"} /\ page' = "sizes"
    /\ limit' = Most(1) /\ sel' = 1
    /\ UNCHANGED <<sizes, drivers, step, disk, fat, cancelmode>>

(* The spin that gets the focus may take what the others leave. *)
Select(k) ==
    /\ page = "sizes" /\ k \in {sel - 1, sel + 1} \cap Parts
    /\ sel' = k /\ limit' = Most(k)
    /\ UNCHANGED <<page, sizes, drivers, step, disk, fat, cancelmode>>

EditSpin ==
    /\ page = "sizes" /\ page' = "edit"
    /\ UNCHANGED <<ui, drivers, step, disk, fat, cancelmode>>

(* The value is taken, or the old one is shown again. *)
SpinEdited ==
    /\ page = "edit" /\ page' = "sizes"
    /\ \E n \in (Least..limit) \cup {sizes[sel]} : sizes' = [sizes EXCEPT ![sel] = n]
    /\ UNCHANGED <<limit, sel, drivers, step, disk, fat, cancelmode>>

Leave ==
    /\ \/ page = "sizes" /\ page' \in {"menu", "confirm"}
       \/ page = "done" /\ page' = "menu"
    /\ UNCHANGED <<ui, drivers, step, disk, fat, cancelmode>>

(* Without a thread the page of the format stays for good. *)
BeginFormatFlash ==
    /\ page = "confirm" /\ page' = "busy"
    /\ \/ step' = <<"load", 1>> /\ cancelmode' = TRUE
       \/ step' = <<"none">> /\ UNCHANGED cancelmode
    /\ UNCHANGED <<ui, drivers, disk, fat>>

-----------------------------------------------------------------------------
(* format_thread.  A driver that is loaded already is not started again.   *)
LoadFormatModule(d) ==
    /\ step = <<"load", d>>
    /\ \/ drivers[d] # "out" /\ UNCHANGED drivers /\ step' = <<"load", d + 1>>
       \/ /\ drivers[d] = "out"
          /\ drivers' = [drivers EXCEPT ![d] = "started"] /\ step' = <<"load", d + 1>>
       \/ /\ drivers[d] = "out" /\ step' = <<"failed">>
          /\ \E s \in {"out", "loaded"} : drivers' = [drivers EXCEPT ![d] = s]
    /\ UNCHANGED <<page, ui, disk, fat, cancelmode>>

\* what the thread calls, and how it goes on when that fails; a driver that
\* was not started cannot be called
Calls(d, next) ==
    \/ drivers[d] = "started" /\ step' = next
    \/ step' = <<"failed">>

PhysicalFormat ==
    /\ step = <<"load", 5>> /\ Calls(1, <<"fdisk">>)
    /\ disk' = <<>> /\ fat' = {}
    /\ UNCHANGED <<page, ui, drivers, cancelmode>>

(* A failure leaves no tables, or those written before it. *)
StartFDisk ==
    LET fdisk == Fdisk(Request)
    IN /\ step = <<"fdisk">>
       /\ IF fdisk.res = 0 THEN Calls(4, <<"fatfmt", 1>>) ELSE step' = <<"failed">>
       /\ disk' \in IF step' = <<"failed">> THEN {fdisk.disk, <<>>} ELSE {fdisk.disk}
       /\ UNCHANGED <<page, ui, drivers, fat, cancelmode>>

\* fatfmt finds the partition through the tables
Exists(k) == disk # <<>> /\ k \in DOMAIN Walk(disk)

StartFatfmt(k) ==
    /\ step = <<"fatfmt", k>>
    /\ \/ /\ Exists(k) /\ drivers[3] = "started"
          /\ fat' = fat \cup {Walk(disk)[k]}
          /\ step' = IF k = Len(Default) THEN <<"complete">> ELSE <<"fatfmt", k + 1>>
       \/ step' = <<"failed">> /\ UNCHANGED fat
    /\ UNCHANGED <<page, ui, drivers, disk, cancelmode>>

(* The handlers that the thread leaves to the pages. *)
FormatComplete ==
    /\ step = <<"complete">> /\ page' = "done"
    /\ step' = <<"none">> /\ cancelmode' = FALSE
    /\ UNCHANGED <<ui, drivers, disk, fat>>

FormatError ==
    /\ step = <<"failed">> /\ page' = "menu"
    /\ step' = <<"none">> /\ cancelmode' = FALSE
    /\ UNCHANGED <<ui, drivers, disk, fat>>

Next ==
    \/ FormatFlashPage \/ EditSpin \/ SpinEdited \/ Leave \/ BeginFormatFlash
    \/ PhysicalFormat \/ StartFDisk \/ FormatComplete \/ FormatError
    \/ \E k \in Parts : Select(k) \/ StartFatfmt(k)
    \/ \E d \in Driver : LoadFormatModule(d)

Spec == Init /\ [][Next]_vars

-----------------------------------------------------------------------------
(* Whatever order the spins are set in, the partitions fit the flash: the  *)
(* maxima of OnSpinSelectUp and OnSpinSelectDown keep the sum.             *)
SizesFit ==
    /\ SumFunction(sizes) <= TotalSize
    /\ \A k \in Parts : sizes[k] >= Least

(* A format that says it is complete has left the four partitions of the   *)
(* sizes shown, in their order, each with a file system of its own         *)
(* (format_thread, DoFdisk).                                               *)
Formatted ==
    page = "done" =>
        /\ Exists(Len(Default))
        /\ \A k \in Parts :
              /\ Walk(disk)[k].len = (sizes[k] * Heads - 1) * Sectors
              /\ Walk(disk)[k] \in fat
        /\ TablesRight(Request)

(* The flash is never between two formats while the device may suspend,    *)
(* and the pages never leave the suspend refused.                          *)
SuspendRefused ==
    /\ step # <<"none">> => cancelmode
    /\ page # "busy" => ~cancelmode
=============================================================================
