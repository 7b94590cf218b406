------------------------------- MODULE MsFat --------------------------------
(***************************************************************************)
(* The FAT reader of the boot code (ipl/common/fat.c): it mounts the       *)
(* memory stick, finds a file by its path and reads it from its beginning  *)
(* in whole sectors.  There is one open file.  A volume is a record of its *)
(* geometry, its table and what its sectors hold; a sector is counted in   *)
(* SectorSize units.  The decoding of 12-bit table entries is left out.    *)
(***************************************************************************)
EXTENDS Integers, Sequences, SequencesExt, FiniteSets, FiniteSetsExt

CONSTANTS
    Volumes,        \* the volumes that may be found
    Paths,          \* paths, each a sequence of names
    Sizes,          \* what callers read: whole sectors, in units
    SectorSize,     \* 0x200
    Fat12Limit, Fat16Limit  \* 4085 and 65525 clusters

MsFatAssumption ==
    /\ SectorSize \in Nat \ {0}
    /\ \A n \in Sizes : n > 0 /\ n % SectorSize = 0

VARIABLES
    vol,        \* the volume in the slot
    geo,        \* what MsFatMount worked out of its boot sector
    thefile,    \* the open file
    path,       \* the path it was opened by, <<>> when none is
    buf,        \* what the caller has read since
    left,       \* what the running MsFatRead has left to read, 0 when none
    lost        \* a sector of the table could not be read
vars == <<vol, geo, thefile, path, buf, left, lost>>

NoGeo == [mounted |-> FALSE]
NoFile == [remaining |-> 0, cluster |-> 0, sector |-> 0]

-----------------------------------------------------------------------------
(* MsFatMount: where the table, the root directory and the clusters begin, *)
(* and the type, from the number of clusters behind the reserved sectors.  *)
Type(v) ==
    LET n == (v.total - v.reserved) \div v.perCluster
    IN IF n < Fat12Limit THEN 12 ELSE IF n < Fat16Limit THEN 16 ELSE 32

Mounted(v) ==
    LET data == v.reserved + v.fats * v.fatSize + v.rootSectors
    IN [mounted |-> TRUE, type |-> Type(v), firstData |-> data,
        rootSectors |-> v.rootSectors, rootSector |-> data - v.rootSectors,
        rootCluster |-> v.rootCluster, perCluster |-> v.perCluster]

FirstSector(cluster) == (cluster - 2) * geo.perCluster + geo.firstData

(* MsFatIsValidCluster: the clusters a table entry can name; the mark of   *)
(* the end and everything above it is not one.                             *)
IsValidCluster(cluster) == cluster \in DOMAIN vol.next

(* MsFatGetNextCluster, for 16-bit and 32-bit tables. *)
GetNextCluster(cluster) == vol.next[cluster]

(* The clusters of a directory, in the order MsFatFindFile goes through    *)
(* them.                                                                   *)
Chain(cluster) ==
    FoldLeft(LAMBDA acc, k :
                 IF acc.at \in DOMAIN vol.next
                 THEN [seen |-> Append(acc.seen, acc.at), at |-> vol.next[acc.at]]
                 ELSE acc,
             [seen |-> <<>>, at |-> cluster],
             [k \in 1..Cardinality(DOMAIN vol.next) |-> k]).seen

(* What MsFatFindFile sees of n sectors: each is read and its entries are  *)
(* looked at, and the sector behind them is read too.                      *)
ReadEvent(sector) == <<[kind |-> "read", sector |-> sector]>>

Visit(first, n) ==
    FlattenSeq([k \in 1..n |-> ReadEvent(first + k - 1) \o vol.dir[first + k - 1]])
        \o ReadEvent(first + n)

(* One entry.  The pieces of a long name come last piece first and are put *)
(* before what has been gathered; any other entry ends them.  A deleted    *)
(* entry is passed over, the first unused one ends the search.             *)
Look(name, acc, e) ==
    IF acc.done THEN acc
    ELSE CASE e.kind = "read" ->
                [acc EXCEPT !.done = e.sector >= vol.total]
           [] e.kind = "lfn" -> [acc EXCEPT !.long = e.piece \o @]
           [] e.kind = "end" -> [acc EXCEPT !.done = TRUE]
           [] e.kind = "deleted" -> [acc EXCEPT !.long = <<>>]
           [] e.kind = "short" ->
                IF (acc.long # <<>> /\ acc.long = name) \/ e.name = name
                THEN [done |-> TRUE, long |-> <<>>, found |-> {e}]
                ELSE [acc EXCEPT !.long = <<>>]

Search(events, name) ==
    FoldLeft(LAMBDA acc, e : Look(name, acc, e),
             [done |-> FALSE, long |-> <<>>, found |-> {}], events).found

(* MsFatFindFile: the root directory of a 12-bit or 16-bit volume is a run *)
(* of sectors, every other directory a chain of clusters.                  *)
FindFile(cluster, name, rootcase) ==
    Search(IF rootcase THEN Visit(geo.rootSector, geo.rootSectors)
           ELSE FlattenSeq([k \in DOMAIN Chain(cluster) |->
                    Visit(FirstSector(Chain(cluster)[k]), geo.perCluster)]),
           name)

(* MsFatOpen: each name but the last must be found and not be a file,      *)
(* which is told by its archive bit; the last must not be a directory.     *)
Walk(p) ==
    FoldLeft(LAMBDA acc, k :
        LET found == UNION {FindFile(e.cluster, p[k], k = 1 /\ geo.type # 32) :
                                e \in acc}
        IN {e \in found : IF k < Len(p) THEN ~e.archive ELSE ~e.dir},
        {[cluster |-> geo.rootCluster]}, [k \in DOMAIN p |-> k])

-----------------------------------------------------------------------------
Init ==
    /\ vol \in Volumes /\ geo = NoGeo /\ thefile = NoFile
    /\ path = <<>> /\ buf = <<>> /\ left = 0 /\ lost = FALSE

Mount ==
    /\ ~geo.mounted /\ geo' = Mounted(vol)
    /\ UNCHANGED <<vol, thefile, path, buf, left, lost>>

(* An open that finds nothing leaves the file that was open, or a          *)
(* directory on the way to it, in thefile; callers do not read then.       *)
Open(p) ==
    /\ geo.mounted /\ left = 0
    /\ \/ \E e \in Walk(p) :
            /\ thefile' = [remaining |-> e.size, cluster |-> e.cluster,
                           sector |-> 0]
            /\ path' = p
       \/ Walk(p) = {} /\ path' = <<>> /\ thefile' = NoFile
    /\ buf' = <<>> /\ lost' = FALSE
    /\ UNCHANGED <<vol, geo, left>>

(* MsFatRead begins; at the end of the file it returns at once. *)
ReadBegin(size) ==
    /\ path # <<>> /\ left = 0 /\ thefile.remaining # 0
    /\ left' = size
    /\ UNCHANGED <<vol, geo, thefile, path, buf, lost>>

At == FirstSector(thefile.cluster) + thefile.sector
Data(sector, n) == [k \in 1..n |-> <<sector, k>>]

Partial == thefile.remaining < SectorSize

(* The last sector of the file, when it is not a whole one. *)
ReadLast ==
    /\ left > 0 /\ Partial
    /\ buf' = buf \o Data(At, thefile.remaining)
    /\ thefile' = [thefile EXCEPT !.remaining = 0] /\ left' = 0
    /\ UNCHANGED <<vol, geo, path, lost>>

(* Mutant: the place in the cluster is kept. *)
AdvanceKeeps(cluster) ==
    /\ thefile' = [remaining |-> thefile.remaining - SectorSize,
                   cluster |-> cluster, sector |-> thefile.sector]
    /\ left' = IF IsValidCluster(cluster) THEN left - SectorSize ELSE 0

(* A whole sector, and the next cluster behind the last one of a cluster;  *)
(* a chain that ends before the file ends the file.                        *)
Advance(cluster) ==
    IF IsValidCluster(cluster)
    THEN /\ thefile' = [remaining |-> thefile.remaining - SectorSize,
                        cluster |-> cluster, sector |-> 0]
         /\ left' = left - SectorSize
    ELSE /\ thefile' = [remaining |-> 0, cluster |-> cluster, sector |-> 0]
         /\ left' = 0

ReadWhole ==
    /\ left > 0 /\ ~Partial
    /\ buf' = buf \o Data(At, SectorSize)
    /\ IF thefile.sector + 1 = geo.perCluster
       THEN \/ Advance(GetNextCluster(thefile.cluster)) /\ UNCHANGED lost
            \/ /\ \E c \in DOMAIN vol.next : Advance(c)
               /\ lost' = TRUE
       ELSE /\ thefile' = [thefile EXCEPT !.remaining = @ - SectorSize,
                                          !.sector = @ + 1]
            /\ left' = left - SectorSize
            /\ UNCHANGED lost
    /\ UNCHANGED <<vol, geo, path>>

(* A sector that cannot be read ends the request where it is. *)
ReadFails ==
    /\ left > 0 /\ left' = 0
    /\ UNCHANGED <<vol, geo, thefile, path, buf, lost>>

Next ==
    \/ Mount
    \/ \E p \in Paths : Open(p)
    \/ \E size \in Sizes : ReadBegin(size)
    \/ ReadLast \/ ReadWhole \/ ReadFails

Spec == Init /\ [][Next]_vars
FairSpec == Spec /\ WF_vars(ReadLast \/ ReadWhole)

-----------------------------------------------------------------------------
(* Types: the place in a cluster stays in it, and the file has no more     *)
(* than its size.                                                          *)
TypeOK ==
    /\ vol \in Volumes /\ left \in 0..Max(Sizes)
    /\ thefile.remaining \in Nat /\ thefile.cluster \in Nat
    /\ geo.mounted => thefile.sector \in 0..(geo.perCluster - 1)

(* What the volume has under a path, by the layout it was made from.       *)
Named(p) == {f \in vol.files : f.path = p \/ f.alias = p}

(* An open finds the file its path names, by a long or by a short name, in *)
(* whatever sector or cluster of its directory and behind whatever deleted *)
(* entries, and no file otherwise (fat.c:214-432).                         *)
OpensRight ==
    geo.mounted /\ left = 0 =>
        \A p \in Paths :
            {[cluster |-> e.cluster, size |-> e.size] : e \in Walk(p)}
            = {[cluster |-> f.chain[1], size |-> f.size] : f \in Named(p)}

(* The bytes of a file: the sectors of its chain, cut at its size.         *)
Contents(f) ==
    LET sectors == FlattenSeq([k \in DOMAIN f.chain |->
            [j \in 1..vol.perCluster |->
                (f.chain[k] - 2) * vol.perCluster + j - 1
                + vol.reserved + vol.fats * vol.fatSize + vol.rootSectors]])
        all == FlattenSeq([k \in DOMAIN sectors |-> Data(sectors[k], SectorSize)])
    IN SubSeq(all, 1, f.size)

(* What a caller has read since it opened a file is the file from its      *)
(* beginning, in order and without a gap, however the reads were cut and   *)
(* whichever of them failed and was made again, up to the end of the file  *)
(* when it has been told that there is no more.  A table that cannot be    *)
(* read sends it anywhere (lost).                                          *)
ReadsRight ==
    path # <<>> /\ ~lost =>
        \A f \in Named(path) :
            /\ IsPrefix(buf, Contents(f))
            /\ thefile.remaining = 0 => buf = Contents(f)

=============================================================================
