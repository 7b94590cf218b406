----------------------------- MODULE IsoDirectory -----------------------------
(***************************************************************************)
(* src/modules/systemctrl/isofs_driver.c: how a directory of the disc is   *)
(* walked, by FindFileLBA for a name and by isofs_dread2 entry by entry.   *)
(* Both look at the directory through the same buffer of eight sectors,    *)
(* and recognise the end of a sector and of the directory by a record      *)
(* length of zero.                                                         *)
(*                                                                         *)
(* A directory is a sequence of record lengths, laid out as ISO 9660 wants *)
(* it: a record that does not fit into its sector starts the next one.     *)
(***************************************************************************)
EXTENDS Integers, Sequences, SequencesExt

CONSTANTS
    SectorSize,
    Window,         \* sectors in the buffer, 8 in the code
    Margin,         \* a record that starts later has its window moved; the
                    \* size of a record and 0x60 in the code
    Lengths,        \* of records
    LongName,       \* records so long have a name that FindFileLBA refuses
    MaxEntries,     \* bound on the records of a directory
    Other,          \* the lengths of the records of another directory
    Zero, None

SizesAssumption == \A n \in {SectorSize, Window, Margin, LongName} : n \in Nat \ {0}
LengthsAssumption ==
    Lengths \subseteq 1 .. SectorSize /\ \A n \in Lengths : n <= Margin

VARIABLES
    dir,            \* the directories: [lba, records, size in sectors]
    sectors,        \* the buffer: a sector of the disc or Zero in every place
    user,           \* who is in the driver: isofs_sema
    find,           \* a run of FindFileLBA
    handle,         \* the handle of the listing of directory 1
    listed,         \* what isofs_dread has returned
    misled          \* history: isofs_dread went on after a read that failed

vars == <<dir, sectors, user, find, handle, listed, misled>>

\* a record: where it starts and how long it is
Place(records, len) ==
    LET last == Last(records)
        end  == last.off + last.len
    IN  IF records = <<>> THEN [sec |-> 0, off |-> 0, len |-> len]
        ELSE IF end + len <= SectorSize THEN [sec |-> last.sec, off |-> end, len |-> len]
        ELSE [sec |-> last.sec + 1, off |-> 0, len |-> len]
Packed(lens) == FoldLeft(LAMBDA records, len : Append(records, Place(records, len)), <<>>, lens)

Directory(lba, lens) ==
    LET records == Packed(lens) IN
    [lba |-> lba, records |-> records, size |-> Last(records).sec + 1]

\* the other directory lies right behind the first one
Init ==
    /\ \E n \in 2 .. MaxEntries : \E lens \in [1 .. n -> Lengths] :
          LET d == Directory(1, lens)
          IN  dir = <<d, Directory(1 + d.size, Other)>>
    /\ sectors = [i \in 0 .. Window |-> Zero]
    /\ user = None
    /\ find = [pc |-> None]
    /\ handle = [filepointer |-> 0, curlba |-> 0, olddirlen |-> 0, eof |-> FALSE]
    /\ listed = <<>> /\ misled = FALSE

-----------------------------------------------------------------------------
(* The buffer.                                                             *)

Rec(r) == dir[r[1]].records[r[2]]

\* the records that start at byte o of sector s of the disc
At(s, o) ==
    LET d == IF s < dir[2].lba THEN 1 ELSE 2 IN
    {<<d, i>> : i \in {j \in DOMAIN dir[d].records :
                          dir[d].lba + dir[d].records[j].sec = s /\ dir[d].records[j].off = o}}

\* the record at place p of the buffer, or None where its length is zero
Record(buf, p) ==
    LET s  == buf[p \div SectorSize]
        rs == IF s = Zero THEN {} ELSE At(s, p % SectorSize)
    IN  IF rs = {} THEN None ELSE CHOOSE r \in rs : TRUE

\* n sectors are followed by 64 bytes of zero; those are written first, and
\* are all that changes when the read fails
IsofsReadSectors(lba, n) ==
    [i \in 0 .. Window |-> IF i < n THEN lba + i ELSE IF i = n THEN Zero ELSE sectors[i]]
Unread(n) == [sectors EXCEPT ![n] = Zero]

\* At a length of zero the walk goes on in the next sector when the last
\* record would not have fitted into this one.
Skip(buf, p, old) ==
    LET room == SectorSize - (p % SectorSize)
        next == p + room
    IN  IF Record(buf, p) # None THEN <<p, Record(buf, p)>>
        ELSE IF room <= old THEN <<next, Record(buf, next)>>
        ELSE <<p, None>>

-----------------------------------------------------------------------------
(* FindFileLBA.                                                            *)

FindFail == find' = [find EXCEPT !.pc = "error"] /\ user' = None

Absent == 0

\* look for the record target of directory d, or for a name that is not there
FindStart(d, target) ==
    /\ user = None /\ find.pc # "walk"
    /\ LET n == IF dir[d].size <= Window THEN dir[d].size ELSE Window
           f == [pc |-> "walk", d |-> d, target |-> target, p |-> 0, lba |-> dir[d].lba,
                 old |-> 0, remaining |-> dir[d].size - n]
       IN  \/ find' = f /\ user' = "find" /\ sectors' = IsofsReadSectors(dir[d].lba, n)
           \/ find' = [f EXCEPT !.pc = "error"] /\ sectors' = Unread(n) /\ UNCHANGED user
    /\ UNCHANGED <<dir, handle, listed, misled>>

\* what is left when the window has moved
MovedOffset(offset) == offset % SectorSize
Left(offset) == find.remaining - IF offset >= Window * SectorSize THEN Window ELSE Window - 1

FindStep ==
    /\ find.pc = "walk"
    /\ LET s == Skip(sectors, find.p, find.old)
           r == s[2]
           offset == s[1] + Rec(r).len
           moves == find.remaining > 0 /\ offset + Margin >= Window * SectorSize
           lba == find.lba + offset \div SectorSize
       IN
       IF r = None
       THEN find' = [find EXCEPT !.pc = "noent"] /\ user' = None /\ UNCHANGED sectors
       ELSE IF Rec(r).len >= LongName
       THEN FindFail /\ UNCHANGED sectors
       ELSE IF find.target # Absent /\ r = <<find.d, find.target>>
       THEN find' = [find EXCEPT !.pc = "found"] /\ user' = None /\ UNCHANGED sectors
       ELSE IF ~moves
       THEN /\ find' = [find EXCEPT !.p = offset, !.old = Rec(r).len]
            /\ UNCHANGED <<user, sectors>>
       ELSE \/ /\ sectors' = IsofsReadSectors(lba, Window)
               /\ find' = [find EXCEPT !.lba = lba, !.remaining = Left(offset),
                                       !.p = MovedOffset(offset), !.old = Rec(r).len]
               /\ UNCHANGED user
            \/ FindFail /\ sectors' = Unread(Window)
    /\ UNCHANGED <<dir, handle, listed, misled>>

-----------------------------------------------------------------------------
(* isofs_dopen and isofs_dread2.                                           *)

Dopen ==
    /\ user = None /\ handle.curlba = 0
    /\ handle' = [handle EXCEPT !.curlba = dir[1].lba]
    /\ UNCHANGED <<dir, sectors, user, find, listed, misled>>

\* the window of the listing: where it starts, its sectors and the place in it
View ==
    LET offset == handle.filepointer - (handle.curlba - dir[1].lba) * SectorSize IN
    IF dir[1].size <= Window
    THEN [lba |-> handle.curlba, n |-> dir[1].size, p |-> handle.filepointer]
    ELSE IF offset + Margin >= Window * SectorSize
    THEN [lba |-> handle.curlba + offset \div SectorSize, n |-> Window, p |-> offset % SectorSize]
    ELSE [lba |-> handle.curlba, n |-> Window, p |-> offset]

\* mutant: the sectors are only read when the window moves
DreadCached ==
    /\ user \in {None, "dread"} /\ handle.curlba # 0 /\ ~handle.eof
    /\ LET buf == IF View.lba # handle.curlba \/ handle.filepointer = 0
                  THEN IsofsReadSectors(View.lba, View.n) ELSE sectors
           s == Skip(buf, View.p, handle.olddirlen)
           r == s[2]
           at == handle.filepointer + s[1] - View.p
       IN
       /\ sectors' = buf
       /\ handle' = IF r = None
             THEN [handle EXCEPT !.curlba = View.lba, !.filepointer = at, !.eof = TRUE]
             ELSE [handle EXCEPT !.curlba = View.lba, !.filepointer = at + Rec(r).len,
                                 !.olddirlen = Rec(r).len]
       /\ listed' = IF r = None \/ r[2] <= 2 THEN listed ELSE Append(listed, r)
       /\ user' = IF r # None /\ r[2] <= 2 THEN "dread" ELSE None
    /\ UNCHANGED <<dir, find, misled>>

\* One round of the loop: the records "." and ".." are passed over, any other
\* is returned.  Whether the sectors could be read is not looked at.
Dread ==
    /\ user \in {None, "dread"} /\ handle.curlba # 0 /\ ~handle.eof
    /\ \E fails \in BOOLEAN :
       LET buf == IF fails THEN Unread(View.n)
                  ELSE IsofsReadSectors(View.lba, View.n)
           s == Skip(buf, View.p, handle.olddirlen)
           r == s[2]
           at == handle.filepointer + s[1] - View.p
       IN
       /\ sectors' = buf /\ misled' = (misled \/ fails)
       /\ handle' = IF r = None
             THEN [handle EXCEPT !.curlba = View.lba, !.filepointer = at, !.eof = TRUE]
             ELSE [handle EXCEPT !.curlba = View.lba, !.filepointer = at + Rec(r).len,
                                 !.olddirlen = Rec(r).len]
       /\ listed' = IF r = None \/ r[2] <= 2 THEN listed ELSE Append(listed, r)
       /\ user' = IF r # None /\ r[2] <= 2 THEN "dread" ELSE None
    /\ UNCHANGED <<dir, find>>

Next == \/ \E d \in {1, 2} : \E target \in 0 .. Len(dir[d].records) : FindStart(d, target)
        \/ FindStep \/ Dopen \/ Dread

Spec == Init /\ [][Next]_vars

\* bound: what follows a listing that has gone wrong is not looked at
Guarded == ~misled
-----------------------------------------------------------------------------
(* Properties.  The code knows the end of a sector from the length of the  *)
(* last record before it: a directory is seen up to the first record that  *)
(* was moved to a new sector although its forerunner would have fitted.    *)

Rest(r) == SectorSize - (r.off + r.len)

\* the records of directory d that the walks reach
Reached(d) ==
    LET rs == dir[d].records
        Breaks(i) == rs[i + 1].sec # rs[i].sec /\ Rest(rs[i]) > rs[i].len
    IN  {i \in 1 .. Len(rs) : \A j \in 1 .. i - 1 : ~Breaks(j)}

\* The end of the directory can be seen: zeros follow what fits into the
\* buffer, and in a larger one the last sector is not full.
Ended(d) ==
    LET last == Last(dir[d].records) IN dir[d].size <= Window \/ Rest(last) > last.len

\* A listing returns the records of its directory, each once and in order,
\* and all that are reached by the time it ends, although other requests use
\* the buffer between its calls and the window moves under it.
ListsDirectory ==
    Ended(1) /\ ~misled =>
        /\ listed = [k \in 1 .. Len(listed) |-> <<1, k + 2>>]
        /\ \A k \in 1 .. Len(listed) : k + 2 \in Reached(1)
        /\ handle.eof => \A i \in Reached(1) : i <= Len(listed) + 2

\* A name is found if it is among the reached ones and no name is too long,
\* in a directory of any size; no other is.
FindsRecords ==
    /\ find.pc = "noent" /\ find.target # Absent => find.target \notin Reached(find.d)
    /\ find.pc = "found" => find.target \in Reached(find.d)

\* FindFileLBA never takes anything behind the directory for a record of it.
WalksInside ==
    find.pc = "walk" /\ Ended(find.d) =>
        LET r == Skip(sectors, find.p, find.old)[2] IN r # None => r[1] = find.d
=============================================================================
