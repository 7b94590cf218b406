------------------------------ MODULE UmdImage ------------------------------
(***************************************************************************)
(* src/modules/systemctrl: the image of a disc on the memory stick, read   *)
(* by umd9660_driver.c, isoread.c and csoread.c.                           *)
(*                                                                         *)
(* An image is plain or compressed (CSO).  The stick may be taken out at   *)
(* any moment: the descriptor umdfd is dead from then on, and the reader   *)
(* opens the image again and tries again, a bounded number of times.  The  *)
(* CSO reader keeps a piece of the index and a piece of the data between   *)
(* reads.  sctrlSESetUmdFile changes the image, without a lock.            *)
(*                                                                         *)
(* Addresses are ordinal.  A sector of a plain image is two units long, so *)
(* that 1 lies inside the first one, where the header probe ends.  In a    *)
(* compressed image of n sectors, 0 is the header, 1..n+1 are the words of *)
(* the index and n+2..2n+1 the blocks.                                     *)
(***************************************************************************)
EXTENDS Integers, FiniteSets

CONSTANTS
    Readers,        \* threads that read the disc
    UmdReaders,     \* those that go through the driver umd0:, under umdsema
    Images,         \* image files on the stick
    Cso,            \* the compressed ones
    Length,         \* sectors of each image
    Stored,         \* sectors that a compressed image stores as they are
    IndexSize,      \* words in ciso_index_buf (128 in the code)
    BufSize,        \* blocks in ciso_data_buf (4 in the code)
    MaxTry,         \* tries of each loop (16 in the code)
    MaxLength,      \* bound on Length, on positions and on requests
    Switching,      \* whether the image is changed
    Fds,            \* descriptors of the memory stick driver
    NoFd, NoImage, Free

ASSUME ImagesAssumption == Images # {} /\ Cso \subseteq Images /\ NoImage \notin Images
ASSUME LengthAssumption == MaxLength \in Nat /\ Length \in [Images -> 1 .. MaxLength]
ASSUME SizesAssumption ==
    /\ IndexSize \in Nat \ {0} /\ BufSize \in Nat \ {0} /\ MaxTry \in Nat
    /\ Stored \subseteq Nat /\ Switching \in BOOLEAN
ASSUME ReadersAssumption == UmdReaders \subseteq Readers /\ Free \notin Readers
ASSUME FdsAssumption == NoFd \notin Fds

Addresses == 0 .. 2 * MaxLength + 2
NoIndex   == -1                         \* ciso_cur_index = 0xffffffff
NoPos     == -1                         \* ciso_buf_pos where no block is
Torn      == [file |-> NoImage, at |-> 0]   \* what a failed read leaves behind

VARIABLES
    umdfile, umdfd, mounted, cso, discsize, discpointer,
    umdsema,        \* Free or the reader that holds it
    index,          \* ciso_cur_index, and where ciso_index_buf was read from
    buf,            \* ciso_buf_pos, and where ciso_data_buf was read from
    fds, card,      \* external: open files of the stick, is it there
    pc, req,        \* where each reader is, and its locals
    res,            \* how its last read ended, against the image it asked for
    setting,        \* sctrlSESetUmdFile is running
    steady,         \* history: readers whose request had the stick in all along
    misled          \* history: see Misled below

discVars  == <<umdfile, mounted, cso, discsize>>
cacheVars == <<index, buf>>
vars      == <<discVars, umdfd, discpointer, umdsema, cacheVars, fds, card,
               pc, req, res, setting, steady, misled>>

Labels  == {"idle", "lock", "start", "probe", "close", "open", "header", "size",
            "seek", "read", "sector", "word", "next", "block"}
Origins == [file : Images \cup {NoImage}, at : Addresses]
NoReq   == [op |-> "none", lba |-> 0, left |-> 0, n |-> 0, tries |-> 0, back |-> "probe",
            use |-> "iso", at |-> 0, dpos |-> 0, right |-> TRUE]
ReqRecord == [op : {"none", "open", "read"}, lba : -1 .. MaxLength + 2,
              left : -MaxLength - 2 .. MaxLength + 2, n : -MaxLength - 2 .. MaxLength + 2,
              tries : 0 .. MaxTry, back : {"probe", "seek", "read"},
              use : {"iso", "index", "next", "stored", "block"},
              at : -2 .. 2 * MaxLength + 2, dpos : Addresses, right : BOOLEAN]

TypeOK ==
    /\ umdfile \in Images /\ umdfd \in Fds \cup {NoFd}
    /\ mounted \in BOOLEAN /\ cso \in BOOLEAN /\ card \in BOOLEAN
    /\ discsize \in -1 .. MaxLength + 1 /\ discpointer \in -1 .. MaxLength + 1
    /\ umdsema \in Readers \cup {Free}
    /\ index \in [cur : -1 .. MaxLength + 2, from : Origins]
    /\ buf \in [pos : Addresses \cup {NoPos}, from : Origins]
    /\ fds \in [Fds -> [file : Images \cup {NoImage}, pos : Addresses, dead : BOOLEAN]]
    /\ pc \in [Readers -> Labels] /\ req \in [Readers -> ReqRecord]
    /\ res \in [Readers -> {"none", "failed", "right", "wrong"}]
    /\ setting \in BOOLEAN /\ misled \in BOOLEAN /\ steady \subseteq Readers

Init ==
    /\ umdfile \in Images /\ umdfd = NoFd
    /\ mounted = FALSE /\ cso = FALSE
    /\ discsize = MaxLength + 1 /\ discpointer = 0          \* 0x7FFFFFFF
    /\ umdsema = Free
    /\ index = [cur |-> 0, from |-> Torn] /\ buf = [pos |-> 0, from |-> Torn]
    /\ fds = [f \in Fds |-> [file |-> NoImage, pos |-> 0, dead |-> FALSE]]
    /\ card \in BOOLEAN
    /\ pc = [t \in Readers |-> "idle"] /\ req = [t \in Readers |-> NoReq]
    /\ res = [t \in Readers |-> "none"]
    /\ setting = FALSE /\ misled = FALSE /\ steady = {}

-----------------------------------------------------------------------------
(* Images and the memory stick.                                            *)

FileLen(i) == IF i \in Cso THEN 2 * Length[i] + 2 ELSE 2 * Length[i]
HeaderEnd  == 1

\* the words that the index of i may hold at address p: past the index
\* anything is taken for a word
Words(i, p) ==
    IF i \in Cso /\ p \in 1 .. Length[i] + 1
    THEN {[dpos |-> Length[i] + 1 + p, stored |-> p - 1 \in Stored]}
    ELSE [dpos : Addresses, stored : BOOLEAN]

\* the block at address p of i is sector s, stored as it is or deflated
IsBlock(o, s, stored) ==
    /\ o.file \in Cso /\ s \in 0 .. Length[o.file] - 1
    /\ o.at = Length[o.file] + 2 + s /\ (stored <=> s \in Stored)
\* some deflated block is there
IsDeflated(o) ==
    o.file \in Cso /\ o.at - Length[o.file] - 2 \in (0 .. Length[o.file] - 1) \ Stored

Live(f) == f \in Fds /\ fds[f].file # NoImage /\ ~fds[f].dead
Here    == [file |-> fds[umdfd].file, at |-> fds[umdfd].pos]
Shut(f) == IF f \in Fds THEN [fds EXCEPT ![f] = [file |-> NoImage, pos |-> 0, dead |-> FALSE]]
           ELSE fds
MoveTo(p) == [fds EXCEPT ![umdfd].pos = p]

Eject ==
    /\ card /\ card' = FALSE
    /\ fds' = [f \in Fds |-> [fds[f] EXCEPT !.dead = fds[f].file # NoImage]]
    /\ steady' = {}
    /\ UNCHANGED <<discVars, umdfd, discpointer, umdsema, cacheVars, pc, req, res,
                   setting, misled>>

Insert ==
    /\ ~card /\ card' = TRUE
    /\ UNCHANGED <<discVars, umdfd, discpointer, umdsema, cacheVars, fds, pc, req, res,
                   setting, steady, misled>>

-----------------------------------------------------------------------------
(* A reader goes from label to label.                                      *)

Inside(t) == pc[t] \notin {"idle", "lock"}

\* misled: the code no longer knows what it reads, because
\*   - two readers overlap, or sctrlSESetUmdFile and a reader (Enter, SetUmdFile);
\*   - the header of a compressed image could not be read (CisoOpen);
\*   - a read was repeated on a new descriptor, without a seek (RetryRead).
Overlapped(t) == setting \/ \E u \in Readers \ {t} : Inside(u)

Goto(t, label, r) == pc' = [pc EXCEPT ![t] = label] /\ req' = [req EXCEPT ![t] = r]
Stay == UNCHANGED <<res, umdsema, discpointer>>
Go(t, label, r) == Goto(t, label, r) /\ Stay

\* the request ends; umd_read moves discpointer by its result
Return(t, result, count) ==
    /\ Goto(t, "idle", NoReq)
    /\ res' = [res EXCEPT ![t] = result]
    /\ umdsema' = IF t \in UmdReaders THEN Free ELSE umdsema
    /\ discpointer' = IF t \in UmdReaders /\ count > 0
                      THEN discpointer + count ELSE discpointer
Result(right) == IF right THEN "right" ELSE "wrong"

\* the call of ReadUmdFileRetry for what lies at address a
Fetch(t, r, use, a) == Go(t, "seek", [r EXCEPT !.use = use, !.at = a, !.tries = 0])

\* a turn of a loop that calls OpenIso
Reopen(t, back) == Go(t, "close", [req[t] EXCEPT !.back = back, !.tries = @ + 1])

\* a request enters the reader
Enter(t) ==
    /\ misled' = (misled \/ Overlapped(t))
    /\ steady' = IF card THEN steady \cup {t} ELSE steady \ {t}

-----------------------------------------------------------------------------
(* Requests.                                                               *)

Read(lba, n) == [NoReq EXCEPT !.op = "read", !.lba = lba, !.left = n, !.n = n]

\* Umd9660ReadSectors2, called by the patched UMD driver and by isofs
Call(t) ==
    /\ pc[t] = "idle" /\ t \notin UmdReaders
    /\ \E lba \in 0 .. MaxLength - 1, n \in 1 .. MaxLength :
          lba + n <= MaxLength /\ Go(t, "start", Read(lba, n))
    /\ Enter(t)
    /\ UNCHANGED <<discVars, umdfd, cacheVars, fds, card, setting>>

UmdCall(t) ==
    /\ pc[t] = "idle" /\ t \in UmdReaders
    /\ \/ Go(t, "lock", [NoReq EXCEPT !.op = "open"])
       \/ \E n \in 1 .. MaxLength : Go(t, "lock", Read(0, n))
    /\ UNCHANGED <<discVars, umdfd, cacheVars, fds, card, setting, steady, misled>>

UmdOpen(t) ==
    /\ pc[t] = "lock" /\ req[t].op = "open"
    /\ umdsema = Free /\ umdsema' = t
    /\ Goto(t, "probe", req[t])
    /\ Enter(t)
    /\ UNCHANGED <<discVars, umdfd, discpointer, cacheVars, fds, card, res, setting>>

\* the length is cut at discsize, which the last OpenIso has found
UmdRead(t) ==
    /\ pc[t] = "lock" /\ req[t].op = "read"
    /\ umdsema = Free /\ umdsema' = t
    /\ LET n == req[t].n IN
       Goto(t, "start", Read(discpointer, IF discpointer + n > discsize
                                          THEN discsize - discpointer ELSE n))
    /\ Enter(t)
    /\ UNCHANGED <<discVars, umdfd, discpointer, cacheVars, fds, card, res, setting>>

\* SEEK_SET, SEEK_CUR, and SEEK_END, which counts backwards
UmdLseek(t) ==
    /\ pc[t] = "idle" /\ t \in UmdReaders /\ umdsema = Free
    /\ \E ofs \in 0 .. MaxLength : \E new \in {ofs, discpointer + ofs, discsize - ofs} :
          /\ new >= -1                          \* bound of the model
          /\ discpointer' = IF new > discsize THEN discsize ELSE new
    /\ UNCHANGED <<discVars, umdfd, umdsema, cacheVars, fds, card, pc, req, res, setting,
                   steady, misled>>

\* sctrlSESetUmdFile closes the image, and forgets it after that
SetUmdFile ==
    /\ Switching /\ ~setting /\ setting' = TRUE
    /\ umdfile' \in Images
    /\ fds' = Shut(umdfd)
    /\ misled' = (misled \/ \E t \in Readers : Inside(t))
    /\ UNCHANGED <<umdfd, mounted, cso, discsize, discpointer, umdsema, cacheVars, card,
                   pc, req, res, steady>>

SetUmdFileEnd ==
    /\ setting /\ setting' = FALSE
    /\ umdfd' = NoFd /\ mounted' = FALSE
    /\ UNCHANGED <<umdfile, cso, discsize, discpointer, umdsema, cacheVars, fds, card,
                   pc, req, res, steady, misled>>

-----------------------------------------------------------------------------
(* Mounting.                                                               *)

\* IsofileReadSectors, or CisofileReadSectors
ReadSectors(t, r) ==
    \/ ~cso /\ Fetch(t, r, "iso", 2 * r.lba)
    \/ cso /\ r.left > 0 /\ Go(t, "sector", r)
    \/ cso /\ r.left <= 0 /\ Return(t, IF r.left = 0 THEN "right" ELSE "failed", 0)

\* Umd9660ReadSectors: an image that is not mounted is mounted first
Start(t) ==
    /\ pc[t] = "start"
    /\ \/ mounted /\ ReadSectors(t, req[t])
       \/ ~mounted /\ Go(t, "probe", req[t])
    /\ UNCHANGED <<discVars, umdfd, cacheVars, fds, card, setting, steady, misled>>

\* mutant: the semaphore is not signalled when the image cannot be opened
ProbeLocked(t) ==
    /\ pc[t] = "probe"
    /\ LET r == req[t] IN
       \/ r.tries < MaxTry /\ ~Live(umdfd) /\ Reopen(t, "probe") /\ UNCHANGED fds
       \/ r.tries < MaxTry /\ Live(umdfd) /\ r.op = "open"
             /\ fds' = MoveTo(0) /\ Goto(t, "idle", NoReq)
             /\ umdsema' = Free /\ discpointer' = 0 /\ UNCHANGED res
       \/ r.tries = MaxTry /\ r.op = "open"
             /\ Goto(t, "idle", NoReq) /\ UNCHANGED <<umdsema, discpointer, res, fds>>
       \/ /\ r.op = "read" /\ (r.tries = MaxTry \/ Live(umdfd)) /\ UNCHANGED fds
          /\ IF mounted THEN ReadSectors(t, r) ELSE Return(t, "failed", 0)
    /\ UNCHANGED <<discVars, umdfd, cacheVars, card, setting, steady, misled>>

\* the loops of umd_open and of Umd9660ReadSectors
Probe(t) ==
    /\ pc[t] = "probe"
    /\ LET r == req[t] IN
       \/ r.tries < MaxTry /\ ~Live(umdfd) /\ Reopen(t, "probe") /\ UNCHANGED fds
       \/ r.tries < MaxTry /\ Live(umdfd) /\ r.op = "open"
             /\ fds' = MoveTo(0) /\ Goto(t, "idle", NoReq)
             /\ umdsema' = Free /\ discpointer' = 0 /\ UNCHANGED res
       \/ r.tries = MaxTry /\ r.op = "open"
             /\ Goto(t, "idle", NoReq) /\ umdsema' = Free
             /\ UNCHANGED <<discpointer, res, fds>>
       \/ /\ r.op = "read" /\ (r.tries = MaxTry \/ Live(umdfd)) /\ UNCHANGED fds
          /\ IF mounted THEN ReadSectors(t, r) ELSE Return(t, "failed", 0)
    /\ UNCHANGED <<discVars, umdfd, cacheVars, card, setting, steady, misled>>

\* mutant: the old descriptor is not closed
OpenIsoCloseNot(t) ==
    /\ pc[t] = "close"
    /\ mounted' = FALSE /\ UNCHANGED fds
    /\ Go(t, "open", req[t])
    /\ UNCHANGED <<umdfile, cso, discsize, umdfd, cacheVars, card, setting, steady, misled>>

OpenIsoClose(t) ==
    /\ pc[t] = "close"
    /\ mounted' = FALSE /\ fds' = Shut(umdfd)
    /\ Go(t, "open", req[t])
    /\ UNCHANGED <<umdfile, cso, discsize, umdfd, cacheVars, card, setting, steady, misled>>

OpenIso(t) ==
    /\ pc[t] = "open"
    /\ \/ \E f \in Fds :
             /\ card /\ fds[f].file = NoImage
             /\ fds' = [fds EXCEPT ![f] = [file |-> umdfile, pos |-> 0, dead |-> FALSE]]
             /\ umdfd' = f
             /\ Go(t, "header", req[t])
       \/ /\ ~card \/ \A f \in Fds : fds[f].file # NoImage
          /\ umdfd' = NoFd /\ UNCHANGED fds
          /\ Go(t, req[t].back, req[t])
    /\ UNCHANGED <<discVars, cacheVars, card, setting, steady, misled>>

\* mutant: the index of the image before is kept
CisoOpenIndexKept(t) ==
    /\ pc[t] = "header"
    /\ buf' = [buf EXCEPT !.pos = NoPos] /\ UNCHANGED index
    /\ \/ /\ Live(umdfd) /\ fds' = MoveTo(HeaderEnd)
          /\ cso' = (fds[umdfd].file \in Cso) /\ UNCHANGED misled
       \/ /\ ~Live(umdfd) /\ UNCHANGED fds
          /\ cso' = FALSE /\ misled' = (misled \/ umdfile \in Cso)
    /\ Go(t, "size", req[t])
    /\ UNCHANGED <<umdfile, mounted, discsize, umdfd, card, setting, steady>>

\* mutant: the block of the image before is kept
CisoOpenBlockKept(t) ==
    /\ pc[t] = "header"
    /\ UNCHANGED buf
    /\ \/ /\ Live(umdfd) /\ fds' = MoveTo(HeaderEnd)
          /\ cso' = (fds[umdfd].file \in Cso) /\ UNCHANGED misled
          /\ index' = IF cso' THEN [index EXCEPT !.cur = NoIndex] ELSE index
       \/ /\ ~Live(umdfd) /\ UNCHANGED <<fds, index>>
          /\ cso' = FALSE /\ misled' = (misled \/ umdfile \in Cso)
    /\ Go(t, "size", req[t])
    /\ UNCHANGED <<umdfile, mounted, discsize, umdfd, card, setting, steady>>

\* CisoOpen reads the header.  An image whose header cannot be read is
\* taken for a plain one.
CisoOpen(t) ==
    /\ pc[t] = "header"
    /\ buf' = [buf EXCEPT !.pos = NoPos]
    /\ \/ /\ Live(umdfd) /\ fds' = MoveTo(HeaderEnd)
          /\ cso' = (fds[umdfd].file \in Cso) /\ UNCHANGED misled
          /\ index' = IF cso' THEN [index EXCEPT !.cur = NoIndex] ELSE index
       \/ /\ ~Live(umdfd) /\ UNCHANGED <<fds, index>>
          /\ cso' = FALSE /\ misled' = (misled \/ umdfile \in Cso)
    /\ Go(t, "size", req[t])
    /\ UNCHANGED <<umdfile, mounted, discsize, umdfd, card, setting, steady>>

GetDiscSize(t) ==
    /\ pc[t] = "size"
    /\ discsize' = IF cso THEN Length[umdfile]
                   ELSE IF Live(umdfd) THEN FileLen(fds[umdfd].file) \div 2 ELSE -1
    /\ mounted' = TRUE
    /\ Go(t, req[t].back, req[t])
    /\ UNCHANGED <<umdfile, cso, umdfd, cacheVars, fds, card, setting, steady, misled>>

-----------------------------------------------------------------------------
(* ReadUmdFileRetry: a loop that seeks, then a loop that reads.  Either    *)
(* opens the image again when it fails, but only the first seeks again.    *)

\* ENODEV: ciso_read_one then forgets the block it was reading
FetchFailed(t) ==
    /\ buf' = IF req[t].use = "block" THEN [buf EXCEPT !.pos = NoPos] ELSE buf
    /\ Return(t, "failed", 0)

\* mutant: the last try is not made
RetrySeekShort(t) ==
    /\ pc[t] = "seek"
    /\ LET r == req[t]  ok == Live(umdfd) /\ r.at >= 0 IN
       \/ /\ r.tries + 1 < MaxTry /\ ok /\ fds' = MoveTo(r.at)
          /\ Go(t, "read", [r EXCEPT !.tries = 0]) /\ UNCHANGED buf
       \/ r.tries + 1 < MaxTry /\ ~ok /\ Reopen(t, "seek") /\ UNCHANGED <<buf, fds>>
       \/ r.tries + 1 >= MaxTry /\ FetchFailed(t) /\ UNCHANGED fds
    /\ UNCHANGED <<discVars, umdfd, index, card, setting, steady, misled>>

RetrySeek(t) ==
    /\ pc[t] = "seek"
    /\ LET r == req[t]  ok == Live(umdfd) /\ r.at >= 0 IN
       \/ /\ r.tries < MaxTry /\ ok /\ fds' = MoveTo(r.at)
          /\ Go(t, "read", [r EXCEPT !.tries = 0]) /\ UNCHANGED buf
       \/ r.tries < MaxTry /\ ~ok /\ Reopen(t, "seek") /\ UNCHANGED <<buf, fds>>
       \/ r.tries = MaxTry /\ FetchFailed(t) /\ UNCHANGED fds
    /\ UNCHANGED <<discVars, umdfd, index, card, setting, steady, misled>>

Units(r) == CASE r.use = "iso" -> 2 * r.left
              [] r.use \in {"index", "next"} -> IndexSize
              [] r.use = "stored" -> 1
              [] r.use = "block" -> BufSize
InFile(o, n) == LET rest == FileLen(o.file) - o.at IN
                IF n <= rest THEN n ELSE IF rest > 0 THEN rest ELSE 0

\* one sector of a compressed image is there
Delivered(t, right) ==
    LET r == req[t]
        all == r.right /\ (right \/ r.lba \notin 0 .. Length[umdfile] - 1)
    IN  IF r.left > 1
        THEN Go(t, "sector", [r EXCEPT !.lba = @ + 1, !.left = @ - 1, !.right = all])
        ELSE Return(t, Result(all), r.n)

\* what is done with what was read: o tells where it comes from
Use(t, o) ==
    LET r == req[t] IN
    \/ /\ r.use = "iso"
       /\ LET n == InFile(o, Units(r)) \div 2 IN
          Return(t, Result(n = 0 \/ (o = [file |-> umdfile, at |-> 2 * r.lba]
                                     /\ umdfile \notin Cso)), n)
       /\ UNCHANGED cacheVars
    \/ /\ r.use \in {"index", "next"}
       /\ index' = [cur |-> IF r.use = "index" THEN r.lba ELSE r.lba + 1, from |-> o]
       /\ Go(t, IF r.use = "index" THEN "word" ELSE "block", r)
       /\ UNCHANGED buf
    \/ /\ r.use = "stored"
       /\ Delivered(t, o.file = umdfile /\ IsBlock(o, r.lba, TRUE))
       /\ UNCHANGED cacheVars
    \/ /\ r.use = "block"
       /\ buf' = [pos |-> r.dpos, from |-> o]
       /\ Go(t, "block", r)
       /\ UNCHANGED index

\* a read that fails may have overwritten the buffer
Spoiled(t) ==
    \/ UNCHANGED cacheVars
    \/ req[t].use \in {"index", "next"} /\ index' = [index EXCEPT !.from = Torn] /\ UNCHANGED buf
    \/ req[t].use = "block" /\ buf' = [buf EXCEPT !.from = Torn] /\ UNCHANGED index

RetryRead(t) ==
    /\ pc[t] = "read"
    /\ LET r == req[t]  ok == Live(umdfd) /\ Units(r) >= 0 IN
       \/ /\ r.tries < MaxTry /\ ok
          /\ fds' = MoveTo(Here.at + InFile(Here, Units(r)))
          /\ Use(t, Here)
          /\ misled' = (misled \/ r.tries > 0)
       \/ r.tries < MaxTry /\ ~ok /\ Reopen(t, "read") /\ Spoiled(t) /\ UNCHANGED <<fds, misled>>
       \/ r.tries = MaxTry /\ FetchFailed(t) /\ UNCHANGED <<index, fds, misled>>
    /\ UNCHANGED <<discVars, umdfd, card, setting, steady>>

-----------------------------------------------------------------------------
(* csoread.c                                                               *)

\* ciso_get_index, for the sector and, when it is deflated, for the next
CisoGetIndex(t) ==
    /\ pc[t] \in {"sector", "next"}
    /\ LET r == req[t]
           s == IF pc[t] = "sector" THEN r.lba ELSE r.lba + 1
           hit == index.cur # NoIndex /\ s - index.cur \in 0 .. IndexSize - 1
       IN  IF hit THEN Go(t, IF pc[t] = "sector" THEN "word" ELSE "block", r)
           ELSE Fetch(t, r, IF pc[t] = "sector" THEN "index" ELSE "next", 1 + s)
    /\ UNCHANGED <<discVars, umdfd, cacheVars, fds, card, setting, steady, misled>>

\* ciso_read_one: where the sector is
CisoReadOne(t) ==
    /\ pc[t] = "word"
    /\ LET r == req[t] IN
       \E w \in Words(index.from.file, index.from.at + r.lba - index.cur) :
          IF w.stored THEN Fetch(t, r, "stored", w.dpos)
          ELSE Go(t, "next", [r EXCEPT !.dpos = w.dpos])
    /\ UNCHANGED <<discVars, umdfd, cacheVars, fds, card, setting, steady, misled>>

InBuffer(p) == buf.pos # NoPos /\ p >= buf.pos /\ p + 1 <= buf.pos + BufSize

\* ciso_read_one: fill ciso_data_buf, or inflate the block that is in it.
\* What is no deflated block is refused, or gives some other data.
CisoInflate(t) ==
    /\ pc[t] = "block"
    /\ LET r == req[t]
           ofs == r.dpos - buf.pos
           o == IF ofs < BufSize THEN [buf.from EXCEPT !.at = @ + ofs] ELSE Torn
       IN  \/ ~InBuffer(r.dpos) /\ Fetch(t, r, "block", r.dpos)
           \/ InBuffer(r.dpos) /\ Delivered(t, o.file = umdfile /\ IsBlock(o, r.lba, FALSE))
           \/ InBuffer(r.dpos) /\ ~IsDeflated(o) /\ Return(t, "failed", 0)
    /\ UNCHANGED <<discVars, umdfd, cacheVars, fds, card, setting, steady, misled>>

-----------------------------------------------------------------------------
Lock(t) == UmdOpen(t) \/ UmdRead(t)
Step(t) == \/ Start(t) \/ Probe(t) \/ OpenIsoClose(t) \/ OpenIso(t) \/ CisoOpen(t)
           \/ GetDiscSize(t) \/ RetrySeek(t) \/ RetryRead(t)
           \/ CisoGetIndex(t) \/ CisoReadOne(t) \/ CisoInflate(t)

Next == \/ \E t \in Readers : Call(t) \/ UmdCall(t) \/ UmdLseek(t) \/ Lock(t) \/ Step(t)
        \/ SetUmdFile \/ SetUmdFileEnd \/ Eject \/ Insert

Spec == Init /\ [][Next]_vars

\* A reader that can go on does, and gets the semaphore in its turn
Fairness == (\A t \in Readers : WF_vars(Step(t)) /\ SF_vars(Lock(t))) /\ WF_vars(SetUmdFileEnd)
FairSpec == Spec /\ Fairness

-----------------------------------------------------------------------------
(* Properties.                                                             *)

\* A read that succeeds has returned the sectors it was asked for, of the
\* image that is set: no other image, no other sector, whatever the two
\* buffers held, however often the stick was out and the image changed,
\* unless the reader was misled in one of the three ways.
ReadsRight == ~misled => \A t \in Readers : res[t] # "wrong"

Quiet == ~setting /\ \A t \in Readers : ~Inside(t)

\* Between reads, the buffers of a mounted compressed image hold what their
\* positions say, of this image.  (CisoOpen, ciso_get_index, ciso_read_one)
CachesAgree ==
    ~misled /\ Quiet /\ mounted /\ cso =>
        /\ buf.pos # NoPos => buf.from = [file |-> umdfile, at |-> buf.pos]
        /\ index.cur # NoIndex => index.from = [file |-> umdfile, at |-> 1 + index.cur]

\* csoread.c:53 "file poisiotn of the top of ciso_data_buf", of the buffer of
\* a mounted image, between reads
BufPosIsPosition ==
    Quiet /\ mounted /\ cso /\ buf.pos # NoPos /\ buf.from # Torn => buf.from.at = buf.pos

\* The image is opened again and again and never twice: no descriptor of
\* the stick is lost; and all along every variable stays within its type.
\* (OpenIso, sctrlSESetUmdFile, umd_lseek)
OneDescriptor == TypeOK /\ (~misled => Cardinality({f \in Fds : fds[f].file # NoImage}) <= 1)

\* A read of sectors that exist does not fail if the stick is in from its
\* beginning to its end, whatever state earlier removals have left.
ReadsRecover ==
    [][\A t \in Readers :
          pc[t] # "idle" /\ pc'[t] = "idle" /\ res'[t] = "failed" /\ ~misled' =>
              \/ t \notin steady
              \/ req[t].op # "read"
              \/ req[t].n <= 0 \/ req[t].lba \notin 0 .. Length[umdfile] - req[t].left]_vars

\* Every request ends, the stick in or out, and the next one gets the
\* semaphore.  (the bounded loops, the error paths of umd_open and umd_read)
RequestsEnd == \A t \in Readers : pc[t] # "idle" ~> pc[t] = "idle"
=============================================================================
