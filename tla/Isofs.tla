-------------------------------- MODULE Isofs --------------------------------
(***************************************************************************)
(* src/modules/systemctrl/isofs_driver.c: the files of a mounted disc      *)
(* image.  A table of handles and a buffer of sectors are used under       *)
(* isofs_sema, by the threads of a game that share open files.             *)
(*                                                                         *)
(* An operation is one step, made when the semaphore is free, except where *)
(* the code lets go of the semaphore and goes on: isofs_dopen takes it     *)
(* twice, isofs_lseek reads its result after it, and isofs_ioctl forgets   *)
(* it on one path.  A sector has Bytes bytes (0x800 in the code).          *)
(***************************************************************************)
EXTENDS Integers, Sequences, FiniteSets

CONSTANTS
    Threads, Iobs,
    Handlers,       \* usable entries of the table, 1 .. 32 in the code
    Files,          \* what a path or a /sce_lbn name leads to
    Bytes,          \* SECTOR_SIZE
    MaxLen,         \* bound on the length of a read
    MaxPos,         \* bound on positions, either way
    Truncated,      \* the image may end before the disc does
    Free, Closed

ASSUME HandlersAssumption == Handlers \subseteq Nat \ {0} /\ IsFiniteSet(Handlers)
ASSUME FilesAssumption == Files \subseteq [lba : Nat, size : Nat, dir : BOOLEAN]
ASSUME BoundsAssumption ==
    Bytes \in Nat \ {0} /\ MaxLen \in Nat /\ MaxPos \in Nat /\ Truncated \in BOOLEAN
ASSUME FreeAssumption ==
    /\ Free \notin Threads /\ Closed \notin Handlers /\ Closed \notin Iobs
    /\ Closed \notin [start : Int, size : Nat, pos : Int]

VARIABLES
    isofs_sema,     \* Free, or the thread that keeps it
    handlers,
    iob,            \* i_private of every open file, Closed where there is none
    pc, req,        \* where each thread is and what it asked for
    out,            \* how the last read ended, and the addresses it delivered
    sought,         \* history: what an lseek has set that has not returned yet,
                    \* Closed when another request on the file came after it
    kept            \* history: an ioctl has kept the semaphore

vars == <<isofs_sema, handlers, iob, pc, req, out, sought, kept>>

Positions == -MaxPos .. MaxPos
NoFile    == [lba |-> 0, size |-> 0, dir |-> FALSE]
Fresh     == [opened |-> FALSE, file |-> NoFile, pos |-> 0, eof |-> FALSE]
NoReq     == [op |-> "none", iob |-> Closed]
Nothing   == [iob |-> Closed, kind |-> "none", data |-> <<>>]
IobOps    == {"close", "dclose", "read", "lseek", "dread", "ioctl"}

Handle    == [opened : BOOLEAN, file : Files \cup {NoFile}, pos : Positions, eof : BOOLEAN]
Requests  == [op : IobOps \cup {"none", "open", "dopen", "getstat"}, iob : Iobs \cup {Closed}]

TypeOK ==
    /\ isofs_sema \in Threads \cup {Free}
    /\ handlers \in [Handlers -> Handle]
    /\ iob \in [Iobs -> Handlers \cup {Closed}]
    /\ pc \in [Threads -> {"idle", "wait", "dopen", "result"}]
    /\ req \in [Threads -> Requests]
    /\ out.kind \in {"none", "data", "error", "torn"} /\ out.iob \in Iobs \cup {Closed}
    /\ sought \in [Threads -> Positions \cup {Closed}] /\ kept \in BOOLEAN

Init ==
    /\ isofs_sema = Free
    /\ handlers = [h \in Handlers |-> Fresh]
    /\ iob = [i \in Iobs |-> Closed]
    /\ pc = [t \in Threads |-> "idle"] /\ req = [t \in Threads |-> NoReq]
    /\ out = Nothing
    /\ sought = [t \in Threads |-> Closed] /\ kept = FALSE

-----------------------------------------------------------------------------
(* Requests.  The io manager makes an iob for open and dopen, and keeps it *)
(* when they succeed; it does not close a file in the middle of a request. *)

Using(i) == {t \in Threads : pc[t] # "idle" /\ req[t].iob = i}

Call(t) ==
    /\ pc[t] = "idle"
    /\ \/ \E op \in {"open", "dopen"}, i \in Iobs :
             /\ iob[i] = Closed /\ Using(i) = {}
             /\ req' = [req EXCEPT ![t] = [op |-> op, iob |-> i]]
       \/ \E op \in IobOps, i \in Iobs :
             /\ iob[i] # Closed
             /\ \A u \in Using(i) : req[u].op \notin {"close", "dclose", "dopen"}
             /\ op \in {"close", "dclose"} => Using(i) = {}
             /\ req' = [req EXCEPT ![t] = [op |-> op, iob |-> i]]
       \/ req' = [req EXCEPT ![t] = [op |-> "getstat", iob |-> Closed]]
    /\ pc' = [pc EXCEPT ![t] = "wait"]
    /\ UNCHANGED <<isofs_sema, handlers, iob, out, sought, kept>>

\* t gets the semaphore for a request of kind op
Wait(t, op) == pc[t] = "wait" /\ req[t].op = op /\ isofs_sema = Free

Slot(t) == iob[req[t].iob]
Same(t) == {u \in Threads : req[u].iob = req[t].iob}
Forget(t) == [u \in Threads |-> IF u \in Same(t) THEN Closed ELSE sought[u]]

Return(t) ==
    /\ pc' = [pc EXCEPT ![t] = "idle"] /\ req' = [req EXCEPT ![t] = NoReq]
    /\ sought' = Forget(t)

Quietly == out' = Nothing /\ UNCHANGED <<isofs_sema, kept>>

-----------------------------------------------------------------------------
(* Open and close.                                                         *)

\* mutant: a handle is not seen to be open
FreeHandlesAll == {h \in Handlers : handlers[h].pos = 0}
FreeHandles == {h \in Handlers : ~handlers[h].opened}

\* GetFreeHandle takes the first one
GetFreeHandle == CHOOSE h \in FreeHandles : \A g \in FreeHandles : h <= g

\* isofs_open2: a path, the root or a range of sectors; a name or flags that
\* are refused and a table that is full leave everything as it was
OpenedRewound(t, h, f) ==      \* mutant: every position is reset
    /\ handlers' = [g \in Handlers |->
          IF g = h THEN [Fresh EXCEPT !.opened = TRUE, !.file = f]
          ELSE [handlers[g] EXCEPT !.pos = 0]]
    /\ iob' = [iob EXCEPT ![req[t].iob] = h]

Opened(t, h, f) ==
    /\ handlers' = [handlers EXCEPT ![h] = [Fresh EXCEPT !.opened = TRUE, !.file = f]]
    /\ iob' = [iob EXCEPT ![req[t].iob] = h]

Open(t) ==
    /\ \/ Wait(t, "open") /\ Return(t)
       \/ Wait(t, "dopen") /\ pc' = [pc EXCEPT ![t] = "dopen"] /\ UNCHANGED <<req, sought>>
    /\ FreeHandles # {} /\ \E f \in Files : Opened(t, GetFreeHandle, f)
    /\ Quietly

OpenFail(t) ==
    /\ Wait(t, "open") \/ Wait(t, "dopen")
    /\ Return(t) /\ Quietly
    /\ UNCHANGED <<handlers, iob>>

\* the second half of isofs_dopen, after the semaphore was free
Dopen(t) ==
    /\ pc[t] = "dopen" /\ isofs_sema = Free
    /\ IF handlers[Slot(t)].file.dir
       THEN /\ handlers' = [handlers EXCEPT ![Slot(t)].eof = FALSE]
            /\ UNCHANGED iob
       ELSE /\ handlers' = [handlers EXCEPT ![Slot(t)].opened = FALSE]
            /\ iob' = [iob EXCEPT ![req[t].iob] = Closed]
    /\ Return(t) /\ Quietly

Close(t) ==
    /\ Wait(t, "close") \/ Wait(t, "dclose")
    /\ IF handlers[Slot(t)].opened /\ (req[t].op = "dclose" => handlers[Slot(t)].file.dir)
       THEN /\ handlers' = [handlers EXCEPT ![Slot(t)].opened = FALSE]
            /\ iob' = [iob EXCEPT ![req[t].iob] = Closed]
       ELSE UNCHANGED <<handlers, iob>>
    /\ Return(t) /\ Quietly

\* isofs_getstat only reads directories
GetStat(t) ==
    /\ Wait(t, "getstat")
    /\ Return(t) /\ Quietly
    /\ UNCHANGED <<handlers, iob>>

-----------------------------------------------------------------------------
(* Reading.                                                                *)

\* C divides towards zero
Div(a) == IF a >= 0 THEN a \div Bytes ELSE -((-a) \div Bytes)
SizeToSectors(size) == (size + Bytes - 1) \div Bytes

\* the addresses of k bytes from offset o of sector s
Copy(s, o, k) == [n \in 1 .. k |-> s * Bytes + o + n - 1]
Stale(k) == [n \in 1 .. k |-> -1]

\* what n whole sectors may come to: all, fewer at the end of the image, -1
Results(n) == {-1, n} \cup IF Truncated THEN 0 .. n - 1 ELSE {}

\* the first sector, when the position lies inside it
HeadLen(h, len) ==
    LET o == h.pos % Bytes IN
    IF o = 0 THEN 0 ELSE IF Bytes - o > len THEN len ELSE Bytes - o

\* mutant: the next sector is not counted after a partial one
FirstWholeSame(h) == h.file.lba + Div(h.pos)
FirstWhole(h) == h.file.lba + Div(h.pos) + IF h.pos % Bytes = 0 THEN 0 ELSE 1

Whole(remaining) == IF remaining % Bytes # 0 THEN SizeToSectors(remaining) - 1
                    ELSE SizeToSectors(remaining)

\* isofs_read2 from a handle: the kind of the result, the bytes, the new
\* position, for any outcome of the three reads of sectors
Outcomes(h, len) ==
    LET avail == IF len + h.pos > h.file.size THEN h.file.size - h.pos ELSE len
        head  == HeadLen(h, avail)
        first == FirstWhole(h)
        rest  == avail - head
        n     == Whole(rest)
        hdata == Copy(h.file.lba + Div(h.pos), h.pos % Bytes, head)
        Is(kind, data, moved) == [kind |-> kind, data |-> data, pos |-> h.pos + moved]
        Ends(m) ==      \* m whole sectors have been read
            LET left == rest - m * Bytes
                data == hdata \o Copy(first, 0, m * Bytes)
                k == left % Bytes
                kind(good) == IF left > k THEN "error" ELSE good
                moved == head + m * Bytes
            IN  IF left <= 0 THEN {Is("data", data, moved)}
                ELSE {IF r < 0 THEN Is("error", data, moved)
                      ELSE IF r = 0 THEN Is(kind("torn"), data \o Stale(k), moved + k)
                      ELSE Is(kind("data"), data \o Copy(first + m, 0, k), moved + k)
                      : r \in Results(1)}
    IN  IF avail <= 0 THEN {Is("data", <<>>, 0)}
        ELSE (IF head > 0 THEN {Is(IF r < 0 THEN "error" ELSE "data", <<>>, 0) : r \in Results(1) \ {1}}
              ELSE {})
             \cup
             (IF n = 0 THEN Ends(0)
              ELSE UNION {IF r < 0 THEN {Is("error", hdata, head)} ELSE Ends(r) : r \in Results(n)})

Read(t) ==
    /\ Wait(t, "read") /\ handlers[Slot(t)].opened
    /\ \E len \in 0 .. MaxLen : \E r \in Outcomes(handlers[Slot(t)], len) :
          /\ r.pos \in Positions                    \* bound of the model
          /\ handlers' = [handlers EXCEPT ![Slot(t)].pos = r.pos]
          /\ out' = [iob |-> req[t].iob, kind |-> r.kind, data |-> r.data]
    /\ Return(t)
    /\ UNCHANGED <<isofs_sema, iob, kept>>

\* SEEK_SET, SEEK_CUR, and SEEK_END, which counts backwards
Lseek(t) ==
    /\ Wait(t, "lseek") /\ handlers[Slot(t)].opened
    /\ LET h == handlers[Slot(t)] IN
       \E ofs \in Positions : \E new \in {ofs, h.pos + ofs, h.file.size - ofs} \cap Positions :
          /\ handlers' = [handlers EXCEPT ![Slot(t)].pos = new]
          /\ sought' = [Forget(t) EXCEPT ![t] = new]
    /\ pc' = [pc EXCEPT ![t] = "result"]
    /\ Quietly
    /\ UNCHANGED <<iob, req>>

\* the position is returned after the semaphore has been signalled
LseekResult(t) ==
    /\ pc[t] = "result"
    /\ Return(t)
    /\ UNCHANGED <<isofs_sema, handlers, iob, out, kept>>

\* a directory is read entry by entry; its walk is IsoDirectory's
Dread(t) ==
    /\ Wait(t, "dread")
    /\ LET h == handlers[Slot(t)] IN
       IF h.opened /\ h.file.dir /\ ~h.eof
       THEN \/ \E new \in h.pos + 1 .. h.file.size :
                  new <= MaxPos /\ handlers' = [handlers EXCEPT ![Slot(t)].pos = new]
            \/ handlers' = [handlers EXCEPT ![Slot(t)].eof = TRUE]
       ELSE UNCHANGED handlers
    /\ Return(t) /\ Quietly
    /\ UNCHANGED iob

Ioctl(t) ==
    /\ Wait(t, "ioctl")
    /\ \/ Return(t) /\ UNCHANGED <<isofs_sema, out, kept>>
       \/ /\ handlers[Slot(t)].opened           \* the size, and a short buffer
          /\ isofs_sema' = t /\ kept' = TRUE
          /\ Return(t) /\ UNCHANGED out
    /\ UNCHANGED <<handlers, iob>>

\* EBADF
BadHandle(t) ==
    /\ Wait(t, "read") \/ Wait(t, "lseek") \/ Wait(t, "ioctl")
    /\ ~handlers[Slot(t)].opened
    /\ Return(t) /\ Quietly
    /\ UNCHANGED <<handlers, iob>>

Step(t) == \/ Open(t) \/ OpenFail(t) \/ Dopen(t) \/ Close(t) \/ GetStat(t)
           \/ Read(t) \/ Lseek(t) \/ Dread(t) \/ Ioctl(t) \/ BadHandle(t)

Next == \E t \in Threads : Call(t) \/ Step(t) \/ LseekResult(t)

Spec == Init /\ [][Next]_vars

\* isofs_sema queues its waiters in order
FairSpec == Spec /\ \A t \in Threads : SF_vars(Step(t)) /\ WF_vars(LseekResult(t))
-----------------------------------------------------------------------------
(* Properties.                                                             *)

\* Every open file has an open handle of its own, and every open handle
\* belongs to a file: dopen lets go of the semaphore half way and close and
\* open may come in between, and no handle is lost when it gives up.
\* (GetFreeHandle, isofs_dopen)
HandlesOwned ==
    /\ \A i \in Iobs : iob[i] # Closed =>
          handlers[iob[i]].opened /\ \A j \in Iobs \ {i} : iob[j] # iob[i]
    /\ \A h \in Handlers : handlers[h].opened => \E i \in Iobs : iob[i] = h

\* isofs_lseek returns the position that it has set, although it reads it
\* after it has signalled the semaphore, unless another request on the very
\* same file came in between.
LseekAnswers ==
    \A t \in Threads : pc[t] = "result" /\ sought[t] # Closed =>
        handlers[Slot(t)].pos = sought[t]

\* Every file is a byte range with a position of its own: see ByteRanges.
\* What is read is what lies at the position, whatever the alignment of the
\* position and the length, and however the three reads of sectors end.
ranges == [i \in Iobs |->
              IF iob[i] = Closed THEN Closed
              ELSE LET h == handlers[iob[i]] IN
                   [start |-> h.file.lba * Bytes, size |-> h.file.size, pos |-> h.pos]]
Ranges == INSTANCE ByteRanges WITH file <- ranges
IsByteRanges == Ranges!Spec

\* Every request returns, unless an ioctl has kept the semaphore.
RequestsReturn == \A t \in Threads : pc[t] # "idle" ~> pc[t] = "idle" \/ kept
=============================================================================
