------------------------------- MODULE CisoFile -------------------------------
(***************************************************************************)
(* src/modules/galaxy/csoread.c: reading bytes out of a compressed image,  *)
(* through a window of its index and a buffer of its blocks that stay from *)
(* one request to the next.  A request runs under the mutex of its caller, *)
(* sector by sector; the stick may go and come back at every read.         *)
(*                                                                         *)
(* The index has one word for a sector: its block lies at start[s].  A     *)
(* sector may be stored as it is; a deflated block goes through the buffer, *)
(* and the code takes it to end where the next one begins, or to be as     *)
(* long as a sector when that is no length at all: sectors may share their *)
(* blocks.  A read that is repeated without a seek is reread of Galaxy and *)
(* not here.                                                               *)
(***************************************************************************)
EXTENDS Integers, Sequences

CONSTANTS
    Sectors,        \* of the image
    Layouts,        \* what its index may be
    Bytes,          \* of a sector, 0x800 in the code
    BufSize,        \* CISO_BUF_SIZE
    IndexSize,      \* CISO_INDEX_SIZE, in words
    Never

Blocks == 0 .. Sectors - 1

SizesAssumption == \A n \in {Sectors, Bytes, BufSize, IndexSize} : n \in Nat \ {0}
BufferAssumption == BufSize >= Bytes
LayoutsAssumption ==
    /\ Layouts \subseteq [start : [0 .. Sectors -> Nat], length : [Blocks -> 0 .. Bytes]]
    /\ \A l \in Layouts : \A s \in Blocks :
          LET n == l.start[s + 1] - l.start[s] IN n \in 1 .. Bytes => l.length[s] <= n
    /\ Never \notin Int

VARIABLES
    start,          \* the words of the index
    length,         \* of the deflated blocks, 0 for a sector that is stored as it is
    cur_index, index_buf,   \* where the code takes its words to start, and where
    buf_pos, data_buf,      \* they do; the same for the buffer of blocks
    request,        \* [offset, size, lba]; of size 0 there is none
    data            \* the addresses of the bytes it has got

caches == <<cur_index, index_buf, buf_pos, data_buf>>
index  == <<start, length>>
vars   == <<index, caches, request, data>>

Caches == [cur |-> cur_index, words |-> index_buf, pos |-> buf_pos, bytes |-> data_buf]
Become(c) ==
    /\ cur_index' = c.cur /\ index_buf' = c.words
    /\ buf_pos' = c.pos /\ data_buf' = c.bytes

Idle == [offset |-> 0, size |-> 0, lba |-> 0]

Init ==
    /\ \E l \in Layouts : start = l.start /\ length = l.length
    /\ cur_index = Never /\ index_buf = Never
    /\ buf_pos = Never /\ data_buf = Never
    /\ request = Idle /\ data = <<>>

-----------------------------------------------------------------------------
(* One sector.                                                             *)

\* a failed call has opened the image anew: CisoOpen has forgotten the buffer,
\* and the window if it could read the header
CisoOpen(c) == {[c EXCEPT !.pos = Never], [c EXCEPT !.pos = Never, !.cur = Never]}

\* a read that has succeeded, at once or after that
ReadUmdFileRetry(c) == {c} \cup CisoOpen(c)

\* the window shows the word of sector s
Shows(c, s) == c.cur # Never /\ c.cur <= s /\ s < c.cur + IndexSize
GetIndex(c, s) ==
    IF Shows(c, s) THEN {c}
    ELSE {[d EXCEPT !.cur = s, !.words = s] : d \in ReadUmdFileRetry(c)}

\* the sector whose word is found where that of s is looked for
Found(c, s) == c.words + (s - c.cur)

Held(c, p, n) == c.pos # Never /\ p >= c.pos /\ p + n <= c.pos + BufSize

\* the block of sector a, whose end stands in word z, is in the buffer
Loaded(c, a, z) ==
    LET p == start[a]
        size == start[z] - p
        n == IF size <= 0 \/ size > Bytes THEN Bytes ELSE size
    IN  IF Held(c, p, n) THEN {c}
        ELSE {[d EXCEPT !.pos = p, !.bytes = p] : d \in ReadUmdFileRetry(c)}

There(c, a) ==
    c.bytes = c.pos /\ c.bytes <= start[a] /\ start[a] + length[a] <= c.bytes + BufSize

\* ciso_read_one: what the caches may be then, and the sector whose bytes it
\* gives, or Never
ReadOne(s) ==
    UNION {LET a == Found(c1, s) IN
           IF a \notin Blocks THEN {<<c1, Never>>}
           ELSE IF length[a] = 0 THEN {<<c, a>> : c \in ReadUmdFileRetry(c1)}
           ELSE UNION {LET z == Found(c2, s + 1) IN
                       IF z \notin 0 .. Sectors THEN {<<c2, Never>>}
                       ELSE {<<c, IF There(c, a) THEN a ELSE Never>> : c \in Loaded(c2, a, z)} :
                       c2 \in GetIndex(c1, s + 1)} :
           c1 \in GetIndex(Caches, s)}

-----------------------------------------------------------------------------
(* CisoReadFile.                                                           *)

CisoReadFile(offset, size) ==
    /\ request.size = 0
    /\ request' = [offset |-> offset, size |-> size, lba |-> offset \div Bytes]
    /\ UNCHANGED <<index, caches, data>>

remaining == request.size - Len(data)
InSector  == request.offset % Bytes # 0 /\ data = <<>>

\* n bytes from offset o of the sector are appended
Piece(s, o, n) == [k \in 1 .. n |-> IF s = Never THEN Never ELSE s * Bytes + o + k - 1]
Take(o, n) ==
    \E r \in ReadOne(request.lba) :
        /\ Become(r[1])
        /\ data' = data \o Piece(r[2], o, n)
        /\ request' = [request EXCEPT !.lba = @ + 1]
        /\ UNCHANGED index

First ==
    LET x == request.offset % Bytes
        m == Bytes - x
    IN  /\ request.size # 0 /\ InSector
        /\ Take(x, IF m > remaining THEN remaining ELSE m)

Sector == request.size # 0 /\ ~InSector /\ remaining >= Bytes /\ Take(0, Bytes)

Rest == ~InSector /\ 0 < remaining /\ remaining < Bytes /\ Take(0, remaining)

Return ==
    /\ request.size # 0 /\ remaining = 0
    /\ request' = Idle /\ data' = <<>>
    /\ UNCHANGED <<index, caches>>

\* a call has failed until the loop gave up: for a word, the next or the block
Fail ==
    LET before == GetIndex(Caches, request.lba) IN
    /\ remaining > 0
    /\ \E c \in {Caches} \cup before \cup UNION {GetIndex(d, request.lba + 1) : d \in before} :
          \E d \in CisoOpen(c) : Become(d)
    /\ request' = Idle /\ data' = <<>>
    /\ UNCHANGED index

Next ==
    \/ \E offset \in 0 .. Sectors * Bytes - 1 : \E size \in 1 .. Sectors * Bytes - offset :
          CisoReadFile(offset, size)
    \/ First \/ Sector \/ Rest \/ Return \/ Fail

Spec == Init /\ [][Next]_vars
-----------------------------------------------------------------------------
\* A request gets the bytes of the disc it asks for and no more than those, at
\* any offset and of any size, whatever requests, failures and new openings have
\* left in the window of the index and in the buffer of blocks.
BytesRight ==
    /\ remaining >= 0
    /\ data = [k \in 1 .. Len(data) |-> request.offset + k - 1]
=============================================================================
