---------------------------- MODULE UmdImageProofs ----------------------------
(***************************************************************************)
(* What UmdImage promises, for any readers, images, descriptors and sizes  *)
(* of the two buffers: no descriptor is lost (OneDescriptor), the buffers  *)
(* hold what their positions say (CachesAgree), a read that succeeds has   *)
(* the sectors it was asked for (ReadsRight), and with the stick in it     *)
(* does succeed (ReadsRecover).                                            *)
(***************************************************************************)
EXTENDS UmdImage, FiniteSetTheorems, TLAPS

Sectors == {"sector", "word", "next", "block"}
Opening == {"close", "open", "header", "size"}      \* in OpenIso

\* A reader at label l, with locals r, when the position of umd0: is d: what
\* bounds its numbers, whoever else reads.  It asks for no more than it was
\* given, and no further than the end that umd_read has cut it at.
Good(t, l, r, d) ==
    /\ l \in Labels /\ r \in ReqRecord
    /\ l = "idle" <=> r.op = "none"
    /\ l = "lock" => t \in UmdReaders
    /\ l = "lock" /\ r.op = "read" => r.n \in 1 .. MaxLength
    /\ r.op = "open" => /\ t \in UmdReaders /\ r.back = "probe"
                        /\ l \in {"lock", "probe", "close", "open", "header", "size"}
    /\ l \notin {"idle", "lock"} /\ r.op = "read" =>
          /\ r.lba <= MaxLength + 1 /\ r.lba + r.left <= MaxLength + 1 /\ r.left <= r.n
          /\ t \in UmdReaders => d + r.n <= MaxLength + 1
    /\ l \in Sectors \/ r.use # "iso" => r.left >= 1
    /\ l \in Opening => r.tries >= 1
    /\ l \in {"idle", "lock"} => r.right

\* umdsema is with the reader of umd0: that is under way
LockInv ==
    /\ umdsema \in UmdReaders \cup {Free}
    /\ \A t \in UmdReaders : Inside(t) <=> umdsema = t

ReadersInv ==
    /\ pc \in [Readers -> Labels] /\ req \in [Readers -> ReqRecord]
    /\ res \in [Readers -> {"none", "failed", "right", "wrong"}]
    /\ umdsema \in Readers \cup {Free} /\ discpointer \in -1 .. MaxLength + 1
    /\ LockInv /\ \A t \in Readers : Good(t, pc[t], req[t], discpointer)

BasicInv == TypeOK /\ ReadersInv

-----------------------------------------------------------------------------
(* The locals of a reader.                                                 *)

LEMMA ReopenReq ==
  ASSUME NEW r \in ReqRecord, NEW back \in {"probe", "seek", "read"}, r.tries < MaxTry
  PROVE  LET q == [r EXCEPT !.back = back, !.tries = @ + 1] IN
         /\ q \in ReqRecord
         /\ q.op = r.op /\ q.lba = r.lba /\ q.left = r.left /\ q.n = r.n
         /\ q.tries = r.tries + 1 /\ q.back = back /\ q.use = r.use /\ q.at = r.at
         /\ q.dpos = r.dpos /\ q.right = r.right
  <1>1. r.tries + 1 \in 0 .. MaxTry
    BY SizesAssumption DEF ReqRecord
  <1> QED
    BY <1>1 DEF ReqRecord

LEMMA RetryReq ==
  ASSUME NEW r \in ReqRecord
  PROVE  LET q == [r EXCEPT !.tries = 0] IN
         /\ q \in ReqRecord
         /\ q.op = r.op /\ q.lba = r.lba /\ q.left = r.left /\ q.n = r.n /\ q.tries = 0
         /\ q.back = r.back /\ q.use = r.use /\ q.at = r.at /\ q.dpos = r.dpos
         /\ q.right = r.right
  <1>1. 0 \in 0 .. MaxTry
    BY SizesAssumption
  <1> QED
    BY <1>1 DEF ReqRecord

LEMMA WordReq ==
  ASSUME NEW r \in ReqRecord, NEW p \in Addresses
  PROVE  LET q == [r EXCEPT !.dpos = p] IN
         /\ q \in ReqRecord
         /\ q.op = r.op /\ q.lba = r.lba /\ q.left = r.left /\ q.n = r.n /\ q.tries = r.tries
         /\ q.back = r.back /\ q.use = r.use /\ q.at = r.at /\ q.dpos = p /\ q.right = r.right
  BY DEF ReqRecord

LEMMA DeliverReq ==
  ASSUME NEW r \in ReqRecord, NEW all \in BOOLEAN, r.lba + r.left <= MaxLength + 1, r.left > 1
  PROVE  LET q == [r EXCEPT !.lba = @ + 1, !.left = @ - 1, !.right = all] IN
         /\ q \in ReqRecord
         /\ q.op = r.op /\ q.lba = r.lba + 1 /\ q.left = r.left - 1 /\ q.n = r.n
         /\ q.tries = r.tries /\ q.back = r.back /\ q.use = r.use /\ q.at = r.at
         /\ q.dpos = r.dpos /\ (q.right <=> all)
  <1>1. r.lba + 1 \in -1 .. MaxLength + 2 /\ r.left - 1 \in -MaxLength - 2 .. MaxLength + 2
    BY LengthAssumption DEF ReqRecord
  <1> QED
    BY <1>1 DEF ReqRecord

LEMMA IdleReq ==
  /\ NoReq \in ReqRecord /\ NoReq.op = "none" /\ NoReq.use = "iso" /\ NoReq.back = "probe"
  /\ [NoReq EXCEPT !.op = "open"] \in ReqRecord
  /\ [NoReq EXCEPT !.op = "open"].op = "open" /\ [NoReq EXCEPT !.op = "open"].use = "iso"
  /\ [NoReq EXCEPT !.op = "open"].back = "probe" /\ [NoReq EXCEPT !.op = "open"].right = TRUE
  <1>1. /\ 0 \in 0 .. MaxTry /\ 0 \in -2 .. 2 * MaxLength + 2 /\ 0 \in Addresses
        /\ 0 \in -1 .. MaxLength + 2 /\ 0 \in -MaxLength - 2 .. MaxLength + 2
    BY SizesAssumption, LengthAssumption DEF Addresses
  <1> QED
    BY <1>1 DEF ReqRecord, NoReq

LEMMA ReadReq ==
  \A lba \in -1 .. MaxLength + 2, n \in -MaxLength - 2 .. MaxLength + 2 :
     /\ Read(lba, n) \in ReqRecord /\ Read(lba, n).op = "read"
     /\ Read(lba, n).lba = lba /\ Read(lba, n).left = n /\ Read(lba, n).n = n
     /\ Read(lba, n).tries = 0 /\ Read(lba, n).back = "probe" /\ Read(lba, n).use = "iso"
     /\ Read(lba, n).at = 0 /\ Read(lba, n).right = TRUE
  <1> TAKE lba \in -1 .. MaxLength + 2, n \in -MaxLength - 2 .. MaxLength + 2
  <1>1. /\ Read(lba, n).op = "read" /\ Read(lba, n).lba = lba /\ Read(lba, n).left = n
        /\ Read(lba, n).n = n /\ Read(lba, n).tries = 0 /\ Read(lba, n).back = "probe"
    BY DEF Read, NoReq
  <1>2. Read(lba, n).use = "iso" /\ Read(lba, n).at = 0 /\ Read(lba, n).right = TRUE
    BY DEF Read, NoReq
  <1>3. Read(lba, n) \in ReqRecord
    BY IdleReq DEF ReqRecord, Read
  <1> QED
    BY <1>1, <1>2, <1>3

-----------------------------------------------------------------------------
(* The image and the stick.                                                *)

LEMMA FileLenBound ==
  ASSUME NEW i \in Images
  PROVE  FileLen(i) \in 0 .. 2 * MaxLength + 2 /\ Length[i] \in 1 .. MaxLength
  BY LengthAssumption DEF FileLen

LEMMA WordsType ==
  ASSUME NEW i, NEW p \in Int, NEW w \in Words(i, p)
  PROVE  w.dpos \in Addresses /\ w.stored \in BOOLEAN
  <1>1. CASE i \in Cso /\ p \in 1 .. Length[i] + 1
    <2>1. Length[i] \in 1 .. MaxLength
      BY <1>1, ImagesAssumption, LengthAssumption
    <2>2. w = [dpos |-> Length[i] + 1 + p, stored |-> p - 1 \in Stored]
      BY <1>1 DEF Words
    <2> QED
      BY <1>1, <2>1, <2>2, LengthAssumption DEF Addresses
  <1>2. CASE ~(i \in Cso /\ p \in 1 .. Length[i] + 1)
    BY <1>2 DEF Words
  <1> QED
    BY <1>1, <1>2

LEMMA StickTypes ==
  ASSUME TypeOK
  PROVE  /\ Shut(umdfd) \in [Fds -> [file : Images \cup {NoImage}, pos : Addresses, dead : BOOLEAN]]
         /\ \A p \in Addresses :
               MoveTo(p) \in [Fds -> [file : Images \cup {NoImage}, pos : Addresses, dead : BOOLEAN]]
         /\ Live(umdfd) => /\ umdfd \in Fds /\ fds[umdfd].file \in Images
                           /\ fds[umdfd].pos \in Addresses /\ Here \in Origins
         /\ \A u \in Int : Live(umdfd) /\ u >= 0 =>
               /\ InFile(Here, u) \in 0 .. u
               /\ Here.at + InFile(Here, u) \in Addresses
         /\ HeaderEnd \in Addresses /\ 0 \in Addresses
  <1>0. 0 \in Addresses /\ HeaderEnd \in Addresses
    BY LengthAssumption DEF Addresses, HeaderEnd
  <1>1. Shut(umdfd) \in [Fds -> [file : Images \cup {NoImage}, pos : Addresses, dead : BOOLEAN]]
    BY <1>0 DEF TypeOK, Shut
  <1>2. \A p \in Addresses :
           MoveTo(p) \in [Fds -> [file : Images \cup {NoImage}, pos : Addresses, dead : BOOLEAN]]
    BY DEF TypeOK, MoveTo
  <1>3. ASSUME Live(umdfd)
        PROVE  /\ umdfd \in Fds /\ fds[umdfd].file \in Images
               /\ fds[umdfd].pos \in Addresses /\ Here \in Origins
    BY <1>3 DEF Live, TypeOK, Here, Origins
  <1>4. ASSUME Live(umdfd), NEW u \in Int, u >= 0
        PROVE  /\ InFile(Here, u) \in 0 .. u
               /\ Here.at + InFile(Here, u) \in Addresses
    <2>1. /\ Here.file \in Images /\ Here.at \in 0 .. 2 * MaxLength + 2
          /\ FileLen(Here.file) \in 0 .. 2 * MaxLength + 2
      BY <1>3, <1>4, FileLenBound DEF Here, Addresses
    <2> DEFINE len == FileLen(Here.file)
    <2> HIDE DEF len
    <2>2. InFile(Here, u) = IF u <= len - Here.at THEN u
                            ELSE IF len - Here.at > 0 THEN len - Here.at ELSE 0
      BY DEF InFile, len
    <2> QED
      BY <1>4, <2>1, <2>2, LengthAssumption DEF Addresses, len
  <1> QED
    BY <1>0, <1>1, <1>2, <1>3, <1>4

-----------------------------------------------------------------------------
(* The types, and what bounds the numbers of a reader.                     *)

\* A reader that goes to another label leaves the others where they are
LEMMA GotoGood ==
  ASSUME BasicInv, NEW t \in Readers, NEW l, NEW r, Goto(t, l, r), Good(t, l, r, discpointer'),
         \A u \in Readers \ {t} : Good(u, pc[u], req[u], discpointer')
  PROVE  /\ \A u \in Readers : Good(u, pc'[u], req'[u], discpointer')
         /\ pc' \in [Readers -> Labels] /\ req' \in [Readers -> ReqRecord]
         /\ pc'[t] = l /\ req'[t] = r
         /\ \A u \in Readers \ {t} : pc'[u] = pc[u] /\ req'[u] = req[u]
  <1>1. l \in Labels /\ r \in ReqRecord
    BY DEF Good
  <1>2. /\ pc' = [pc EXCEPT ![t] = l] /\ req' = [req EXCEPT ![t] = r]
        /\ pc \in [Readers -> Labels] /\ req \in [Readers -> ReqRecord]
    BY DEF Goto, BasicInv, TypeOK
  <1>3. /\ pc'[t] = l /\ req'[t] = r
        /\ \A u \in Readers \ {t} : pc'[u] = pc[u] /\ req'[u] = req[u]
    BY <1>2
  <1> QED
    BY <1>1, <1>2, <1>3

\* Goto, on whichever side of the door the reader stays
LEMMA GoGood ==
  ASSUME BasicInv, NEW t \in Readers, NEW l, NEW r, Go(t, l, r), Good(t, l, r, discpointer),
         pc[t] \notin {"idle", "lock"} <=> l \notin {"idle", "lock"}
  PROVE  ReadersInv'
  <1>1. /\ discpointer' = discpointer /\ umdsema' = umdsema /\ res' = res /\ Goto(t, l, r)
    BY DEF Go, Stay
  <1>2. /\ \A u \in Readers : Good(u, pc'[u], req'[u], discpointer')
        /\ pc' \in [Readers -> Labels] /\ req' \in [Readers -> ReqRecord]
        /\ pc'[t] = l
        /\ \A u \in Readers \ {t} : pc'[u] = pc[u]
    BY <1>1, GotoGood DEF BasicInv, ReadersInv
  <1>3. \A u \in Readers : Inside(u)' <=> Inside(u)
    BY <1>2 DEF Inside
  <1>4. LockInv'
    BY <1>1, <1>3, ReadersAssumption DEF LockInv, BasicInv, ReadersInv
  <1> QED
    BY <1>1, <1>2, <1>4 DEF ReadersInv, BasicInv

\* One that enters, for which the semaphore is or is not taken
LEMMA EnterGood ==
  ASSUME BasicInv, NEW t \in Readers, NEW l, NEW r, Goto(t, l, r), Good(t, l, r, discpointer),
         \/ t \in UmdReaders /\ umdsema = Free /\ umdsema' = t
         \/ t \notin UmdReaders /\ umdsema' = umdsema,
         l \notin {"idle", "lock"}, UNCHANGED <<res, discpointer>>
  PROVE  ReadersInv'
  <1>1. /\ \A u \in Readers : Good(u, pc'[u], req'[u], discpointer')
        /\ pc' \in [Readers -> Labels] /\ req' \in [Readers -> ReqRecord]
        /\ pc'[t] = l
        /\ \A u \in Readers \ {t} : pc'[u] = pc[u]
    BY GotoGood DEF BasicInv, ReadersInv
  <1>2. Inside(t)' /\ \A u \in Readers \ {t} : Inside(u)' <=> Inside(u)
    BY <1>1 DEF Inside
  <1>3. umdsema = Free => \A u \in UmdReaders : ~Inside(u)
    BY ReadersAssumption DEF LockInv, BasicInv, ReadersInv
  <1>4. LockInv' /\ umdsema' \in Readers \cup {Free}
    <2>1. CASE t \in UmdReaders /\ umdsema = Free /\ umdsema' = t
      BY <1>2, <1>3, <2>1, ReadersAssumption DEF LockInv, BasicInv, ReadersInv
    <2>2. CASE t \notin UmdReaders /\ umdsema' = umdsema
      BY <1>2, <2>2, ReadersAssumption DEF LockInv, BasicInv, ReadersInv
    <2> QED
      BY <2>1, <2>2
  <1> QED
    BY <1>1, <1>4 DEF ReadersInv, BasicInv

\* The position of umd0: matters to the reader that holds the semaphore only
LEMMA OthersGood ==
  ASSUME BasicInv, NEW u \in Readers, u \notin UmdReaders \/ discpointer' = discpointer \/ ~Inside(u)
  PROVE  Good(u, pc[u], req[u], discpointer')
  BY DEF BasicInv, ReadersInv, Good, Inside

\* One that leaves, with the semaphore if it had it
LEMMA LeaveGood ==
  ASSUME BasicInv, NEW t \in Readers, Inside(t), Goto(t, "idle", NoReq),
         umdsema' = (IF t \in UmdReaders THEN Free ELSE umdsema),
         t \notin UmdReaders => discpointer' = discpointer,
         discpointer' \in -1 .. MaxLength + 1,
         res' \in [Readers -> {"none", "failed", "right", "wrong"}]
  PROVE  ReadersInv'
  <1>1. ASSUME NEW u \in Readers \ {t}
        PROVE  Good(u, pc[u], req[u], discpointer')
    <2>1. u \notin UmdReaders \/ discpointer' = discpointer \/ ~Inside(u)
      BY DEF BasicInv, ReadersInv, LockInv
    <2> QED
      BY <2>1, OthersGood
  <1>2. Good(t, "idle", NoReq, discpointer')
    BY IdleReq DEF Good, Labels, Sectors, Opening
  <1>3. /\ \A u \in Readers : Good(u, pc'[u], req'[u], discpointer')
        /\ pc' \in [Readers -> Labels] /\ req' \in [Readers -> ReqRecord]
        /\ pc'[t] = "idle"
        /\ \A u \in Readers \ {t} : pc'[u] = pc[u]
    BY <1>1, <1>2, GotoGood
  <1>4. ~Inside(t)' /\ \A u \in Readers \ {t} : Inside(u)' <=> Inside(u)
    BY <1>3 DEF Inside
  <1>5. LockInv' /\ umdsema' \in Readers \cup {Free}
    BY <1>4, ReadersAssumption DEF LockInv, BasicInv, ReadersInv
  <1> QED
    BY <1>3, <1>5 DEF ReadersInv

\* A request that ends has moved the position by no more than it was given
LEMMA ReturnGood ==
  ASSUME BasicInv, NEW t \in Readers, NEW result \in {"none", "failed", "right", "wrong"},
         NEW count \in Int, Inside(t), count <= 0 \/ count <= req[t].n, req[t].op = "read",
         Return(t, result, count)
  PROVE  ReadersInv'
  <1>1. /\ discpointer \in -1 .. MaxLength + 1 /\ MaxLength \in Nat
        /\ Good(t, pc[t], req[t], discpointer) /\ req[t] \in ReqRecord
    BY LengthAssumption DEF BasicInv, ReadersInv
  <1>2. discpointer' = IF t \in UmdReaders /\ count > 0 THEN discpointer + count ELSE discpointer
    BY DEF Return
  <1>3. discpointer' \in -1 .. MaxLength + 1
    <2>1. t \in UmdReaders => discpointer + req[t].n <= MaxLength + 1 /\ req[t].n \in Int
      BY <1>1 DEF Good, Inside, ReqRecord
    <2> QED
      BY <1>1, <1>2, <2>1
  <1>4. res' \in [Readers -> {"none", "failed", "right", "wrong"}]
    BY DEF Return, BasicInv, ReadersInv
  <1>5. /\ Goto(t, "idle", NoReq)
        /\ umdsema' = IF t \in UmdReaders THEN Free ELSE umdsema
        /\ t \notin UmdReaders => discpointer' = discpointer
    BY <1>2 DEF Return
  <1> QED
    BY <1>3, <1>4, <1>5, LeaveGood

-----------------------------------------------------------------------------
(* Every action keeps the types and the bounds.                            *)

LEMMA InitBasic == ASSUME Init PROVE BasicInv
  <1>1. /\ 0 \in Addresses /\ Torn \in Origins /\ MaxLength \in Nat
    BY LengthAssumption DEF Addresses, Torn, Origins
  <1>2. TypeOK
    <2>1. /\ discsize \in -1 .. MaxLength + 1 /\ discpointer \in -1 .. MaxLength + 1
          /\ umdfile \in Images /\ umdfd \in Fds \cup {NoFd} /\ umdsema \in Readers \cup {Free}
      BY <1>1 DEF Init
    <2>6. mounted \in BOOLEAN /\ cso \in BOOLEAN /\ card \in BOOLEAN
      BY Zenon DEF Init
    <2>2. index \in [cur : -1 .. MaxLength + 2, from : Origins]
      <3>1. 0 \in -1 .. MaxLength + 2
        BY <1>1
      <3> QED
        BY <1>1, <3>1 DEF Init
    <2>3. buf \in [pos : Addresses \cup {NoPos}, from : Origins]
      BY <1>1 DEF Init
    <2>4. fds \in [Fds -> [file : Images \cup {NoImage}, pos : Addresses, dead : BOOLEAN]]
      BY <1>1 DEF Init
    <2>5. pc \in [Readers -> Labels] /\ req \in [Readers -> ReqRecord]
      BY IdleReq DEF Init, Labels
    <2> QED
      BY <2>1, <2>2, <2>3, <2>4, <2>5, <2>6 DEF Init, TypeOK
  <1>3. LockInv
    BY ReadersAssumption DEF Init, LockInv, Inside
  <1>4. \A t \in Readers : Good(t, pc[t], req[t], discpointer)
    BY IdleReq DEF Init, Good, Labels, Sectors, Opening
  <1> QED
    BY <1>2, <1>3, <1>4 DEF BasicInv, ReadersInv, TypeOK

\* What is known of a reader that reads
LEMMA InsideReads ==
  ASSUME BasicInv, NEW t \in Readers, Inside(t)
  PROVE  /\ Good(t, pc[t], req[t], discpointer) /\ req[t] \in ReqRecord
         /\ req[t].op \in {"read", "open"}
         /\ req[t].op = "open" => pc[t] \in {"probe", "close", "open", "header", "size"}
         /\ req[t].op = "read" => /\ req[t].lba <= MaxLength + 1 /\ req[t].left <= req[t].n
                                 /\ req[t].lba + req[t].left <= MaxLength + 1
         /\ pc[t] \in Sectors => req[t].op = "read"
         /\ pc[t] \in Sectors \/ req[t].use # "iso" => req[t].left >= 1
         /\ req[t].op = "read" /\ req[t].left >= 1 => req[t].lba <= MaxLength
         /\ req[t].lba \in -1 .. MaxLength + 2 /\ req[t].left \in -MaxLength - 2 .. MaxLength + 2
         /\ req[t].n \in Int /\ MaxLength \in Nat
  <1>1. Good(t, pc[t], req[t], discpointer) /\ req[t] \in ReqRecord /\ MaxLength \in Nat
    BY LengthAssumption DEF BasicInv, ReadersInv
  <1>2. /\ req[t].op \in {"none", "read", "open"}
        /\ req[t].use \in {"iso", "index", "next", "stored", "block"}
        /\ req[t].lba \in -1 .. MaxLength + 2 /\ req[t].left \in -MaxLength - 2 .. MaxLength + 2
        /\ req[t].n \in Int
    BY <1>1 DEF ReqRecord
  <1> QED
    BY <1>1, <1>2 DEF Good, Inside, Sectors

\* The call of ReadUmdFileRetry, and the loops that open the image again
LEMMA FetchGood ==
  ASSUME BasicInv, NEW t \in Readers, Inside(t), req[t].op = "read",
         NEW use \in {"iso", "index", "next", "stored", "block"},
         NEW at \in -2 .. 2 * MaxLength + 2, Fetch(t, req[t], use, at),
         use # "iso" => req[t].left >= 1
  PROVE  ReadersInv'
  <1> DEFINE q == [req[t] EXCEPT !.use = use, !.at = at, !.tries = 0]
  <1>1. Go(t, "seek", q)
    BY DEF Fetch
  <1>2. /\ q \in ReqRecord /\ q.op = req[t].op /\ q.lba = req[t].lba /\ q.left = req[t].left
        /\ q.n = req[t].n /\ q.use = use
    <2>1. req[t] \in ReqRecord
      BY InsideReads
    <2>2. 0 \in 0 .. MaxTry
      BY SizesAssumption
    <2> QED
      BY <2>1, <2>2 DEF ReqRecord
  <1> HIDE DEF q
  <1>3. Good(t, "seek", q, discpointer)
    BY <1>2, InsideReads DEF Good, Inside, Labels, Sectors, Opening
  <1> QED
    BY <1>1, <1>3, GoGood DEF Inside

LEMMA ReopenGood ==
  ASSUME BasicInv, NEW t \in Readers, Inside(t), req[t].tries < MaxTry,
         NEW back \in {"probe", "seek", "read"}, Reopen(t, back), req[t].op = "open" => back = "probe"
  PROVE  ReadersInv'
  <1> DEFINE q == [req[t] EXCEPT !.back = back, !.tries = @ + 1]
  <1>1. Go(t, "close", q)
    BY DEF Reopen
  <1>2. /\ q \in ReqRecord /\ q.op = req[t].op /\ q.lba = req[t].lba /\ q.left = req[t].left
        /\ q.n = req[t].n /\ q.use = req[t].use /\ q.back = back
    <2>1. req[t] \in ReqRecord
      BY InsideReads
    <2> QED
      BY <2>1, ReopenReq
  <1>4. q.tries >= 1
    <2>1. req[t] \in ReqRecord /\ req[t].tries \in Nat
      BY InsideReads, SizesAssumption DEF ReqRecord
    <2>2. q.tries = req[t].tries + 1
      BY <2>1 DEF ReqRecord
    <2> QED
      BY <2>1, <2>2
  <1> HIDE DEF q
  <1>3. Good(t, "close", q, discpointer)
    BY <1>2, <1>4, InsideReads DEF Good, Inside, Labels, Sectors, Opening
  <1> QED
    BY <1>1, <1>3, GoGood DEF Inside

LEMMA ReadSectorsGood ==
  ASSUME BasicInv, NEW t \in Readers, Inside(t), req[t].op = "read", ReadSectors(t, req[t])
  PROVE  ReadersInv'
  <1> DEFINE r == req[t]
  <1>1. CASE Fetch(t, r, "iso", 2 * r.lba)
    <2>1. 2 * r.lba \in -2 .. 2 * MaxLength + 2
      BY InsideReads
    <2> QED
      BY <1>1, <2>1, FetchGood
  <1>2. CASE r.left > 0 /\ Go(t, "sector", r)
    <2>1. Good(t, "sector", r, discpointer)
      BY <1>2, InsideReads DEF Good, Inside, Labels, Sectors, Opening
    <2> QED
      BY <1>2, <2>1, GoGood DEF Inside
  <1>3. CASE r.left <= 0 /\ Return(t, IF r.left = 0 THEN "right" ELSE "failed", 0)
    <2> DEFINE result == IF r.left = 0 THEN "right" ELSE "failed"
    <2>1. result \in {"none", "failed", "right", "wrong"}
      OBVIOUS
    <2>2. Return(t, result, 0)
      BY <1>3
    <2> HIDE DEF result
    <2> QED
      BY <2>1, <2>2, ReturnGood
  <1> QED
    BY <1>1, <1>2, <1>3 DEF ReadSectors

-----------------------------------------------------------------------------
LEMMA EnterTypes ==
  ASSUME BasicInv, NEW t \in Readers, Enter(t)
  PROVE  misled' \in BOOLEAN /\ steady' \subseteq Readers
  <1>1. misled' \in BOOLEAN
    BY Zenon DEF Enter
  <1>2. steady' \subseteq Readers
    BY DEF Enter, BasicInv, TypeOK
  <1> QED
    BY <1>1, <1>2

LEMMA CallBasic == ASSUME BasicInv, NEW t \in Readers, Call(t) PROVE BasicInv'
  <1>1. PICK lba \in 0 .. MaxLength - 1 : \E n \in 1 .. MaxLength :
           lba + n <= MaxLength /\ Go(t, "start", Read(lba, n))
    BY DEF Call
  <1>2. PICK n \in 1 .. MaxLength : lba + n <= MaxLength /\ Go(t, "start", Read(lba, n))
    BY <1>1
  <1>3. lba \in -1 .. MaxLength + 2 /\ n \in -MaxLength - 2 .. MaxLength + 2 /\ MaxLength \in Nat
    BY LengthAssumption
  <1>4. Good(t, "start", Read(lba, n), discpointer)
    BY <1>2, <1>3, ReadReq DEF Good, Call, Labels, Sectors, Opening
  <1>5. ReadersInv'
    BY <1>2, <1>4, EnterGood DEF Call, Go, Stay
  <1>6. misled' \in BOOLEAN /\ steady' \subseteq Readers
    BY EnterTypes DEF Call
  <1> QED
    BY <1>5, <1>6 DEF Call, BasicInv, TypeOK, ReadersInv, discVars, cacheVars

LEMMA UmdCallBasic == ASSUME BasicInv, NEW t \in Readers, UmdCall(t) PROVE BasicInv'
  <1> DEFINE o == [NoReq EXCEPT !.op = "open"]
  <1>1. pc[t] = "idle" /\ t \in UmdReaders
    BY DEF UmdCall
  <1>2. CASE Go(t, "lock", o)
    <2>1. Good(t, "lock", o, discpointer)
      BY <1>1, IdleReq DEF Good, Labels, Sectors, Opening
    <2> QED
      BY <1>1, <1>2, <2>1, GoGood DEF UmdCall, BasicInv, TypeOK, ReadersInv, discVars, cacheVars
  <1>3. ASSUME NEW n \in 1 .. MaxLength, Go(t, "lock", Read(0, n))
        PROVE  BasicInv'
    <2>1. 0 \in -1 .. MaxLength + 2 /\ n \in -MaxLength - 2 .. MaxLength + 2
      BY LengthAssumption
    <2>2. Good(t, "lock", Read(0, n), discpointer)
      BY <1>1, <2>1, ReadReq DEF Good, Labels, Sectors, Opening
    <2> QED
      BY <1>1, <1>3, <2>2, GoGood DEF UmdCall, BasicInv, TypeOK, ReadersInv, discVars, cacheVars
  <1> QED
    BY <1>2, <1>3 DEF UmdCall

LEMMA UmdOpenBasic == ASSUME BasicInv, NEW t \in Readers, UmdOpen(t) PROVE BasicInv'
  <1>1. /\ Good(t, pc[t], req[t], discpointer)
        /\ pc[t] = "lock" /\ req[t].op = "open" /\ umdsema = Free /\ umdsema' = t
        /\ Goto(t, "probe", req[t])
    BY DEF UmdOpen, BasicInv, ReadersInv
  <1>2. t \in UmdReaders /\ Good(t, "probe", req[t], discpointer)
    BY <1>1 DEF Good, Labels, Sectors, Opening
  <1>3. ReadersInv'
    BY <1>1, <1>2, EnterGood DEF UmdOpen
  <1>4. misled' \in BOOLEAN /\ steady' \subseteq Readers
    BY EnterTypes DEF UmdOpen
  <1> QED
    BY <1>3, <1>4 DEF UmdOpen, BasicInv, TypeOK, ReadersInv, discVars, cacheVars

LEMMA UmdReadBasic == ASSUME BasicInv, NEW t \in Readers, UmdRead(t) PROVE BasicInv'
  <1> DEFINE n == req[t].n
             m == IF discpointer + n > discsize THEN discsize - discpointer ELSE n
  <1>1. /\ Good(t, pc[t], req[t], discpointer) /\ discsize \in -1 .. MaxLength + 1
        /\ discpointer \in -1 .. MaxLength + 1 /\ MaxLength \in Nat
        /\ pc[t] = "lock" /\ req[t].op = "read" /\ umdsema = Free /\ umdsema' = t
        /\ Goto(t, "start", Read(discpointer, m))
    BY LengthAssumption DEF UmdRead, BasicInv, ReadersInv, TypeOK
  <1>2. t \in UmdReaders /\ n \in 1 .. MaxLength
    BY <1>1 DEF Good
  <1>3. /\ m \in -MaxLength - 2 .. MaxLength + 2 /\ discpointer \in -1 .. MaxLength + 2
        /\ discpointer + m <= MaxLength + 1
    BY <1>1, <1>2
  <1> HIDE DEF m
  <1>4. Good(t, "start", Read(discpointer, m), discpointer)
    BY <1>1, <1>2, <1>3, ReadReq DEF Good, Labels, Sectors, Opening
  <1>5. ReadersInv'
    BY <1>1, <1>2, <1>4, EnterGood DEF UmdRead
  <1>6. misled' \in BOOLEAN /\ steady' \subseteq Readers
    BY EnterTypes DEF UmdRead
  <1> QED
    BY <1>5, <1>6 DEF UmdRead, BasicInv, TypeOK, ReadersInv, discVars, cacheVars

LEMMA UmdLseekBasic == ASSUME BasicInv, NEW t \in Readers, UmdLseek(t) PROVE BasicInv'
  <1>1. /\ discsize \in -1 .. MaxLength + 1 /\ discpointer \in -1 .. MaxLength + 1
        /\ MaxLength \in Nat /\ umdsema = Free /\ UNCHANGED <<umdsema, pc, req, res>>
    BY LengthAssumption DEF UmdLseek, BasicInv, TypeOK
  <1>2. PICK ofs \in 0 .. MaxLength : \E new \in {ofs, discpointer + ofs, discsize - ofs} :
           new >= -1 /\ discpointer' = IF new > discsize THEN discsize ELSE new
    BY DEF UmdLseek
  <1>3. PICK new \in {ofs, discpointer + ofs, discsize - ofs} :
           new >= -1 /\ discpointer' = IF new > discsize THEN discsize ELSE new
    BY <1>2
  <1>4. discpointer' \in -1 .. MaxLength + 1
    BY <1>1, <1>3
  <1>5. ASSUME NEW u \in Readers PROVE Good(u, pc[u], req[u], discpointer')
    BY <1>1, ReadersAssumption, OthersGood DEF BasicInv, ReadersInv, LockInv
  <1>6. LockInv'
    BY <1>1 DEF BasicInv, ReadersInv, LockInv, Inside
  <1>7. ReadersInv'
    BY <1>1, <1>4, <1>5, <1>6 DEF ReadersInv, BasicInv
  <1> QED
    BY <1>7 DEF UmdLseek, BasicInv, TypeOK, ReadersInv, discVars, cacheVars

\* What does not touch the readers
LEMMA StillGood ==
  ASSUME BasicInv, UNCHANGED <<pc, req, res, umdsema, discpointer>>
  PROVE  ReadersInv'
  BY DEF BasicInv, ReadersInv, LockInv, Inside

LEMMA StickBasic ==
  ASSUME BasicInv, SetUmdFile \/ SetUmdFileEnd \/ Eject \/ Insert \/ UNCHANGED vars
  PROVE  BasicInv'
  <1>1. CASE SetUmdFile
    <2>1. misled' \in BOOLEAN
      BY <1>1, Zenon DEF SetUmdFile
    <2> QED
      BY <1>1, <2>1, StillGood, StickTypes
         DEF SetUmdFile, BasicInv, TypeOK, ReadersInv, discVars, cacheVars
  <1>2. CASE SetUmdFileEnd
    BY <1>2, StillGood DEF SetUmdFileEnd, BasicInv, TypeOK, ReadersInv, discVars, cacheVars
  <1>3. CASE Eject
    <2>1. fds' \in [Fds -> [file : Images \cup {NoImage}, pos : Addresses, dead : BOOLEAN]]
      <3>1. ASSUME NEW f \in Fds
            PROVE  [fds[f] EXCEPT !.dead = fds[f].file # NoImage]
                      \in [file : Images \cup {NoImage}, pos : Addresses, dead : BOOLEAN]
        <4>1. (fds[f].file # NoImage) \in BOOLEAN
          OBVIOUS
        <4> QED
          BY <4>1 DEF BasicInv, TypeOK
      <3> QED
        BY <1>3, <3>1 DEF Eject
    <2> QED
      BY <1>3, <2>1, StillGood DEF Eject, BasicInv, TypeOK, ReadersInv, discVars, cacheVars
  <1>4. CASE Insert
    BY <1>4, StillGood DEF Insert, BasicInv, TypeOK, ReadersInv, discVars, cacheVars
  <1>5. CASE UNCHANGED vars
    BY <1>5, StillGood DEF vars, BasicInv, TypeOK, ReadersInv, discVars, cacheVars
  <1> QED
    BY <1>1, <1>2, <1>3, <1>4, <1>5

LEMMA StartBasic == ASSUME BasicInv, NEW t \in Readers, Start(t) PROVE BasicInv'
  <1>1. Inside(t) /\ req[t].op = "read"
    BY InsideReads DEF Start, Inside
  <1>2. CASE ReadSectors(t, req[t])
    BY <1>1, <1>2, ReadSectorsGood DEF Start, BasicInv, TypeOK, ReadersInv, discVars, cacheVars
  <1>3. CASE Go(t, "probe", req[t])
    <2>1. Good(t, "probe", req[t], discpointer)
      BY <1>1, InsideReads DEF Start, Good, Inside, Labels, Sectors, Opening
    <2>2. ReadersInv'
      BY <1>1, <1>3, <2>1, GoGood DEF Inside
    <2> QED
      BY <2>2 DEF Start, BasicInv, TypeOK, ReadersInv, discVars, cacheVars
  <1> QED
    BY <1>2, <1>3 DEF Start

\* umd_open, when it ends
LEMMA OpenEnds ==
  ASSUME BasicInv, NEW t \in Readers, Inside(t), req[t].op = "open", Goto(t, "idle", NoReq),
         umdsema' = Free, discpointer' = 0 \/ discpointer' = discpointer, res' = res
  PROVE  ReadersInv'
  <1>1. t \in UmdReaders
    BY InsideReads DEF Good
  <1>2. discpointer' \in -1 .. MaxLength + 1
    BY LengthAssumption DEF BasicInv, ReadersInv
  <1>3. res' \in [Readers -> {"none", "failed", "right", "wrong"}]
    BY DEF BasicInv, ReadersInv
  <1> QED
    BY <1>1, <1>2, <1>3, LeaveGood

LEMMA ProbeBasic == ASSUME BasicInv, NEW t \in Readers, Probe(t) PROVE BasicInv'
  <1> DEFINE r == req[t]
  <1>1. Inside(t)
    BY DEF Probe, Inside
  <1>2. /\ UNCHANGED <<discVars, umdfd, cacheVars, card, setting, steady, misled>>
        /\ pc[t] = "probe" /\ r \in ReqRecord
    BY <1>1, InsideReads DEF Probe
  <1>3. ASSUME ReadersInv',
               fds' \in [Fds -> [file : Images \cup {NoImage}, pos : Addresses, dead : BOOLEAN]]
        PROVE  BasicInv'
    BY <1>2, <1>3 DEF BasicInv, TypeOK, ReadersInv, discVars, cacheVars
  <1>4. UNCHANGED fds => fds' \in [Fds -> [file : Images \cup {NoImage}, pos : Addresses, dead : BOOLEAN]]
    BY DEF BasicInv, TypeOK
  <1>5. CASE r.tries < MaxTry /\ ~Live(umdfd) /\ Reopen(t, "probe") /\ UNCHANGED fds
    BY <1>1, <1>3, <1>4, <1>5, ReopenGood
  <1>6. CASE /\ r.tries < MaxTry /\ Live(umdfd) /\ r.op = "open"
             /\ fds' = MoveTo(0) /\ Goto(t, "idle", NoReq)
             /\ umdsema' = Free /\ discpointer' = 0 /\ UNCHANGED res
    <2>1. ReadersInv'
      BY <1>1, <1>6, OpenEnds
    <2>2. fds' \in [Fds -> [file : Images \cup {NoImage}, pos : Addresses, dead : BOOLEAN]]
      BY <1>6, StickTypes DEF BasicInv
    <2> QED
      BY <1>3, <2>1, <2>2
  <1>7. CASE /\ r.tries = MaxTry /\ r.op = "open"
             /\ Goto(t, "idle", NoReq) /\ umdsema' = Free
             /\ UNCHANGED <<discpointer, res, fds>>
    BY <1>1, <1>3, <1>4, <1>7, OpenEnds
  <1>8. CASE /\ r.op = "read" /\ UNCHANGED fds
             /\ IF mounted THEN ReadSectors(t, r) ELSE Return(t, "failed", 0)
    <2>1. CASE ReadSectors(t, r)
      BY <1>1, <1>3, <1>4, <1>8, <2>1, ReadSectorsGood
    <2>2. CASE Return(t, "failed", 0)
      BY <1>1, <1>3, <1>4, <1>8, <2>2, ReturnGood
    <2> QED
      BY <1>8, <2>1, <2>2
  <1> QED
    BY <1>5, <1>6, <1>7, <1>8 DEF Probe

LEMMA OpenIsoCloseBasic == ASSUME BasicInv, NEW t \in Readers, OpenIsoClose(t) PROVE BasicInv'
  <1>1. Good(t, "open", req[t], discpointer)
    BY InsideReads DEF OpenIsoClose, Good, Inside, Labels, Sectors, Opening
  <1>2. ReadersInv'
    BY <1>1, GoGood DEF OpenIsoClose
  <1>3. fds' \in [Fds -> [file : Images \cup {NoImage}, pos : Addresses, dead : BOOLEAN]]
    BY StickTypes DEF OpenIsoClose, BasicInv
  <1> QED
    BY <1>2, <1>3 DEF OpenIsoClose, BasicInv, TypeOK, ReadersInv, cacheVars

LEMMA OpenIsoBasic == ASSUME BasicInv, NEW t \in Readers, OpenIso(t) PROVE BasicInv'
  <1>1. /\ pc[t] = "open" /\ req[t].back \in {"probe", "seek", "read"}
        /\ req[t].op = "open" => req[t].back = "probe"
    BY InsideReads DEF OpenIso, Inside, Good, ReqRecord
  <1>2. Good(t, "header", req[t], discpointer) /\ Good(t, req[t].back, req[t], discpointer)
    BY <1>1, InsideReads DEF Good, Inside, Labels, Sectors, Opening
  <1>3. ASSUME NEW f \in Fds,
               fds' = [fds EXCEPT ![f] = [file |-> umdfile, pos |-> 0, dead |-> FALSE]],
               umdfd' = f, Go(t, "header", req[t])
        PROVE  BasicInv'
    <2>1. ReadersInv'
      BY <1>1, <1>2, <1>3, GoGood
    <2>2. fds' \in [Fds -> [file : Images \cup {NoImage}, pos : Addresses, dead : BOOLEAN]]
      BY <1>3, StickTypes DEF BasicInv, TypeOK
    <2> QED
      BY <1>3, <2>1, <2>2 DEF OpenIso, BasicInv, TypeOK, ReadersInv, discVars, cacheVars
  <1>4. CASE umdfd' = NoFd /\ UNCHANGED fds /\ Go(t, req[t].back, req[t])
    <2>1. ReadersInv'
      BY <1>1, <1>2, <1>4, GoGood
    <2> QED
      BY <1>4, <2>1 DEF OpenIso, BasicInv, TypeOK, ReadersInv, discVars, cacheVars
  <1> QED
    BY <1>3, <1>4 DEF OpenIso

LEMMA CisoOpenBasic == ASSUME BasicInv, NEW t \in Readers, CisoOpen(t) PROVE BasicInv'
  <1>1. Good(t, "size", req[t], discpointer)
    BY InsideReads DEF CisoOpen, Good, Inside, Labels, Sectors, Opening
  <1>2. ReadersInv'
    BY <1>1, GoGood DEF CisoOpen
  <1>3. fds' \in [Fds -> [file : Images \cup {NoImage}, pos : Addresses, dead : BOOLEAN]]
    BY StickTypes DEF CisoOpen, BasicInv, TypeOK
  <1>4. buf' \in [pos : Addresses \cup {NoPos}, from : Origins]
    BY DEF CisoOpen, BasicInv, TypeOK
  <1>5. index' \in [cur : -1 .. MaxLength + 2, from : Origins]
    <2>1. NoIndex \in -1 .. MaxLength + 2
      BY LengthAssumption DEF NoIndex
    <2>2. index \in [cur : -1 .. MaxLength + 2, from : Origins]
      BY DEF BasicInv, TypeOK
    <2>3. [index EXCEPT !.cur = NoIndex] \in [cur : -1 .. MaxLength + 2, from : Origins]
      BY <2>1, <2>2
    <2>4. index' = index \/ index' = [index EXCEPT !.cur = NoIndex]
      BY DEF CisoOpen
    <2> QED
      BY <2>2, <2>3, <2>4
  <1>6. cso' \in BOOLEAN
    <2>1. (fds[umdfd].file \in Cso) \in BOOLEAN /\ FALSE \in BOOLEAN
      OBVIOUS
    <2>2. cso' = (fds[umdfd].file \in Cso) \/ cso' = FALSE
      BY Zenon DEF CisoOpen
    <2> QED
      BY <2>1, <2>2, Zenon
  <1>7. misled' \in BOOLEAN
    <2>1. misled \in BOOLEAN
      BY DEF BasicInv, TypeOK
    <2> QED
      BY <2>1, Zenon DEF CisoOpen
  <1> QED
    BY <1>2, <1>3, <1>4, <1>5, <1>6, <1>7 DEF CisoOpen, BasicInv, TypeOK, ReadersInv

LEMMA GetDiscSizeBasic == ASSUME BasicInv, NEW t \in Readers, GetDiscSize(t) PROVE BasicInv'
  <1>1. /\ pc[t] = "size" /\ req[t].back \in {"probe", "seek", "read"}
        /\ req[t].op = "open" => req[t].back = "probe"
    BY InsideReads DEF GetDiscSize, Inside, Good, ReqRecord
  <1>2. Good(t, req[t].back, req[t], discpointer)
    BY <1>1, InsideReads DEF Good, Inside, Labels, Sectors, Opening
  <1>3. ReadersInv'
    BY <1>1, <1>2, GoGood DEF GetDiscSize
  <1>4. discsize' \in -1 .. MaxLength + 1
    <2>1. Length[umdfile] \in 1 .. MaxLength /\ MaxLength \in Nat
      BY LengthAssumption DEF BasicInv, TypeOK
    <2>2. ASSUME Live(umdfd) PROVE FileLen(fds[umdfd].file) \in 0 .. 2 * MaxLength + 2
      BY <2>2, StickTypes, FileLenBound DEF BasicInv
    <2> QED
      BY <2>1, <2>2 DEF GetDiscSize
  <1> QED
    BY <1>3, <1>4 DEF GetDiscSize, BasicInv, TypeOK, ReadersInv, cacheVars

LEMMA UnitsType ==
  ASSUME BasicInv, NEW t \in Readers
  PROVE  Units(req[t]) \in Int /\ (req[t].use = "iso" => Units(req[t]) = 2 * req[t].left)
  <1>1. req[t].use \in {"iso", "index", "next", "stored", "block"} /\ req[t].left \in Int
    BY DEF BasicInv, ReadersInv, ReqRecord
  <1> QED
    BY <1>1, SizesAssumption DEF Units

LEMMA FetchFailedGood ==
  ASSUME BasicInv, NEW t \in Readers, Inside(t), req[t].op = "read", FetchFailed(t)
  PROVE  ReadersInv' /\ buf' \in [pos : Addresses \cup {NoPos}, from : Origins]
  <1>1. ReadersInv'
    BY ReturnGood DEF FetchFailed
  <1>2. buf' \in [pos : Addresses \cup {NoPos}, from : Origins]
    BY DEF FetchFailed, BasicInv, TypeOK
  <1> QED
    BY <1>1, <1>2

LEMMA RetrySeekBasic == ASSUME BasicInv, NEW t \in Readers, RetrySeek(t) PROVE BasicInv'
  <1> DEFINE r == req[t]
  <1>1. Inside(t) /\ pc[t] = "seek" /\ r.op = "read" /\ r \in ReqRecord
    BY InsideReads DEF RetrySeek, Inside
  <1>2. UNCHANGED <<discVars, umdfd, index, card, setting, steady, misled>>
    BY DEF RetrySeek
  <1>3. ASSUME ReadersInv',
               fds' \in [Fds -> [file : Images \cup {NoImage}, pos : Addresses, dead : BOOLEAN]],
               buf' \in [pos : Addresses \cup {NoPos}, from : Origins]
        PROVE  BasicInv'
    BY <1>2, <1>3 DEF BasicInv, TypeOK, ReadersInv, discVars
  <1>4. /\ UNCHANGED fds => fds' \in [Fds -> [file : Images \cup {NoImage}, pos : Addresses, dead : BOOLEAN]]
        /\ UNCHANGED buf => buf' \in [pos : Addresses \cup {NoPos}, from : Origins]
    BY DEF BasicInv, TypeOK
  <1>5. CASE r.at >= 0 /\ fds' = MoveTo(r.at) /\ Go(t, "read", [r EXCEPT !.tries = 0]) /\ UNCHANGED buf
    <2>1. r.at \in Addresses
      BY <1>1, <1>5 DEF ReqRecord, Addresses
    <2>2. fds' \in [Fds -> [file : Images \cup {NoImage}, pos : Addresses, dead : BOOLEAN]]
      BY <1>5, <2>1, StickTypes DEF BasicInv
    <2> DEFINE q == [r EXCEPT !.tries = 0]
    <2>3. /\ q \in ReqRecord /\ q.op = r.op /\ q.lba = r.lba /\ q.left = r.left /\ q.n = r.n
          /\ q.use = r.use
      BY <1>1, RetryReq
    <2> HIDE DEF q
    <2>4. Good(t, "read", q, discpointer)
      BY <1>1, <2>3, InsideReads DEF Good, Inside, Labels, Sectors, Opening
    <2>5. Go(t, "read", q)
      BY <1>5 DEF q
    <2>6. ReadersInv'
      BY <1>1, <2>4, <2>5, GoGood DEF Inside
    <2> QED
      BY <1>3, <1>4, <1>5, <2>2, <2>6
  <1>6. CASE r.tries < MaxTry /\ Reopen(t, "seek") /\ UNCHANGED <<buf, fds>>
    BY <1>1, <1>3, <1>4, <1>6, ReopenGood
  <1>7. CASE FetchFailed(t) /\ UNCHANGED fds
    BY <1>1, <1>3, <1>4, <1>7, FetchFailedGood
  <1> QED
    BY <1>5, <1>6, <1>7 DEF RetrySeek

\* A sector of a compressed image that is there
LEMMA DeliveredGood ==
  ASSUME BasicInv, NEW t \in Readers, Inside(t), req[t].op = "read", req[t].left >= 1,
         NEW right, Delivered(t, right)
  PROVE  ReadersInv'
  <1> DEFINE r == req[t]
             all == r.right /\ (right \/ r.lba \notin 0 .. Length[umdfile] - 1)
             q == [r EXCEPT !.lba = @ + 1, !.left = @ - 1, !.right = all]
  <1>1. r \in ReqRecord /\ r.lba + r.left <= MaxLength + 1 /\ r.left <= r.n
    BY InsideReads
  <1>2. all \in BOOLEAN
    BY Zenon
  <1> HIDE DEF all
  <1>3. CASE r.left > 1 /\ Go(t, "sector", q)
    <2>1. /\ q \in ReqRecord /\ q.op = r.op /\ q.lba = r.lba + 1 /\ q.left = r.left - 1 /\ q.n = r.n
          /\ q.use = r.use
      BY <1>1, <1>2, <1>3, DeliverReq
    <2>2. Go(t, "sector", q)
      BY <1>3
    <2> HIDE DEF q
    <2>3. r.left \in Int /\ r.lba \in Int /\ r.n \in Int /\ MaxLength \in Nat
      BY <1>1, LengthAssumption DEF ReqRecord
    <2>4. Good(t, "sector", q, discpointer)
      BY <1>1, <1>3, <2>1, <2>3, InsideReads DEF Good, Inside, Labels, Sectors, Opening
    <2> QED
      BY <2>2, <2>4, GoGood DEF Inside
  <1>4. CASE Return(t, Result(all), r.n)
    <2>1. Result(all) \in {"none", "failed", "right", "wrong"} /\ r.n \in Int
      BY <1>1 DEF Result, ReqRecord
    <2> QED
      BY <1>4, <2>1, ReturnGood, InsideReads
  <1> QED
    BY <1>3, <1>4 DEF Delivered, all

LEMMA UseGood ==
  ASSUME BasicInv, NEW t \in Readers, pc[t] = "read", Live(umdfd), Units(req[t]) >= 0,
         Use(t, Here)
  PROVE  /\ ReadersInv'
         /\ index' \in [cur : -1 .. MaxLength + 2, from : Origins]
         /\ buf' \in [pos : Addresses \cup {NoPos}, from : Origins]
  <1> DEFINE r == req[t]
  <1>1. Inside(t) /\ r.op = "read" /\ r \in ReqRecord /\ Here \in Origins
    BY InsideReads, StickTypes DEF Inside, BasicInv
  <1>2. /\ index \in [cur : -1 .. MaxLength + 2, from : Origins]
        /\ buf \in [pos : Addresses \cup {NoPos}, from : Origins]
    BY DEF BasicInv, TypeOK
  <1>3. CASE r.use = "iso"
    <2> DEFINE n == InFile(Here, Units(r)) \div 2
               result == Result(n = 0 \/ (Here = [file |-> umdfile, at |-> 2 * r.lba]
                                          /\ umdfile \notin Cso))
    <2>1. Return(t, result, n) /\ UNCHANGED cacheVars
      BY <1>3 DEF Use
    <2>2. result \in {"none", "failed", "right", "wrong"}
      BY DEF Result
    <2>3. InFile(Here, Units(r)) \in 0 .. 2 * r.left
      BY <1>3, UnitsType, StickTypes DEF BasicInv
    <2>4. n \in Int /\ n <= r.left
      BY <1>1, <2>3 DEF ReqRecord
    <2>5. n <= r.n
      BY <1>1, <2>4, InsideReads
    <2> HIDE DEF n, result
    <2>6. ReadersInv'
      BY <1>1, <2>1, <2>2, <2>4, <2>5, ReturnGood
    <2> QED
      BY <1>2, <2>1, <2>6 DEF cacheVars
  <1>4. CASE r.use \in {"index", "next"}
    <2>1. /\ index' = [cur |-> IF r.use = "index" THEN r.lba ELSE r.lba + 1, from |-> Here]
          /\ Go(t, IF r.use = "index" THEN "word" ELSE "block", r) /\ UNCHANGED buf
      BY <1>4 DEF Use
    <2>2. r.left >= 1 /\ r.lba \in -1 .. MaxLength
      BY <1>1, <1>4, InsideReads
    <2>3. Good(t, "word", r, discpointer) /\ Good(t, "block", r, discpointer)
      BY <1>1, <2>2, InsideReads DEF Good, Inside, Labels, Sectors, Opening
    <2>4. ReadersInv'
      BY <1>1, <2>1, <2>3, GoGood DEF Inside
    <2>5. (IF r.use = "index" THEN r.lba ELSE r.lba + 1) \in -1 .. MaxLength + 2
      BY <2>2, LengthAssumption
    <2> QED
      BY <1>1, <1>2, <2>1, <2>4, <2>5
  <1>5. CASE r.use = "stored"
    <2>1. Delivered(t, Here.file = umdfile /\ IsBlock(Here, r.lba, TRUE)) /\ UNCHANGED cacheVars
      BY <1>5 DEF Use
    <2>2. ReadersInv'
      BY <1>1, <1>5, <2>1, DeliveredGood, InsideReads
    <2> QED
      BY <1>2, <2>1, <2>2 DEF cacheVars
  <1>6. CASE r.use = "block"
    <2>1. buf' = [pos |-> r.dpos, from |-> Here] /\ Go(t, "block", r) /\ UNCHANGED index
      BY <1>6 DEF Use
    <2>2. Good(t, "block", r, discpointer)
      BY <1>1, <1>6, InsideReads DEF Good, Inside, Labels, Sectors, Opening
    <2>3. ReadersInv'
      BY <1>1, <2>1, <2>2, GoGood DEF Inside
    <2>4. r.dpos \in Addresses
      BY <1>1 DEF ReqRecord
    <2> QED
      BY <1>1, <1>2, <2>1, <2>3, <2>4
  <1>7. r.use \in {"iso", "index", "next", "stored", "block"}
    BY <1>1 DEF ReqRecord
  <1> QED
    BY <1>3, <1>4, <1>5, <1>6, <1>7

LEMMA RetryReadBasic == ASSUME BasicInv, NEW t \in Readers, RetryRead(t) PROVE BasicInv'
  <1> DEFINE r == req[t]
  <1>1. Inside(t) /\ pc[t] = "read" /\ r.op = "read" /\ r \in ReqRecord
    BY InsideReads DEF RetryRead, Inside
  <1>2. UNCHANGED <<discVars, umdfd, card, setting, steady>>
    BY DEF RetryRead
  <1>3. ASSUME ReadersInv', misled' \in BOOLEAN,
               fds' \in [Fds -> [file : Images \cup {NoImage}, pos : Addresses, dead : BOOLEAN]],
               index' \in [cur : -1 .. MaxLength + 2, from : Origins],
               buf' \in [pos : Addresses \cup {NoPos}, from : Origins]
        PROVE  BasicInv'
    BY <1>2, <1>3 DEF BasicInv, TypeOK, ReadersInv, discVars
  <1>4. /\ fds \in [Fds -> [file : Images \cup {NoImage}, pos : Addresses, dead : BOOLEAN]]
        /\ index \in [cur : -1 .. MaxLength + 2, from : Origins] /\ misled \in BOOLEAN
        /\ buf \in [pos : Addresses \cup {NoPos}, from : Origins]
    BY DEF BasicInv, TypeOK
  <1>5. CASE /\ Live(umdfd) /\ Units(r) >= 0 /\ fds' = MoveTo(Here.at + InFile(Here, Units(r)))
             /\ Use(t, Here) /\ misled' = (misled \/ r.tries > 0)
    <2>1. fds' \in [Fds -> [file : Images \cup {NoImage}, pos : Addresses, dead : BOOLEAN]]
      BY <1>5, UnitsType, StickTypes DEF BasicInv
    <2>2. misled' \in BOOLEAN
      BY <1>5, Zenon
    <2> QED
      BY <1>1, <1>3, <1>5, <2>1, <2>2, UseGood
  <1>6. CASE r.tries < MaxTry /\ Reopen(t, "read") /\ Spoiled(t) /\ UNCHANGED <<fds, misled>>
    <2>1. ReadersInv'
      BY <1>1, <1>6, ReopenGood
    <2>2. Torn \in Origins
      BY LengthAssumption DEF Torn, Origins, Addresses
    <2>3. /\ index' \in [cur : -1 .. MaxLength + 2, from : Origins]
          /\ buf' \in [pos : Addresses \cup {NoPos}, from : Origins]
      BY <1>4, <1>6, <2>2 DEF Spoiled, cacheVars
    <2> QED
      BY <1>3, <1>4, <1>6, <2>1, <2>3
  <1>7. CASE FetchFailed(t) /\ UNCHANGED <<index, fds, misled>>
    BY <1>1, <1>3, <1>4, <1>7, FetchFailedGood
  <1> QED
    BY <1>5, <1>6, <1>7 DEF RetryRead

LEMMA CisoGetIndexBasic == ASSUME BasicInv, NEW t \in Readers, CisoGetIndex(t) PROVE BasicInv'
  <1> DEFINE r == req[t]
             at == IF pc[t] = "sector" THEN r.lba ELSE r.lba + 1
             use == IF pc[t] = "sector" THEN "index" ELSE "next"
             l == IF pc[t] = "sector" THEN "word" ELSE "block"
  <1>1. Inside(t) /\ pc[t] \in Sectors /\ r.op = "read" /\ r \in ReqRecord
        /\ r.left >= 1 /\ r.lba \in -1 .. MaxLength
    BY InsideReads DEF CisoGetIndex, Inside, Sectors
  <1>2. Go(t, l, r) \/ Fetch(t, r, use, 1 + at)
    BY DEF CisoGetIndex
  <1>3. Good(t, l, r, discpointer)
    BY <1>1, InsideReads DEF Good, Inside, Labels, Sectors, Opening
  <1>4. 1 + at \in -2 .. 2 * MaxLength + 2
    BY <1>1, LengthAssumption
  <1>5. /\ use \in {"iso", "index", "next", "stored", "block"} /\ use # "iso"
        /\ l \notin {"idle", "lock"}
    OBVIOUS
  <1> HIDE DEF at, use, l
  <1>6. ReadersInv'
    BY <1>1, <1>2, <1>3, <1>4, <1>5, GoGood, FetchGood DEF Inside
  <1> QED
    BY <1>6 DEF CisoGetIndex, BasicInv, TypeOK, ReadersInv, discVars, cacheVars

LEMMA CisoReadOneBasic == ASSUME BasicInv, NEW t \in Readers, CisoReadOne(t) PROVE BasicInv'
  <1> DEFINE r == req[t]
             p == index.from.at + r.lba - index.cur
  <1>1. Inside(t) /\ pc[t] \in Sectors /\ r.op = "read" /\ r \in ReqRecord
        /\ r.left >= 1 /\ r.lba \in -1 .. MaxLength
    BY InsideReads DEF CisoReadOne, Inside, Sectors
  <1>2. PICK w \in Words(index.from.file, p) :
           IF w.stored THEN Fetch(t, r, "stored", w.dpos)
           ELSE Go(t, "next", [r EXCEPT !.dpos = w.dpos])
    BY DEF CisoReadOne
  <1>3. p \in Int
    BY <1>1 DEF BasicInv, TypeOK, Origins, Addresses
  <1> HIDE DEF p
  <1>4. w.dpos \in Addresses /\ w.stored \in BOOLEAN
    BY <1>3, WordsType
  <1>5. CASE w.stored
    <2>1. w.dpos \in -2 .. 2 * MaxLength + 2
      BY <1>4 DEF Addresses
    <2> QED
      BY <1>1, <1>2, <1>5, <2>1, FetchGood
         DEF CisoReadOne, BasicInv, TypeOK, ReadersInv, discVars, cacheVars
  <1>6. CASE ~w.stored
    <2> DEFINE q == [r EXCEPT !.dpos = w.dpos]
    <2>1. Go(t, "next", q)
      BY <1>2, <1>6
    <2>2. /\ q \in ReqRecord /\ q.op = r.op /\ q.lba = r.lba /\ q.left = r.left /\ q.n = r.n
          /\ q.use = r.use
      BY <1>1, <1>4, WordReq
    <2> HIDE DEF q
    <2>3. Good(t, "next", q, discpointer)
      BY <1>1, <2>2, InsideReads DEF Good, Inside, Labels, Sectors, Opening
    <2>4. ReadersInv'
      BY <1>1, <2>1, <2>3, GoGood DEF Inside
    <2> QED
      BY <2>4 DEF CisoReadOne, BasicInv, TypeOK, ReadersInv, discVars, cacheVars
  <1> QED
    BY <1>5, <1>6

LEMMA CisoInflateBasic == ASSUME BasicInv, NEW t \in Readers, CisoInflate(t) PROVE BasicInv'
  <1> DEFINE r == req[t]
             ofs == r.dpos - buf.pos
             o == IF ofs < BufSize THEN [buf.from EXCEPT !.at = @ + ofs] ELSE Torn
  <1>1. Inside(t) /\ pc[t] \in Sectors /\ r.op = "read" /\ r \in ReqRecord
        /\ r.left >= 1 /\ r.lba \in -1 .. MaxLength
    BY InsideReads DEF CisoInflate, Inside, Sectors
  <1>2. \/ Fetch(t, r, "block", r.dpos)
        \/ Delivered(t, o.file = umdfile /\ IsBlock(o, r.lba, FALSE))
        \/ Return(t, "failed", 0)
    BY DEF CisoInflate
  <1> HIDE DEF o
  <1>3. r.dpos \in -2 .. 2 * MaxLength + 2
    BY <1>1 DEF ReqRecord, Addresses
  <1> DEFINE right == o.file = umdfile /\ IsBlock(o, r.lba, FALSE)
  <1> HIDE DEF right
  <1>4. CASE Fetch(t, r, "block", r.dpos)
    BY <1>1, <1>3, <1>4, FetchGood
       DEF CisoInflate, BasicInv, TypeOK, ReadersInv, discVars, cacheVars
  <1>5. CASE Delivered(t, right)
    <2>1. ReadersInv'
      BY <1>1, <1>5, DeliveredGood
    <2> QED
      BY <2>1 DEF CisoInflate, BasicInv, TypeOK, ReadersInv, discVars, cacheVars
  <1>6. CASE Return(t, "failed", 0)
    <2>1. ReadersInv'
      BY <1>1, <1>6, ReturnGood
    <2> QED
      BY <2>1 DEF CisoInflate, BasicInv, TypeOK, ReadersInv, discVars, cacheVars
  <1> QED
    BY <1>2, <1>4, <1>5, <1>6 DEF right

LEMMA NextBasic == ASSUME BasicInv, [Next]_vars PROVE BasicInv'
  <1>1. ASSUME NEW t \in Readers, Call(t) \/ UmdCall(t) \/ UmdLseek(t) \/ Lock(t)
        PROVE  BasicInv'
    BY <1>1, CallBasic, UmdCallBasic, UmdLseekBasic, UmdOpenBasic, UmdReadBasic DEF Lock
  <1>2. ASSUME NEW t \in Readers, Step(t)
        PROVE  BasicInv'
    BY <1>2, StartBasic, ProbeBasic, OpenIsoCloseBasic, OpenIsoBasic, CisoOpenBasic,
       GetDiscSizeBasic, RetrySeekBasic, RetryReadBasic, CisoGetIndexBasic, CisoReadOneBasic,
       CisoInflateBasic DEF Step
  <1> QED
    BY <1>1, <1>2, StickBasic DEF Next

-----------------------------------------------------------------------------
(* What the reader knows, unless it was misled.  One reader at most is     *)
(* inside, and none while sctrlSESetUmdFile runs, so what holds of the     *)
(* image and of its buffers is said for the label of that one reader.      *)

Kind        == cso <=> umdfile \in Cso
BufAgrees   == buf.pos # NoPos => buf.from = [file |-> umdfile, at |-> buf.pos]
IndexAgrees == index.cur # NoIndex => index.from = [file |-> umdfile, at |-> 1 + index.cur]

\* The one descriptor that may be open is umdfd, and of the image that is set;
\* whatever a removal of the stick has left, a mounted image has been looked at,
\* and its buffers emptied, since it was last opened.
DiscInv(l) ==
    /\ \A f \in Fds : fds[f].file # NoImage =>
          f = umdfd /\ fds[f].file = umdfile /\ ~setting /\ l # "open"
    /\ mounted /\ ~setting => Kind
    /\ Live(umdfd) /\ l \notin {"header", "size"} => mounted
    /\ mounted /\ cso /\ ~setting /\ l # "close" => BufAgrees /\ IndexAgrees

\* in ReadUmdFileRetry
Fetching(t) == pc[t] \in {"seek", "read"} \/ (pc[t] \in Opening /\ req[t].back # "probe")
Sector(t)   == req[t].lba \in 0 .. Length[umdfile] - 1
BlockAt(t)  == Length[umdfile] + 2 + req[t].lba

ReaderInv(t) ==
    /\ pc[t] \in {"open", "header", "size"} => ~mounted
    /\ pc[t] = "size" => Kind /\ (cso => index.cur = NoIndex /\ buf.pos = NoPos)
    /\ pc[t] \in Sectors => mounted /\ cso
    /\ req[t].right
    /\ pc[t] = "word" /\ req[t].lba >= 0 => index.cur # NoIndex
    /\ pc[t] \in {"next", "block"} \/ (Fetching(t) /\ req[t].use \in {"next", "block"}) =>
          (Sector(t) => req[t].dpos = BlockAt(t) /\ req[t].lba \notin Stored)
    /\ Fetching(t) =>
          /\ req[t].use = "iso" <=> umdfile \notin Cso
          /\ req[t].use = "iso" => req[t].at = 2 * req[t].lba
          /\ req[t].use = "index" => req[t].at = 1 + req[t].lba
          /\ req[t].use = "next" => req[t].at = 2 + req[t].lba
          /\ req[t].use = "block" => req[t].at = req[t].dpos
          /\ req[t].use = "stored" /\ Sector(t) => req[t].at = BlockAt(t) /\ req[t].lba \in Stored
    /\ pc[t] = "read" /\ req[t].tries = 0 /\ Live(umdfd) => fds[umdfd].pos = req[t].at

Alone ==
    /\ \A t, u \in Readers : Inside(t) /\ Inside(u) => t = u
    /\ setting => \A t \in Readers : ~Inside(t)

SafeInv ==
    /\ Alone
    /\ \A t \in Readers : Inside(t) => DiscInv(pc[t]) /\ ReaderInv(t)
    /\ (\A t \in Readers : ~Inside(t)) => DiscInv("idle")
    /\ \A t \in Readers : res[t] # "wrong"

IInv == BasicInv /\ (~misled => SafeInv)

LEMMA InitSafe == ASSUME Init PROVE SafeInv
  <1>1. \A t \in Readers : ~Inside(t) /\ res[t] # "wrong"
    BY DEF Init, Inside
  <1>2. DiscInv("idle")
    BY FdsAssumption DEF Init, DiscInv, Live
  <1> QED
    BY <1>1, <1>2 DEF SafeInv, Alone

\* What the one reader may go by
LEMMA SafeReader ==
  ASSUME SafeInv, NEW t \in Readers, Inside(t)
  PROVE  /\ DiscInv(pc[t]) /\ ReaderInv(t) /\ ~setting
         /\ \A u \in Readers \ {t} : ~Inside(u)
         /\ \A u \in Readers : res[u] # "wrong"
  BY DEF SafeInv, Alone

\* Its step keeps what is known if the next label agrees
LEMMA SafeStep ==
  ASSUME SafeInv, NEW t \in Readers, Inside(t), UNCHANGED setting,
         \A u \in Readers \ {t} : pc'[u] = pc[u],
         \A u \in Readers : res'[u] # "wrong",
         Inside(t)' => DiscInv(pc[t])' /\ ReaderInv(t)',
         ~Inside(t)' => DiscInv("idle")'
  PROVE  SafeInv'
  <1>1. ~setting' /\ \A u \in Readers \ {t} : ~Inside(u)'
    BY SafeReader DEF Inside
  <1>2. Alone'
    BY <1>1 DEF Alone
  <1>3. \A u \in Readers : Inside(u)' => DiscInv(pc[u])' /\ ReaderInv(u)'
    BY <1>1
  <1> QED
    BY <1>2, <1>3 DEF SafeInv

\* A reader that enters is the only one, if that misleads nobody
LEMMA SafeEnter ==
  ASSUME SafeInv, NEW t \in Readers, ~Inside(t), ~Overlapped(t), UNCHANGED <<setting, res>>,
         \A u \in Readers \ {t} : pc'[u] = pc[u], pc'[t] \in {"start", "probe"},
         UNCHANGED <<discVars, umdfd, cacheVars, fds>>, req'[t].right
  PROVE  SafeInv'
  <1>1. ~setting /\ DiscInv("idle") /\ \A u \in Readers \ {t} : ~Inside(u) /\ ~Inside(u)'
    BY DEF Overlapped, SafeInv, Inside
  <1>2. Alone'
    BY <1>1 DEF Alone
  <1>3. Inside(t)'
    BY DEF Inside
  <1>4. DiscInv(pc[t])'
    BY <1>1 DEF DiscInv, Live, Kind, BufAgrees, IndexAgrees, discVars, cacheVars
  <1>5. ReaderInv(t)'
    BY DEF ReaderInv, Fetching, Opening, Sectors
  <1> QED
    BY <1>1, <1>2, <1>3, <1>4, <1>5 DEF SafeInv

-----------------------------------------------------------------------------
(* Every action keeps that, if it does not mislead.                        *)

LEMMA EnterSafe ==
  ASSUME BasicInv, SafeInv, NEW t \in Readers, Call(t) \/ Lock(t), ~misled'
  PROVE  SafeInv'
  <1>1. Good(t, pc[t], req[t], discpointer) /\ req[t] \in ReqRecord
    BY DEF BasicInv, ReadersInv
  <1>2. Enter(t)
    BY DEF Call, Lock, UmdOpen, UmdRead
  <1>3. ~Overlapped(t)
    BY <1>2, Zenon DEF Enter
  <1>4. ~Inside(t) /\ UNCHANGED <<setting, res, discVars, umdfd, cacheVars, fds>>
    BY DEF Call, Lock, UmdOpen, UmdRead, Inside, Go, Stay
  <1>5. \E l \in {"start", "probe"}, r \in ReqRecord : r.right /\ Goto(t, l, r)
    <2>1. CASE Call(t)
      <3>1. PICK lba \in 0 .. MaxLength - 1 : \E n \in 1 .. MaxLength :
               lba + n <= MaxLength /\ Go(t, "start", Read(lba, n))
        BY <2>1 DEF Call
      <3>2. PICK n \in 1 .. MaxLength : Go(t, "start", Read(lba, n))
        BY <3>1
      <3>3. Read(lba, n) \in ReqRecord /\ Read(lba, n).right
        <4>1. lba \in -1 .. MaxLength + 2 /\ n \in -MaxLength - 2 .. MaxLength + 2
          BY LengthAssumption
        <4> QED
          BY <4>1, ReadReq
      <3> QED
        BY <3>2, <3>3 DEF Go
    <2>2. CASE UmdOpen(t)
      BY <1>1, <2>2 DEF UmdOpen, Good
    <2>3. CASE UmdRead(t)
      <3> DEFINE n == req[t].n
                 m == IF discpointer + n > discsize THEN discsize - discpointer ELSE n
      <3>1. /\ discsize \in -1 .. MaxLength + 1 /\ discpointer \in -1 .. MaxLength + 1
            /\ MaxLength \in Nat /\ n \in 1 .. MaxLength
            /\ Goto(t, "start", Read(discpointer, m))
        BY <1>1, <2>3, LengthAssumption DEF UmdRead, Good, BasicInv, TypeOK
      <3>2. m \in -MaxLength - 2 .. MaxLength + 2 /\ discpointer \in -1 .. MaxLength + 2
        BY <3>1
      <3> HIDE DEF m
      <3>3. Read(discpointer, m) \in ReqRecord /\ Read(discpointer, m).right
        BY <3>2, ReadReq
      <3> QED
        BY <3>1, <3>3
    <2> QED
      BY <2>1, <2>2, <2>3 DEF Lock
  <1>6. PICK l \in {"start", "probe"}, r \in ReqRecord : r.right /\ Goto(t, l, r)
    BY <1>5
  <1>7. pc'[t] = l /\ req'[t].right /\ \A u \in Readers \ {t} : pc'[u] = pc[u]
    BY <1>6 DEF Goto, BasicInv, ReadersInv
  <1> QED
    BY <1>3, <1>4, <1>7, SafeEnter

\* What does not touch the readers, the image or the stick
LEMMA UmdCallSafe ==
  ASSUME BasicInv, SafeInv, NEW t \in Readers, UmdCall(t) \/ UmdLseek(t) \/ UNCHANGED vars
  PROVE  SafeInv'
  <1>1. UNCHANGED <<discVars, umdfd, cacheVars, fds, setting, res>>
    BY DEF UmdCall, UmdLseek, vars, Go, Stay
  <1>2. \A u \in Readers : (Inside(u)' <=> Inside(u)) /\ (Inside(u) => pc'[u] = pc[u] /\ req'[u] = req[u])
    <2>1. CASE UmdCall(t)
      <3>1. pc[t] = "idle" /\ \E r : Goto(t, "lock", r)
        BY <2>1 DEF UmdCall, Go
      <3>2. pc' = [pc EXCEPT ![t] = "lock"] /\ \A u \in Readers \ {t} : req'[u] = req[u]
        BY <3>1 DEF Goto, BasicInv, ReadersInv
      <3> QED
        BY <3>1, <3>2 DEF Inside, BasicInv, ReadersInv
    <2>2. CASE UNCHANGED <<pc, req>>
      BY <2>2 DEF Inside
    <2> QED
      BY <2>1, <2>2 DEF UmdLseek, vars
  <1>3. Alone'
    BY <1>1, <1>2 DEF Alone, SafeInv
  <1>4. DiscInv("idle") => DiscInv("idle")'
    BY <1>1 DEF DiscInv, Live, Kind, BufAgrees, IndexAgrees, discVars, cacheVars
  <1>5. ASSUME NEW u \in Readers, Inside(u)'
        PROVE  DiscInv(pc[u])' /\ ReaderInv(u)'
    <2>1. Inside(u) /\ pc'[u] = pc[u] /\ req'[u] = req[u] /\ DiscInv(pc[u]) /\ ReaderInv(u)
      BY <1>2, <1>5 DEF SafeInv
    <2>2. DiscInv(pc[u])'
      BY <1>1, <2>1 DEF DiscInv, Live, Kind, BufAgrees, IndexAgrees, discVars, cacheVars
    <2>3. ReaderInv(u)'
      BY <1>1, <2>1 DEF ReaderInv, Fetching, Sector, BlockAt, Live, Kind, discVars, cacheVars
    <2> QED
      BY <2>2, <2>3
  <1> QED
    BY <1>1, <1>2, <1>3, <1>4, <1>5 DEF SafeInv

\* sctrlSESetUmdFile, when no reader is inside, and the stick
LEMMA StickSafe ==
  ASSUME BasicInv, SafeInv, SetUmdFile \/ SetUmdFileEnd \/ Eject \/ Insert, ~misled'
  PROVE  SafeInv'
  <1>1. CASE SetUmdFile
    <2>1. \A t \in Readers : ~Inside(t)
      BY <1>1, Zenon DEF SetUmdFile
    <2>2. DiscInv("idle") /\ ~setting /\ fds' = Shut(umdfd)
      BY <1>1, <2>1 DEF SafeInv, SetUmdFile
    <2>3. \A f \in Fds : fds'[f].file = NoImage
      BY <2>2 DEF DiscInv, Shut, BasicInv, TypeOK
    <2>4. DiscInv("idle")'
      BY <1>1, <2>3 DEF DiscInv, Live, SetUmdFile
    <2>5. \A t \in Readers : ~Inside(t)'
      BY <1>1, <2>1 DEF Inside, SetUmdFile
    <2> QED
      BY <1>1, <2>4, <2>5 DEF SafeInv, Alone, SetUmdFile
  <1>2. CASE SetUmdFileEnd
    <2>1. \A t \in Readers : ~Inside(t)
      BY <1>2 DEF SafeInv, Alone, SetUmdFileEnd
    <2>2. DiscInv("idle") /\ setting
      BY <1>2, <2>1 DEF SafeInv, SetUmdFileEnd
    <2>3. DiscInv("idle")'
      BY <1>2, <2>2, FdsAssumption DEF DiscInv, Live, SetUmdFileEnd
    <2>4. \A t \in Readers : ~Inside(t)'
      BY <1>2, <2>1 DEF Inside, SetUmdFileEnd
    <2> QED
      BY <1>2, <2>3, <2>4 DEF SafeInv, Alone, SetUmdFileEnd
  <1>3. CASE Eject \/ Insert
    <2>1. UNCHANGED <<discVars, umdfd, cacheVars, pc, req, res, setting>>
      BY <1>3 DEF Eject, Insert
    <2>2. \A f \in Fds : /\ fds'[f].file = fds[f].file /\ fds'[f].pos = fds[f].pos
                         /\ (~fds'[f].dead => fds'[f].file = NoImage \/ ~fds[f].dead)
      BY <1>3 DEF Eject, Insert, BasicInv, TypeOK
    <2>3. Live(umdfd)' => Live(umdfd)
      BY <2>1, <2>2 DEF Live
    <2>4. \A t \in Readers : Inside(t)' <=> Inside(t)
      BY <2>1 DEF Inside
    <2>5. ASSUME NEW l, DiscInv(l)
          PROVE  /\ \A f \in Fds : fds'[f].file # NoImage =>
                       f = umdfd' /\ fds'[f].file = umdfile' /\ ~setting' /\ l # "open"
                 /\ mounted' /\ ~setting' => Kind'
                 /\ Live(umdfd)' /\ l \notin {"header", "size"} => mounted'
                 /\ mounted' /\ cso' /\ ~setting' /\ l # "close" => BufAgrees' /\ IndexAgrees'
      BY <2>1, <2>2, <2>3, <2>5 DEF DiscInv, Kind, BufAgrees, IndexAgrees, discVars, cacheVars
    <2>6. DiscInv("idle") => DiscInv("idle")'
      BY <2>5 DEF DiscInv
    <2>7. ASSUME NEW t \in Readers, Inside(t)
          PROVE  DiscInv(pc[t])' /\ ReaderInv(t)'
      <3>1. DiscInv(pc[t]) /\ ReaderInv(t) /\ pc'[t] = pc[t] /\ req'[t] = req[t]
        BY <2>1, <2>7 DEF SafeInv
      <3>2. DiscInv(pc[t])'
        BY <2>5, <3>1 DEF DiscInv
      <3>3. umdfd \in Fds => fds'[umdfd].pos = fds[umdfd].pos
        BY <2>2
      <3>4. ReaderInv(t)'
        BY <2>1, <2>3, <3>1, <3>3
           DEF ReaderInv, Fetching, Sector, BlockAt, Kind, Live, discVars, cacheVars
      <3> QED
        BY <3>2, <3>4
    <2> QED
      BY <2>1, <2>4, <2>6, <2>7 DEF SafeInv, Alone
  <1> QED
    BY <1>1, <1>2, <1>3

-----------------------------------------------------------------------------
LEMMA GoFacts ==
  ASSUME BasicInv, SafeInv, NEW t \in Readers, NEW l, NEW r, Go(t, l, r)
  PROVE  /\ pc'[t] = l /\ req'[t] = r /\ \A u \in Readers \ {t} : pc'[u] = pc[u]
         /\ \A u \in Readers : res'[u] # "wrong"
  BY DEF Go, Goto, Stay, BasicInv, ReadersInv, SafeInv

LEMMA LeaveFacts ==
  ASSUME BasicInv, SafeInv, NEW t \in Readers, Goto(t, "idle", NoReq), res' = res
  PROVE  /\ pc'[t] = "idle" /\ ~Inside(t)' /\ \A u \in Readers \ {t} : pc'[u] = pc[u]
         /\ \A u \in Readers : res'[u] # "wrong"
  BY DEF Goto, Inside, BasicInv, ReadersInv, SafeInv

LEMMA ReturnFacts ==
  ASSUME BasicInv, SafeInv, NEW t \in Readers, NEW result, result # "wrong", NEW count,
         Return(t, result, count)
  PROVE  /\ pc'[t] = "idle" /\ ~Inside(t)' /\ \A u \in Readers \ {t} : pc'[u] = pc[u]
         /\ \A u \in Readers : res'[u] # "wrong"
  <1>1. pc' = [pc EXCEPT ![t] = "idle"] /\ res' = [res EXCEPT ![t] = result]
    BY DEF Return, Goto
  <1>2. pc'[t] = "idle" /\ \A u \in Readers \ {t} : pc'[u] = pc[u]
    BY <1>1 DEF BasicInv, ReadersInv
  <1>3. \A u \in Readers : res'[u] # "wrong"
    BY <1>1 DEF BasicInv, ReadersInv, SafeInv
  <1> QED
    BY <1>2, <1>3 DEF Inside

\* As long as the image and its buffers stay, and no descriptor is opened, what
\* is known at one label is known at the next
LEMMA SameDisc ==
  ASSUME NEW l, NEW m, DiscInv(l), m # "open", l \notin {"header", "size", "close"},
         UNCHANGED <<discVars, umdfd, cacheVars, setting>>,
         \A f \in Fds : fds'[f].file = fds[f].file /\ fds'[f].dead = fds[f].dead
  PROVE  /\ \A f \in Fds : fds'[f].file # NoImage =>
               f = umdfd' /\ fds'[f].file = umdfile' /\ ~setting' /\ m # "open"
         /\ mounted' /\ ~setting' => Kind'
         /\ Live(umdfd)' /\ m \notin {"header", "size"} => mounted'
         /\ mounted' /\ cso' /\ ~setting' /\ m # "close" => BufAgrees' /\ IndexAgrees'
  BY DEF DiscInv, Live, Kind, BufAgrees, IndexAgrees, discVars, cacheVars

\* ReadUmdFileRetry is called with the address of what is wanted
LEMMA FetchSafe ==
  ASSUME BasicInv, SafeInv, NEW t \in Readers, Inside(t), pc[t] \notin Opening,
         NEW use \in {"iso", "index", "next", "stored", "block"},
         NEW at \in -2 .. 2 * MaxLength + 2, Fetch(t, req[t], use, at),
         UNCHANGED <<discVars, umdfd, cacheVars, setting, fds>>,
         use = "iso" <=> umdfile \notin Cso,
         use = "iso" => at = 2 * req[t].lba,
         use = "index" => at = 1 + req[t].lba,
         use = "next" => at = 2 + req[t].lba,
         use = "block" => at = req[t].dpos,
         use = "stored" /\ Sector(t) => at = BlockAt(t) /\ req[t].lba \in Stored,
         use \in {"next", "block"} /\ Sector(t) => req[t].dpos = BlockAt(t) /\ req[t].lba \notin Stored
  PROVE  SafeInv'
  <1> DEFINE q == [req[t] EXCEPT !.use = use, !.at = at, !.tries = 0]
  <1>1. Go(t, "seek", q)
    BY DEF Fetch
  <1>2. req[t] \in ReqRecord /\ DiscInv(pc[t]) /\ ReaderInv(t)
    BY InsideReads, SafeReader
  <1>3. /\ q.lba = req[t].lba /\ q.use = use /\ q.at = at /\ q.dpos = req[t].dpos
        /\ q.right = req[t].right
    BY <1>2 DEF ReqRecord
  <1> HIDE DEF q
  <1>4. /\ pc'[t] = "seek" /\ req'[t] = q /\ \A u \in Readers \ {t} : pc'[u] = pc[u]
        /\ \A u \in Readers : res'[u] # "wrong"
    BY <1>1, GoFacts
  <1>5. DiscInv(pc[t])'
    BY <1>2, <1>4, SameDisc DEF DiscInv, Opening
  <1>6. ReaderInv(t)'
    BY <1>2, <1>3, <1>4 DEF ReaderInv, Fetching, Sector, BlockAt, Opening, Sectors, discVars
  <1>7. Inside(t)'
    BY <1>4 DEF Inside
  <1> QED
    BY <1>4, <1>5, <1>6, <1>7, SafeStep

\* The image is opened again
LEMMA ReopenSafe ==
  ASSUME BasicInv, SafeInv, NEW t \in Readers, Inside(t), pc[t] \notin Opening,
         NEW back \in {"probe", "seek", "read"}, Reopen(t, back),
         back # "probe" => Fetching(t),
         UNCHANGED <<discVars, umdfd, setting, fds>>
  PROVE  SafeInv'
  <1> DEFINE q == [req[t] EXCEPT !.back = back, !.tries = @ + 1]
  <1>1. Go(t, "close", q)
    BY DEF Reopen
  <1>2. req[t] \in ReqRecord /\ DiscInv(pc[t]) /\ ReaderInv(t)
    BY InsideReads, SafeReader
  <1>3. /\ q.lba = req[t].lba /\ q.use = req[t].use /\ q.at = req[t].at /\ q.dpos = req[t].dpos
        /\ q.right = req[t].right /\ q.back = back
    BY <1>2 DEF ReqRecord
  <1> HIDE DEF q
  <1>4. /\ pc'[t] = "close" /\ req'[t] = q /\ \A u \in Readers \ {t} : pc'[u] = pc[u]
        /\ \A u \in Readers : res'[u] # "wrong"
    BY <1>1, GoFacts
  <1>5. DiscInv(pc[t])'
    BY <1>2, <1>4 DEF DiscInv, Opening, Live, Kind, discVars
  <1>6. ReaderInv(t)'
    BY <1>2, <1>3, <1>4 DEF ReaderInv, Fetching, Sector, BlockAt, Opening, Sectors, discVars
  <1>7. Inside(t)'
    BY <1>4 DEF Inside
  <1> QED
    BY <1>4, <1>5, <1>6, <1>7, SafeStep

\* A request ends, with what was known still known
LEMMA LeaveSafe ==
  ASSUME BasicInv, SafeInv, NEW t \in Readers, Inside(t), pc[t] \notin Opening,
         UNCHANGED <<discVars, umdfd, cacheVars, setting>>,
         \A f \in Fds : fds'[f].file = fds[f].file /\ fds'[f].dead = fds[f].dead,
         ~Inside(t)', \A u \in Readers \ {t} : pc'[u] = pc[u],
         \A u \in Readers : res'[u] # "wrong"
  PROVE  SafeInv'
  <1>1. DiscInv(pc[t]) /\ pc[t] \notin {"header", "size", "close"}
    BY SafeReader DEF Opening
  <1>2. DiscInv("idle")'
    BY <1>1 DEF DiscInv, Live, Kind, BufAgrees, IndexAgrees, discVars, cacheVars
  <1> QED
    BY <1>2, SafeStep

LEMMA ReadSectorsSafe ==
  ASSUME BasicInv, SafeInv, NEW t \in Readers, pc[t] \in {"start", "probe"}, req[t].op = "read",
         mounted, ReadSectors(t, req[t]),
         UNCHANGED <<discVars, umdfd, cacheVars, setting, fds>>
  PROVE  SafeInv'
  <1> DEFINE r == req[t]
  <1>1. Inside(t) /\ pc[t] \notin Opening /\ r \in ReqRecord
    BY InsideReads DEF Inside, Opening
  <1>2. DiscInv(pc[t]) /\ ReaderInv(t) /\ ~setting /\ Kind
    BY <1>1, SafeReader DEF DiscInv
  <1>3. CASE ~cso /\ Fetch(t, r, "iso", 2 * r.lba)
    <2>1. 2 * r.lba \in -2 .. 2 * MaxLength + 2
      BY <1>1, InsideReads
    <2> QED
      BY <1>1, <1>2, <1>3, <2>1, FetchSafe DEF Kind
  <1>4. CASE cso /\ Go(t, "sector", r)
    <2>1. /\ pc'[t] = "sector" /\ req'[t] = r /\ \A u \in Readers \ {t} : pc'[u] = pc[u]
          /\ \A u \in Readers : res'[u] # "wrong"
      BY <1>4, GoFacts
    <2>2. DiscInv(pc[t])'
      BY <1>2, <2>1 DEF DiscInv, Live, Kind, BufAgrees, IndexAgrees, discVars, cacheVars
    <2>3. ReaderInv(t)'
      BY <1>2, <1>4, <2>1 DEF ReaderInv, Fetching, Opening, discVars
    <2>4. Inside(t)'
      BY <2>1 DEF Inside
    <2> QED
      BY <1>1, <2>1, <2>2, <2>3, <2>4, SafeStep
  <1>5. CASE Return(t, IF r.left = 0 THEN "right" ELSE "failed", 0)
    <2> DEFINE result == IF r.left = 0 THEN "right" ELSE "failed"
    <2>1. result # "wrong" /\ Return(t, result, 0)
      BY <1>5
    <2> HIDE DEF result
    <2>2. /\ ~Inside(t)' /\ \A u \in Readers \ {t} : pc'[u] = pc[u]
          /\ \A u \in Readers : res'[u] # "wrong"
      BY <2>1, ReturnFacts
    <2> QED
      BY <1>1, <2>2, LeaveSafe
  <1> QED
    BY <1>3, <1>4, <1>5 DEF ReadSectors

LEMMA StartSafe ==
  ASSUME BasicInv, SafeInv, NEW t \in Readers, Start(t) PROVE SafeInv'
  <1>1. /\ Inside(t) /\ pc[t] = "start" /\ req[t].op = "read"
        /\ UNCHANGED <<discVars, umdfd, cacheVars, setting, fds>>
    BY InsideReads DEF Start, Inside
  <1>2. CASE mounted /\ ReadSectors(t, req[t])
    BY <1>1, <1>2, ReadSectorsSafe
  <1>3. CASE Go(t, "probe", req[t])
    <2>1. DiscInv(pc[t]) /\ ReaderInv(t)
      BY <1>1, SafeReader
    <2>2. /\ pc'[t] = "probe" /\ req'[t] = req[t] /\ \A u \in Readers \ {t} : pc'[u] = pc[u]
          /\ \A u \in Readers : res'[u] # "wrong"
      BY <1>3, GoFacts
    <2>3. DiscInv(pc[t])'
      BY <1>1, <2>1, <2>2 DEF DiscInv, Live, Kind, BufAgrees, IndexAgrees, discVars, cacheVars
    <2>4. ReaderInv(t)'
      BY <1>1, <2>1, <2>2 DEF ReaderInv, Fetching, Opening, Sectors
    <2>5. Inside(t)'
      BY <2>2 DEF Inside
    <2> QED
      BY <1>1, <2>2, <2>3, <2>4, <2>5, SafeStep
  <1> QED
    BY <1>2, <1>3 DEF Start

LEMMA ProbeSafe ==
  ASSUME BasicInv, SafeInv, NEW t \in Readers, Probe(t) PROVE SafeInv'
  <1> DEFINE r == req[t]
  <1>1. /\ Inside(t) /\ pc[t] = "probe" /\ pc[t] \notin Opening
        /\ UNCHANGED <<discVars, umdfd, cacheVars, setting>>
    BY DEF Probe, Inside, Opening
  <1>2. CASE Reopen(t, "probe") /\ UNCHANGED fds
    BY <1>1, <1>2, ReopenSafe
  <1>3. CASE fds' = MoveTo(0) /\ Goto(t, "idle", NoReq) /\ UNCHANGED res
    <2>1. \A f \in Fds : fds'[f].file = fds[f].file /\ fds'[f].dead = fds[f].dead
      BY <1>3 DEF MoveTo, BasicInv, TypeOK
    <2> QED
      BY <1>1, <1>3, <2>1, LeaveFacts, LeaveSafe
  <1>4. CASE Goto(t, "idle", NoReq) /\ UNCHANGED <<res, fds>>
    BY <1>1, <1>4, LeaveFacts, LeaveSafe
  <1>5. CASE /\ r.op = "read" /\ UNCHANGED fds
             /\ IF mounted THEN ReadSectors(t, r) ELSE Return(t, "failed", 0)
    <2>1. CASE mounted /\ ReadSectors(t, r)
      BY <1>1, <1>5, <2>1, ReadSectorsSafe
    <2>2. CASE Return(t, "failed", 0)
      <3>1. /\ ~Inside(t)' /\ \A u \in Readers \ {t} : pc'[u] = pc[u]
            /\ \A u \in Readers : res'[u] # "wrong"
        BY <2>2, ReturnFacts
      <3> QED
        BY <1>1, <1>5, <3>1, LeaveSafe
    <2> QED
      BY <1>5, <2>1, <2>2
  <1> QED
    BY <1>2, <1>3, <1>4, <1>5 DEF Probe

\* OpenIso closes what may be open, and then no descriptor is
LEMMA OpenIsoCloseSafe ==
  ASSUME BasicInv, SafeInv, NEW t \in Readers, OpenIsoClose(t) PROVE SafeInv'
  <1>1. /\ Inside(t) /\ pc[t] = "close" /\ ~mounted' /\ fds' = Shut(umdfd)
        /\ UNCHANGED <<umdfile, cso, umdfd, setting>> /\ Go(t, "open", req[t])
    BY Zenon DEF OpenIsoClose, Inside
  <1>2. DiscInv(pc[t]) /\ ReaderInv(t)
    BY <1>1, SafeReader
  <1>3. /\ pc'[t] = "open" /\ req'[t] = req[t] /\ \A u \in Readers \ {t} : pc'[u] = pc[u]
        /\ \A u \in Readers : res'[u] # "wrong"
    BY <1>1, GoFacts
  <1>4. \A f \in Fds : fds'[f].file = NoImage
    BY <1>1, <1>2 DEF DiscInv, Shut, BasicInv, TypeOK
  <1>5. DiscInv(pc[t])'
    BY <1>1, <1>4 DEF DiscInv, Live
  <1>6. ReaderInv(t)'
    BY <1>1, <1>2, <1>3 DEF ReaderInv, Fetching, Sector, BlockAt, Opening, Sectors
  <1>7. Inside(t)'
    BY <1>3 DEF Inside
  <1> QED
    BY <1>1, <1>3, <1>5, <1>6, <1>7, SafeStep

LEMMA OpenIsoSafe ==
  ASSUME BasicInv, SafeInv, NEW t \in Readers, OpenIso(t) PROVE SafeInv'
  <1>1. /\ Inside(t) /\ pc[t] = "open"
        /\ UNCHANGED <<discVars, cacheVars, setting>>
    BY DEF OpenIso, Inside
  <1>2. /\ DiscInv(pc[t]) /\ ReaderInv(t) /\ ~mounted /\ ~setting
        /\ req[t].back \in {"probe", "seek", "read"}
    BY <1>1, SafeReader, InsideReads DEF ReaderInv, ReqRecord
  <1>3. \A f \in Fds : fds[f].file = NoImage
    BY <1>1, <1>2 DEF DiscInv
  <1>4. ASSUME NEW f \in Fds,
               fds' = [fds EXCEPT ![f] = [file |-> umdfile, pos |-> 0, dead |-> FALSE]],
               umdfd' = f, Go(t, "header", req[t])
        PROVE  SafeInv'
    <2>1. /\ pc'[t] = "header" /\ req'[t] = req[t] /\ \A u \in Readers \ {t} : pc'[u] = pc[u]
          /\ \A u \in Readers : res'[u] # "wrong"
      BY <1>4, GoFacts
    <2>2. DiscInv(pc[t])'
      BY <1>1, <1>2, <1>3, <1>4, <2>1 DEF DiscInv, discVars, BasicInv, TypeOK
    <2>3. ReaderInv(t)'
      BY <1>1, <1>2, <2>1 DEF ReaderInv, Fetching, Sector, BlockAt, Opening, Sectors, discVars
    <2>4. Inside(t)'
      BY <2>1 DEF Inside
    <2> QED
      BY <1>1, <2>1, <2>2, <2>3, <2>4, SafeStep
  <1>5. CASE umdfd' = NoFd /\ UNCHANGED fds /\ Go(t, req[t].back, req[t])
    <2>1. /\ pc'[t] = req[t].back /\ req'[t] = req[t] /\ \A u \in Readers \ {t} : pc'[u] = pc[u]
          /\ \A u \in Readers : res'[u] # "wrong"
      BY <1>5, GoFacts
    <2>2. DiscInv(pc[t])'
      BY <1>1, <1>2, <1>3, <1>5, <2>1, FdsAssumption DEF DiscInv, Live, discVars
    <2>3. ~Live(umdfd)'
      BY <1>5, FdsAssumption DEF Live
    <2>4. ReaderInv(t)'
      BY <1>1, <1>2, <2>1, <2>3 DEF ReaderInv, Fetching, Sector, BlockAt, Opening, Sectors, discVars
    <2>5. Inside(t)'
      BY <1>2, <2>1 DEF Inside
    <2> QED
      BY <1>1, <2>1, <2>2, <2>4, <2>5, SafeStep
  <1> QED
    BY <1>4, <1>5 DEF OpenIso

\* CisoOpen finds out the kind of the image, and empties its buffers
LEMMA CisoOpenSafe ==
  ASSUME BasicInv, SafeInv, NEW t \in Readers, CisoOpen(t), ~misled' PROVE SafeInv'
  <1>1. /\ Inside(t) /\ pc[t] = "header" /\ UNCHANGED <<umdfile, mounted, umdfd, setting>>
        /\ Go(t, "size", req[t]) /\ buf' = [buf EXCEPT !.pos = NoPos]
    BY DEF CisoOpen, Inside
  <1>2. DiscInv(pc[t]) /\ ReaderInv(t) /\ ~mounted
    BY <1>1, SafeReader DEF ReaderInv
  <1>3. /\ pc'[t] = "size" /\ req'[t] = req[t] /\ \A u \in Readers \ {t} : pc'[u] = pc[u]
        /\ \A u \in Readers : res'[u] # "wrong"
    BY <1>1, GoFacts
  <1>4. buf'.pos = NoPos
    BY <1>1 DEF BasicInv, TypeOK
  <1>5. Kind' /\ (cso' => index'.cur = NoIndex)
    <2>1. CASE /\ Live(umdfd) /\ cso' = (fds[umdfd].file \in Cso)
               /\ index' = IF cso' THEN [index EXCEPT !.cur = NoIndex] ELSE index
      <3>1. fds[umdfd].file = umdfile'
        BY <1>1, <1>2, <2>1 DEF Live, DiscInv
      <3>2. Kind'
        BY <2>1, <3>1, Zenon DEF Kind
      <3>3. cso' => index' = [index EXCEPT !.cur = NoIndex]
        BY <2>1
      <3> QED
        BY <3>2, <3>3 DEF BasicInv, TypeOK
    <2>2. CASE cso' = FALSE /\ misled' = (misled \/ umdfile \in Cso)
      <3>1. ~cso' /\ umdfile \notin Cso
        BY <2>2, Zenon
      <3> QED
        BY <1>1, <3>1 DEF Kind
    <2> QED
      BY <2>1, <2>2 DEF CisoOpen
  <1>6. \A f \in Fds : fds'[f].file = fds[f].file
    BY DEF CisoOpen, MoveTo, BasicInv, TypeOK
  <1>7. DiscInv(pc[t])'
    BY <1>1, <1>2, <1>3, <1>6 DEF DiscInv
  <1>8. ReaderInv(t)'
    BY <1>1, <1>2, <1>3, <1>4, <1>5
       DEF ReaderInv, Fetching, Sector, BlockAt, Opening, Sectors
  <1>9. Inside(t)'
    BY <1>3 DEF Inside
  <1> QED
    BY <1>1, <1>3, <1>7, <1>8, <1>9, SafeStep

LEMMA GetDiscSizeSafe ==
  ASSUME BasicInv, SafeInv, NEW t \in Readers, GetDiscSize(t) PROVE SafeInv'
  <1>1. /\ Inside(t) /\ pc[t] = "size" /\ UNCHANGED <<umdfile, cso, umdfd, setting, fds, cacheVars>>
        /\ Go(t, req[t].back, req[t]) /\ mounted'
    BY Zenon DEF GetDiscSize, Inside
  <1>2. /\ DiscInv(pc[t]) /\ ReaderInv(t) /\ Kind
        /\ cso => index.cur = NoIndex /\ buf.pos = NoPos
    BY <1>1, SafeReader DEF ReaderInv
  <1>3. /\ pc'[t] = req[t].back /\ req'[t] = req[t] /\ \A u \in Readers \ {t} : pc'[u] = pc[u]
        /\ \A u \in Readers : res'[u] # "wrong"
    BY <1>1, GoFacts
  <1>4. /\ req[t].back \in {"probe", "seek", "read"} /\ req[t].tries >= 1 /\ req[t].tries \in Int
    <2>1. Good(t, pc[t], req[t], discpointer) /\ req[t] \in ReqRecord
      BY <1>1, InsideReads
    <2> QED
      BY <1>1, <2>1 DEF Good, Opening, ReqRecord
  <1>5. DiscInv(pc[t])'
    BY <1>1, <1>2, <1>3, <1>4 DEF DiscInv, Kind, BufAgrees, IndexAgrees, cacheVars
  <1>6. ReaderInv(t)'
    BY <1>1, <1>2, <1>3, <1>4 DEF ReaderInv, Fetching, Sector, BlockAt, Opening, Sectors
  <1>7. Inside(t)'
    BY <1>3, <1>4 DEF Inside
  <1> QED
    BY <1>1, <1>3, <1>5, <1>6, <1>7, SafeStep

\* What ciso_read_one has to forget when it has been refused a block
LEMMA FetchFailedSafe ==
  ASSUME BasicInv, SafeInv, NEW t \in Readers, pc[t] \in {"seek", "read"}, FetchFailed(t),
         UNCHANGED <<discVars, umdfd, index, setting, fds>>
  PROVE  SafeInv'
  <1>1. Inside(t)
    BY DEF Inside
  <1>2. DiscInv(pc[t]) /\ ReaderInv(t)
    BY <1>1, SafeReader
  <1>3. buf' = buf \/ buf'.pos = NoPos
    BY DEF FetchFailed, BasicInv, TypeOK
  <1>4. /\ ~Inside(t)' /\ \A u \in Readers \ {t} : pc'[u] = pc[u]
        /\ \A u \in Readers : res'[u] # "wrong"
    BY ReturnFacts DEF FetchFailed
  <1>5. DiscInv("idle")'
    BY <1>2, <1>3 DEF DiscInv, Live, Kind, BufAgrees, IndexAgrees, discVars
  <1> QED
    BY <1>1, <1>4, <1>5, SafeStep

LEMMA RetrySeekSafe ==
  ASSUME BasicInv, SafeInv, NEW t \in Readers, RetrySeek(t) PROVE SafeInv'
  <1> DEFINE r == req[t]
  <1>1. /\ Inside(t) /\ pc[t] = "seek" /\ pc[t] \notin Opening /\ r \in ReqRecord
        /\ UNCHANGED <<discVars, umdfd, index, setting>>
    BY InsideReads DEF RetrySeek, Inside, Opening
  <1>2. DiscInv(pc[t]) /\ ReaderInv(t) /\ Fetching(t)
    BY <1>1, SafeReader DEF Fetching
  <1>3. CASE /\ Live(umdfd) /\ fds' = MoveTo(r.at) /\ Go(t, "read", [r EXCEPT !.tries = 0])
             /\ UNCHANGED buf
    <2> DEFINE q == [r EXCEPT !.tries = 0]
    <2>1. /\ q.lba = r.lba /\ q.use = r.use /\ q.at = r.at /\ q.dpos = r.dpos
          /\ q.right = r.right
      BY <1>1 DEF ReqRecord
    <2> HIDE DEF q
    <2>2. Go(t, "read", q)
      BY <1>3 DEF q
    <2>3. /\ pc'[t] = "read" /\ req'[t] = q /\ \A u \in Readers \ {t} : pc'[u] = pc[u]
          /\ \A u \in Readers : res'[u] # "wrong"
      BY <2>2, GoFacts
    <2>4. /\ \A f \in Fds : fds'[f].file = fds[f].file /\ fds'[f].dead = fds[f].dead
          /\ fds'[umdfd].pos = r.at
      BY <1>3 DEF MoveTo, Live, BasicInv, TypeOK
    <2>5. DiscInv(pc[t])'
      BY <1>1, <1>2, <1>3, <2>3, <2>4 DEF DiscInv, Live, Kind, BufAgrees, IndexAgrees, discVars
    <2>6. ReaderInv(t)'
      BY <1>1, <1>2, <2>1, <2>3, <2>4
         DEF ReaderInv, Fetching, Sector, BlockAt, Opening, Sectors, discVars
    <2>7. Inside(t)'
      BY <2>3 DEF Inside
    <2> QED
      BY <1>1, <2>3, <2>5, <2>6, <2>7, SafeStep
  <1>4. CASE Reopen(t, "seek") /\ UNCHANGED <<buf, fds>>
    BY <1>1, <1>2, <1>4, ReopenSafe
  <1>5. CASE FetchFailed(t) /\ UNCHANGED fds
    BY <1>1, <1>5, FetchFailedSafe
  <1> QED
    BY <1>3, <1>4, <1>5 DEF RetrySeek

-----------------------------------------------------------------------------
(* A sector that is delivered is the one that was asked for.               *)

LEMMA DeliveredSafe ==
  ASSUME BasicInv, SafeInv, NEW t \in Readers, Inside(t), pc[t] \notin Opening,
         req[t].op = "read", req[t].left >= 1, mounted, cso,
         NEW right, Sector(t) => right, Delivered(t, right),
         UNCHANGED <<discVars, umdfd, cacheVars, setting>>,
         \A f \in Fds : fds'[f].file = fds[f].file /\ fds'[f].dead = fds[f].dead
  PROVE  SafeInv'
  <1> DEFINE r == req[t]
             all == r.right /\ (right \/ r.lba \notin 0 .. Length[umdfile] - 1)
             q == [r EXCEPT !.lba = @ + 1, !.left = @ - 1, !.right = all]
  <1>1. r \in ReqRecord /\ r.lba + r.left <= MaxLength + 1
    BY InsideReads
  <1>2. DiscInv(pc[t]) /\ ReaderInv(t) /\ pc[t] \notin {"header", "size", "close"}
    BY SafeReader DEF Opening
  <1>3. all
    BY <1>2 DEF ReaderInv, Sector
  <1> HIDE DEF all
  <1>4. CASE r.left > 1 /\ Go(t, "sector", q)
    <2>1. q.right
      BY <1>1, <1>3 DEF ReqRecord
    <2> HIDE DEF q
    <2>2. /\ pc'[t] = "sector" /\ req'[t] = q /\ \A u \in Readers \ {t} : pc'[u] = pc[u]
          /\ \A u \in Readers : res'[u] # "wrong"
      BY <1>4, GoFacts
    <2>3. DiscInv(pc[t])'
      BY <1>2, <2>2 DEF DiscInv, Live, Kind, BufAgrees, IndexAgrees, discVars, cacheVars
    <2>4. ReaderInv(t)'
      BY <2>1, <2>2 DEF ReaderInv, Fetching, Opening, Sectors, discVars
    <2>5. Inside(t)'
      BY <2>2 DEF Inside
    <2> QED
      BY <2>2, <2>3, <2>4, <2>5, SafeStep
  <1>5. CASE Return(t, Result(all), r.n)
    <2> DEFINE result == Result(all)
    <2>1. result # "wrong"
      BY <1>3 DEF Result
    <2> HIDE DEF result
    <2>2. Return(t, result, r.n)
      BY <1>5 DEF result
    <2>3. /\ ~Inside(t)' /\ \A u \in Readers \ {t} : pc'[u] = pc[u]
          /\ \A u \in Readers : res'[u] # "wrong"
      BY <2>1, <2>2, ReturnFacts
    <2> QED
      BY <2>3, LeaveSafe
  <1> QED
    BY <1>4, <1>5 DEF Delivered, all

\* What ReadUmdFileRetry has read is where its caller believes it is
LEMMA UseSafe ==
  ASSUME BasicInv, SafeInv, NEW t \in Readers, pc[t] = "read", req[t].tries = 0, Live(umdfd),
         Use(t, Here), UNCHANGED <<discVars, umdfd, setting>>,
         \A f \in Fds : fds'[f].file = fds[f].file /\ fds'[f].dead = fds[f].dead
  PROVE  SafeInv'
  <1> DEFINE r == req[t]
  <1>1. Inside(t) /\ pc[t] \notin Opening /\ r.op = "read" /\ r \in ReqRecord
    BY InsideReads DEF Inside, Opening
  <1>2. DiscInv(pc[t]) /\ ReaderInv(t) /\ Fetching(t) /\ mounted /\ ~setting /\ Kind
    BY <1>1, SafeReader DEF Fetching, DiscInv
  <1>3. Here = [file |-> umdfile, at |-> r.at]
    BY <1>2 DEF Here, DiscInv, ReaderInv, Live
  <1>4. CASE r.use = "iso"
    <2> DEFINE n == InFile(Here, Units(r)) \div 2
               result == Result(n = 0 \/ (Here = [file |-> umdfile, at |-> 2 * r.lba]
                                          /\ umdfile \notin Cso))
    <2>1. Return(t, result, n) /\ UNCHANGED cacheVars
      BY <1>4 DEF Use
    <2>2. Here = [file |-> umdfile, at |-> 2 * r.lba] /\ umdfile \notin Cso
      BY <1>2, <1>3, <1>4 DEF ReaderInv
    <2>3. result # "wrong"
      BY <2>2 DEF Result
    <2> HIDE DEF n, result
    <2>4. /\ ~Inside(t)' /\ \A u \in Readers \ {t} : pc'[u] = pc[u]
          /\ \A u \in Readers : res'[u] # "wrong"
      BY <2>1, <2>3, ReturnFacts
    <2> QED
      BY <1>1, <2>1, <2>4, LeaveSafe
  <1>5. r.use # "iso" => cso /\ r.left >= 1
    BY <1>1, <1>2, InsideReads DEF ReaderInv, Kind
  <1>6. CASE r.use \in {"index", "next"}
    <2> DEFINE cur == IF r.use = "index" THEN r.lba ELSE r.lba + 1
               l == IF r.use = "index" THEN "word" ELSE "block"
    <2>1. index' = [cur |-> cur, from |-> Here] /\ Go(t, l, r) /\ UNCHANGED buf
      BY <1>6 DEF Use
    <2>2. r.lba \in Int /\ r.at = 1 + cur
      BY <1>1, <1>2, <1>6 DEF ReaderInv, ReqRecord
    <2>3. index'.cur = cur /\ index'.from = [file |-> umdfile, at |-> 1 + cur]
      BY <1>3, <2>1, <2>2
    <2>4. /\ pc'[t] = l /\ req'[t] = r /\ \A u \in Readers \ {t} : pc'[u] = pc[u]
          /\ \A u \in Readers : res'[u] # "wrong"
      BY <2>1, GoFacts
    <2>5. DiscInv(pc[t])'
      BY <1>1, <1>2, <2>1, <2>3, <2>4
         DEF DiscInv, Live, Kind, BufAgrees, IndexAgrees, discVars
    <2>6. ReaderInv(t)'
      BY <1>2, <1>5, <1>6, <2>2, <2>3, <2>4
         DEF ReaderInv, Fetching, Sector, BlockAt, Opening, Sectors, NoIndex, discVars
    <2>7. Inside(t)'
      BY <2>4 DEF Inside
    <2> QED
      BY <1>1, <2>4, <2>5, <2>6, <2>7, SafeStep
  <1>7. CASE r.use = "stored"
    <2> DEFINE right == Here.file = umdfile /\ IsBlock(Here, r.lba, TRUE)
    <2>1. Delivered(t, right) /\ UNCHANGED cacheVars
      BY <1>7 DEF Use
    <2>2. Sector(t) => right
      <3>1. umdfile \in Cso
        BY <1>2, <1>5, <1>7 DEF Kind
      <3> QED
        BY <1>2, <1>3, <1>7, <3>1 DEF ReaderInv, Sector, BlockAt, IsBlock
    <2> HIDE DEF right
    <2> QED
      BY <1>1, <1>2, <1>5, <1>7, <2>1, <2>2, DeliveredSafe
  <1>8. CASE r.use = "block"
    <2>1. buf' = [pos |-> r.dpos, from |-> Here] /\ Go(t, "block", r) /\ UNCHANGED index
      BY <1>8 DEF Use
    <2>2. buf'.pos = r.dpos /\ buf'.from = [file |-> umdfile, at |-> r.dpos]
      BY <1>2, <1>3, <1>8, <2>1 DEF ReaderInv
    <2>3. /\ pc'[t] = "block" /\ req'[t] = r /\ \A u \in Readers \ {t} : pc'[u] = pc[u]
          /\ \A u \in Readers : res'[u] # "wrong"
      BY <2>1, GoFacts
    <2>4. DiscInv(pc[t])'
      BY <1>1, <1>2, <2>1, <2>2, <2>3
         DEF DiscInv, Live, Kind, BufAgrees, IndexAgrees, discVars
    <2>5. ReaderInv(t)'
      BY <1>2, <1>5, <1>8, <2>3
         DEF ReaderInv, Fetching, Sector, BlockAt, Opening, Sectors, discVars
    <2>6. Inside(t)'
      BY <2>3 DEF Inside
    <2> QED
      BY <1>1, <2>3, <2>4, <2>5, <2>6, SafeStep
  <1>9. r.use \in {"iso", "index", "next", "stored", "block"}
    BY <1>1 DEF ReqRecord
  <1> QED
    BY <1>4, <1>6, <1>7, <1>8, <1>9

LEMMA RetryReadSafe ==
  ASSUME BasicInv, SafeInv, NEW t \in Readers, RetryRead(t), ~misled' PROVE SafeInv'
  <1> DEFINE r == req[t]
  <1>1. /\ Inside(t) /\ pc[t] = "read" /\ pc[t] \notin Opening /\ Fetching(t)
        /\ UNCHANGED <<discVars, umdfd, setting>>
    BY DEF RetryRead, Inside, Opening, Fetching
  <1>2. CASE /\ Live(umdfd) /\ fds' = MoveTo(Here.at + InFile(Here, Units(r)))
             /\ Use(t, Here) /\ misled' = (misled \/ r.tries > 0)
    <2>1. ~(r.tries > 0)
      BY <1>2, Zenon
    <2>2. r.tries = 0
      BY <1>1, <2>1, InsideReads, SizesAssumption DEF ReqRecord
    <2>3. \A f \in Fds : fds'[f].file = fds[f].file /\ fds'[f].dead = fds[f].dead
      BY <1>2 DEF MoveTo, BasicInv, TypeOK
    <2> QED
      BY <1>1, <1>2, <2>2, <2>3, UseSafe
  <1>3. CASE Reopen(t, "read") /\ UNCHANGED <<fds, misled>>
    BY <1>1, <1>3, ReopenSafe
  <1>4. CASE FetchFailed(t) /\ UNCHANGED <<index, fds, misled>>
    BY <1>1, <1>4, FetchFailedSafe
  <1> QED
    BY <1>2, <1>3, <1>4 DEF RetryRead

LEMMA CisoGetIndexSafe ==
  ASSUME BasicInv, SafeInv, NEW t \in Readers, CisoGetIndex(t) PROVE SafeInv'
  <1> DEFINE r == req[t]
             at == IF pc[t] = "sector" THEN r.lba ELSE r.lba + 1
             use == IF pc[t] = "sector" THEN "index" ELSE "next"
             l == IF pc[t] = "sector" THEN "word" ELSE "block"
             hit == index.cur # NoIndex /\ at - index.cur \in 0 .. IndexSize - 1
  <1>1. /\ Inside(t) /\ pc[t] \in {"sector", "next"} /\ pc[t] \notin Opening
        /\ UNCHANGED <<discVars, umdfd, cacheVars, setting, fds>>
        /\ r \in ReqRecord /\ r.lba \in -1 .. MaxLength
    BY InsideReads DEF CisoGetIndex, Inside, Sectors, Opening
  <1>2. DiscInv(pc[t]) /\ ReaderInv(t) /\ umdfile \in Cso
    BY <1>1, SafeReader DEF DiscInv, ReaderInv, Sectors, Kind
  <1>3. CASE index.cur # NoIndex /\ Go(t, l, r)
    <2>1. /\ pc'[t] = l /\ req'[t] = r /\ \A u \in Readers \ {t} : pc'[u] = pc[u]
          /\ \A u \in Readers : res'[u] # "wrong"
      BY <1>3, GoFacts
    <2>2. DiscInv(pc[t])'
      BY <1>1, <1>2, <2>1 DEF DiscInv, Live, Kind, BufAgrees, IndexAgrees, discVars, cacheVars
    <2>3. ReaderInv(t)'
      BY <1>1, <1>2, <1>3, <2>1
         DEF ReaderInv, Fetching, Sector, BlockAt, Opening, Sectors, discVars, cacheVars
    <2>4. Inside(t)'
      BY <2>1 DEF Inside
    <2> QED
      BY <1>1, <2>1, <2>2, <2>3, <2>4, SafeStep
  <1>4. CASE Fetch(t, r, use, 1 + at)
    <2>1. /\ use \in {"index", "next"} /\ 1 + at \in -2 .. 2 * MaxLength + 2
          /\ use = "index" => 1 + at = 1 + r.lba
          /\ use = "next" => 1 + at = 2 + r.lba /\ pc[t] = "next"
      BY <1>1, LengthAssumption
    <2>2. pc[t] = "next" /\ Sector(t) => r.dpos = BlockAt(t) /\ r.lba \notin Stored
      BY <1>2 DEF ReaderInv
    <2> DEFINE a == 1 + at
    <2> HIDE DEF at, use, a
    <2>3. Fetch(t, r, use, a) /\ a \in -2 .. 2 * MaxLength + 2
          /\ (use = "index" => a = 1 + r.lba) /\ (use = "next" => a = 2 + r.lba)
      BY <1>4, <2>1 DEF a
    <2> QED
      BY <1>1, <1>2, <2>1, <2>2, <2>3, FetchSafe
  <1> QED
    BY <1>3, <1>4 DEF CisoGetIndex

\* The word of a sector that exists tells where it is, and whether it is deflated
LEMMA CisoReadOneSafe ==
  ASSUME BasicInv, SafeInv, NEW t \in Readers, CisoReadOne(t) PROVE SafeInv'
  <1> DEFINE r == req[t]
             p == index.from.at + r.lba - index.cur
  <1>1. /\ Inside(t) /\ pc[t] = "word" /\ pc[t] \notin Opening
        /\ UNCHANGED <<discVars, umdfd, cacheVars, setting, fds>>
        /\ r \in ReqRecord /\ r.lba \in -1 .. MaxLength
    BY InsideReads DEF CisoReadOne, Inside, Sectors, Opening
  <1>2. /\ DiscInv(pc[t]) /\ ReaderInv(t) /\ umdfile \in Cso /\ mounted /\ cso /\ IndexAgrees
        /\ ~setting
    BY <1>1, SafeReader DEF DiscInv, ReaderInv, Sectors, Kind
  <1>3. p \in Int /\ index.cur \in Int /\ Length[umdfile] \in Int
    BY <1>1, LengthAssumption DEF BasicInv, TypeOK, Origins, Addresses
  <1>4. ASSUME Sector(t) PROVE index.from.file = umdfile /\ p = 1 + r.lba
    BY <1>1, <1>2, <1>3, <1>4 DEF IndexAgrees, ReaderInv, Sector
  <1>5. PICK w \in Words(index.from.file, p) :
           IF w.stored THEN Fetch(t, r, "stored", w.dpos)
           ELSE Go(t, "next", [r EXCEPT !.dpos = w.dpos])
    BY DEF CisoReadOne
  <1>6. w.dpos \in Addresses /\ w.stored \in BOOLEAN
    BY <1>3, WordsType
  <1>7. ASSUME Sector(t) PROVE w.dpos = BlockAt(t) /\ (w.stored <=> r.lba \in Stored)
    <2>1. p \in 1 .. Length[umdfile] + 1 /\ p - 1 = r.lba
      BY <1>1, <1>3, <1>4, <1>7 DEF Sector
    <2>2. w = [dpos |-> Length[umdfile] + 1 + p, stored |-> p - 1 \in Stored]
      BY <1>2, <1>4, <1>5, <1>7, <2>1 DEF Words
    <2>3. w.dpos = Length[umdfile] + 1 + p
      BY <2>2
    <2>4. w.stored <=> p - 1 \in Stored
      BY <2>2, Zenon
    <2> QED
      BY <1>1, <1>3, <1>4, <1>7, <2>1, <2>3, <2>4 DEF BlockAt
  <1> HIDE DEF p
  <1>8. CASE w.stored
    <2>1. w.dpos \in -2 .. 2 * MaxLength + 2
      BY <1>6 DEF Addresses
    <2>2. Fetch(t, r, "stored", w.dpos)
      BY <1>5, <1>8
    <2> QED
      BY <1>1, <1>2, <1>7, <1>8, <2>1, <2>2, FetchSafe
  <1>9. CASE ~w.stored
    <2> DEFINE q == [r EXCEPT !.dpos = w.dpos]
    <2>1. Go(t, "next", q)
      BY <1>5, <1>9
    <2>2. q.lba = r.lba /\ q.use = r.use /\ q.dpos = w.dpos /\ q.right = r.right
      BY <1>1 DEF ReqRecord
    <2> HIDE DEF q
    <2>3. /\ pc'[t] = "next" /\ req'[t] = q /\ \A u \in Readers \ {t} : pc'[u] = pc[u]
          /\ \A u \in Readers : res'[u] # "wrong"
      BY <2>1, GoFacts
    <2>4. DiscInv(pc[t])'
      BY <1>1, <1>2, <2>3 DEF DiscInv, Live, Kind, BufAgrees, IndexAgrees, discVars, cacheVars
    <2>5. ReaderInv(t)'
      BY <1>1, <1>2, <1>7, <1>9, <2>2, <2>3
         DEF ReaderInv, Fetching, Sector, BlockAt, Opening, Sectors, discVars
    <2>6. Inside(t)'
      BY <2>3 DEF Inside
    <2> QED
      BY <1>1, <2>3, <2>4, <2>5, <2>6, SafeStep
  <1> QED
    BY <1>8, <1>9

LEMMA CisoInflateSafe ==
  ASSUME BasicInv, SafeInv, NEW t \in Readers, CisoInflate(t) PROVE SafeInv'
  <1> DEFINE r == req[t]
             ofs == r.dpos - buf.pos
             o == IF ofs < BufSize THEN [buf.from EXCEPT !.at = @ + ofs] ELSE Torn
             right == o.file = umdfile /\ IsBlock(o, r.lba, FALSE)
  <1>1. /\ Inside(t) /\ pc[t] = "block" /\ pc[t] \notin Opening
        /\ UNCHANGED <<discVars, umdfd, cacheVars, setting, fds>>
        /\ r \in ReqRecord /\ r.op = "read" /\ r.left >= 1
    BY InsideReads DEF CisoInflate, Inside, Sectors, Opening
  <1>2. /\ DiscInv(pc[t]) /\ ReaderInv(t) /\ umdfile \in Cso /\ mounted /\ cso /\ BufAgrees
        /\ ~setting
    BY <1>1, SafeReader DEF DiscInv, ReaderInv, Sectors, Kind
  <1>3. CASE Fetch(t, r, "block", r.dpos)
    <2>1. r.dpos \in -2 .. 2 * MaxLength + 2
      BY <1>1 DEF ReqRecord, Addresses
    <2>2. Sector(t) => r.dpos = BlockAt(t) /\ r.lba \notin Stored
      BY <1>1, <1>2 DEF ReaderInv
    <2> QED
      BY <1>1, <1>2, <1>3, <2>1, <2>2, FetchSafe
  <1>4. CASE InBuffer(r.dpos) /\ Delivered(t, right)
    <2>1. ASSUME Sector(t) PROVE right
      <3>1. r.dpos = BlockAt(t) /\ r.lba \notin Stored /\ r.lba \in 0 .. Length[umdfile] - 1
        BY <1>1, <1>2, <2>1 DEF ReaderInv, Sector
      <3>2. buf.from = [file |-> umdfile, at |-> buf.pos] /\ ofs < BufSize /\ buf.pos \in Int /\ r.dpos \in Int
        BY <1>1, <1>2, <1>4, SizesAssumption
           DEF BufAgrees, InBuffer, NoPos, BasicInv, TypeOK, ReqRecord, Addresses
      <3>3. o.file = umdfile /\ o.at = r.dpos
        BY <3>2
      <3> HIDE DEF o
      <3> QED
        BY <1>2, <3>1, <3>3 DEF IsBlock, BlockAt
    <2> HIDE DEF right
    <2> QED
      BY <1>1, <1>2, <1>4, <2>1, DeliveredSafe
  <1>5. CASE Return(t, "failed", 0)
    <2>1. /\ ~Inside(t)' /\ \A u \in Readers \ {t} : pc'[u] = pc[u]
          /\ \A u \in Readers : res'[u] # "wrong"
      BY <1>5, ReturnFacts
    <2> QED
      BY <1>1, <2>1, LeaveSafe
  <1> QED
    BY <1>3, <1>4, <1>5 DEF CisoInflate

-----------------------------------------------------------------------------
(* The theorems.                                                           *)

\* Who was misled stays so
LEMMA NotMisled == ASSUME BasicInv, [Next]_vars, ~misled' PROVE ~misled
  <1>1. ASSUME NEW t \in Readers, Call(t) \/ UmdOpen(t) \/ UmdRead(t)
        PROVE  ~misled
    BY <1>1, Zenon DEF Call, UmdOpen, UmdRead, Enter
  <1>2. CASE SetUmdFile
    BY <1>2, Zenon DEF SetUmdFile
  <1>3. ASSUME NEW t \in Readers, CisoOpen(t) PROVE ~misled
    <2>1. UNCHANGED misled \/ misled' = (misled \/ umdfile \in Cso)
      BY <1>3 DEF CisoOpen
    <2> QED
      BY <2>1, Zenon
  <1>4. ASSUME NEW t \in Readers, RetryRead(t) PROVE ~misled
    <2>1. UNCHANGED misled \/ misled' = (misled \/ req[t].tries > 0)
      BY <1>4 DEF RetryRead
    <2> QED
      BY <2>1, Zenon
  <1>5. CASE \/ \E t \in Readers : \/ UmdCall(t) \/ UmdLseek(t) \/ Start(t) \/ Probe(t)
                                   \/ OpenIsoClose(t) \/ OpenIso(t) \/ GetDiscSize(t)
                                   \/ RetrySeek(t) \/ CisoGetIndex(t) \/ CisoReadOne(t)
                                   \/ CisoInflate(t)
             \/ SetUmdFileEnd \/ Eject \/ Insert \/ UNCHANGED vars
    BY <1>5 DEF UmdCall, UmdLseek, Start, Probe, OpenIsoClose, OpenIso, GetDiscSize, RetrySeek,
                CisoGetIndex, CisoReadOne, CisoInflate, SetUmdFileEnd, Eject, Insert, vars
  <1> QED
    BY <1>1, <1>2, <1>3, <1>4, <1>5, Zenon DEF Next, Lock, Step

LEMMA NextSafe == ASSUME BasicInv, SafeInv, [Next]_vars, ~misled' PROVE SafeInv'
  <1>1. ASSUME NEW t \in Readers, Call(t) \/ UmdCall(t) \/ UmdLseek(t) \/ Lock(t)
        PROVE  SafeInv'
    BY <1>1, EnterSafe, UmdCallSafe
  <1>2. ASSUME NEW t \in Readers, Step(t)
        PROVE  SafeInv'
    BY <1>2, StartSafe, ProbeSafe, OpenIsoCloseSafe, OpenIsoSafe, CisoOpenSafe, GetDiscSizeSafe,
       RetrySeekSafe, RetryReadSafe, CisoGetIndexSafe, CisoReadOneSafe, CisoInflateSafe DEF Step
  <1>3. CASE UNCHANGED vars
    <2>1. UNCHANGED <<discVars, umdfd, cacheVars, fds, setting, res, pc, req>>
      BY <1>3 DEF vars
    <2>2. \A t \in Readers : Inside(t)' <=> Inside(t)
      BY <2>1 DEF Inside
    <2>3. \A t \in Readers : DiscInv(pc[t]) /\ ReaderInv(t) => DiscInv(pc[t])' /\ ReaderInv(t)'
      BY <2>1 DEF DiscInv, ReaderInv, Fetching, Sector, BlockAt, Live, Kind, BufAgrees,
                  IndexAgrees, discVars, cacheVars
    <2>4. DiscInv("idle") => DiscInv("idle")'
      BY <2>1 DEF DiscInv, Live, Kind, BufAgrees, IndexAgrees, discVars, cacheVars
    <2> QED
      BY <2>1, <2>2, <2>3, <2>4 DEF SafeInv, Alone
  <1> QED
    BY <1>1, <1>2, <1>3, StickSafe DEF Next

\* The inductive invariant: the types and the bounds whatever happens, and what
\* the reader knows as long as it is not misled.
THEOREM SpecIInv == Spec => []IInv
  <1>1. Init => IInv
    BY InitBasic, InitSafe DEF IInv
  <1>2. IInv /\ [Next]_vars => IInv'
    BY NextBasic, NextSafe, NotMisled DEF IInv
  <1> QED
    BY <1>1, <1>2, PTL DEF Spec

\* The image is opened again and again, and never twice: unless the reader was
\* misled, no descriptor of the stick is lost, whatever is removed, retried or
\* exchanged; and every variable stays within its type, misled or not.
\* (OpenIso, sctrlSESetUmdFile, umd_lseek)
THEOREM SpecOneDescriptor == Spec => []OneDescriptor
  <1>1. ASSUME IInv PROVE OneDescriptor
    <2>1. TypeOK
      BY <1>1 DEF IInv, BasicInv
    <2> DEFINE open == {f \in Fds : fds[f].file # NoImage}
    <2>2. ASSUME ~misled PROVE Cardinality(open) <= 1
      <3>1. PICK l : DiscInv(l)
        BY <1>1, <2>2 DEF IInv, SafeInv
      <3>2. open \subseteq {umdfd}
        BY <3>1 DEF DiscInv
      <3>3. IsFiniteSet({umdfd}) /\ Cardinality({umdfd}) = 1
        BY FS_Singleton
      <3>4. Cardinality(open) <= Cardinality({umdfd})
        BY <3>2, <3>3, FS_Subset
      <3> QED
        BY <3>3, <3>4
    <2> QED
      BY <2>1, <2>2 DEF OneDescriptor
  <1> QED
    BY <1>1, SpecIInv, PTL

\* A read that succeeds has returned the sectors it was asked for, of the image
\* that is set, unless the reader was misled.
\* (Umd9660ReadSectors2, IsofileReadSectors, CisofileReadSectors)
THEOREM SpecReadsRight == Spec => []ReadsRight
  <1>1. IInv => ReadsRight
    BY DEF IInv, SafeInv, ReadsRight
  <1> QED
    BY <1>1, SpecIInv, PTL

\* Between reads, the two buffers of a mounted compressed image hold what their
\* positions say, of this image.  (CisoOpen, ciso_get_index, ciso_read_one)
THEOREM SpecCachesAgree == Spec => []CachesAgree
  <1>1. ASSUME IInv PROVE CachesAgree
    <2>1. ASSUME ~misled, Quiet, mounted, cso
          PROVE  BufAgrees /\ IndexAgrees
      BY <1>1, <2>1 DEF IInv, SafeInv, Quiet, DiscInv
    <2> QED
      BY <2>1 DEF CachesAgree, BufAgrees, IndexAgrees
  <1> QED
    BY <1>1, SpecIInv, PTL

-----------------------------------------------------------------------------
(* A read of sectors that exist succeeds while the stick is in: it opens   *)
(* the image once more at most, and finds a descriptor and the image.      *)

Asked(t) == req[t].op = "read" /\ req[t].n > 0 /\ req[t].lba \in 0 .. Length[umdfile] - req[t].left

SteadyReader(t) ==
    /\ req[t].left >= 1
    /\ pc[t] \in {"header", "size", "read"} => Live(umdfd)
    /\ pc[t] \in {"probe", "seek"} => req[t].tries = 0 \/ (req[t].tries = 1 /\ Live(umdfd))
    /\ pc[t] \in Opening => req[t].tries = 1 /\ req[t].back # "read"
    /\ pc[t] \in {"start", "read"} => req[t].tries = 0
    /\ Fetching(t) => req[t].at >= 0

SteadyInv ==
    /\ steady # {} => card
    /\ \A t \in steady : Inside(t) /\ Asked(t) => SteadyReader(t)

\* What a step of a reader has to keep, and to end with
Fares(t) ==
    /\ Inside(t)' /\ Asked(t)' => SteadyReader(t)'
    /\ Asked(t) /\ ~Inside(t)' => res'[t] # "failed"

LEMMA SteadyFacts ==
  ASSUME BasicInv, SafeInv, SteadyInv, NEW t \in Readers, t \in steady, Inside(t), Asked(t)
  PROVE  /\ SteadyReader(t) /\ card /\ DiscInv(pc[t]) /\ ReaderInv(t) /\ ~setting
         /\ Sector(t) /\ req[t] \in ReqRecord /\ req[t].op = "read"
         /\ req[t].lba \in 0 .. MaxLength /\ req[t].left >= 1 /\ req[t].left \in Int
         /\ Length[umdfile] \in 1 .. MaxLength
  <1>1. /\ SteadyReader(t) /\ card /\ DiscInv(pc[t]) /\ ReaderInv(t) /\ ~setting
        /\ req[t].op = "read" /\ req[t].left >= 1
    BY SafeReader DEF SteadyInv, SteadyReader, Asked
  <1>2. req[t] \in ReqRecord /\ req[t].left \in Int /\ Length[umdfile] \in 1 .. MaxLength
    BY InsideReads, LengthAssumption DEF BasicInv, TypeOK
  <1> QED
    BY <1>1, <1>2, LengthAssumption DEF Asked, Sector

LEMMA FetchFares ==
  ASSUME BasicInv, NEW t \in Readers, Inside(t), NEW use, NEW at \in Int, Fetch(t, req[t], use, at),
         Asked(t) => req[t].left >= 1 /\ at >= 0, UNCHANGED umdfile
  PROVE  Fares(t)
  <1> DEFINE q == [req[t] EXCEPT !.use = use, !.at = at, !.tries = 0]
  <1>1. req[t] \in ReqRecord /\ Go(t, "seek", q)
    BY InsideReads DEF Fetch
  <1>2. /\ q.op = req[t].op /\ q.lba = req[t].lba /\ q.left = req[t].left /\ q.n = req[t].n
        /\ q.at = at /\ q.tries = 0
    BY <1>1 DEF ReqRecord
  <1> HIDE DEF q
  <1>3. pc'[t] = "seek" /\ req'[t] = q
    BY <1>1 DEF Go, Goto, BasicInv, ReadersInv
  <1> QED
    BY <1>2, <1>3 DEF Fares, Asked, SteadyReader, Inside, Fetching, Opening

LEMMA ReopenFares ==
  ASSUME BasicInv, NEW t \in Readers, Inside(t), NEW back \in {"probe", "seek"}, Reopen(t, back),
         Asked(t) => req[t].left >= 1 /\ req[t].tries = 0 /\ (back = "seek" => req[t].at >= 0),
         UNCHANGED umdfile
  PROVE  Fares(t)
  <1> DEFINE q == [req[t] EXCEPT !.back = back, !.tries = @ + 1]
  <1>1. req[t] \in ReqRecord /\ Go(t, "close", q)
    BY InsideReads DEF Reopen
  <1>2. /\ q.op = req[t].op /\ q.lba = req[t].lba /\ q.left = req[t].left /\ q.n = req[t].n
        /\ q.at = req[t].at /\ q.tries = req[t].tries + 1 /\ q.back = back
    BY <1>1 DEF ReqRecord
  <1> HIDE DEF q
  <1>3. pc'[t] = "close" /\ req'[t] = q
    BY <1>1 DEF Go, Goto, BasicInv, ReadersInv
  <1> QED
    BY <1>2, <1>3 DEF Fares, Asked, SteadyReader, Inside, Fetching, Opening

\* To a label where nothing but a length is asked
LEMMA GoFares ==
  ASSUME BasicInv, NEW t \in Readers, NEW l \in Sectors, NEW r, Go(t, l, r),
         r.left >= 1
  PROVE  Fares(t)
  <1>1. pc'[t] = l /\ req'[t] = r
    BY DEF Go, Goto, BasicInv, ReadersInv
  <1> QED
    BY <1>1 DEF Fares, SteadyReader, Inside, Fetching, Opening, Sectors

LEMMA ReturnFares ==
  ASSUME BasicInv, NEW t \in Readers, NEW result, NEW count, Return(t, result, count),
         Asked(t) => result # "failed"
  PROVE  Fares(t)
  <1>1. pc'[t] = "idle" /\ res'[t] = result
    BY DEF Return, Goto, BasicInv, ReadersInv
  <1> QED
    BY <1>1 DEF Fares, Inside

LEMMA DeliveredFares ==
  ASSUME BasicInv, NEW t \in Readers, Inside(t), NEW right, Delivered(t, right)
  PROVE  Fares(t)
  <1> DEFINE r == req[t]
             all == r.right /\ (right \/ r.lba \notin 0 .. Length[umdfile] - 1)
             q == [r EXCEPT !.lba = @ + 1, !.left = @ - 1, !.right = all]
  <1> HIDE DEF all
  <1>1. r \in ReqRecord /\ r.left \in Int
    BY InsideReads
  <1>2. CASE r.left > 1 /\ Go(t, "sector", q)
    <2>1. q.left >= 1
      BY <1>1, <1>2 DEF ReqRecord
    <2> HIDE DEF q
    <2> QED
      BY <1>2, <2>1, GoFares DEF Sectors
  <1>3. CASE Return(t, Result(all), r.n)
    <2> DEFINE result == Result(all)
    <2>1. result # "failed"
      BY DEF Result
    <2> HIDE DEF result
    <2>2. Return(t, result, r.n)
      BY <1>3 DEF result
    <2> QED
      BY <2>1, <2>2, ReturnFares
  <1> QED
    BY <1>2, <1>3 DEF Delivered, all

LEMMA ReadSectorsFares ==
  ASSUME BasicInv, SafeInv, SteadyInv, NEW t \in Readers, t \in steady, Inside(t),
         req[t].op = "read", ReadSectors(t, req[t]), UNCHANGED umdfile
  PROVE  Fares(t)
  <1> DEFINE r == req[t]
  <1>1. r \in ReqRecord /\ (Asked(t) => r.left >= 1 /\ r.lba \in 0 .. MaxLength) /\ r.lba \in Int
        /\ r.left \in Int
    BY SteadyFacts, InsideReads
  <1>2. CASE Fetch(t, r, "iso", 2 * r.lba)
    <2>1. 2 * r.lba \in Int /\ (Asked(t) => 2 * r.lba >= 0)
      BY <1>1
    <2> QED
      BY <1>1, <1>2, <2>1, FetchFares
  <1>3. CASE r.left > 0 /\ Go(t, "sector", r)
    BY <1>1, <1>3, GoFares DEF Sectors
  <1>4. CASE r.left <= 0 /\ Return(t, IF r.left = 0 THEN "right" ELSE "failed", 0)
    <2> DEFINE result == IF r.left = 0 THEN "right" ELSE "failed"
    <2>1. ~Asked(t)
      BY <1>1, <1>4
    <2>2. Return(t, result, 0)
      BY <1>4
    <2> HIDE DEF result
    <2> QED
      BY <2>1, <2>2, ReturnFares
  <1> QED
    BY <1>2, <1>3, <1>4 DEF ReadSectors

LEMMA StartFares ==
  ASSUME BasicInv, SafeInv, SteadyInv, NEW t \in Readers, t \in steady, Start(t)
  PROVE  Fares(t)
  <1>1. Inside(t) /\ pc[t] = "start" /\ req[t].op = "read" /\ UNCHANGED umdfile
    BY InsideReads DEF Start, Inside, discVars
  <1>2. CASE ReadSectors(t, req[t])
    BY <1>1, <1>2, ReadSectorsFares
  <1>3. CASE Go(t, "probe", req[t])
    <2>1. pc'[t] = "probe" /\ req'[t] = req[t]
      BY <1>3 DEF Go, Goto, BasicInv, ReadersInv
    <2>2. Asked(t) => SteadyReader(t)
      BY <1>1, SteadyFacts
    <2> QED
      BY <1>1, <2>1, <2>2 DEF Fares, Asked, SteadyReader, Inside, Fetching, Opening
  <1> QED
    BY <1>2, <1>3 DEF Start

\* The loop has tried once, and has the image: it does not come to its end
LEMMA ProbeFares ==
  ASSUME MaxTry >= 2, BasicInv, SafeInv, SteadyInv, NEW t \in Readers, t \in steady, Probe(t)
  PROVE  Fares(t)
  <1> DEFINE r == req[t]
  <1>1. /\ Inside(t) /\ pc[t] = "probe" /\ UNCHANGED umdfile /\ r \in ReqRecord
    BY InsideReads DEF Probe, Inside, discVars
  <1>2. Asked(t) => SteadyReader(t) /\ DiscInv(pc[t]) /\ r.op = "read"
    BY <1>1, SteadyFacts
  <1>3. CASE ~Live(umdfd) /\ Reopen(t, "probe")
    BY <1>1, <1>2, <1>3, ReopenFares DEF SteadyReader
  <1>4. CASE r.op = "open" /\ Goto(t, "idle", NoReq)
    <2>1. pc'[t] = "idle"
      BY <1>4 DEF Goto, BasicInv, ReadersInv
    <2> QED
      BY <1>2, <1>4, <2>1 DEF Fares, Inside
  <1>5. CASE r.op = "read" /\ mounted /\ ReadSectors(t, r)
    BY <1>1, <1>5, ReadSectorsFares
  <1>6. CASE /\ r.op = "read" /\ (r.tries = MaxTry \/ Live(umdfd)) /\ ~mounted
             /\ Return(t, "failed", 0)
    <2>1. ~Asked(t)
      BY <1>1, <1>2, <1>6 DEF SteadyReader, DiscInv
    <2> QED
      BY <1>6, <2>1, ReturnFares
  <1> QED
    BY <1>3, <1>4, <1>5, <1>6 DEF Probe

LEMMA OpeningFares ==
  ASSUME Fds # {}, BasicInv, SafeInv, SteadyInv, NEW t \in Readers, t \in steady,
         OpenIsoClose(t) \/ OpenIso(t) \/ CisoOpen(t) \/ GetDiscSize(t)
  PROVE  Fares(t)
  <1>1. /\ Inside(t) /\ pc[t] \in Opening /\ UNCHANGED umdfile /\ req[t] \in ReqRecord
    BY InsideReads DEF OpenIsoClose, OpenIso, CisoOpen, GetDiscSize, Inside, Opening, discVars
  <1>2. ASSUME Asked(t) PROVE SteadyReader(t) /\ card /\ DiscInv(pc[t])
    BY <1>1, <1>2, SteadyFacts
  <1>3. ASSUME NEW l \in Labels \ {"idle", "lock"}, Go(t, l, req[t]), l \notin {"start", "read"} \/ ~Asked(t),
               Asked(t) => (l \in {"probe", "seek", "header", "size"} => Live(umdfd)'),
               Asked(t) /\ l \in {"seek", "read"} => Fetching(t)
        PROVE  Fares(t)
    <2>1. pc'[t] = l /\ req'[t] = req[t]
      BY <1>3 DEF Go, Goto, BasicInv, ReadersInv
    <2>2. Asked(t)' <=> Asked(t)
      BY <1>1, <2>1 DEF Asked
    <2>3. Inside(t)'
      BY <1>3, <2>1 DEF Inside
    <2>4. ASSUME Asked(t) PROVE SteadyReader(t)'
      BY <1>1, <1>2, <1>3, <2>1, <2>4 DEF SteadyReader, Fetching, Opening
    <2> QED
      BY <2>2, <2>3, <2>4 DEF Fares
  <1>4. CASE OpenIsoClose(t)
    <2>1. Go(t, "open", req[t]) /\ "open" \in Labels
      BY <1>4 DEF OpenIsoClose, Labels
    <2> QED
      BY <1>3, <2>1
  <1>5. CASE OpenIso(t)
    <2>1. ASSUME NEW f \in Fds, umdfd' = f, Go(t, "header", req[t]),
                 fds' = [fds EXCEPT ![f] = [file |-> umdfile, pos |-> 0, dead |-> FALSE]]
          PROVE  Fares(t)
      <3>1. Live(umdfd)'
        BY <2>1, ImagesAssumption DEF Live, BasicInv, TypeOK
      <3> QED
        BY <1>3, <2>1, <3>1 DEF Labels
    <2>2. CASE /\ ~card \/ \A f \in Fds : fds[f].file # NoImage
               /\ Go(t, req[t].back, req[t])
      <3>1. ~Asked(t)
        BY <1>2, <1>5, <2>2 DEF OpenIso, DiscInv
      <3>2. req[t].back \in {"probe", "seek", "read"}
        BY <1>1 DEF ReqRecord
      <3> QED
        BY <1>3, <2>2, <3>1, <3>2 DEF Labels
    <2> QED
      BY <1>5, <2>1, <2>2 DEF OpenIso
  <1>6. CASE CisoOpen(t)
    <2>1. Go(t, "size", req[t]) /\ "size" \in Labels /\ pc[t] = "header"
      BY <1>6 DEF CisoOpen, Labels
    <2>2. Live(umdfd) => Live(umdfd)'
      BY <1>6 DEF CisoOpen, Live, MoveTo, BasicInv, TypeOK
    <2>3. Asked(t) => Live(umdfd)'
      BY <1>2, <2>1, <2>2 DEF SteadyReader
    <2> QED
      BY <1>3, <2>1, <2>3
  <1>7. CASE GetDiscSize(t)
    <2>1. Go(t, req[t].back, req[t]) /\ pc[t] = "size" /\ UNCHANGED <<umdfd, fds>>
      BY <1>7 DEF GetDiscSize
    <2>2. req[t].back \in {"probe", "seek", "read"}
      BY <1>1 DEF ReqRecord
    <2>3. Asked(t) => Live(umdfd)' /\ req[t].back # "read"
      BY <1>1, <1>2, <2>1 DEF SteadyReader, Live
    <2>4. req[t].back \in {"seek", "read"} => Fetching(t)
      BY <1>1 DEF Fetching
    <2> QED
      BY <1>3, <2>1, <2>2, <2>3, <2>4 DEF Labels
  <1> QED
    BY <1>4, <1>5, <1>6, <1>7

LEMMA RetrySeekFares ==
  ASSUME MaxTry >= 2, BasicInv, SafeInv, SteadyInv, NEW t \in Readers, t \in steady, RetrySeek(t)
  PROVE  Fares(t)
  <1> DEFINE r == req[t]
  <1>1. /\ Inside(t) /\ pc[t] = "seek" /\ UNCHANGED umdfile /\ r \in ReqRecord /\ Fetching(t)
    BY InsideReads DEF RetrySeek, Inside, Fetching, discVars
  <1>2. Asked(t) => SteadyReader(t)
    BY <1>1, SteadyFacts
  <1>3. CASE Live(umdfd) /\ r.at >= 0 /\ fds' = MoveTo(r.at) /\ Go(t, "read", [r EXCEPT !.tries = 0])
    <2> DEFINE q == [r EXCEPT !.tries = 0]
    <2>1. /\ q.op = r.op /\ q.lba = r.lba /\ q.left = r.left /\ q.n = r.n /\ q.at = r.at
          /\ q.tries = 0
      BY <1>1 DEF ReqRecord
    <2>2. Go(t, "read", q)
      BY <1>3
    <2> HIDE DEF q
    <2>3. pc'[t] = "read" /\ req'[t] = q
      BY <2>2 DEF Go, Goto, BasicInv, ReadersInv
    <2>4. Live(umdfd)'
      BY <1>3 DEF RetrySeek, Live, MoveTo, BasicInv, TypeOK
    <2> QED
      BY <1>1, <1>2, <1>3, <2>1, <2>3, <2>4 DEF Fares, Asked, SteadyReader, Inside, Fetching, Opening
  <1>4. CASE ~(Live(umdfd) /\ r.at >= 0) /\ Reopen(t, "seek")
    BY <1>1, <1>2, <1>4, ReopenFares DEF SteadyReader
  <1>5. CASE r.tries = MaxTry /\ FetchFailed(t)
    <2>1. ~Asked(t)
      BY <1>1, <1>2, <1>5 DEF SteadyReader
    <2> QED
      BY <1>5, <2>1, ReturnFares DEF FetchFailed
  <1> QED
    BY <1>3, <1>4, <1>5 DEF RetrySeek

\* With the image open at the right place, what is read is there
LEMMA RetryReadFares ==
  ASSUME MaxTry >= 2, BasicInv, SafeInv, SteadyInv, NEW t \in Readers, t \in steady, RetryRead(t)
  PROVE  Fares(t)
  <1> DEFINE r == req[t]
  <1>1. /\ Inside(t) /\ pc[t] = "read" /\ UNCHANGED umdfile /\ r \in ReqRecord
        /\ r.left \in Int /\ (r.use # "iso" => r.left >= 1)
    BY InsideReads DEF RetryRead, Inside, discVars
  <1>2. Asked(t) => SteadyReader(t) /\ r.left >= 1
    BY <1>1, SteadyFacts
  <1>3. Asked(t) => Live(umdfd) /\ Units(r) >= 0 /\ r.tries = 0
    <2>1. r.use \in {"iso", "index", "next", "stored", "block"}
      BY <1>1 DEF ReqRecord
    <2>2. r.left >= 1 => Units(r) >= 0
      BY <1>1, <2>1, SizesAssumption DEF Units
    <2> QED
      BY <1>1, <1>2, <2>2 DEF SteadyReader
  <1>4. CASE Use(t, Here)
    <2>1. CASE r.use = "iso"
      <3> DEFINE n == InFile(Here, Units(r)) \div 2
                 result == Result(n = 0 \/ (Here = [file |-> umdfile, at |-> 2 * r.lba]
                                            /\ umdfile \notin Cso))
      <3>1. Return(t, result, n)
        BY <1>4, <2>1 DEF Use
      <3>2. result # "failed"
        BY DEF Result
      <3> HIDE DEF n, result
      <3> QED
        BY <3>1, <3>2, ReturnFares
    <2>2. CASE r.use \in {"index", "next"}
      <3> DEFINE l == IF r.use = "index" THEN "word" ELSE "block"
      <3>1. Go(t, l, r) /\ l \in Sectors /\ r.left >= 1
        BY <1>1, <1>4, <2>2 DEF Use, Sectors
      <3> HIDE DEF l
      <3> QED
        BY <3>1, GoFares
    <2>3. CASE r.use = "stored"
      <3> DEFINE right == Here.file = umdfile /\ IsBlock(Here, r.lba, TRUE)
      <3>1. Delivered(t, right)
        BY <1>4, <2>3 DEF Use
      <3> HIDE DEF right
      <3> QED
        BY <1>1, <3>1, DeliveredFares
    <2>4. CASE r.use = "block"
      BY <1>1, <1>4, <2>4, GoFares DEF Use, Sectors
    <2> QED
      BY <1>1, <2>1, <2>2, <2>3, <2>4 DEF ReqRecord
  <1>5. CASE ~(Live(umdfd) /\ Units(r) >= 0) /\ Reopen(t, "read")
    <2>1. ~Asked(t)
      BY <1>3, <1>5
    <2> DEFINE q == [r EXCEPT !.back = "read", !.tries = @ + 1]
    <2>2. q.op = r.op /\ q.lba = r.lba /\ q.left = r.left /\ q.n = r.n
      BY <1>1 DEF ReqRecord
    <2>3. Go(t, "close", q)
      BY <1>5 DEF Reopen
    <2> HIDE DEF q
    <2>4. pc'[t] = "close" /\ req'[t] = q
      BY <2>3 DEF Go, Goto, BasicInv, ReadersInv
    <2> QED
      BY <1>1, <2>1, <2>2, <2>4 DEF Fares, Asked
  <1>6. CASE r.tries = MaxTry /\ FetchFailed(t)
    <2>1. ~Asked(t)
      BY <1>3, <1>6
    <2> QED
      BY <1>6, <2>1, ReturnFares DEF FetchFailed
  <1> QED
    BY <1>4, <1>5, <1>6 DEF RetryRead

LEMMA CisoGetIndexFares ==
  ASSUME BasicInv, SafeInv, SteadyInv, NEW t \in Readers, t \in steady, CisoGetIndex(t)
  PROVE  Fares(t)
  <1> DEFINE r == req[t]
             s == IF pc[t] = "sector" THEN r.lba ELSE r.lba + 1
             use == IF pc[t] = "sector" THEN "index" ELSE "next"
             l == IF pc[t] = "sector" THEN "word" ELSE "block"
             at == 1 + s
  <1>1. /\ Inside(t) /\ pc[t] \in Sectors /\ UNCHANGED umdfile /\ r \in ReqRecord
        /\ r.left >= 1 /\ r.lba \in Int
    BY InsideReads DEF CisoGetIndex, Inside, Sectors, discVars
  <1>2. Asked(t) => r.lba \in 0 .. MaxLength
    BY <1>1, SteadyFacts
  <1>3. Go(t, l, r) \/ Fetch(t, r, use, at)
    BY DEF CisoGetIndex
  <1>4. l \in Sectors /\ at \in Int /\ (Asked(t) => at >= 0)
    BY <1>1, <1>2 DEF Sectors
  <1> HIDE DEF s, use, l, at
  <1>5. CASE Go(t, l, r)
    BY <1>1, <1>4, <1>5, GoFares
  <1>6. CASE Fetch(t, r, use, at)
    BY <1>1, <1>4, <1>6, FetchFares
  <1> QED
    BY <1>3, <1>5, <1>6

LEMMA CisoReadOneFares ==
  ASSUME BasicInv, SafeInv, SteadyInv, NEW t \in Readers, t \in steady, CisoReadOne(t)
  PROVE  Fares(t)
  <1> DEFINE r == req[t]
             p == index.from.at + r.lba - index.cur
  <1>1. /\ Inside(t) /\ pc[t] \in Sectors /\ UNCHANGED umdfile /\ r \in ReqRecord
        /\ r.left >= 1 /\ r.lba \in Int
    BY InsideReads DEF CisoReadOne, Inside, Sectors, discVars
  <1>2. p \in Int
    BY <1>1 DEF BasicInv, TypeOK, Origins, Addresses
  <1>3. PICK w \in Words(index.from.file, p) :
           IF w.stored THEN Fetch(t, r, "stored", w.dpos)
           ELSE Go(t, "next", [r EXCEPT !.dpos = w.dpos])
    BY DEF CisoReadOne
  <1> HIDE DEF p
  <1>4. w.dpos \in Addresses /\ w.stored \in BOOLEAN
    BY <1>2, WordsType
  <1>5. CASE w.stored
    <2>1. w.dpos \in Int /\ w.dpos >= 0 /\ Fetch(t, r, "stored", w.dpos)
      BY <1>3, <1>4, <1>5 DEF Addresses
    <2> QED
      BY <1>1, <2>1, FetchFares
  <1>6. CASE ~w.stored
    <2> DEFINE q == [r EXCEPT !.dpos = w.dpos]
    <2>1. Go(t, "next", q) /\ q.left >= 1
      BY <1>1, <1>3, <1>6 DEF ReqRecord
    <2> HIDE DEF q
    <2> QED
      BY <2>1, GoFares DEF Sectors
  <1> QED
    BY <1>5, <1>6

\* The block that is in the buffer is a deflated one
LEMMA CisoInflateFares ==
  ASSUME BasicInv, SafeInv, SteadyInv, NEW t \in Readers, t \in steady, CisoInflate(t)
  PROVE  Fares(t)
  <1> DEFINE r == req[t]
             ofs == r.dpos - buf.pos
             o == IF ofs < BufSize THEN [buf.from EXCEPT !.at = @ + ofs] ELSE Torn
             right == o.file = umdfile /\ IsBlock(o, r.lba, FALSE)
  <1>1. /\ Inside(t) /\ pc[t] = "block" /\ pc[t] \in Sectors /\ UNCHANGED umdfile
        /\ r \in ReqRecord
    BY DEF CisoInflate, Inside, Sectors, discVars, BasicInv, ReadersInv
  <1>2. r.left >= 1
    BY <1>1, InsideReads
  <1>3. /\ DiscInv(pc[t]) /\ ReaderInv(t) /\ umdfile \in Cso /\ mounted /\ cso /\ BufAgrees
        /\ ~setting
    BY <1>1, SafeReader DEF DiscInv, ReaderInv, Sectors, Kind
  <1>4. CASE Fetch(t, r, "block", r.dpos)
    <2>1. r.dpos \in Int /\ r.dpos >= 0
      BY <1>1 DEF ReqRecord, Addresses
    <2> QED
      BY <1>1, <1>2, <1>4, <2>1, FetchFares
  <1>5. CASE Delivered(t, right)
    <2> HIDE DEF right
    <2> QED
      BY <1>1, <1>5, DeliveredFares
  <1>6. CASE InBuffer(r.dpos) /\ ~IsDeflated(o) /\ Return(t, "failed", 0)
    <2>1. ASSUME Asked(t) PROVE FALSE
      <3>1. Sector(t) /\ Length[umdfile] \in 1 .. MaxLength
        BY <1>1, <2>1, SteadyFacts
      <3>2. /\ r.dpos = BlockAt(t) /\ r.lba \notin Stored /\ r.lba \in 0 .. Length[umdfile] - 1
        BY <1>1, <1>3, <3>1 DEF ReaderInv, Sector
      <3>3. /\ buf.from = [file |-> umdfile, at |-> buf.pos] /\ ofs < BufSize
            /\ buf.pos \in Int /\ r.dpos \in Int
        BY <1>1, <1>3, <1>6, SizesAssumption
           DEF BufAgrees, InBuffer, NoPos, BasicInv, TypeOK, ReqRecord, Addresses
      <3>4. o.file = umdfile /\ o.at = r.dpos
        BY <3>3
      <3> HIDE DEF o
      <3> QED
        BY <1>3, <1>6, <3>1, <3>2, <3>4 DEF IsDeflated, BlockAt
    <2> QED
      BY <1>6, <2>1, ReturnFares
  <1> QED
    BY <1>4, <1>5, <1>6 DEF CisoInflate

LEMMA StepFares ==
  ASSUME MaxTry >= 2, Fds # {}, BasicInv, SafeInv, SteadyInv, NEW t \in Readers, t \in steady,
         Step(t)
  PROVE  Fares(t)
  BY StartFares, ProbeFares, OpeningFares, RetrySeekFares, RetryReadFares, CisoGetIndexFares,
     CisoReadOneFares, CisoInflateFares DEF Step

\* A step of one reader leaves the others where they are
Moves(t) == \A u \in Readers \ {t} : pc'[u] = pc[u] /\ req'[u] = req[u]

LEMMA GotoMoves ==
  ASSUME BasicInv, NEW t \in Readers, NEW l, NEW r, Goto(t, l, r)
  PROVE  Moves(t)
  BY DEF Goto, Moves, BasicInv, ReadersInv

LEMMA PartsMove ==
  ASSUME BasicInv, NEW t \in Readers
  PROVE  /\ \A l, r : Go(t, l, r) => Moves(t)
         /\ \A result, count : Return(t, result, count) => Moves(t)
         /\ \A use, at : Fetch(t, req[t], use, at) => Moves(t)
         /\ \A back : Reopen(t, back) => Moves(t)
         /\ \A right : Delivered(t, right) => Moves(t)
         /\ ReadSectors(t, req[t]) => Moves(t)
         /\ FetchFailed(t) => Moves(t)
         /\ Use(t, Here) => Moves(t)
  <1>1. \A l, r : Go(t, l, r) => Moves(t)
    BY GotoMoves DEF Go
  <1>2. \A result, count : Return(t, result, count) => Moves(t)
    BY GotoMoves DEF Return
  <1>3. \A use, at : Fetch(t, req[t], use, at) => Moves(t)
    BY <1>1 DEF Fetch
  <1>4. \A back : Reopen(t, back) => Moves(t)
    BY <1>1 DEF Reopen
  <1>5. \A right : Delivered(t, right) => Moves(t)
    BY <1>1, <1>2 DEF Delivered
  <1>6. ReadSectors(t, req[t]) => Moves(t)
    BY <1>1, <1>2, <1>3 DEF ReadSectors
  <1>7. FetchFailed(t) => Moves(t)
    BY <1>2 DEF FetchFailed
  <1>8. Use(t, Here) => Moves(t)
    BY <1>1, <1>2, <1>5 DEF Use
  <1> QED
    BY <1>1, <1>2, <1>3, <1>4, <1>5, <1>6, <1>7, <1>8

LEMMA StepMoves ==
  ASSUME BasicInv, NEW t \in Readers, Step(t)
  PROVE  Moves(t) /\ Inside(t) /\ UNCHANGED <<card, steady, setting>>
  <1>1. CASE Start(t)
    BY <1>1, PartsMove DEF Start, Inside
  <1>2. CASE Probe(t)
    BY <1>2, PartsMove, GotoMoves DEF Probe, Inside
  <1>3. CASE OpenIsoClose(t) \/ OpenIso(t)
    BY <1>3, PartsMove DEF OpenIsoClose, OpenIso, Inside
  <1>4. CASE CisoOpen(t) \/ GetDiscSize(t)
    BY <1>4, PartsMove DEF CisoOpen, GetDiscSize, Inside
  <1>5. CASE RetrySeek(t)
    BY <1>5, PartsMove DEF RetrySeek, Inside
  <1>6. CASE RetryRead(t)
    BY <1>6, PartsMove DEF RetryRead, Inside
  <1>7. CASE CisoGetIndex(t)
    BY <1>7, PartsMove DEF CisoGetIndex, Inside
  <1>8. CASE CisoReadOne(t)
    BY <1>8, PartsMove DEF CisoReadOne, Inside
  <1>9. CASE CisoInflate(t)
    BY <1>9, PartsMove DEF CisoInflate, Inside
  <1> QED
    BY <1>1, <1>2, <1>3, <1>4, <1>5, <1>6, <1>7, <1>8, <1>9 DEF Step

LEMMA EnterSteady ==
  ASSUME BasicInv, SafeInv, SteadyInv, NEW t \in Readers, Call(t) \/ Lock(t), ~misled'
  PROVE  SteadyInv' /\ pc'[t] # "idle" /\ Moves(t)
  <1>1. Enter(t) /\ UNCHANGED <<card, umdfile>>
    BY DEF Call, Lock, UmdOpen, UmdRead, discVars
  <1>2. \A u \in Readers \ {t} : ~Inside(u)
    <2>1. ~Overlapped(t)
      BY <1>1, Zenon DEF Enter
    <2> QED
      BY <2>1 DEF Overlapped
  <1>3. /\ Moves(t) /\ pc'[t] # "idle"
        /\ Asked(t)' => pc'[t] = "start" /\ req'[t].left = req'[t].n /\ req'[t].tries = 0
        /\ req'[t].left \in Int
    <2>1. CASE Call(t)
      <3>1. PICK lba \in 0 .. MaxLength - 1 : \E n \in 1 .. MaxLength :
               lba + n <= MaxLength /\ Go(t, "start", Read(lba, n))
        BY <2>1 DEF Call
      <3>2. PICK n \in 1 .. MaxLength : Go(t, "start", Read(lba, n))
        BY <3>1
      <3>3. lba \in -1 .. MaxLength + 2 /\ n \in -MaxLength - 2 .. MaxLength + 2
        BY LengthAssumption
      <3>4. pc'[t] = "start" /\ req'[t] = Read(lba, n)
        BY <3>2 DEF Go, Goto, BasicInv, ReadersInv
      <3> QED
        BY <3>2, <3>3, <3>4, ReadReq, PartsMove
    <2>2. CASE UmdOpen(t)
      <3>1. /\ pc'[t] = "probe" /\ req'[t] = req[t] /\ req[t].op = "open" /\ Moves(t)
            /\ req[t] \in ReqRecord
        BY <2>2, GotoMoves DEF UmdOpen, Goto, BasicInv, ReadersInv
      <3> QED
        BY <3>1 DEF Asked, ReqRecord
    <2>3. CASE UmdRead(t)
      <3> DEFINE n == req[t].n
                 m == IF discpointer + n > discsize THEN discsize - discpointer ELSE n
      <3>1. Good(t, pc[t], req[t], discpointer) /\ Goto(t, "start", Read(discpointer, m))
        BY <2>3 DEF UmdRead, BasicInv, ReadersInv
      <3>2. /\ discsize \in -1 .. MaxLength + 1 /\ discpointer \in -1 .. MaxLength + 1
            /\ MaxLength \in Nat /\ n \in 1 .. MaxLength
        BY <2>3, <3>1, LengthAssumption DEF UmdRead, Good, BasicInv, TypeOK
      <3>3. m \in -MaxLength - 2 .. MaxLength + 2 /\ discpointer \in -1 .. MaxLength + 2
        BY <3>2
      <3> HIDE DEF m
      <3>4. pc'[t] = "start" /\ req'[t] = Read(discpointer, m)
        BY <3>1 DEF Goto, BasicInv, ReadersInv
      <3> QED
        BY <3>1, <3>3, <3>4, ReadReq, GotoMoves
    <2> QED
      BY <2>1, <2>2, <2>3 DEF Lock
  <1>4. steady' # {} => card'
    BY <1>1 DEF Enter, SteadyInv
  <1>5. ASSUME NEW u \in steady', Inside(u)', Asked(u)' PROVE SteadyReader(u)'
    <2>1. u = t
      <3>1. u \in Readers
        BY <1>1 DEF Enter, BasicInv, TypeOK
      <3> QED
        BY <1>2, <1>3, <1>5, <3>1 DEF Inside, Moves
    <2>2. req'[t].n > 0
      BY <1>5, <2>1 DEF Asked
    <2> QED
      BY <1>3, <1>5, <2>1, <2>2 DEF SteadyReader, Fetching, Opening
  <1> QED
    BY <1>3, <1>4, <1>5 DEF SteadyInv

LEMMA NextSteady ==
  ASSUME MaxTry >= 2, Fds # {}, BasicInv, SafeInv, SteadyInv, [Next]_vars, ~misled'
  PROVE  SteadyInv'
  <1>1. ASSUME NEW t \in Readers, Step(t) PROVE SteadyInv'
    <2>1. Moves(t) /\ Inside(t) /\ UNCHANGED <<card, steady, setting>>
      BY <1>1, StepMoves
    <2>2. \A u \in Readers \ {t} : ~Inside(u)'
      BY <2>1, SafeReader DEF Moves, Inside
    <2>3. t \in steady /\ Inside(t)' /\ Asked(t)' => SteadyReader(t)'
      BY <1>1, StepFares DEF Fares
    <2> QED
      BY <2>1, <2>2, <2>3 DEF SteadyInv, BasicInv, TypeOK
  <1>2. ASSUME NEW t \in Readers, UmdCall(t) PROVE SteadyInv'
    <2>1. UNCHANGED <<card, steady, umdfile, umdfd, fds>> /\ Moves(t) /\ pc[t] = "idle" /\ pc'[t] = "lock"
      BY <1>2, PartsMove DEF UmdCall, discVars, Go, Goto, BasicInv, ReadersInv
    <2>2. ASSUME NEW u \in steady, Inside(u)', Asked(u)' PROVE SteadyReader(u)'
      <3>1. u \in Readers \ {t}
        BY <2>1, <2>2 DEF Inside, BasicInv, TypeOK
      <3>2. pc'[u] = pc[u] /\ req'[u] = req[u] /\ Inside(u) /\ Asked(u) /\ SteadyReader(u)
        BY <2>1, <2>2, <3>1 DEF Moves, Inside, Asked, SteadyInv
      <3> QED
        BY <2>1, <3>2 DEF SteadyReader, Fetching, Live
    <2> QED
      BY <2>1, <2>2 DEF SteadyInv
  <1>3. CASE SetUmdFile
    <2>1. \A u \in Readers : ~Inside(u)'
      <3>1. \A t \in Readers : ~Inside(t)
        BY <1>3, Zenon DEF SetUmdFile
      <3> QED
        BY <1>3, <3>1 DEF SetUmdFile, Inside
    <2> QED
      BY <1>3, <2>1 DEF SetUmdFile, SteadyInv, BasicInv, TypeOK
  <1>4. CASE SetUmdFileEnd
    <2>1. \A u \in Readers : ~Inside(u)'
      BY <1>4 DEF SetUmdFileEnd, Inside, SafeInv, Alone
    <2> QED
      BY <1>4, <2>1 DEF SetUmdFileEnd, SteadyInv, BasicInv, TypeOK
  <1>5. CASE Eject \/ Insert
    <2>1. steady' = {}
      BY <1>5 DEF Eject, Insert, SteadyInv
    <2> QED
      BY <2>1 DEF SteadyInv
  <1>6. CASE UNCHANGED <<card, steady, umdfile, umdfd, fds, pc, req>>
    BY <1>6 DEF SteadyInv, SteadyReader, Inside, Asked, Fetching, Live
  <1> QED
    BY <1>1, <1>2, <1>3, <1>4, <1>5, <1>6, EnterSteady
       DEF Next, UmdLseek, vars, discVars

\* Only its own step takes a reader out
LEMMA OwnStep ==
  ASSUME BasicInv, SafeInv, SteadyInv, [Next]_vars, ~misled', NEW t \in Readers,
         pc[t] # "idle", pc'[t] = "idle"
  PROVE  Step(t)
  <1>1. ASSUME NEW u \in Readers, Step(u) PROVE u = t
    BY <1>1, StepMoves DEF Moves
  <1>2. ASSUME NEW u \in Readers, UmdCall(u) PROVE FALSE
    <2>1. Moves(u) /\ pc'[u] = "lock"
      BY <1>2, PartsMove DEF UmdCall, Go, Goto, BasicInv, ReadersInv
    <2> QED
      BY <2>1 DEF Moves
  <1>3. ASSUME NEW u \in Readers, Call(u) \/ Lock(u) PROVE FALSE
    BY <1>3, EnterSteady DEF Moves
  <1>4. ~UNCHANGED pc
    OBVIOUS
  <1> QED
    BY <1>1, <1>2, <1>3, <1>4
       DEF Next, UmdLseek, SetUmdFile, SetUmdFileEnd, Eject, Insert, vars

\* A read of sectors that exist does not fail if the stick is in from its
\* beginning to its end, whatever state earlier removals have left: given two
\* tries (16 in the code) and a descriptor.
\* (ReadUmdFileRetry, OpenIso, Umd9660ReadSectors)
THEOREM SpecReadsRecover ==
  ASSUME MaxTry >= 2, Fds # {}
  PROVE  Spec => ReadsRecover
  <1> DEFINE I == IInv /\ (~misled => SteadyInv)
             A == \A t \in Readers :
                     pc[t] # "idle" /\ pc'[t] = "idle" /\ res'[t] = "failed" /\ ~misled' =>
                        \/ t \notin steady
                        \/ req[t].op # "read"
                        \/ req[t].n <= 0 \/ req[t].lba \notin 0 .. Length[umdfile] - req[t].left
  <1>1. Init => I
    <2>1. Init => SteadyInv
      BY DEF Init, SteadyInv
    <2> QED
      BY <2>1, InitBasic, InitSafe DEF IInv
  <1>2. I /\ [Next]_vars => I'
    BY NextBasic, NextSafe, NotMisled, NextSteady DEF IInv
  <1>3. I /\ [Next]_vars => A
    <2> SUFFICES ASSUME I, [Next]_vars, ~misled', NEW t \in Readers, t \in steady,
                        pc[t] # "idle", pc'[t] = "idle", res'[t] = "failed", req[t].op = "read",
                        ~(req[t].n <= 0), req[t].lba \in 0 .. Length[umdfile] - req[t].left
                 PROVE  FALSE
      OBVIOUS
    <2>1. BasicInv /\ SafeInv /\ SteadyInv
      BY NotMisled DEF IInv
    <2>2. Step(t)
      BY <2>1, OwnStep
    <2>3. Asked(t)
      BY <2>1 DEF Asked, BasicInv, ReadersInv, ReqRecord
    <2>4. Fares(t)
      BY <2>1, <2>2, StepFares
    <2> QED
      BY <2>3, <2>4 DEF Fares, Inside
  <1> QED
    BY <1>1, <1>2, <1>3, PTL DEF Spec, ReadsRecover

=============================================================================
