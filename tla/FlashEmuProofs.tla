--------------------------- MODULE FlashEmuProofs ---------------------------
(***************************************************************************)
(* What FlashEmu promises, for any number of clients, slots, descriptors   *)
(* and files, in three parts, each on the invariant of the one before:     *)
(*                                                                         *)
(*   types      every variable keeps its type (TypeInv)                    *)
(*   safety     while the table is used under the lock, one thread at a    *)
(*              time is between Lock and UnLock, every open slot has a     *)
(*              live descriptor of its own, open on the file of the slot,  *)
(*              and no two handles share a slot (IInv)                     *)
(*   positions  the position of a handle is kept by evictions, reopens and *)
(*              suspends, a reopen truncates nothing, and a suspend leaves *)
(*              no regular file open (PInv)                                *)
(***************************************************************************)
EXTENDS FlashEmu, TLAPS

\* The paths a request and a slot carry are file names once they are in use
PathInv ==
    /\ \A c \in Clients : req[c].op # "none" => req[c].path \in Paths
    /\ \A s \in Slots : emu_files[s].allocated => emu_files[s].path \in Paths

\* A request on a handle is made with a handle, an open without one, and the
\* suspend handler closes a descriptor only while it is at a slot
ShapeInv ==
    /\ \A c \in Clients :
          /\ req[c].op \in HandleOps => iob[c] \in Slots
          /\ req[c].op = "open" => iob[c] = NoSlot
          /\ pc[c] \notin {"idle", "lock"} /\ req[c].op \in HandleOps => req[c].slot = iob[c]
          /\ pc[c] \notin {"idle", "lock"} /\ req[c].op = "open" => req[c].slot \in Slots
          /\ pc[c] = "idle" <=> req[c].op = "none"
          /\ pc[c] = "seek" => req[c].op \in HandleOps
          /\ pc[c] \in {"wait", "hook", "hookclose"} => req[c].op \in HandleOps \cup {"open", "path"}
          /\ \/ pc[c] \in {"open", "evict"}
             \/ pc[c] \in {"hook", "hookclose"} /\ req[c].back = "open"
             => req[c].op \in HandleOps \cup {"open"}
    /\ frzFd # NoFd => frz \in Slots

\* The inductive invariant of type correctness
TypeInv == TypeOK /\ PathInv /\ ShapeInv

-----------------------------------------------------------------------------

(* Updates of the descriptor table, of a slot and of a thread's locals     *)
(* keep their types.                                                       *)

LEMMA FdTableType ==
  ASSUME TypeOK, NEW f
  PROVE  /\ Shut(f) \in [Fds -> FdRecord]
         /\ Tell(f) \in BadOff .. MaxSize
         /\ \A n \in BadOff .. MaxSize : Sought(f, n) \in [Fds -> FdRecord]
         /\ \A p \in Paths \cup {NoFile, AppFile} : Opened(f, p) \in [Fds -> FdRecord]
  <1>1. Shut(f) \in [Fds -> FdRecord] /\ Tell(f) \in BadOff .. MaxSize
    BY SizeAssumption DEF TypeOK, Shut, Tell, Live, FdRecord, BadOff
  <1>2. ASSUME NEW n \in BadOff .. MaxSize PROVE Sought(f, n) \in [Fds -> FdRecord]
    <2>1. n # BadOff => n \in 0 .. MaxSize
      BY SizeAssumption DEF BadOff
    <2>2. n \in 0 .. MaxSize /\ f \in Fds => [msfd EXCEPT ![f].pos = n] \in [Fds -> FdRecord]
      BY DEF TypeOK, FdRecord
    <2>3. CASE Live(f) /\ n # BadOff
      BY <2>1, <2>2, <2>3 DEF Sought, Live
    <2>4. CASE ~(Live(f) /\ n # BadOff)
      BY <2>4 DEF Sought, TypeOK
    <2> QED
      BY <2>3, <2>4
  <1>3. ASSUME NEW p \in Paths \cup {NoFile, AppFile} PROVE Opened(f, p) \in [Fds -> FdRecord]
    <2>1. [file |-> p, pos |-> 0] \in FdRecord
      BY SizeAssumption DEF FdRecord
    <2> QED
      BY <2>1 DEF TypeOK, Opened
  <1> QED
    BY <1>1, <1>2, <1>3

LEMMA NoReqType == NoReq \in ReqRecord
  BY DEF ReqRecord, NoReq, Ops, Modes

-----------------------------------------------------------------------------
(* Type correctness.                                                       *)

\* The initial state has the type
LEMMA TypeInvInit == Init => TypeInv
  <1> SUFFICES ASSUME Init PROVE TypeInv
    OBVIOUS
  <1>1. emu_files \in [Slots -> SlotRecord] /\ req \in [Threads -> ReqRecord]
    BY SizeAssumption DEF Init, FreshSlot, NoReq, SlotRecord, ReqRecord, Modes, Ops, BadOff
  <1>2. msfd \in [Fds -> FdRecord] /\ size \in [Paths -> Absent .. MaxSize]
    BY SizeAssumption DEF Init, FdRecord, Absent
  <1>3. TypeOK
    <2>1. frz \in -1 .. NSlots /\ suspends \in 0 .. MaxSuspends
      BY SlotsAssumption, SizeAssumption DEF Init
    <2>2. pc \in [Threads -> Labels]
      BY DEF Init, Labels
    <2> QED
      BY <1>1, <1>2, <2>1, <2>2 DEF Init, TypeOK
  <1>4. PathInv /\ ShapeInv
    BY DEF Init, PathInv, ShapeInv, NoReq, FreshSlot, HandleOps, Threads
  <1> QED
    BY <1>3, <1>4 DEF TypeInv

\* Every step of a request keeps the type
LEMMA TypeOKRequest ==
  ASSUME TypeInv, NEW c \in Clients, Call(c) \/ Enter(c) \/ Request(c)
  PROVE  TypeOK'
  <1>0. c \in Threads /\ TypeOK /\ req[c] \in ReqRecord
    BY DEF Threads, TypeInv, TypeOK
  <1> USE <1>0 DEF Goto, Return, Labels, slotVars, lockVars, msVars, sysVars
  <1>1. CASE Call(c)
    <2>1. PICK op \in Requests, n \in Names, m \in OpenFlags :
             req' = [req EXCEPT ![c] = [NoReq EXCEPT !.op = op, !.path = <<n, "DC9">>, !.flags = m]]
      BY <1>1 DEF Call
    <2>2. op \in Ops /\ <<n, "DC9">> \in Paths /\ m \in Modes
      BY FlagsAssumption DEF Ops, HandleOps, Paths, Dirs, Modes
    <2>3. [NoReq EXCEPT !.op = op, !.path = <<n, "DC9">>, !.flags = m] \in ReqRecord
      BY <2>2, NoReqType DEF ReqRecord
    <2> QED
      BY <1>1, <2>1, <2>3 DEF Call, TypeOK
  <1>2. CASE EnterOpen(c)
    <2>1. req' \in [Threads -> ReqRecord]
      BY <1>2, NoReqType DEF EnterOpen, TypeOK, ReqRecord
    <2> QED
      BY <1>2, <2>1 DEF EnterOpen, Lock, TypeOK
  <1>3. CASE EnterHandle(c)
    <2>1. iob[c] \in Slots
      BY <1>3 DEF EnterHandle, TypeInv, ShapeInv
    <2>2. emu_files[iob[c]] \in SlotRecord
      BY <2>1 DEF TypeOK
    <2>3. [req[c] EXCEPT !.slot = iob[c], !.fd = emu_files[iob[c]].fd,
              !.path = emu_files[iob[c]].path, !.flags = emu_files[iob[c]].flags] \in ReqRecord
      BY <2>1, <2>2 DEF SlotRecord, ReqRecord
    <2>4. req' \in [Threads -> ReqRecord]
      BY <1>3, <2>3, NoReqType DEF EnterHandle, TypeOK
    <2> QED
      BY <1>3, <2>4 DEF EnterHandle, Lock, TypeOK
  <1>4. CASE EnterPath(c)
    BY <1>4 DEF EnterPath, Lock, TypeOK
  <1>5. CASE Ioctl(c)
    <2>1. req' \in [Threads -> ReqRecord]
      BY <1>5, NoReqType DEF Ioctl, TypeOK
    <2> QED
      BY <1>5, <2>1 DEF Ioctl, Lock, TypeOK
  <1>6. CASE WaitMS(c)
    <2>1. req' \in [Threads -> ReqRecord]
      <3>1. req' = req \/ req' = [req EXCEPT ![c].back = "wait"]
        BY <1>6 DEF WaitMS
      <3>2. \A r \in ReqRecord : [r EXCEPT !.back = "wait"] \in ReqRecord
        BY DEF ReqRecord
      <3> QED
        BY <3>1, <3>2 DEF TypeOK
    <2> QED
      BY <1>6, <2>1 DEF WaitMS, AfterWait, TypeOK
  <1>7. CASE SlotOpenOk(c)
    <2> DEFINE r == req[c]
    <2>1. PICK f \in FreeFds : SlotOpenOk(c) /\ msfd' = Opened(f, r.path)
             /\ emu_files' = [emu_files EXCEPT ![r.slot] =
                    [@ EXCEPT !.allocated = TRUE, !.closed = FALSE, !.fd = f,
                              !.path = r.path, !.flags = r.flags]]
             /\ (req' = [req EXCEPT ![c].fd = f] \/ req' = [req EXCEPT ![c] = NoReq])
      BY <1>7 DEF SlotOpenOk
    <2>2. f \in Fds
      BY DEF FreeFds
    <2>3. \A e \in SlotRecord :
             [e EXCEPT !.allocated = TRUE, !.closed = FALSE, !.fd = f,
                       !.path = r.path, !.flags = r.flags] \in SlotRecord
      BY <2>2 DEF SlotRecord, ReqRecord
    <2>4. emu_files' \in [Slots -> SlotRecord]
      BY <2>1, <2>3 DEF TypeOK
    <2>5. req' \in [Threads -> ReqRecord]
      <3>1. \A q \in ReqRecord : [q EXCEPT !.fd = f] \in ReqRecord
        BY <2>2 DEF ReqRecord
      <3> QED
        BY <2>1, <3>1, NoReqType DEF TypeOK
    <2>6. msfd' \in [Fds -> FdRecord]
      BY <2>1, <2>2, FdTableType DEF ReqRecord
    <2>7. size' \in [Paths -> Absent .. MaxSize]
      <3>1. size' = SizeAfterOpen(r.path, r.flags)
        BY <2>1 DEF SlotOpenOk
      <3>2. 0 \in Absent .. MaxSize
        BY SizeAssumption DEF Absent
      <3> QED
        BY <3>1, <3>2 DEF SizeAfterOpen, TypeOK
    <2>8. iob' \in [Clients -> Slots \cup {NoSlot}]
      BY <2>1 DEF SlotOpenOk, TypeOK, ReqRecord
    <2> QED
      BY <2>1, <2>4, <2>5, <2>6, <2>7, <2>8 DEF SlotOpenOk, UnLock, TypeOK
  <1>8. CASE SlotOpenFail(c)
    <2>1. req[c].op = "open" => <<req[c].path[1], "variant">> \in Paths
      BY DEF TypeInv, PathInv, Paths, Dirs
    <2>2. req' \in [Threads -> ReqRecord]
      <3>1. CASE req[c].op = "open" /\ req[c].path[2] = "DC9"
        <4>1. \A q \in ReqRecord :
                 [q EXCEPT !.path = <<req[c].path[1], "variant">>] \in ReqRecord
          BY <2>1, <3>1 DEF ReqRecord
        <4> QED
          BY <1>8, <3>1, <4>1 DEF SlotOpenFail, TypeOK
      <3>2. CASE ~(req[c].op = "open" /\ req[c].path[2] = "DC9")
        BY <1>8, <3>2, NoReqType DEF SlotOpenFail, TypeOK
      <3> QED
        BY <3>1, <3>2
    <2> QED
      BY <1>8, <2>2 DEF SlotOpenFail, UnLock, TypeOK
  <1>9. CASE SlotOpenFull(c)
    <2>1. CASE req' = [req EXCEPT ![c].back = "open"] /\ UNCHANGED emu_files
      <3>1. req' \in [Threads -> ReqRecord]
        BY <2>1 DEF TypeOK, ReqRecord
      <3> QED
        BY <1>9, <2>1, <3>1 DEF SlotOpenFull, TypeOK
    <2>2. ASSUME NEW v \in Slots,
                 emu_files' = [emu_files EXCEPT ![v].offset = Tell(emu_files[v].fd)],
                 req' = [req EXCEPT ![c] = [@ EXCEPT !.victim = v, !.fd = emu_files[v].fd]]
          PROVE  TypeOK'
      <3>0. Tell(emu_files[v].fd) \in BadOff .. MaxSize
        BY FdTableType
      <3>1. emu_files' \in [Slots -> SlotRecord]
        BY <2>2, <3>0 DEF TypeOK, SlotRecord
      <3>2. req' \in [Threads -> ReqRecord]
        BY <2>2 DEF TypeOK, ReqRecord, SlotRecord
      <3> QED
        BY <1>9, <3>1, <3>2 DEF SlotOpenFull, TypeOK
    <2> QED
      BY <1>9, <2>1, <2>2 DEF SlotOpenFull
  <1>10. CASE Evict(c)
    <2>1. emu_files' \in [Slots -> SlotRecord]
      <3>1. \A e \in SlotRecord : [e EXCEPT !.closed = TRUE] \in SlotRecord
        BY DEF SlotRecord
      <3> QED
        BY <1>10, <3>1 DEF Evict, TypeOK
    <2> QED
      BY <1>10, <2>1, FdTableType DEF Evict, TypeOK
  <1>11. CASE Reseek(c)
    <2>1. req[c].fd \in Fds \cup {NoFd}
      BY DEF ReqRecord
    <2>2. \A e \in SlotRecord : [e EXCEPT !.fd = req[c].fd, !.closed = FALSE] \in SlotRecord
      BY <2>1 DEF SlotRecord
    <2>3. emu_files' \in [Slots -> SlotRecord]
      BY <1>11, <2>2 DEF Reseek, TypeOK
    <2>4. req[c].slot \in Slots
      BY <1>11 DEF TypeInv, ShapeInv, Reseek
    <2>5. emu_files[req[c].slot].offset \in BadOff .. MaxSize
      BY <2>4 DEF TypeOK, SlotRecord
    <2>6. msfd' \in [Fds -> FdRecord]
      BY <1>11, <2>5, FdTableType DEF Reseek
    <2> QED
      BY <1>11, <2>3, <2>6 DEF Reseek, TypeOK
  <1>12. CASE Transfer(c)
    <2> DEFINE f == req[c].fd
    <2>1. req' \in [Threads -> ReqRecord]
      BY <1>12, NoReqType DEF Transfer, TypeOK
    <2>2. CASE UNCHANGED msVars
      BY <1>12, <2>1, <2>2 DEF Transfer, UnLock, TypeOK
    <2>3. ASSUME NEW n \in 0 .. MaxSize, Live(f),
                 msfd' = [msfd EXCEPT ![f].pos = n],
                 size' \in {size, [size EXCEPT ![msfd[f].file] = n]}
          PROVE  TypeOK'
      <3>1. msfd' \in [Fds -> FdRecord]
        BY <2>3 DEF Live, TypeOK, FdRecord
      <3>2. n \in Absent .. MaxSize
        BY SizeAssumption DEF Absent
      <3>3. size' \in [Paths -> Absent .. MaxSize]
        BY <2>3, <3>2 DEF TypeOK
      <3> QED
        BY <1>12, <2>1, <3>1, <3>3 DEF Transfer, UnLock, TypeOK
    <2>4. ASSUME Live(f), msfd[f].pos < MaxSize
          PROVE  msfd[f].pos + 1 \in 0 .. MaxSize
      BY <2>4, SizeAssumption DEF Live, TypeOK, FdRecord
    <2>5. CASE req[c].op = "lseek" /\ ~UNCHANGED msVars
      BY <1>12, <2>3, <2>5 DEF Transfer
    <2>6. CASE req[c].op # "lseek" /\ ~UNCHANGED msVars
      BY <1>12, <2>3, <2>4, <2>6 DEF Transfer
    <2> QED
      BY <2>2, <2>5, <2>6
  <1>13. CASE Close(c)
    <2>1. req' \in [Threads -> ReqRecord] /\ iob' \in [Clients -> Slots \cup {NoSlot}]
      BY <1>13, NoReqType DEF Close, TypeOK
    <2>2. \A e \in SlotRecord : [e EXCEPT !.allocated = FALSE] \in SlotRecord
      BY DEF SlotRecord
    <2>3. emu_files' \in [Slots -> SlotRecord] /\ msfd' \in [Fds -> FdRecord]
      BY <1>13, <2>2, FdTableType DEF Close, TypeOK
    <2> QED
      BY <1>13, <2>1, <2>3 DEF Close, UnLock, TypeOK
  <1>14. CASE PathIo(c)
    <2>1. req' \in [Threads -> ReqRecord] /\ size' \in [Paths -> Absent .. MaxSize]
      BY <1>14, NoReqType, SizeAssumption DEF PathIo, TypeOK, Absent
    <2> QED
      BY <1>14, <2>1 DEF PathIo, UnLock, TypeOK
  <1> QED
    BY <1>1, <1>2, <1>3, <1>4, <1>5, <1>6, <1>7, <1>8, <1>9, <1>10, <1>11, <1>12, <1>13, <1>14
    DEF Enter, Request

\* The other threads keep the type
LEMMA TypeOKOther ==
  ASSUME TypeInv,
         \/ \E t \in Threads : Hook(t)
         \/ \E a \in Apps : AppCall(a) \/ AppOpen(a) \/ AppClose(a)
         \/ System
  PROVE  TypeOK'
  <1>0. TypeOK
    BY DEF TypeInv
  <1> USE <1>0 DEF Goto, Return, slotVars, lockVars, msVars, sysVars
  <1>1. ASSUME NEW t \in Threads, SlotCloseOneReadOnly(t) PROVE TypeOK'
    <2>1. ASSUME NEW v \in Slots,
                 emu_files' = [emu_files EXCEPT ![v] =
                     [@ EXCEPT !.offset = Tell(emu_files[v].fd), !.closed = TRUE]],
                 req' = [req EXCEPT ![t].fd = emu_files[v].fd]
          PROVE  TypeOK'
      <3>1. emu_files' \in [Slots -> SlotRecord]
        <4>1. Tell(emu_files[v].fd) \in BadOff .. MaxSize
          BY FdTableType
        <4>2. \A e \in SlotRecord :
                 [e EXCEPT !.offset = Tell(emu_files[v].fd), !.closed = TRUE] \in SlotRecord
          BY <4>1 DEF SlotRecord
        <4> QED
          BY <2>1, <4>2 DEF TypeOK
      <3>2. req' \in [Threads -> ReqRecord]
        <4>1. emu_files[v].fd \in Fds \cup {NoFd}
          BY DEF TypeOK, SlotRecord
        <4>2. \A r \in ReqRecord : [r EXCEPT !.fd = emu_files[v].fd] \in ReqRecord
          BY <4>1 DEF ReqRecord
        <4> QED
          BY <2>1, <4>2 DEF TypeOK
      <3>3. pc' \in [Threads -> Labels]
        <4>1. req[t].back \in Labels
          BY DEF TypeOK, Labels, ReqRecord
        <4> QED
          BY <1>1, <4>1 DEF SlotCloseOneReadOnly, TypeOK, Labels
      <3> QED
        BY <1>1, <3>1, <3>2, <3>3 DEF SlotCloseOneReadOnly, Lock, TypeOK
    <2>2. CASE UNCHANGED <<lockVars, emu_files>> /\ Return(t)
      BY <1>1, <2>2, NoReqType DEF SlotCloseOneReadOnly, TypeOK, Labels
    <2>3. CASE UNCHANGED <<lockVars, emu_files, req>> /\ Goto(t, req[t].back)
      <3>1. pc' \in [Threads -> Labels]
        BY <2>3 DEF TypeOK, Labels, ReqRecord
      <3> QED
        BY <1>1, <2>3, <3>1 DEF SlotCloseOneReadOnly, TypeOK
    <2> QED
      BY <1>1, <2>1, <2>2, <2>3 DEF SlotCloseOneReadOnly
  <1>2. ASSUME NEW t \in Threads, HookClose(t) PROVE TypeOK'
    <2>1. pc' \in [Threads -> Labels]
      BY <1>2 DEF HookClose, TypeOK, ReqRecord, Labels
    <2> QED
      BY <1>2, <2>1, FdTableType DEF HookClose, UnLock, TypeOK
  <1>3. ASSUME NEW a \in Apps, AppCall(a) \/ AppOpen(a) \/ AppClose(a) PROVE TypeOK'
    <2>1. a \in Threads
      BY DEF Threads
    <2>2. pc' \in [Threads -> Labels] /\ req' \in [Threads -> ReqRecord]
      BY <1>3, <2>1, NoReqType DEF AppCall, AppOpen, AppClose, TypeOK, Labels
    <2>3. msfd' \in [Fds -> FdRecord]
      <3>1. CASE AppCall(a)
        BY <3>1 DEF AppCall, TypeOK
      <3>2. CASE AppOpen(a)
        <4>1. msfd' = msfd \/ \E f \in FreeFds : msfd' = Opened(f, AppFile)
          BY <3>2 DEF AppOpen
        <4>2. \A f \in FreeFds : Opened(f, AppFile) \in [Fds -> FdRecord]
          BY FdTableType
        <4>3. msfd \in [Fds -> FdRecord]
          BY DEF TypeOK
        <4> QED
          BY <4>1, <4>2, <4>3
      <3>3. CASE AppClose(a)
        BY <3>3, FdTableType DEF AppClose, TypeOK
      <3> QED
        BY <1>3, <3>1, <3>2, <3>3
    <2> QED
      BY <1>3, <2>2, <2>3 DEF AppCall, AppOpen, AppClose, TypeOK
  <1>4. CASE SceLfatfsAssign \/ OnModuleStart \/ CardReady \/ PreareRebootFlashEmu
    BY <1>4 DEF SceLfatfsAssign, OnModuleStart, CardReady, PreareRebootFlashEmu, TypeOK
  <1>5. CASE SuspendStart
    BY <1>5, SlotsAssumption, SizeAssumption DEF SuspendStart, TypeOK
  <1>6. CASE SuspendSlot
    <2>1. emu_files[frz] \in SlotRecord /\ frz \in Slots
      BY <1>6 DEF SuspendSlot, TypeOK
    <2>2. Tell(emu_files[frz].fd) \in BadOff .. MaxSize
      BY FdTableType
    <2>3. [emu_files[frz] EXCEPT !.offset = Tell(emu_files[frz].fd), !.closed = TRUE] \in SlotRecord
      BY <2>1, <2>2 DEF SlotRecord
    <2>4. emu_files' \in [Slots -> SlotRecord]
      BY <1>6, <2>3 DEF SuspendSlot, TypeOK
    <2>5. frz + 1 \in -1 .. NSlots /\ frz \in -1 .. NSlots
      BY <2>1, SlotsAssumption DEF Slots
    <2>6. emu_files[frz].fd \in Fds \cup {NoFd}
      BY <2>1 DEF SlotRecord
    <2>7. frz' \in -1 .. NSlots
      BY <1>6, <2>5 DEF SuspendSlot
    <2>8. frzFd' \in Fds \cup {NoFd}
      BY <1>6, <2>6 DEF SuspendSlot, TypeOK
    <2> QED
      BY <1>6, <2>4, <2>7, <2>8 DEF SuspendSlot, TypeOK
  <1>7. CASE SuspendClose
    <2>1. frz' \in -1 .. NSlots
      BY <1>7, SlotsAssumption DEF SuspendClose, TypeInv, ShapeInv, Slots
    <2> QED
      BY <1>7, <2>1, FdTableType DEF SuspendClose, TypeOK
  <1>8. CASE Resume
    <2>1. frz' \in -1 .. NSlots
      BY <1>8, SlotsAssumption DEF Resume
    <2> QED
      BY <1>8, <2>1 DEF Resume, TypeOK
  <1> QED
    BY <1>1, <1>2, <1>3, <1>4, <1>5, <1>6, <1>7, <1>8 DEF Hook, System, Suspend

-----------------------------------------------------------------------------
(* The paths and the shapes of the locals.                                 *)

LEMMA ShapeRequest ==
  ASSUME TypeInv, NEW c \in Clients, Call(c) \/ Enter(c) \/ Request(c)
  PROVE  PathInv' /\ ShapeInv'
  <1>0. /\ c \in Threads /\ Clients \subseteq Threads /\ NoSlot \notin Slots
        /\ TypeOK /\ PathInv /\ ShapeInv
    BY SlotsAssumption DEF Threads, TypeInv, Slots, NoSlot
  <1> USE <1>0 DEF Goto, Return, NoReq, HandleOps, slotVars, lockVars, msVars, sysVars
  <1>1. CASE Call(c)
    <2> HIDE DEF NoReq, HandleOps
    <2>1. PICK op \in Requests, n \in Names, m \in OpenFlags :
             /\ req' = [req EXCEPT ![c] =
                           [NoReq EXCEPT !.op = op, !.path = <<n, "DC9">>, !.flags = m]]
             /\ MayCall(c, op, n, m)
      BY <1>1 DEF Call
    <2>6. (op = "open" => iob[c] = NoSlot) /\ (op \in HandleOps => iob[c] # NoSlot)
      BY <2>1 DEF MayCall, HandleOps
    <2>2. op # "none" /\ <<n, "DC9">> \in Paths
      <3>1. op # "none"
        BY FlagsAssumption
      <3>2. <<n, "DC9">> \in Paths
        BY DEF Paths, Dirs
      <3> QED
        BY <3>1, <3>2
    <2>3. /\ req'[c].op = op /\ req'[c].path = <<n, "DC9">> /\ pc'[c] = "lock"
          /\ \A d \in Clients \ {c} : req'[d] = req[d] /\ pc'[d] = pc[d]
      <3>1. NoReq \in ReqRecord
        BY NoReqType
      <3>2. [NoReq EXCEPT !.op = op, !.path = <<n, "DC9">>, !.flags = m].op = op
        BY <3>1 DEF ReqRecord
      <3>3. [NoReq EXCEPT !.op = op, !.path = <<n, "DC9">>, !.flags = m].path = <<n, "DC9">>
        BY <3>1 DEF ReqRecord
      <3> QED
        BY <1>1, <2>1, <3>2, <3>3 DEF Call, TypeOK
    <2>4. UNCHANGED <<emu_files, iob, frz, frzFd>>
      BY <1>1 DEF Call
    <2>5. iob[c] # NoSlot => iob[c] \in Slots
      BY DEF TypeOK
    <2> QED
      BY <2>2, <2>3, <2>4, <2>5, <2>6 DEF PathInv, ShapeInv, HandleOps
  <1>2. CASE EnterOpen(c)
    <2>1. /\ UNCHANGED <<emu_files, iob, frz, frzFd>>
          /\ \A d \in Clients \ {c} : req'[d] = req[d] /\ pc'[d] = pc[d]
          /\ \/ /\ req'[c].op = req[c].op /\ req'[c].path = req[c].path
                /\ req'[c].slot \in Slots /\ pc'[c] = "wait"
             \/ req'[c] = NoReq /\ pc'[c] = "idle"
          /\ req[c].op = "open"
      BY <1>2 DEF EnterOpen, TypeOK, ReqRecord
    <2> QED
      BY <2>1 DEF PathInv, ShapeInv
  <1>3. CASE EnterHandle(c)
    <2>0. iob[c] \in Slots /\ req[c].op \in HandleOps
      BY <1>3 DEF EnterHandle, ShapeInv
    <2>1. /\ UNCHANGED <<emu_files, iob, frz, frzFd>>
          /\ \A d \in Clients \ {c} : req'[d] = req[d] /\ pc'[d] = pc[d]
      BY <1>3 DEF EnterHandle, TypeOK
    <2>2. \/ /\ req'[c].op = req[c].op /\ req'[c].path = emu_files[iob[c]].path
             /\ emu_files[iob[c]].allocated
             /\ req'[c].slot = iob[c] /\ pc'[c] \in {"wait", "io"}
          \/ req'[c] = NoReq /\ pc'[c] = "idle"
      <3>1. CASE Return(c)
        BY <3>1 DEF TypeOK
      <3>2. ASSUME NEW l \in {"wait", "io"}, Goto(c, l), emu_files[iob[c]].allocated,
                   req' = [req EXCEPT ![c] =
                       [@ EXCEPT !.slot = iob[c], !.fd = emu_files[iob[c]].fd,
                                 !.path = emu_files[iob[c]].path,
                                 !.flags = emu_files[iob[c]].flags]]
            PROVE  /\ req'[c].op = req[c].op /\ req'[c].path = emu_files[iob[c]].path
                   /\ req'[c].slot = iob[c] /\ pc'[c] = l
        BY <3>2 DEF TypeOK, ReqRecord
      <3> QED
        BY <1>3, <3>1, <3>2 DEF EnterHandle
    <2> QED
      <3>1. PathInv'
        BY <2>0, <2>1, <2>2 DEF PathInv
      <3>2. ShapeInv'
        BY <2>0, <2>1, <2>2 DEF ShapeInv
      <3> QED
        BY <3>1, <3>2
  <1>4. CASE EnterPath(c)
    <2>1. PathInv'
      BY <1>4 DEF EnterPath, TypeOK, PathInv, ReqRecord, SlotRecord
    <2>2. ShapeInv'
      BY <1>4 DEF EnterPath, TypeOK, ShapeInv, ReqRecord
    <2> QED
      BY <2>1, <2>2
  <1>5. CASE Ioctl(c)
    <2>1. PathInv'
      BY <1>5 DEF Ioctl, TypeOK, PathInv, ReqRecord, SlotRecord
    <2>2. ShapeInv'
      BY <1>5 DEF Ioctl, TypeOK, ShapeInv, ReqRecord
    <2> QED
      BY <2>1, <2>2
  <1>6. CASE WaitMS(c)
    <2>1. /\ UNCHANGED <<emu_files, iob, frz, frzFd>>
          /\ \A d \in Clients \ {c} : req'[d] = req[d] /\ pc'[d] = pc[d]
          /\ req'[c].op = req[c].op /\ req'[c].path = req[c].path
          /\ req'[c].slot = req[c].slot
          /\ pc[c] = "wait"
      BY <1>6 DEF WaitMS, TypeOK, ReqRecord
    <2>2. pc'[c] = "hook" \/ (pc'[c] = "io" /\ req[c].op = "path")
                \/ (pc'[c] = "open" /\ req[c].op # "path")
      BY <1>6 DEF WaitMS, AfterWait, TypeOK
    <2>3. PathInv'
      BY <2>1 DEF PathInv
    <2>4. ShapeInv'
      <3>1. CASE pc'[c] = "hook"
        <4>1. req'[c].back = "wait"
          BY <1>6, <3>1 DEF WaitMS, AfterWait, TypeOK, ReqRecord
        <4> QED
          BY <2>1, <3>1, <4>1 DEF ShapeInv
      <3>2. CASE pc'[c] = "io" /\ req[c].op = "path"
        BY <2>1, <3>2 DEF ShapeInv
      <3>3. CASE pc'[c] = "open" /\ req[c].op # "path"
        <4>1. req[c].op \in HandleOps \cup {"open"}
          BY <2>1, <3>3 DEF ShapeInv
        <4> QED
          BY <2>1, <3>3, <4>1 DEF ShapeInv
      <3> QED
        BY <2>2, <3>1, <3>2, <3>3
    <2> QED
      BY <2>3, <2>4
  <1>7. CASE SlotOpenOk(c)
    <2>1. /\ req[c].op \in HandleOps \cup {"open"} /\ req[c].slot \in Slots
          /\ req[c].path \in Paths
      <3>1. pc[c] = "open"
        BY <1>7 DEF SlotOpenOk
      <3>2. req[c].op \in HandleOps \cup {"open"} /\ req[c].slot \in Slots
        BY <3>1 DEF ShapeInv
      <3> QED
        BY <3>2 DEF PathInv
    <2>2. /\ UNCHANGED <<frz, frzFd>> /\ \A d \in Clients \ {c} : iob'[d] = iob[d]
          /\ \A d \in Clients \ {c} : req'[d] = req[d] /\ pc'[d] = pc[d]
          /\ \/ req'[c] = NoReq /\ pc'[c] = "idle"
             \/ /\ req'[c].op = req[c].op /\ req'[c].path = req[c].path
                /\ req'[c].slot = req[c].slot /\ iob' = iob /\ pc'[c] = "seek"
                /\ req[c].op # "open"
      BY <1>7 DEF SlotOpenOk, TypeOK, ReqRecord
    <2>3. PICK f : emu_files' = [emu_files EXCEPT ![req[c].slot] =
                    [@ EXCEPT !.allocated = TRUE, !.closed = FALSE, !.fd = f,
                              !.path = req[c].path, !.flags = req[c].flags]]
      BY <1>7 DEF SlotOpenOk
    <2>4. /\ \A s \in Slots \ {req[c].slot} : emu_files'[s] = emu_files[s]
          /\ emu_files'[req[c].slot].path = req[c].path
      BY <2>1, <2>3 DEF TypeOK, SlotRecord
    <2> QED
      BY <1>7, <2>1, <2>2, <2>4 DEF SlotOpenOk, PathInv, ShapeInv
  <1>8. CASE SlotOpenFail(c)
    <2>0. req[c].op # "none" /\ pc[c] = "open"
      BY <1>8 DEF SlotOpenFail, ShapeInv
    <2>1. <<req[c].path[1], "variant">> \in Paths
      BY <2>0 DEF PathInv, Paths, Dirs
    <2>2. /\ UNCHANGED <<emu_files, iob, frz, frzFd>>
          /\ \A d \in Clients \ {c} : req'[d] = req[d] /\ pc'[d] = pc[d]
      BY <1>8 DEF SlotOpenFail, TypeOK
    <2>3. \/ req'[c] = NoReq /\ pc'[c] = "idle"
          \/ /\ req'[c].op = req[c].op /\ req'[c].path = <<req[c].path[1], "variant">>
             /\ req'[c].slot = req[c].slot /\ pc'[c] = "wait"
      BY <1>8 DEF SlotOpenFail, TypeOK, ReqRecord
    <2> QED
      BY <2>0, <2>1, <2>2, <2>3 DEF PathInv, ShapeInv
  <1>9. CASE SlotOpenFull(c)
    <2>1. /\ UNCHANGED <<iob, frz, frzFd>> /\ pc[c] = "open"
          /\ \A d \in Clients \ {c} : req'[d] = req[d] /\ pc'[d] = pc[d]
      BY <1>9 DEF SlotOpenFull, TypeOK
    <2>2. /\ req'[c].op = req[c].op /\ req'[c].path = req[c].path
          /\ req'[c].slot = req[c].slot /\ pc'[c] \in {"hook", "evict"}
      <3>1. CASE Goto(c, "hook") /\ req' = [req EXCEPT ![c].back = "open"]
        BY <3>1 DEF TypeOK, ReqRecord
      <3>2. ASSUME NEW v, NEW f, Goto(c, "evict"),
                   req' = [req EXCEPT ![c] = [@ EXCEPT !.victim = v, !.fd = f]]
            PROVE  /\ req'[c].op = req[c].op /\ req'[c].path = req[c].path
                   /\ req'[c].slot = req[c].slot /\ pc'[c] \in {"hook", "evict"}
        BY <3>2 DEF TypeOK, ReqRecord
      <3> QED
        BY <1>9, <3>1, <3>2 DEF SlotOpenFull
    <2>3. \A s \in Slots : /\ emu_files'[s].allocated = emu_files[s].allocated
                           /\ emu_files'[s].path = emu_files[s].path
      <3>1. CASE emu_files' = emu_files
        BY <3>1
      <3>2. ASSUME NEW v \in Slots, NEW n, emu_files' = [emu_files EXCEPT ![v].offset = n],
                   NEW s \in Slots
            PROVE  /\ emu_files'[s].allocated = emu_files[s].allocated
                   /\ emu_files'[s].path = emu_files[s].path
        BY <3>2 DEF TypeOK, SlotRecord
      <3> QED
        BY <1>9, <3>1, <3>2 DEF SlotOpenFull
    <2>4. PathInv'
      BY <2>1, <2>2, <2>3 DEF PathInv
    <2>5. ShapeInv'
      BY <2>1, <2>2 DEF ShapeInv
    <2> QED
      BY <2>4, <2>5
  <1>10. CASE Evict(c)
    <2>1. PathInv'
      BY <1>10 DEF Evict, TypeOK, PathInv, ReqRecord, SlotRecord
    <2>2. ShapeInv'
      BY <1>10 DEF Evict, TypeOK, ShapeInv, ReqRecord
    <2> QED
      BY <2>1, <2>2
  <1>11. CASE Reseek(c)
    <2>1. PathInv'
      BY <1>11 DEF Reseek, TypeOK, PathInv, ReqRecord, SlotRecord
    <2>2. ShapeInv'
      BY <1>11 DEF Reseek, TypeOK, ShapeInv, ReqRecord
    <2> QED
      BY <2>1, <2>2
  <1>12. CASE Transfer(c)
    <2>1. PathInv'
      BY <1>12 DEF Transfer, TypeOK, PathInv, ReqRecord, SlotRecord
    <2>2. ShapeInv'
      BY <1>12 DEF Transfer, TypeOK, ShapeInv, ReqRecord
    <2> QED
      BY <2>1, <2>2
  <1>13. CASE Close(c)
    <2>1. PathInv'
      BY <1>13 DEF Close, TypeOK, PathInv, ReqRecord, SlotRecord
    <2>2. ShapeInv'
      BY <1>13 DEF Close, TypeOK, ShapeInv, ReqRecord
    <2> QED
      BY <2>1, <2>2
  <1>14. CASE PathIo(c)
    <2>1. PathInv'
      BY <1>14 DEF PathIo, TypeOK, PathInv, ReqRecord, SlotRecord
    <2>2. ShapeInv'
      BY <1>14 DEF PathIo, TypeOK, ShapeInv, ReqRecord
    <2> QED
      BY <2>1, <2>2
  <1> QED
    BY <1>1, <1>2, <1>3, <1>4, <1>5, <1>6, <1>7, <1>8, <1>9, <1>10, <1>11, <1>12, <1>13, <1>14
    DEF Enter, Request

LEMMA ShapeOther ==
  ASSUME TypeInv,
         \/ \E t \in Threads : Hook(t)
         \/ \E a \in Apps : AppCall(a) \/ AppOpen(a) \/ AppClose(a)
         \/ System
  PROVE  PathInv' /\ ShapeInv'
  <1>0. /\ Clients \subseteq Threads /\ Apps \subseteq Threads
        /\ TypeOK /\ PathInv /\ ShapeInv
    BY DEF Threads, TypeInv
  <1> USE <1>0 DEF Goto, Return, slotVars, lockVars, msVars, sysVars
  <1>1. ASSUME NEW t \in Threads, SlotCloseOneReadOnly(t) PROVE PathInv' /\ ShapeInv'
    <2>1. /\ UNCHANGED <<iob, frz, frzFd>> /\ pc[t] = "hook"
          /\ \A d \in Threads \ {t} : req'[d] = req[d] /\ pc'[d] = pc[d]
      BY <1>1 DEF SlotCloseOneReadOnly, TypeOK
    <2>2. \A s \in Slots : /\ emu_files'[s].allocated = emu_files[s].allocated
                           /\ emu_files'[s].path = emu_files[s].path
      <3>1. CASE emu_files' = emu_files
        BY <3>1
      <3>2. ASSUME NEW v \in Slots, emu_files' = [emu_files EXCEPT ![v] =
                       [@ EXCEPT !.offset = Tell(emu_files[v].fd), !.closed = TRUE]]
            PROVE  \A s \in Slots : /\ emu_files'[s].allocated = emu_files[s].allocated
                                     /\ emu_files'[s].path = emu_files[s].path
        BY <3>2 DEF TypeOK, SlotRecord
      <3>3. emu_files' = emu_files \/ \E v \in Slots : emu_files' = [emu_files EXCEPT ![v] =
                [@ EXCEPT !.offset = Tell(emu_files[v].fd), !.closed = TRUE]]
        BY <1>1 DEF SlotCloseOneReadOnly
      <3> QED
        BY <3>1, <3>2, <3>3
    <2>3. t \in Clients =>
             /\ req'[t].op = req[t].op /\ req'[t].path = req[t].path
             /\ req'[t].slot = req[t].slot /\ req'[t].back = req[t].back
             /\ pc'[t] \in {"hookclose", req[t].back}
      <3>0. t \in Clients => t \notin Apps
        BY ThreadsAssumption
      <3>1. CASE Goto(t, req[t].back) /\ UNCHANGED req
        BY <3>1 DEF TypeOK
      <3>2. ASSUME NEW f, Goto(t, "hookclose"), req' = [req EXCEPT ![t].fd = f]
            PROVE  /\ req'[t].op = req[t].op /\ req'[t].path = req[t].path
                   /\ req'[t].slot = req[t].slot /\ req'[t].back = req[t].back
                   /\ pc'[t] = "hookclose"
        BY <3>2 DEF TypeOK, ReqRecord
      <3> QED
        BY <1>1, <3>0, <3>1, <3>2 DEF SlotCloseOneReadOnly
    <2>4. req[t].back \in {"open", "wait"}
      BY DEF TypeOK, ReqRecord
    <2>5. PathInv'
      BY <2>1, <2>2, <2>3 DEF PathInv
    <2>6. ShapeInv'
      BY <2>1, <2>3, <2>4 DEF ShapeInv, HandleOps
    <2> QED
      BY <2>5, <2>6
  <1>2. ASSUME NEW t \in Threads, HookClose(t) PROVE PathInv' /\ ShapeInv'
    <2>1. req[t].back \in {"open", "wait"}
      BY DEF TypeOK, ReqRecord
    <2>2. PathInv'
      BY <1>2 DEF HookClose, PathInv
    <2>3. ShapeInv'
      BY <1>2, <2>1 DEF HookClose, ShapeInv, TypeOK
    <2> QED
      BY <2>2, <2>3
  <1>3. ASSUME NEW a \in Apps, AppCall(a) \/ AppOpen(a) \/ AppClose(a) PROVE PathInv' /\ ShapeInv'
    <2>1. a \notin Clients
      BY ThreadsAssumption
    <2>2. /\ UNCHANGED <<emu_files, iob, frz, frzFd>>
          /\ \A c \in Clients : req'[c] = req[c] /\ pc'[c] = pc[c]
      BY <1>3, <2>1 DEF AppCall, AppOpen, AppClose, TypeOK
    <2> QED
      BY <2>2 DEF PathInv, ShapeInv
  <1>4. CASE \/ SceLfatfsAssign \/ OnModuleStart \/ CardReady \/ PreareRebootFlashEmu
             \/ SuspendStart \/ Resume \/ SuspendClose
    <2>1. UNCHANGED <<emu_files, iob, pc, req>> /\ (frzFd' # NoFd => frzFd' = frzFd /\ frz' = frz)
      <3>1. CASE SuspendStart
        BY <3>1 DEF SuspendStart, ShapeInv, Slots
      <3>2. CASE Resume
        BY <3>2, SlotsAssumption DEF Resume, ShapeInv, Slots
      <3> QED
        BY <1>4, <3>1, <3>2 DEF SceLfatfsAssign, OnModuleStart, CardReady, PreareRebootFlashEmu,
                                SuspendClose
    <2> QED
      BY <2>1 DEF PathInv, ShapeInv
  <1>5. CASE SuspendSlot
    <2>1. /\ UNCHANGED <<iob, pc, req>> /\ (frzFd' # NoFd => frz' \in Slots)
      BY <1>5 DEF SuspendSlot
    <2>2. \A s \in Slots : /\ emu_files'[s].allocated = emu_files[s].allocated
                           /\ emu_files'[s].path = emu_files[s].path
      <3>1. CASE emu_files' = emu_files
        BY <3>1
      <3>2. CASE emu_files' = [emu_files EXCEPT ![frz] =
                   [@ EXCEPT !.offset = Tell(emu_files[frz].fd), !.closed = TRUE]]
        BY <3>2 DEF TypeOK, SlotRecord
      <3> QED
        BY <1>5, <3>1, <3>2 DEF SuspendSlot
    <2> QED
      BY <2>1, <2>2 DEF PathInv, ShapeInv
  <1> QED
    BY <1>1, <1>2, <1>3, <1>4, <1>5 DEF Hook, System, Suspend

LEMMA TypeInvNext == TypeInv /\ [Next]_vars => TypeInv'
  <1> SUFFICES ASSUME TypeInv, [Next]_vars PROVE TypeInv'
    OBVIOUS
  <1>1. CASE \E c \in Clients : Call(c) \/ Enter(c) \/ Request(c)
    BY <1>1, TypeOKRequest, ShapeRequest DEF TypeInv
  <1>2. CASE \/ \E t \in Threads : Hook(t)
             \/ \E a \in Apps : AppCall(a) \/ AppOpen(a) \/ AppClose(a)
             \/ System
    BY <1>2, TypeOKOther, ShapeOther DEF TypeInv
  <1>3. CASE UNCHANGED vars
    BY <1>3 DEF TypeInv, TypeOK, PathInv, ShapeInv, vars, slotVars, lockVars, msVars, sysVars
  <1> QED
    BY <1>1, <1>2, <1>3 DEF Next

\* Every variable keeps its type, for any number of clients, slots,
\* descriptors and files.
THEOREM TypeCorrect == Spec => []TypeOK
  <1>1. TypeInv => TypeOK
    BY DEF TypeInv
  <1> QED
    BY <1>1, TypeInvInit, TypeInvNext, PTL DEF Spec
-----------------------------------------------------------------------------
(* Safety.                                                                 *)

\* Threads between Lock and UnLock
Inside(t) == IF t \in Clients THEN pc[t] \notin {"idle", "lock"} ELSE pc[t] = "hookclose"

\* A thread inside holds the semaphore, and nobody does during a suspend
MutexInv ==
    /\ flashemu_sema # Deleted
    /\ \A t \in Threads : Inside(t) => flashemu_sema = t
    /\ frz # -1 => flashemu_sema = Free

\* What a client inside knows of the slots in its locals
Local(c) ==
    LET r == req[c] IN
    /\ pc[c] # "hookclose"
    /\ Inside(c) /\ r.op = "open" => ~emu_files[r.slot].allocated
    /\ pc[c] \in {"seek", "io"} /\ r.op \in HandleOps =>
          IsOpen(r.slot) /\ emu_files[r.slot].fd = r.fd
    /\ pc[c] = "evict" =>
          r.victim \in Slots /\ IsOpen(r.victim) /\ emu_files[r.victim].fd = r.fd

\* A descriptor the hook or the suspend handler is about to close backs no slot
Orphaned ==
    /\ \A a \in Apps : pc[a] = "hookclose" =>
          \A s \in Slots : IsOpen(s) => emu_files[s].fd # req[a].fd
    /\ \A s \in Slots : IsOpen(s) => emu_files[s].fd # frzFd

Backed(s) ==
    /\ Live(emu_files[s].fd)
    /\ msfd[emu_files[s].fd].file = emu_files[s].path
    /\ \A r \in Slots \ {s} : IsOpen(r) => emu_files[r].fd # emu_files[s].fd
AllBacked == \A s \in Slots : IsOpen(s) => Backed(s)

Owned == \A c \in Clients : iob[c] # NoSlot =>
            emu_files[iob[c]].allocated /\ \A d \in Clients \ {c} : iob[d] # iob[c]

Safe == MutexInv /\ (\A c \in Clients : Local(c)) /\ Orphaned /\ AllBacked /\ Owned

IInv == TypeInv /\ (~unguarded => Safe)

-----------------------------------------------------------------------------
(* What changes nothing.                                                   *)

\* The slots that are open after a step were open before it, on the same
\* descriptors, whose files are the same: they are still backed.
LEMMA BackedFrame ==
  ASSUME AllBacked,
         \A s \in Slots : IsOpen(s)' =>
            /\ IsOpen(s)
            /\ emu_files'[s].fd = emu_files[s].fd
            /\ emu_files'[s].path = emu_files[s].path
            /\ msfd'[emu_files[s].fd].file = msfd[emu_files[s].fd].file
  PROVE  AllBacked'
  BY DEF AllBacked, Backed, Live

\* Handles and allocations stay
LEMMA OwnedFrame ==
  ASSUME Owned, TypeOK, UNCHANGED iob,
         \A s \in Slots : emu_files[s].allocated => emu_files'[s].allocated
  PROVE  Owned'
  BY DEF Owned, TypeOK

\* A thread inside is alone: the others are before Lock, no suspend runs
LEMMA Alone ==
  ASSUME TypeInv, MutexInv, NEW t \in Threads, Inside(t)
  PROVE  /\ flashemu_sema = t /\ frz = -1 /\ frzFd = NoFd
         /\ \A u \in Threads \ {t} : ~Inside(u)
         /\ \A d \in Clients \ {t} : pc[d] \in {"idle", "lock"}
         /\ \A a \in Apps \ {t} : pc[a] # "hookclose"
  <1>1. flashemu_sema = t /\ t # Free
    BY ThreadsAssumption DEF MutexInv, Threads
  <1>2. frz = -1 /\ frzFd = NoFd
    BY <1>1, SlotsAssumption DEF MutexInv, TypeInv, ShapeInv, Slots
  <1>3. \A u \in Threads \ {t} : ~Inside(u)
    BY <1>1 DEF MutexInv
  <1> QED
    BY <1>1, <1>2, <1>3, ThreadsAssumption DEF Inside, Threads

\* A step of a client inside, which stays inside or unlocks and returns,
\* keeps what every other thread knows.
LEMMA InsideFrame ==
  ASSUME TypeInv, MutexInv, NEW c \in Clients, Inside(c),
         \A t \in Threads \ {c} : pc'[t] = pc[t] /\ req'[t] = req[t],
         UNCHANGED <<frz, frzFd>>,
         \/ pc'[c] \notin {"idle", "lock"} /\ flashemu_sema' = flashemu_sema
         \/ pc'[c] = "idle" /\ flashemu_sema' = Free,
         Local(c)', AllBacked'
  PROVE  MutexInv' /\ (\A d \in Clients : Local(d)') /\ Orphaned'
  <1>0. c \in Threads /\ Clients \subseteq Threads /\ Apps \subseteq Threads /\ c \notin Apps
    BY ThreadsAssumption DEF Threads
  <1>1. /\ flashemu_sema = c /\ frz = -1 /\ frzFd = NoFd
        /\ \A u \in Threads \ {c} : ~Inside(u)
        /\ \A d \in Clients \ {c} : pc[d] \in {"idle", "lock"}
        /\ \A a \in Apps \ {c} : pc[a] # "hookclose"
    BY <1>0, Alone
  <1>2. MutexInv'
    BY <1>0, <1>1, ThreadsAssumption DEF MutexInv, Inside, Threads
  <1>3. ASSUME NEW d \in Clients \ {c} PROVE Local(d)'
    BY <1>0, <1>1 DEF Local, Inside
  <1>4. \A s \in Slots : IsOpen(s)' => emu_files'[s].fd # NoFd
    BY FdsAssumption DEF AllBacked, Backed, Live
  <1>5. Orphaned'
    BY <1>0, <1>1, <1>4 DEF Orphaned
  <1> QED
    BY <1>2, <1>3, <1>5

-----------------------------------------------------------------------------
(* The steps of a client inside.                                           *)

\* What each of these steps leaves alone, and how it ends
LEMMA InsideStep ==
  ASSUME TypeInv, MutexInv, NEW c \in Clients, Request(c)
  PROVE  /\ Inside(c) /\ c \in Threads
         /\ \A t \in Threads \ {c} : pc'[t] = pc[t] /\ req'[t] = req[t]
         /\ UNCHANGED <<frz, frzFd>>
         /\ \/ pc'[c] \notin {"idle", "lock"} /\ flashemu_sema' = flashemu_sema
            \/ pc'[c] = "idle" /\ flashemu_sema' = Free
  <1>0. c \in Threads /\ TypeOK /\ flashemu_sema # Deleted
    BY DEF Threads, TypeInv, MutexInv
  <1> USE <1>0 DEF TypeOK, Goto, Return, UnLock, lockVars, sysVars, Inside
  <1>1. CASE WaitMS(c)
    BY <1>1 DEF WaitMS, AfterWait
  <1>2. CASE SlotOpenOk(c)
    BY <1>2 DEF SlotOpenOk
  <1>3. CASE SlotOpenFail(c)
    BY <1>3 DEF SlotOpenFail
  <1>4. CASE SlotOpenFull(c)
    BY <1>4 DEF SlotOpenFull
  <1>5. CASE Evict(c)
    BY <1>5 DEF Evict
  <1>6. CASE Reseek(c)
    BY <1>6 DEF Reseek
  <1>7. CASE Transfer(c)
    BY <1>7 DEF Transfer
  <1>8. CASE Close(c)
    BY <1>8 DEF Close
  <1>9. CASE PathIo(c)
    BY <1>9 DEF PathIo
  <1> QED
    BY <1>1, <1>2, <1>3, <1>4, <1>5, <1>6, <1>7, <1>8, <1>9 DEF Request

\* Steps that leave the slots, the handles and the descriptors' files alone
LEMMA SafeUntouched ==
  ASSUME TypeInv, Safe, NEW c \in Clients, WaitMS(c) \/ SlotOpenFail(c) \/ PathIo(c)
  PROVE  Local(c)' /\ AllBacked' /\ Owned'
  <1>0. c \in Threads /\ TypeOK /\ Local(c) /\ AllBacked /\ Owned /\ pc[c] \notin {"idle", "lock"}
    BY DEF Threads, TypeInv, Safe, WaitMS, SlotOpenFail, PathIo
  <1>1. UNCHANGED <<emu_files, iob, msfd>>
    BY DEF WaitMS, SlotOpenFail, PathIo, slotVars, msVars
  <1>2. AllBacked' /\ Owned'
    <2>1. \A s \in Slots : IsOpen(s)' => /\ IsOpen(s)
                                        /\ emu_files'[s].fd = emu_files[s].fd
                                        /\ emu_files'[s].path = emu_files[s].path
                                        /\ msfd'[emu_files[s].fd].file = msfd[emu_files[s].fd].file
      BY <1>1 DEF IsOpen
    <2>2. AllBacked'
      BY <1>0, <2>1, BackedFrame
    <2>3. UNCHANGED iob /\ \A s \in Slots : emu_files[s].allocated => emu_files'[s].allocated
      BY <1>1
    <2> QED
      BY <1>0, <2>2, <2>3, OwnedFrame
  <1>3. CASE pc'[c] = "idle"
    BY <1>2, <1>3 DEF Local, Inside
  <1>4. CASE pc'[c] # "idle"
    <2>1. /\ pc'[c] \in {"hook", "open", "io", "wait"}
          /\ pc'[c] = "io" => req[c].op = "path"
          /\ req'[c].op = req[c].op /\ req'[c].slot = req[c].slot
      <3>1. CASE WaitMS(c)
        BY <1>0, <3>1 DEF WaitMS, AfterWait, Goto, TypeOK, ReqRecord
      <3>2. CASE SlotOpenFail(c)
        <4>1. req' = [req EXCEPT ![c].path = <<req[c].path[1], "variant">>] /\ Goto(c, "wait")
          BY <1>0, <1>4, <3>2 DEF SlotOpenFail, Return, Goto, TypeOK
        <4> QED
          BY <1>0, <4>1 DEF Goto, TypeOK, ReqRecord
      <3>3. CASE PathIo(c)
        BY <1>0, <1>4, <3>3 DEF PathIo, Return, Goto, TypeOK
      <3> QED
        BY <3>1, <3>2, <3>3
    <2>2. req[c].op = "open" => ~emu_files[req[c].slot].allocated
      BY <1>0 DEF Local, Inside
    <2>3. Local(c)'
      BY <1>1, <2>1, <2>2 DEF Local, Inside, HandleOps
    <2> QED
      BY <1>2, <2>3
  <1> QED
    BY <1>2, <1>3, <1>4

\* SlotOpen succeeds: the new descriptor backs no other slot, and the slot
\* of a new handle is still free.
LEMMA SafeSlotOpenOk ==
  ASSUME TypeInv, Safe, NEW c \in Clients, SlotOpenOk(c)
  PROVE  Local(c)' /\ AllBacked' /\ Owned'
  <1> DEFINE r == req[c]
  <1>0. /\ c \in Threads /\ TypeOK /\ Local(c) /\ AllBacked /\ Owned /\ pc[c] = "open"
        /\ r \in ReqRecord
    BY DEF Threads, TypeInv, TypeOK, Safe, SlotOpenOk
  <1>1. PICK f \in FreeFds :
           /\ msfd' = Opened(f, r.path)
           /\ emu_files' = [emu_files EXCEPT ![r.slot] =
                  [@ EXCEPT !.allocated = TRUE, !.closed = FALSE, !.fd = f,
                            !.path = r.path, !.flags = r.flags]]
           /\ IF r.op = "open" THEN iob' = [iob EXCEPT ![c] = r.slot] /\ Return(c)
              ELSE req' = [req EXCEPT ![c].fd = f] /\ Goto(c, "seek") /\ iob' = iob
    BY DEF SlotOpenOk
  <1>2. r.slot \in Slots /\ r.path \in Paths /\ r.op \in HandleOps \cup {"open"}
    <2>1. r.op \in HandleOps \cup {"open"} /\ r.slot \in Slots
      BY <1>0 DEF TypeInv, ShapeInv
    <2> QED
      BY <2>1 DEF TypeInv, PathInv, HandleOps
  <1>k. PICK k \in Slots : k = r.slot
    BY <1>2
  <1>3. /\ f \in Fds /\ ~Live(f) /\ r.path # NoFile
        /\ msfd'[f].file = r.path /\ \A g \in Fds \ {f} : msfd'[g] = msfd[g]
    BY <1>0, <1>1, <1>2, NamesAssumption DEF FreeFds, Opened, Paths, Dirs, TypeOK
  <1>4. /\ IsOpen(k)' /\ emu_files'[k].fd = f /\ emu_files'[k].path = r.path
        /\ emu_files'[k].allocated
        /\ \A s \in Slots \ {k} : emu_files'[s] = emu_files[s]
    <2> DEFINE N(e) == [e EXCEPT !.allocated = TRUE, !.closed = FALSE, !.fd = f,
                                 !.path = r.path, !.flags = r.flags]
    <2>1. \A e \in SlotRecord :
            N(e).allocated /\ ~N(e).closed /\ N(e).fd = f /\ N(e).path = r.path
      BY DEF SlotRecord
    <2>2. emu_files'[k] = N(emu_files[k])
      BY <1>0, <1>1, <1>k DEF TypeOK
    <2>3. emu_files[k] \in SlotRecord /\ \A s \in Slots \ {k} : emu_files'[s] = emu_files[s]
      BY <1>0, <1>1, <1>k DEF TypeOK
    <2> QED
      BY <2>1, <2>2, <2>3 DEF IsOpen
  <1>5. ASSUME NEW s \in Slots \ {k}, IsOpen(s)'
        PROVE  /\ IsOpen(s) /\ emu_files'[s] = emu_files[s] /\ emu_files[s].fd # f
               /\ emu_files[s].fd \in Fds
               /\ msfd'[emu_files[s].fd] = msfd[emu_files[s].fd]
    <2>1. IsOpen(s) /\ emu_files'[s] = emu_files[s]
      BY <1>4, <1>5 DEF IsOpen
    <2>2. Live(emu_files[s].fd)
      BY <1>0, <2>1 DEF AllBacked, Backed
    <2> QED
      BY <1>3, <2>1, <2>2 DEF Live
  <1>6. AllBacked'
    <2>1. Backed(k)'
      <3>1. \A q \in Slots \ {k} : IsOpen(q)' => emu_files'[q].fd # emu_files'[k].fd
        BY <1>4, <1>5
      <3>2. Live(emu_files[k].fd)' /\ msfd'[emu_files'[k].fd].file = emu_files'[k].path
        BY <1>3, <1>4 DEF Live
      <3> QED
        BY <3>1, <3>2 DEF Backed
    <2>2. ASSUME NEW s \in Slots \ {k}, IsOpen(s)' PROVE Backed(s)'
      <3>1. Backed(s)
        BY <1>0, <1>5, <2>2 DEF AllBacked
      <3>2. \A q \in Slots \ {s} : IsOpen(q)' => emu_files'[q].fd # emu_files'[s].fd
        BY <1>4, <1>5, <2>2, <3>1 DEF Backed
      <3>3. Live(emu_files[s].fd)' /\ msfd'[emu_files'[s].fd].file = emu_files'[s].path
        BY <1>5, <2>2, <3>1 DEF Backed, Live
      <3> QED
        BY <3>2, <3>3 DEF Backed
    <2> QED
      BY <1>4, <2>1, <2>2 DEF AllBacked
  <1>7. CASE r.op = "open"
    <2>1. pc'[c] = "idle" /\ iob'[c] = k /\ ~emu_files[k].allocated
      BY <1>0, <1>1, <1>7, <1>k DEF Return, Goto, TypeOK, Local, Inside
    <2>2. \A d \in Clients \ {c} : iob'[d] = iob[d]
      BY <1>0, <1>1, <1>7 DEF TypeOK
    <2>3. \A d \in Clients \ {c} : iob[d] # k
      BY <1>0, <1>2, <2>1, SlotsAssumption DEF Owned, Slots, NoSlot
    <2>4. Owned'
      BY <1>0, <1>4, <2>1, <2>2, <2>3 DEF Owned, TypeOK
    <2>5. Local(c)'
      BY <2>1 DEF Local, Inside
    <2> QED
      BY <1>6, <2>4, <2>5
  <1>8. CASE r.op # "open"
    <2>1. /\ pc'[c] = "seek" /\ req'[c].fd = f /\ req'[c].slot = k /\ req'[c].op = r.op
          /\ UNCHANGED iob
      BY <1>0, <1>1, <1>8, <1>k DEF Goto, TypeOK, ReqRecord
    <2>2. \A s \in Slots : emu_files[s].allocated => emu_files'[s].allocated
      BY <1>4
    <2> QED
      BY <1>0, <1>4, <1>6, <1>8, <2>1, <2>2, OwnedFrame DEF Local
  <1> QED
    BY <1>7, <1>8

-----------------------------------------------------------------------------
(* What the updates of the table leave alone.                              *)

\* The fields the invariant speaks of, except closed
Same(s) == /\ emu_files'[s].allocated = emu_files[s].allocated
           /\ emu_files'[s].fd = emu_files[s].fd
           /\ emu_files'[s].path = emu_files[s].path

LEMMA OffsetFrame ==
  ASSUME TypeOK, NEW v \in Slots, NEW n, emu_files' = [emu_files EXCEPT ![v].offset = n]
  PROVE  \A s \in Slots : Same(s) /\ emu_files'[s].closed = emu_files[s].closed
  <1>1. \A e \in SlotRecord : LET m == [e EXCEPT !.offset = n] IN
           m.allocated = e.allocated /\ m.fd = e.fd /\ m.path = e.path /\ m.closed = e.closed
    BY DEF SlotRecord
  <1> QED
    BY <1>1 DEF Same, TypeOK

LEMMA ClosedFrame ==
  ASSUME TypeOK, NEW v \in Slots, NEW n,
         \/ emu_files' = [emu_files EXCEPT ![v].closed = TRUE]
         \/ emu_files' = [emu_files EXCEPT ![v] = [@ EXCEPT !.offset = n, !.closed = TRUE]]
  PROVE  /\ \A s \in Slots : Same(s)
         /\ ~IsOpen(v)' /\ \A s \in Slots \ {v} : emu_files'[s] = emu_files[s]
  <1>1. \A e \in SlotRecord : LET m == [e EXCEPT !.offset = n, !.closed = TRUE] IN
           m.allocated = e.allocated /\ m.fd = e.fd /\ m.path = e.path /\ m.closed
    BY DEF SlotRecord
  <1>2. \A e \in SlotRecord : LET m == [e EXCEPT !.closed = TRUE] IN
           m.allocated = e.allocated /\ m.fd = e.fd /\ m.path = e.path /\ m.closed
    BY DEF SlotRecord
  <1>3. emu_files[v] \in SlotRecord
    BY DEF TypeOK
  <1>4. \A s \in Slots \ {v} : emu_files'[s] = emu_files[s]
    BY DEF TypeOK
  <1>5. Same(v) /\ emu_files'[v].closed
    <2>1. CASE emu_files' = [emu_files EXCEPT ![v].closed = TRUE]
      <3>1. emu_files'[v] = [emu_files[v] EXCEPT !.closed = TRUE]
        BY <2>1 DEF TypeOK
      <3> QED
        BY <1>2, <1>3, <3>1 DEF Same
    <2>2. CASE emu_files' = [emu_files EXCEPT ![v] = [@ EXCEPT !.offset = n, !.closed = TRUE]]
      <3>1. emu_files'[v] = [emu_files[v] EXCEPT !.offset = n, !.closed = TRUE]
        BY <2>2 DEF TypeOK
      <3> QED
        BY <1>1, <1>3, <3>1 DEF Same
    <2> QED
      BY <2>1, <2>2
  <1> QED
    BY <1>4, <1>5 DEF Same, IsOpen

LEMMA ShutFrame ==
  ASSUME TypeOK, NEW f, msfd' = Shut(f)
  PROVE  \A g \in Fds : g # f => msfd'[g] = msfd[g]
  BY DEF Shut, TypeOK

LEMMA SoughtFrame ==
  ASSUME TypeOK, NEW f, NEW n, msfd' = Sought(f, n)
  PROVE  \A g \in Fds : msfd'[g].file = msfd[g].file
  <1>1. \A e \in FdRecord : [e EXCEPT !.pos = n].file = e.file
    BY DEF FdRecord
  <1> QED
    BY <1>1 DEF Sought, TypeOK, Live

-----------------------------------------------------------------------------
(* Eviction, reopening, transfer and close.                                *)

LEMMA SafeSlotOpenFull ==
  ASSUME TypeInv, Safe, NEW c \in Clients, SlotOpenFull(c)
  PROVE  Local(c)' /\ AllBacked' /\ Owned'
  <1>0. /\ c \in Threads /\ TypeOK /\ Local(c) /\ AllBacked /\ Owned /\ pc[c] = "open"
        /\ UNCHANGED <<iob, msfd>> /\ req[c] \in ReqRecord
    BY DEF Threads, TypeInv, TypeOK, Safe, SlotOpenFull, msVars
  <1>1. CASE UNCHANGED emu_files /\ Goto(c, "hook") /\ req' = [req EXCEPT ![c].back = "open"]
    <2>1. pc'[c] = "hook" /\ req'[c].op = req[c].op /\ req'[c].slot = req[c].slot
      BY <1>0, <1>1 DEF Goto, TypeOK, ReqRecord
    <2>2. \A s \in Slots : IsOpen(s)' => IsOpen(s)
      BY <1>1 DEF IsOpen
    <2>3. AllBacked'
      BY <1>0, <1>1, <2>2, BackedFrame
    <2>4. Owned'
      BY <1>0, <1>1, OwnedFrame
    <2>5. Local(c)'
      BY <1>0, <1>1, <2>1 DEF Local, Inside
    <2> QED
      BY <2>3, <2>4, <2>5
  <1>2. CASE \E v \in Slots :
                /\ Victim(v)
                /\ emu_files' = [emu_files EXCEPT ![v].offset = Tell(emu_files[v].fd)]
                /\ req' = [req EXCEPT ![c] = [@ EXCEPT !.victim = v, !.fd = emu_files[v].fd]]
                /\ Goto(c, "evict")
    <2>1. PICK v \in Slots :
                /\ Victim(v)
                /\ emu_files' = [emu_files EXCEPT ![v].offset = Tell(emu_files[v].fd)]
                /\ req' = [req EXCEPT ![c] = [@ EXCEPT !.victim = v, !.fd = emu_files[v].fd]]
                /\ Goto(c, "evict")
      BY <1>2
    <2>2. \A s \in Slots : Same(s) /\ emu_files'[s].closed = emu_files[s].closed
      BY <1>0, <2>1, OffsetFrame
    <2>3. \A s \in Slots : IsOpen(s)' <=> IsOpen(s)
      BY <2>2 DEF IsOpen, Same
    <2>4. AllBacked'
      BY <1>0, <2>2, <2>3, BackedFrame DEF Same
    <2>5. Owned'
      BY <1>0, <2>2, OwnedFrame DEF Same
    <2>6. /\ pc'[c] = "evict" /\ req'[c].op = req[c].op /\ req'[c].slot = req[c].slot
          /\ req'[c].victim = v /\ req'[c].fd = emu_files[v].fd
      BY <1>0, <2>1 DEF Goto, TypeOK, ReqRecord
    <2>7. IsOpen(v)' /\ emu_files'[v].fd = emu_files[v].fd
      BY <2>1, <2>2, <2>3 DEF Victim, Evictable, Same
    <2>8. req[c].op = "open" => ~emu_files'[req[c].slot].allocated
      <3>1. req[c].op = "open" => req[c].slot \in Slots /\ ~emu_files[req[c].slot].allocated
        BY <1>0 DEF Local, Inside, TypeInv, ShapeInv
      <3> QED
        BY <2>2, <3>1 DEF Same
    <2>9. Local(c)'
      BY <2>6, <2>7, <2>8 DEF Local, IsOpen
    <2> QED
      BY <2>4, <2>5, <2>9
  <1> QED
    BY <1>1, <1>2 DEF SlotOpenFull

LEMMA SafeEvict ==
  ASSUME TypeInv, Safe, NEW c \in Clients, Evict(c)
  PROVE  Local(c)' /\ AllBacked' /\ Owned'
  <1>0. /\ c \in Threads /\ TypeOK /\ Local(c) /\ AllBacked /\ Owned /\ pc[c] = "evict"
        /\ UNCHANGED <<iob, req>> /\ pc'[c] = "open"
    BY DEF Threads, TypeInv, TypeOK, Safe, Evict, Goto
  <1>1. PICK v \in Slots : v = req[c].victim /\ IsOpen(v) /\ emu_files[v].fd = req[c].fd
    BY <1>0 DEF Local
  <1>2. emu_files' = [emu_files EXCEPT ![v].closed = TRUE] /\ msfd' = Shut(emu_files[v].fd)
    BY <1>1 DEF Evict
  <1>3. /\ \A s \in Slots : Same(s)
        /\ ~IsOpen(v)' /\ \A s \in Slots \ {v} : emu_files'[s] = emu_files[s]
    BY <1>0, <1>2, ClosedFrame
  <1>4. \A g \in Fds : g # emu_files[v].fd => msfd'[g] = msfd[g]
    BY <1>0, <1>2, ShutFrame
  <1>5. ASSUME NEW s \in Slots, IsOpen(s)'
        PROVE  IsOpen(s) /\ Same(s) /\ msfd'[emu_files[s].fd].file = msfd[emu_files[s].fd].file
    <2>1. s # v /\ IsOpen(s)
      BY <1>3, <1>5 DEF IsOpen
    <2>2. emu_files[s].fd \in Fds /\ emu_files[s].fd # emu_files[v].fd
      BY <1>0, <1>1, <2>1 DEF AllBacked, Backed, Live
    <2> QED
      BY <1>3, <1>4, <2>1, <2>2
  <1>6. AllBacked'
    BY <1>0, <1>5, BackedFrame DEF Same
  <1>7. Owned'
    BY <1>0, <1>3, OwnedFrame DEF Same
  <1>8. req[c].op = "open" => ~emu_files'[req[c].slot].allocated
    <2>1. req[c].op = "open" => req[c].slot \in Slots /\ ~emu_files[req[c].slot].allocated
      BY <1>0 DEF Local, Inside, TypeInv, ShapeInv
    <2> QED
      BY <1>3, <2>1 DEF Same
  <1>9. Local(c)'
    BY <1>0, <1>8 DEF Local
  <1> QED
    BY <1>6, <1>7, <1>9

\* The slot that was reopened gets the descriptor it already has
LEMMA SafeReseek ==
  ASSUME TypeInv, Safe, NEW c \in Clients, Reseek(c)
  PROVE  Local(c)' /\ AllBacked' /\ Owned'
  <1>0. /\ c \in Threads /\ TypeOK /\ Local(c) /\ AllBacked /\ Owned /\ pc[c] = "seek"
        /\ UNCHANGED <<iob, req>> /\ pc'[c] = "io" /\ req[c].op \in HandleOps
    BY DEF Threads, TypeInv, TypeOK, ShapeInv, Safe, Reseek, Goto
  <1>1. PICK k \in Slots : k = req[c].slot
    BY <1>0 DEF TypeInv, ShapeInv
  <1>2. IsOpen(k) /\ emu_files[k].fd = req[c].fd
    BY <1>0, <1>1 DEF Local
  <1>3. /\ emu_files' = [emu_files EXCEPT ![k] = [@ EXCEPT !.fd = req[c].fd, !.closed = FALSE]]
        /\ msfd' = Sought(req[c].fd, emu_files[k].offset)
    BY <1>1 DEF Reseek
  <1>4. \A s \in Slots : Same(s) /\ (IsOpen(s)' <=> IsOpen(s))
    <2>1. \A e \in SlotRecord : LET m == [e EXCEPT !.fd = req[c].fd, !.closed = FALSE] IN
             m.allocated = e.allocated /\ m.fd = req[c].fd /\ m.path = e.path /\ ~m.closed
      BY DEF SlotRecord
    <2>2. emu_files[k] \in SlotRecord /\ \A s \in Slots \ {k} : emu_files'[s] = emu_files[s]
      BY <1>0, <1>3 DEF TypeOK
    <2>3. emu_files'[k] = [emu_files[k] EXCEPT !.fd = req[c].fd, !.closed = FALSE]
      BY <1>0, <1>3 DEF TypeOK
    <2>4. Same(k) /\ ~emu_files'[k].closed
      BY <1>2, <2>1, <2>2, <2>3 DEF Same
    <2> QED
      BY <1>2, <2>2, <2>4 DEF Same, IsOpen
  <1>5. \A g \in Fds : msfd'[g].file = msfd[g].file
    BY <1>0, <1>3, SoughtFrame
  <1>6. \A s \in Slots : IsOpen(s) => emu_files[s].fd \in Fds
    BY <1>0 DEF AllBacked, Backed, Live
  <1>7. AllBacked'
    BY <1>0, <1>4, <1>5, <1>6, BackedFrame DEF Same
  <1>8. Owned'
    BY <1>0, <1>4, OwnedFrame DEF Same
  <1>9. Local(c)'
    <2>1. IsOpen(k)' /\ emu_files'[k].fd = req[c].fd
      BY <1>2, <1>4 DEF Same
    <2> QED
      BY <1>0, <1>1, <2>1 DEF Local, HandleOps, IsOpen
  <1> QED
    BY <1>7, <1>8, <1>9

LEMMA SafeTransfer ==
  ASSUME TypeInv, Safe, NEW c \in Clients, Transfer(c)
  PROVE  Local(c)' /\ AllBacked' /\ Owned'
  <1>0. /\ c \in Threads /\ TypeOK /\ AllBacked /\ Owned
        /\ UNCHANGED <<iob, emu_files>> /\ pc'[c] = "idle"
    BY DEF Threads, TypeInv, TypeOK, Safe, Transfer, Return, Goto, slotVars
  <1>1. \A g \in Fds : msfd'[g].file = msfd[g].file
    <2> DEFINE f == req[c].fd
    <2>1. \A n : \A e \in FdRecord : [e EXCEPT !.pos = n].file = e.file
      BY DEF FdRecord
    <2>2. \/ Live(f) /\ msfd' = [msfd EXCEPT ![f].pos = @ + 1]
          \/ Live(f) /\ \E n \in 0 .. MaxSize : msfd' = [msfd EXCEPT ![f].pos = n]
          \/ UNCHANGED msfd
      BY DEF Transfer, msVars
    <2>3. CASE Live(f) /\ msfd' = [msfd EXCEPT ![f].pos = @ + 1]
      BY <1>0, <2>1, <2>3 DEF TypeOK, Live
    <2>4. CASE Live(f) /\ \E n \in 0 .. MaxSize : msfd' = [msfd EXCEPT ![f].pos = n]
      <3>1. PICK n \in 0 .. MaxSize : msfd' = [msfd EXCEPT ![f].pos = n]
        BY <2>4
      <3> QED
        BY <1>0, <2>1, <2>4, <3>1 DEF TypeOK, Live
    <2> QED
      BY <2>2, <2>3, <2>4
  <1>2. \A s \in Slots : IsOpen(s)' => IsOpen(s) /\ emu_files[s].fd \in Fds
    BY <1>0 DEF IsOpen, AllBacked, Backed, Live
  <1>3. AllBacked'
    BY <1>0, <1>1, <1>2, BackedFrame
  <1>4. Owned'
    BY <1>0, OwnedFrame
  <1>5. Local(c)'
    BY <1>0 DEF Local, Inside
  <1> QED
    BY <1>3, <1>4, <1>5

\* The slot that is given back is the one of this client's handle alone
LEMMA SafeClose ==
  ASSUME TypeInv, Safe, NEW c \in Clients, Close(c)
  PROVE  Local(c)' /\ AllBacked' /\ Owned'
  <1>0. /\ c \in Threads /\ TypeOK /\ Local(c) /\ AllBacked /\ Owned
        /\ pc[c] = "io" /\ pc'[c] = "idle" /\ req[c].op \in HandleOps
    BY DEF Threads, TypeInv, TypeOK, Safe, Close, Return, Goto, HandleOps
  <1>1. PICK k \in Slots : k = req[c].slot /\ k = iob[c]
    BY <1>0 DEF TypeInv, ShapeInv
  <1>2. IsOpen(k) /\ emu_files[k].fd = req[c].fd
    BY <1>0, <1>1 DEF Local
  <1>3. Local(c)'
    BY <1>0 DEF Local, Inside
  <1>4. CASE /\ msfd' = Shut(req[c].fd)
             /\ emu_files' = [emu_files EXCEPT ![k].allocated = FALSE]
             /\ iob' = [iob EXCEPT ![c] = NoSlot]
    <2>1. /\ ~emu_files'[k].allocated /\ \A s \in Slots \ {k} : emu_files'[s] = emu_files[s]
      <3>1. \A e \in SlotRecord : ~[e EXCEPT !.allocated = FALSE].allocated
        BY DEF SlotRecord
      <3> QED
        BY <1>0, <1>4, <3>1 DEF TypeOK
    <2>2. \A g \in Fds : g # emu_files[k].fd => msfd'[g] = msfd[g]
      BY <1>0, <1>2, <1>4, ShutFrame
    <2>3. ASSUME NEW s \in Slots, IsOpen(s)'
          PROVE  /\ IsOpen(s) /\ emu_files'[s] = emu_files[s]
                 /\ msfd'[emu_files[s].fd].file = msfd[emu_files[s].fd].file
      <3>1. s # k /\ IsOpen(s) /\ emu_files'[s] = emu_files[s]
        BY <2>1, <2>3 DEF IsOpen
      <3>2. emu_files[s].fd \in Fds /\ emu_files[s].fd # emu_files[k].fd
        BY <1>0, <1>2, <3>1 DEF AllBacked, Backed, Live
      <3> QED
        BY <2>2, <3>1, <3>2
    <2>4. AllBacked'
      BY <1>0, <2>3, BackedFrame
    <2>5. Owned'
      <3>1. iob'[c] = NoSlot /\ \A d \in Clients \ {c} : iob'[d] = iob[d]
        BY <1>0, <1>4 DEF TypeOK
      <3>2. ASSUME NEW d \in Clients, iob'[d] # NoSlot
            PROVE  emu_files'[iob'[d]].allocated /\ \A e \in Clients \ {d} : iob'[e] # iob'[d]
        <4>1. d # c /\ iob'[d] = iob[d] /\ iob[d] \in Slots
          BY <1>0, <3>1, <3>2 DEF TypeOK
        <4>2. iob[d] # k
          BY <1>0, <1>1, <3>2, <4>1, SlotsAssumption DEF Owned, Slots, NoSlot
        <4>3. emu_files'[iob'[d]].allocated
          BY <1>0, <2>1, <3>2, <4>1, <4>2 DEF Owned
        <4>4. \A e \in Clients \ {d} : iob'[e] # iob'[d]
          BY <1>0, <3>1, <3>2, <4>1 DEF Owned
        <4> QED
          BY <4>3, <4>4
      <3> QED
        BY <3>2 DEF Owned
    <2> QED
      BY <1>3, <2>4, <2>5
  <1>5. CASE iob' \in {iob, [iob EXCEPT ![c] = NoSlot]} /\ UNCHANGED <<emu_files, msfd>>
    <2>1. \A s \in Slots : IsOpen(s)' => IsOpen(s)
      BY <1>5 DEF IsOpen
    <2>2. AllBacked'
      BY <1>0, <1>5, <2>1, BackedFrame
    <2>3. \A d \in Clients : iob'[d] = iob[d] \/ iob'[d] = NoSlot
      BY <1>0, <1>5 DEF TypeOK
    <2>4. Owned'
      BY <1>0, <1>5, <2>3 DEF Owned
    <2> QED
      BY <1>3, <2>2, <2>4
  <1> QED
    BY <1>1, <1>4, <1>5 DEF Close

\* A client between Lock and UnLock keeps the invariant
LEMMA SafeRequest ==
  ASSUME TypeInv, Safe, NEW c \in Clients, Request(c)
  PROVE  Safe'
  <1>1. Local(c)' /\ AllBacked' /\ Owned'
    BY SafeUntouched, SafeSlotOpenOk, SafeSlotOpenFull, SafeEvict, SafeReseek,
       SafeTransfer, SafeClose DEF Request
  <1>2. /\ Inside(c) /\ c \in Threads
        /\ \A t \in Threads \ {c} : pc'[t] = pc[t] /\ req'[t] = req[t]
        /\ UNCHANGED <<frz, frzFd>>
        /\ \/ pc'[c] \notin {"idle", "lock"} /\ flashemu_sema' = flashemu_sema
           \/ pc'[c] = "idle" /\ flashemu_sema' = Free
    BY InsideStep DEF Safe
  <1>3. MutexInv' /\ (\A d \in Clients : Local(d)') /\ Orphaned'
    BY <1>1, <1>2, InsideFrame DEF Safe
  <1> QED
    BY <1>1, <1>3 DEF Safe

-----------------------------------------------------------------------------
(* Steps that leave the table, the handles and the descriptors alone.      *)

LEMMA TableFrame ==
  ASSUME TypeInv, Safe, UNCHANGED <<emu_files, iob, msfd>>
  PROVE  AllBacked' /\ Owned'
  <1>0. TypeOK /\ AllBacked /\ Owned
    BY DEF TypeInv, Safe
  <1>1. \A s \in Slots : IsOpen(s)' => IsOpen(s)
    BY DEF IsOpen
  <1>2. AllBacked'
    BY <1>0, <1>1, BackedFrame
  <1> QED
    BY <1>0, <1>2, OwnedFrame

\* A client outside stays outside, or locks while nobody else is inside
LEMMA OutsideFrame ==
  ASSUME TypeInv, Safe, NEW c \in Clients, pc[c] \in {"idle", "lock"},
         \A t \in Threads \ {c} : pc'[t] = pc[t] /\ req'[t] = req[t],
         UNCHANGED <<emu_files, iob, msfd, frz, frzFd>>,
         \/ pc'[c] \in {"idle", "lock"} /\ flashemu_sema' = flashemu_sema
         \/ flashemu_sema = Free /\ frz = -1 /\ flashemu_sema' = c,
         Local(c)'
  PROVE  Safe'
  <1>0. /\ c \in Threads /\ c # Deleted /\ Clients \subseteq Threads /\ Apps \subseteq Threads
        /\ c \notin Apps /\ Free \notin Threads /\ MutexInv
    BY ThreadsAssumption DEF Threads, Safe
  <1>1. MutexInv'
    BY <1>0 DEF MutexInv, Inside
  <1>2. ASSUME NEW d \in Clients PROVE Local(d)'
    <2>1. CASE d # c
      <3>1. pc'[d] = pc[d] /\ req'[d] = req[d] /\ Local(d)
        BY <1>0, <2>1 DEF Safe
      <3> QED
        BY <3>1 DEF Local, Inside, IsOpen
    <2> QED
      BY <2>1
  <1>3. Orphaned'
    BY <1>0 DEF Safe, Orphaned, IsOpen
  <1>4. AllBacked' /\ Owned'
    BY TableFrame
  <1> QED
    BY <1>1, <1>2, <1>3, <1>4 DEF Safe

LEMMA SafeCall ==
  ASSUME TypeInv, Safe, NEW c \in Clients, Call(c)
  PROVE  Safe'
  <1>0. c \in Threads /\ pc[c] = "idle" /\ TypeOK
    BY DEF Threads, TypeInv, Call
  <1>1. \A t \in Threads \ {c} : req'[t] = req[t]
    <2>1. PICK rec : req' = [req EXCEPT ![c] = rec]
      BY DEF Call
    <2> QED
      BY <1>0, <2>1 DEF TypeOK
  <1>2. /\ UNCHANGED <<emu_files, iob, msfd, frz, frzFd, flashemu_sema>>
        /\ pc'[c] = "lock" /\ \A t \in Threads \ {c} : pc'[t] = pc[t]
    BY <1>0 DEF Call, Goto, TypeOK, slotVars, lockVars, msVars, sysVars
  <1>3. Local(c)'
    BY <1>2 DEF Local, Inside
  <1> QED
    BY <1>0, <1>1, <1>2, <1>3, OutsideFrame

\* With the lock still in use, Lock succeeds when nobody holds it and the
\* suspend handler does not run
LEMMA LockGuarded ==
  ASSUME MutexInv, NEW t, Lock(t), ~unguarded'
  PROVE  flashemu_sema = Free /\ frz = -1 /\ flashemu_sema' = t
  BY DEF MutexInv, Lock

LEMMA SafeEnter ==
  ASSUME TypeInv, Safe, ~unguarded', NEW c \in Clients, Enter(c)
  PROVE  Safe'
  <1>0. c \in Threads /\ pc[c] = "lock" /\ TypeOK /\ MutexInv
    BY DEF Threads, TypeInv, Safe, Enter, EnterOpen, EnterHandle, EnterPath, Ioctl
  <1>1. UNCHANGED <<emu_files, iob, msfd, frz, frzFd>>
    BY DEF Enter, EnterOpen, EnterHandle, EnterPath, Ioctl, slotVars, msVars, sysVars
  <1>2. CASE UNCHANGED lockVars /\ Return(c)
    <2>1. /\ pc'[c] = "idle" /\ flashemu_sema' = flashemu_sema
          /\ \A t \in Threads \ {c} : pc'[t] = pc[t] /\ req'[t] = req[t]
      BY <1>0, <1>2 DEF Return, Goto, TypeOK, lockVars
    <2>2. Local(c)'
      BY <2>1 DEF Local, Inside
    <2> QED
      BY <1>0, <1>1, <2>1, <2>2, OutsideFrame
  <1>3. ASSUME Lock(c), \A t \in Threads \ {c} : pc'[t] = pc[t] /\ req'[t] = req[t], Local(c)'
        PROVE  Safe'
    <2>1. flashemu_sema = Free /\ frz = -1 /\ flashemu_sema' = c
      BY <1>0, <1>3, LockGuarded
    <2> QED
      BY <1>0, <1>1, <1>3, <2>1, OutsideFrame
  <1>4. CASE EnterOpen(c)
    <2>1. CASE /\ Lock(c) /\ Goto(c, "wait")
               /\ \E s \in Slots : SlotGetFree(s) /\ req' = [req EXCEPT ![c].slot = s]
      <3>1. PICK s \in Slots : SlotGetFree(s) /\ req' = [req EXCEPT ![c].slot = s]
        BY <2>1
      <3>2. /\ pc'[c] = "wait" /\ req'[c].slot = s
            /\ \A t \in Threads \ {c} : pc'[t] = pc[t] /\ req'[t] = req[t]
        BY <1>0, <2>1, <3>1 DEF Goto, TypeOK, ReqRecord
      <3>3. Local(c)'
        BY <1>1, <3>1, <3>2 DEF Local, SlotGetFree
      <3> QED
        BY <1>3, <2>1, <3>2, <3>3
    <2> QED
      BY <1>2, <1>4, <2>1 DEF EnterOpen
  <1>5. CASE EnterHandle(c)
    <2>1. PICK k \in Slots : k = iob[c]
      BY <1>0, <1>5 DEF EnterHandle, TypeInv, ShapeInv
    <2>2. CASE /\ Lock(c) /\ emu_files[k].allocated
               /\ req' = [req EXCEPT ![c] =
                     [@ EXCEPT !.slot = k, !.fd = emu_files[k].fd,
                               !.path = emu_files[k].path, !.flags = emu_files[k].flags]]
               /\ Goto(c, IF emu_files[k].closed THEN "wait" ELSE "io")
      <3>1. \A r \in ReqRecord :
               LET n == [r EXCEPT !.slot = k, !.fd = emu_files[k].fd,
                               !.path = emu_files[k].path, !.flags = emu_files[k].flags]
               IN  n.slot = k /\ n.fd = emu_files[k].fd /\ n.op = r.op
        BY DEF ReqRecord
      <3>2. /\ req'[c].slot = k /\ req'[c].fd = emu_files[k].fd /\ req'[c].op = req[c].op
            /\ \A t \in Threads \ {c} : req'[t] = req[t]
        BY <1>0, <2>2, <3>1 DEF TypeOK
      <3>3. /\ pc'[c] = "io" => IsOpen(k)
            /\ pc'[c] \in {"wait", "io"}
            /\ \A t \in Threads \ {c} : pc'[t] = pc[t]
        BY <1>0, <2>2 DEF Goto, TypeOK, IsOpen
      <3>4. req[c].op # "open"
        BY <1>5 DEF EnterHandle, HandleOps
      <3>5. Local(c)'
        BY <1>1, <3>2, <3>3, <3>4 DEF Local, IsOpen
      <3> QED
        BY <1>3, <2>2, <3>2, <3>3, <3>5
    <2> QED
      BY <1>2, <1>5, <2>1, <2>2 DEF EnterHandle
  <1>6. CASE EnterPath(c)
    <2>1. /\ Lock(c) /\ pc'[c] = "wait" /\ req' = req /\ req[c].op = "path"
          /\ \A t \in Threads \ {c} : pc'[t] = pc[t]
      BY <1>0, <1>6 DEF EnterPath, Goto, TypeOK
    <2>2. Local(c)'
      BY <2>1 DEF Local
    <2> QED
      BY <1>3, <2>1, <2>2
  <1>7. CASE Ioctl(c)
    <2>1. CASE /\ Lock(c) /\ Goto(c, "trap") /\ UNCHANGED req
      <3>1. /\ pc'[c] = "trap" /\ req' = req /\ req[c].op = "ioctl"
            /\ \A t \in Threads \ {c} : pc'[t] = pc[t]
        BY <1>0, <1>7, <2>1 DEF Ioctl, Goto, TypeOK
      <3>2. Local(c)'
        BY <3>1 DEF Local
      <3> QED
        BY <1>3, <2>1, <3>1, <3>2
    <2> QED
      BY <1>2, <1>7, <2>1 DEF Ioctl
  <1> QED
    BY <1>4, <1>5, <1>6, <1>7 DEF Enter

-----------------------------------------------------------------------------
(* Other users of the stick, the hook and the rest of the system.          *)

LEMMA ClientsFrame ==
  ASSUME Safe, \A d \in Clients : pc'[d] = pc[d] /\ req'[d] = req[d],
         UNCHANGED emu_files \/ (\A d \in Clients : pc[d] \in {"idle", "lock"})
  PROVE  \A d \in Clients : Local(d)'
  <1>1. ASSUME NEW d \in Clients PROVE Local(d)'
    <2>1. Local(d) /\ pc'[d] = pc[d] /\ req'[d] = req[d]
      BY DEF Safe
    <2> QED
      BY <2>1 DEF Local, Inside, IsOpen
  <1> QED
    BY <1>1

\* Another user of the stick opens a descriptor that is free and closes its own
LEMMA AppFds ==
  ASSUME TypeInv, Safe, NEW a \in Apps, AppCall(a) \/ AppOpen(a) \/ AppClose(a)
  PROVE  \A s \in Slots : IsOpen(s) => /\ emu_files[s].fd \in Fds
                                       /\ msfd'[emu_files[s].fd] = msfd[emu_files[s].fd]
  <1>0. TypeOK /\ AllBacked
    BY DEF TypeInv, Safe
  <1>1. ASSUME NEW s \in Slots, IsOpen(s)
        PROVE  /\ Live(emu_files[s].fd) /\ emu_files[s].fd \in Fds
               /\ msfd[emu_files[s].fd].file # AppFile
    <2>1. Live(emu_files[s].fd) /\ msfd[emu_files[s].fd].file = emu_files[s].path
      BY <1>0, <1>1 DEF AllBacked, Backed
    <2>2. emu_files[s].path \in Paths
      BY <1>1 DEF IsOpen, TypeInv, PathInv
    <2> QED
      BY <2>1, <2>2, NamesAssumption DEF Live, Paths, Dirs
  <1>2. CASE \E f \in FreeFds : msfd' = Opened(f, AppFile)
    <2>1. PICK f \in FreeFds : msfd' = Opened(f, AppFile)
      BY <1>2
    <2>2. \A g \in Fds \ {f} : msfd'[g] = msfd[g]
      BY <1>0, <2>1 DEF Opened, TypeOK
    <2> QED
      BY <1>1, <2>1, <2>2 DEF FreeFds
  <1>3. CASE \E f \in Fds : msfd[f].file = AppFile /\ msfd' = Shut(f)
    <2>1. PICK f \in Fds : msfd[f].file = AppFile /\ msfd' = Shut(f)
      BY <1>3
    <2>2. \A g \in Fds : g # f => msfd'[g] = msfd[g]
      BY <1>0, <2>1, ShutFrame
    <2> QED
      BY <1>1, <2>1, <2>2
  <1>4. CASE UNCHANGED msfd
    BY <1>1, <1>4
  <1> QED
    BY <1>2, <1>3, <1>4 DEF AppCall, AppOpen, AppClose, msVars

LEMMA SafeApp ==
  ASSUME TypeInv, Safe, NEW a \in Apps, AppCall(a) \/ AppOpen(a) \/ AppClose(a)
  PROVE  Safe'
  <1>0. /\ a \in Threads /\ Clients \subseteq Threads /\ a \notin Clients /\ TypeOK
        /\ AllBacked /\ Owned /\ MutexInv /\ Orphaned
    BY ThreadsAssumption DEF Threads, TypeInv, Safe
  <1>1. /\ UNCHANGED <<emu_files, iob, flashemu_sema, frz, frzFd>>
        /\ pc'[a] \in {"idle", "open", "hook"} /\ pc[a] # "hookclose"
        /\ \A t \in Threads \ {a} : pc'[t] = pc[t] /\ req'[t] = req[t]
    BY <1>0 DEF AppCall, AppOpen, AppClose, slotVars, lockVars, sysVars, Goto, Return, TypeOK
  <1>2. \A s \in Slots : IsOpen(s) => /\ emu_files[s].fd \in Fds
                                      /\ msfd'[emu_files[s].fd] = msfd[emu_files[s].fd]
    BY AppFds
  <1>3. \A s \in Slots : IsOpen(s)' => IsOpen(s)
    BY <1>1 DEF IsOpen
  <1>4. AllBacked'
    BY <1>0, <1>1, <1>2, <1>3, BackedFrame
  <1>5. Owned'
    BY <1>0, <1>1, OwnedFrame
  <1>6. \A d \in Clients : Local(d)'
    BY <1>0, <1>1, ClientsFrame
  <1>7. MutexInv'
    BY <1>0, <1>1 DEF MutexInv, Inside
  <1>8. Orphaned'
    BY <1>0, <1>1 DEF Orphaned, IsOpen, Threads
  <1> QED
    BY <1>4, <1>5, <1>6, <1>7, <1>8 DEF Safe

\* A client cannot get here: it would have to lock again what it holds
LEMMA SafeSlotCloseOneReadOnly ==
  ASSUME TypeInv, Safe, ~unguarded', NEW t \in Threads, SlotCloseOneReadOnly(t)
  PROVE  Safe'
  <1>0. TypeOK /\ AllBacked /\ Owned /\ MutexInv /\ Orphaned /\ pc[t] = "hook"
    BY DEF TypeInv, Safe, SlotCloseOneReadOnly
  <1>1. flashemu_sema = Free
    BY <1>0 DEF SlotCloseOneReadOnly, MutexInv, Lock
  <1>2. /\ \A u \in Threads : ~Inside(u)
        /\ \A d \in Clients : pc[d] \in {"idle", "lock"}
        /\ \A a \in Apps : pc[a] # "hookclose"
    BY <1>0, <1>1, ThreadsAssumption DEF MutexInv, Inside, Threads
  <1>3. t \in Apps /\ t \notin Clients /\ Clients \subseteq Threads /\ Free \notin Threads
    BY <1>0, <1>2, ThreadsAssumption DEF Threads
  <1>4. UNCHANGED <<iob, msfd, frz, frzFd>>
    BY DEF SlotCloseOneReadOnly, msVars, sysVars
  <1>5. CASE /\ Lock(t)
             /\ \E v \in Slots :
                   /\ Victim(v)
                   /\ emu_files' = [emu_files EXCEPT ![v] =
                          [@ EXCEPT !.offset = Tell(emu_files[v].fd), !.closed = TRUE]]
                   /\ req' = [req EXCEPT ![t].fd = emu_files[v].fd]
             /\ Goto(t, "hookclose")
    <2>1. PICK v \in Slots :
                   /\ Victim(v)
                   /\ emu_files' = [emu_files EXCEPT ![v] =
                          [@ EXCEPT !.offset = Tell(emu_files[v].fd), !.closed = TRUE]]
                   /\ req' = [req EXCEPT ![t].fd = emu_files[v].fd]
      BY <1>5
    <2>2. flashemu_sema = Free /\ frz = -1 /\ flashemu_sema' = t
      BY <1>0, <1>5, LockGuarded
    <2>3. /\ pc'[t] = "hookclose" /\ req'[t].fd = emu_files[v].fd
          /\ \A u \in Threads \ {t} : pc'[u] = pc[u] /\ req'[u] = req[u]
      BY <1>0, <1>5, <2>1 DEF Goto, TypeOK, ReqRecord
    <2>4. /\ \A s \in Slots : Same(s)
          /\ ~IsOpen(v)' /\ \A s \in Slots \ {v} : emu_files'[s] = emu_files[s]
      BY <1>0, <2>1, ClosedFrame
    <2>5. IsOpen(v) /\ \A s \in Slots : IsOpen(s)' => IsOpen(s) /\ s # v
      BY <2>1, <2>4 DEF IsOpen, Victim, Evictable
    <2>6. AllBacked'
      BY <1>0, <1>4, <2>4, <2>5, BackedFrame DEF Same
    <2>7. Owned'
      BY <1>0, <1>4, <2>4, OwnedFrame DEF Same
    <2>8. \A d \in Clients : Local(d)'
      BY <1>2, <1>3, <2>3, ClientsFrame
    <2>9. MutexInv'
      <3>1. t # Deleted
        BY ThreadsAssumption DEF Threads
      <3> QED
        BY <1>2, <1>4, <2>2, <2>3, <3>1 DEF MutexInv, Inside
    <2>10. Orphaned'
      <3>1. \A s \in Slots : IsOpen(s)' => emu_files'[s].fd # emu_files[v].fd
        BY <1>0, <2>4, <2>5 DEF AllBacked, Backed
      <3>2. \A s \in Slots : IsOpen(s)' => emu_files'[s].fd # frzFd'
        BY <1>0, <1>4, <2>4, <2>5 DEF Orphaned
      <3>3. \A a \in Apps \ {t} : pc'[a] # "hookclose"
        BY <1>2, <2>3 DEF Threads
      <3> QED
        BY <2>3, <3>1, <3>2, <3>3 DEF Orphaned
    <2> QED
      BY <2>6, <2>7, <2>8, <2>9, <2>10 DEF Safe
  <1>6. CASE UNCHANGED <<lockVars, emu_files>> /\ Return(t)
    <2>1. /\ pc'[t] = "idle" /\ UNCHANGED <<flashemu_sema, emu_files>>
          /\ \A u \in Threads \ {t} : pc'[u] = pc[u] /\ req'[u] = req[u]
      BY <1>0, <1>6 DEF Return, Goto, TypeOK, lockVars
    <2>2. AllBacked' /\ Owned'
      BY <1>4, <2>1, TableFrame
    <2>3. \A d \in Clients : Local(d)'
      BY <1>3, <2>1, ClientsFrame
    <2>4. MutexInv'
      BY <1>0, <1>2, <1>3, <1>4, <2>1 DEF MutexInv, Inside
    <2>5. Orphaned'
      BY <1>0, <1>2, <1>4, <2>1 DEF Orphaned, IsOpen, Threads
    <2> QED
      BY <2>2, <2>3, <2>4, <2>5 DEF Safe
  <1> QED
    BY <1>3, <1>5, <1>6 DEF SlotCloseOneReadOnly

LEMMA SafeHookClose ==
  ASSUME TypeInv, Safe, NEW t \in Threads, HookClose(t)
  PROVE  Safe'
  <1>0. /\ TypeOK /\ AllBacked /\ Owned /\ MutexInv /\ Orphaned /\ pc[t] = "hookclose"
        /\ \A d \in Clients : Local(d)
        /\ UNCHANGED <<emu_files, iob, req, frz, frzFd>> /\ msfd' = Shut(req[t].fd)
    BY DEF TypeInv, Safe, HookClose, slotVars, sysVars
  <1>1. t \in Apps /\ t \notin Clients /\ Clients \subseteq Threads
    BY <1>0, ThreadsAssumption DEF Local, Threads
  <1>2. /\ flashemu_sema = t /\ frz = -1 /\ frzFd = NoFd
        /\ \A u \in Threads \ {t} : ~Inside(u)
        /\ \A d \in Clients \ {t} : pc[d] \in {"idle", "lock"}
        /\ \A a \in Apps \ {t} : pc[a] # "hookclose"
    BY <1>0, <1>1, Alone DEF Inside
  <1>3. /\ pc'[t] \in {"open", "wait"} /\ flashemu_sema' = Free
        /\ \A u \in Threads \ {t} : pc'[u] = pc[u]
    <2>1. req[t].back \in {"open", "wait"}
      BY <1>0 DEF TypeOK, ReqRecord
    <2> QED
      BY <1>0, <1>2, <2>1, ThreadsAssumption DEF HookClose, Goto, UnLock, TypeOK, Threads
  <1>4. AllBacked'
    <2>1. \A g \in Fds : g # req[t].fd => msfd'[g] = msfd[g]
      BY <1>0, ShutFrame
    <2>2. \A s \in Slots : IsOpen(s)' => /\ IsOpen(s)
                                        /\ emu_files[s].fd \in Fds /\ emu_files[s].fd # req[t].fd
      BY <1>0, <1>1 DEF IsOpen, Orphaned, AllBacked, Backed, Live
    <2> QED
      BY <1>0, <2>1, <2>2, BackedFrame
  <1>5. Owned'
    BY <1>0, OwnedFrame
  <1>6. \A d \in Clients : Local(d)'
    BY <1>0, <1>1, <1>3, ClientsFrame
  <1>7. MutexInv'
    BY <1>0, <1>1, <1>2, <1>3, ThreadsAssumption DEF MutexInv, Inside
  <1>8. Orphaned'
    BY <1>0, <1>2, <1>3 DEF Orphaned, IsOpen, Threads
  <1> QED
    BY <1>4, <1>5, <1>6, <1>7, <1>8 DEF Safe

\* The suspend handler, while nobody holds the semaphore
LEMMA SafeSuspend ==
  ASSUME TypeInv, Safe, SuspendSlot \/ SuspendClose
  PROVE  Safe'
  <1>0. /\ TypeOK /\ AllBacked /\ Owned /\ MutexInv /\ Orphaned
        /\ UNCHANGED <<iob, pc, req, flashemu_sema>> /\ frz \in Slots
    BY DEF TypeInv, ShapeInv, Safe, SuspendSlot, SuspendClose, slotVars, lockVars
  <1>1. frz # -1 /\ flashemu_sema = Free
    BY <1>0, SlotsAssumption DEF Slots, MutexInv
  <1>2. /\ \A u \in Threads : ~Inside(u)
        /\ \A d \in Clients : pc[d] \in {"idle", "lock"}
        /\ \A a \in Apps : pc[a] # "hookclose"
    BY <1>0, <1>1, ThreadsAssumption DEF MutexInv, Inside, Threads
  <1>3. MutexInv'
    BY <1>0, <1>1, <1>2, ThreadsAssumption DEF MutexInv, Inside
  <1>4. \A d \in Clients : Local(d)'
    BY <1>0, <1>2, ClientsFrame
  <1>5. ASSUME AllBacked', \A s \in Slots : IsOpen(s)' => emu_files'[s].fd # frzFd'
        PROVE  Orphaned'
    BY <1>0, <1>2, <1>5 DEF Orphaned
  <1>6. CASE SuspendSlot
    <2>1. CASE /\ emu_files' = [emu_files EXCEPT ![frz] =
                      [@ EXCEPT !.offset = Tell(emu_files[frz].fd), !.closed = TRUE]]
               /\ frzFd' = emu_files[frz].fd /\ IsOpen(frz)
      <3>1. PICK v \in Slots : v = frz
        BY <1>0
      <3>2. emu_files' = [emu_files EXCEPT ![v] =
                      [@ EXCEPT !.offset = Tell(emu_files[v].fd), !.closed = TRUE]]
        BY <2>1, <3>1
      <3>3. /\ \A s \in Slots : Same(s)
            /\ ~IsOpen(v)' /\ \A s \in Slots \ {v} : emu_files'[s] = emu_files[s]
        BY <1>0, <3>2, ClosedFrame
      <3>4. UNCHANGED msfd /\ \A s \in Slots : IsOpen(s)' => IsOpen(s) /\ s # v
        BY <1>6, <3>3 DEF SuspendSlot, IsOpen, msVars
      <3>5. AllBacked'
        BY <1>0, <3>3, <3>4, BackedFrame DEF Same
      <3>6. Owned'
        BY <1>0, <3>3, OwnedFrame DEF Same
      <3>7. \A s \in Slots : IsOpen(s)' => emu_files'[s].fd # frzFd'
        BY <1>0, <2>1, <3>1, <3>3, <3>4 DEF AllBacked, Backed
      <3> QED
        BY <1>3, <1>4, <1>5, <3>5, <3>6, <3>7 DEF Safe
    <2>2. CASE UNCHANGED <<emu_files, frzFd>>
      <3>1. UNCHANGED <<emu_files, iob, msfd>>
        BY <1>0, <1>6, <2>2 DEF SuspendSlot, msVars
      <3>2. AllBacked' /\ Owned'
        BY <3>1, TableFrame
      <3>3. \A s \in Slots : IsOpen(s)' => emu_files'[s].fd # frzFd'
        BY <1>0, <2>2 DEF Orphaned, IsOpen
      <3> QED
        BY <1>3, <1>4, <1>5, <3>2, <3>3 DEF Safe
    <2> QED
      BY <1>6, <2>1, <2>2 DEF SuspendSlot
  <1>7. CASE SuspendClose
    <2>1. UNCHANGED emu_files /\ msfd' = Shut(frzFd) /\ frzFd' = NoFd
      BY <1>7 DEF SuspendClose, slotVars
    <2>2. \A g \in Fds : g # frzFd => msfd'[g] = msfd[g]
      BY <1>0, <2>1, ShutFrame
    <2>3. \A s \in Slots : IsOpen(s)' => /\ IsOpen(s)
                                        /\ emu_files[s].fd \in Fds /\ emu_files[s].fd # frzFd
      BY <1>0, <2>1 DEF IsOpen, Orphaned, AllBacked, Backed, Live
    <2>4. AllBacked'
      BY <1>0, <2>1, <2>2, <2>3, BackedFrame
    <2>5. Owned'
      BY <1>0, <2>1, OwnedFrame
    <2>6. \A s \in Slots : IsOpen(s)' => emu_files'[s].fd # frzFd'
      BY <2>1, <2>3, FdsAssumption
    <2> QED
      BY <1>3, <1>4, <1>5, <2>4, <2>5, <2>6 DEF Safe
  <1> QED
    BY <1>6, <1>7

LEMMA SafeSystem ==
  ASSUME TypeInv, Safe, ~unguarded', System \/ UNCHANGED vars
  PROVE  Safe'
  <1>1. CASE SuspendSlot \/ SuspendClose
    BY <1>1, SafeSuspend
  <1>2. CASE SceLfatfsAssign \/ OnModuleStart \/ CardReady \/ SuspendStart \/ Resume
             \/ UNCHANGED vars
    <2>0. MutexInv /\ Orphaned
      BY DEF Safe
    <2>1. UNCHANGED <<emu_files, iob, msfd, pc, req, flashemu_sema, frzFd>>
      BY <1>2 DEF SceLfatfsAssign, OnModuleStart, CardReady, SuspendStart, Resume, vars,
                  slotVars, lockVars, msVars, sysVars
    <2>2. AllBacked' /\ Owned'
      BY <2>1, TableFrame
    <2>3. \A d \in Clients : Local(d)'
      BY <2>1, ClientsFrame
    <2>4. MutexInv'
      <3>1. frz' # -1 => flashemu_sema = Free
        BY <1>2, <2>0 DEF MutexInv, SceLfatfsAssign, OnModuleStart, CardReady, SuspendStart,
                          Resume, vars, sysVars
      <3> QED
        BY <2>0, <2>1, <3>1 DEF MutexInv, Inside
    <2>5. Orphaned'
      BY <2>0, <2>1 DEF Orphaned, IsOpen
    <2> QED
      BY <2>2, <2>3, <2>4, <2>5 DEF Safe
  <1> QED
    BY <1>1, <1>2 DEF System, Suspend, PreareRebootFlashEmu

-----------------------------------------------------------------------------
(* The invariant.                                                          *)

\* Once the lock has been bypassed it stays so
LEMMA UnguardedStays ==
  ASSUME [Next]_vars, unguarded
  PROVE  unguarded'
  <1> USE DEF lockVars, Lock, UnLock
  <1>1. CASE \E c \in Clients : Call(c)
    BY <1>1 DEF Call
  <1>2. CASE \E c \in Clients : Enter(c)
    BY <1>2 DEF Enter, EnterOpen, EnterHandle, EnterPath, Ioctl
  <1>3. ASSUME NEW c \in Clients, Request(c) PROVE unguarded'
    BY <1>3 DEF Request, WaitMS, SlotOpenOk, SlotOpenFail, SlotOpenFull, Evict, Reseek,
                Transfer, Close, PathIo
  <1>4. CASE \E a \in Apps : AppCall(a) \/ AppOpen(a) \/ AppClose(a)
    BY <1>4 DEF AppCall, AppOpen, AppClose
  <1>5. CASE \E t \in Threads : Hook(t)
    BY <1>5 DEF Hook, SlotCloseOneReadOnly, HookClose
  <1>6. CASE System
    BY <1>6 DEF System, SceLfatfsAssign, OnModuleStart, CardReady, SuspendStart, Suspend,
                SuspendSlot, SuspendClose, Resume, PreareRebootFlashEmu
  <1>7. CASE UNCHANGED vars
    BY <1>7 DEF vars
  <1> QED
    BY <1>1, <1>2, <1>3, <1>4, <1>5, <1>6, <1>7 DEF Next

LEMMA IInvInit == Init => IInv
  <1>1. SUFFICES ASSUME Init PROVE Safe
    BY <1>1, TypeInvInit DEF IInv
  <1>2. \A s \in Slots : ~emu_files[s].allocated
    BY <1>1 DEF Init, FreshSlot
  <1>3. MutexInv
    BY <1>1, ThreadsAssumption DEF Init, MutexInv, Inside, Threads
  <1>4. \A c \in Clients : Local(c)
    BY <1>1 DEF Init, Local, Inside, Threads
  <1>5. Orphaned /\ AllBacked
    BY <1>1, <1>2 DEF Init, Orphaned, AllBacked, IsOpen, Threads
  <1>6. Owned
    BY <1>1 DEF Init, Owned
  <1> QED
    BY <1>3, <1>4, <1>5, <1>6 DEF Safe

LEMMA IInvNext == IInv /\ [Next]_vars => IInv'
  <1>1. SUFFICES ASSUME IInv, [Next]_vars, ~unguarded' PROVE Safe'
    BY TypeInvNext DEF IInv
  <1>2. TypeInv /\ Safe
    BY <1>1, UnguardedStays DEF IInv
  <1>3. CASE \E c \in Clients : Call(c)
    BY <1>2, <1>3, SafeCall
  <1>4. CASE \E c \in Clients : Enter(c)
    BY <1>1, <1>2, <1>4, SafeEnter
  <1>5. CASE \E c \in Clients : Request(c)
    BY <1>2, <1>5, SafeRequest
  <1>6. CASE \E a \in Apps : AppCall(a) \/ AppOpen(a) \/ AppClose(a)
    BY <1>2, <1>6, SafeApp
  <1>7. CASE \E t \in Threads : Hook(t)
    BY <1>1, <1>2, <1>7, SafeSlotCloseOneReadOnly, SafeHookClose DEF Hook
  <1>8. CASE System \/ UNCHANGED vars
    BY <1>1, <1>2, <1>8, SafeSystem
  <1> QED
    BY <1>1, <1>3, <1>4, <1>5, <1>6, <1>7, <1>8 DEF Next

\* While the table is used under the lock, every open slot has a live
\* descriptor of its own that is open on the slot's file, whatever is
\* evicted, reopened, closed at a suspend or taken by other users of the stick.
THEOREM OpenSlotsBacked == Spec => []SlotsBacked
  <1>1. IInv => SlotsBacked
    BY DEF IInv, Safe, AllBacked, Backed, SlotsBacked
  <1> QED
    BY IInvInit, IInvNext, <1>1, PTL DEF Spec

\* While the table is used under the lock, no two handles share a slot and
\* the slot of a handle is allocated, although a request chooses its slot
\* before it blocks and allocates it afterwards.
THEOREM SlotsOwned == Spec => []HandlesOwnSlots
  <1>1. IInv => HandlesOwnSlots
    BY DEF IInv, Safe, Owned, HandlesOwnSlots
  <1> QED
    BY IInvInit, IInvNext, <1>1, PTL DEF Spec
-----------------------------------------------------------------------------
(* Positions.                                                              *)

\* What a client inside knows of the slot of its handle and of its victim: a
\* slot it has yet to reopen is closed, and the victim's position is saved
Held(c) ==
    LET r == req[c] IN
    Inside(c) =>
        /\ r.op \in HandleOps =>
              /\ r.flags = emu_files[r.slot].flags
              /\ pc[c] \notin {"seek", "io"} => emu_files[r.slot].closed
        /\ pc[c] = "evict" =>
              /\ emu_files[r.victim].offset = Tell(emu_files[r.victim].fd)
              /\ emu_files[r.victim].flags = "RDONLY"

\* A saved position can be gone back to, and before the first suspend only
\* read-only files are closed
SlotsKept ==
    /\ \A s \in Slots : emu_files[s].offset # BadOff
    /\ suspends = 0 =>
          /\ frz = -1
          /\ \A s \in Slots : emu_files[s].allocated /\ emu_files[s].closed
                                => emu_files[s].flags = "RDONLY"

Kept == SlotsKept /\ \A c \in Clients : Held(c)

\* The slots the suspend handler has gone through
Closing ==
    frz # -1 =>
        /\ \A s \in Slots : s < frz /\ IsOpen(s) => emu_files[s].flags = "DIR"
        /\ frzFd # NoFd => ~IsOpen(frz)

PInv == IInv /\ (~unguarded => Kept /\ Closing)

-----------------------------------------------------------------------------
(* The suspend handler closes every regular file.                          *)

\* While it runs nobody is inside, and who gets in bypasses the lock
LEMMA SuspendAlone ==
  ASSUME IInv, frz # -1, [Next]_vars, ~unguarded'
  PROVE  Suspend \/ UNCHANGED <<emu_files, frz, frzFd>>
  <1>1. TypeInv /\ Safe /\ MutexInv
    BY UnguardedStays DEF IInv, Safe
  <1>2. /\ flashemu_sema = Free
        /\ \A t \in Threads : ~Inside(t)
    BY <1>1, ThreadsAssumption DEF MutexInv, Threads
  <1>3. \A t \in Threads : ~Lock(t)
    BY <1>1, LockGuarded
  <1>4. CASE \E c \in Clients : Call(c)
    BY <1>4 DEF Call, slotVars, sysVars
  <1>5. CASE \E c \in Clients : Enter(c)
    BY <1>5 DEF Enter, EnterOpen, EnterHandle, EnterPath, Ioctl, slotVars, sysVars
  <1>6. ASSUME NEW c \in Clients, Request(c) PROVE FALSE
    BY <1>1, <1>2, <1>6, InsideStep
  <1>7. CASE \E a \in Apps : AppCall(a) \/ AppOpen(a) \/ AppClose(a)
    BY <1>7 DEF AppCall, AppOpen, AppClose, slotVars, sysVars
  <1>8. CASE \E t \in Threads : Hook(t)
    BY <1>3, <1>8 DEF Hook, SlotCloseOneReadOnly, HookClose, slotVars, sysVars
  <1>9. CASE System
    BY <1>9 DEF System, SceLfatfsAssign, OnModuleStart, CardReady, SuspendStart,
                PreareRebootFlashEmu, slotVars, sysVars
  <1>10. CASE UNCHANGED vars
    BY <1>10 DEF vars, slotVars, sysVars
  <1> QED
    BY <1>4, <1>5, <1>6, <1>7, <1>8, <1>9, <1>10 DEF Next

LEMMA ClosingStep ==
  ASSUME IInv, Closing, [Next]_vars, ~unguarded'
  PROVE  Closing'
  <1>0. TypeOK /\ TypeInv
    BY DEF IInv, TypeInv
  <1>1. CASE frz = -1
    <2>1. frzFd = NoFd
      BY <1>0, <1>1, SlotsAssumption DEF TypeInv, ShapeInv, Slots
    <2>2. frz' \in {-1, 0} /\ UNCHANGED frzFd
      <3>1. CASE SuspendStart
        BY <3>1 DEF SuspendStart
      <3>2. CASE Suspend
        BY <1>1, <2>1, <3>2, SlotsAssumption DEF Suspend, SuspendSlot, SuspendClose, Resume, Slots
      <3>3. CASE ~SuspendStart /\ ~Suspend
        BY <1>1, <3>3 DEF Next, Call, Enter, EnterOpen, EnterHandle, EnterPath, Ioctl, Request,
           WaitMS, SlotOpenOk, SlotOpenFail, SlotOpenFull, Evict, Reseek, Transfer, Close, PathIo,
           AppCall, AppOpen, AppClose, Hook, SlotCloseOneReadOnly, HookClose, System,
           SceLfatfsAssign, OnModuleStart, CardReady, PreareRebootFlashEmu, vars, sysVars
      <3> QED
        BY <3>1, <3>2, <3>3
    <2> QED
      BY <2>1, <2>2, SlotsAssumption DEF Closing, Slots
  <1>2. CASE frz # -1 /\ UNCHANGED <<emu_files, frz, frzFd>>
    BY <1>2 DEF Closing, IsOpen
  <1>3. CASE frz # -1 /\ SuspendSlot
    <2>1. PICK v \in Slots : v = frz
      BY <1>3 DEF SuspendSlot
    <2>2. CASE IsOpen(v) /\ emu_files[v].flags # "DIR"
      <3>1. /\ emu_files' = [emu_files EXCEPT ![v] =
                   [@ EXCEPT !.offset = Tell(emu_files[v].fd), !.closed = TRUE]]
            /\ frz' = v
        BY <1>3, <2>1, <2>2 DEF SuspendSlot
      <3>2. ~IsOpen(v)' /\ \A s \in Slots \ {v} : emu_files'[s] = emu_files[s]
        BY <1>0, <3>1, ClosedFrame
      <3>3. \A s \in Slots : s < v => s # v
        BY DEF Slots
      <3> QED
        BY <1>3, <2>1, <3>1, <3>2, <3>3 DEF Closing, IsOpen
    <2>3. CASE ~(IsOpen(v) /\ emu_files[v].flags # "DIR")
      <3>1. UNCHANGED <<emu_files, frzFd>> /\ frz' = v + 1 /\ frzFd = NoFd
        BY <1>3, <2>1, <2>3 DEF SuspendSlot
      <3>2. \A s \in Slots : s < v + 1 => s < v \/ s = v
        BY DEF Slots
      <3> QED
        BY <1>3, <2>1, <2>3, <3>1, <3>2 DEF Closing, IsOpen
    <2> QED
      BY <2>2, <2>3
  <1>4. CASE frz # -1 /\ SuspendClose
    <2>1. /\ UNCHANGED emu_files /\ frz' = frz + 1 /\ frzFd' = NoFd /\ ~IsOpen(frz)
          /\ frz \in Slots
      BY <1>0, <1>4 DEF SuspendClose, Closing, slotVars, TypeInv, ShapeInv
    <2>2. \A s \in Slots : s < frz + 1 => s < frz \/ s = frz
      BY <2>1 DEF Slots
    <2> QED
      BY <1>4, <2>1, <2>2 DEF Closing, IsOpen
  <1>5. CASE frz # -1 /\ Resume
    BY <1>5 DEF Resume, Closing
  <1> QED
    BY <1>1, <1>2, <1>3, <1>4, <1>5, SuspendAlone DEF Suspend

-----------------------------------------------------------------------------
(* Frames.                                                                 *)

\* A client keeps its position, or a request of its own completes
Keeps(c) ==
    iob[c] # NoSlot /\ iob'[c] = iob[c] =>
        Position(c)' = Position(c) \/ (pc[c] = "io" /\ pc'[c] = "idle")

Seeking(c) == pc[c] = "seek"

\* The slot of a handle is allocated, and open on a descriptor or closed
LEMMA HandleSlot ==
  ASSUME TypeInv, Safe, NEW c \in Clients, iob[c] # NoSlot
  PROVE  /\ iob[c] \in Slots /\ emu_files[iob[c]].allocated
         /\ \/ emu_files[iob[c]].closed
            \/ IsOpen(iob[c]) /\ emu_files[iob[c]].fd \in Fds /\ Live(emu_files[iob[c]].fd)
  <1>1. iob[c] \in Slots /\ emu_files[iob[c]].allocated
    BY DEF TypeInv, TypeOK, Safe, Owned
  <1>2. ~emu_files[iob[c]].closed => IsOpen(iob[c])
    BY <1>1 DEF IsOpen
  <1> QED
    BY <1>1, <1>2 DEF Safe, AllBacked, Backed, Live

\* Nothing the position of a client depends on changes
LEMMA PositionFrame ==
  ASSUME TypeInv, Safe, NEW c \in Clients, Seeking(c)' <=> Seeking(c),
         iob[c] # NoSlot => emu_files'[iob[c]] = emu_files[iob[c]],
         iob[c] # NoSlot /\ IsOpen(iob[c]) =>
            msfd'[emu_files[iob[c]].fd] = msfd[emu_files[iob[c]].fd]
  PROVE  Keeps(c)
  <1> SUFFICES ASSUME iob[c] # NoSlot, iob'[c] = iob[c] PROVE Position(c)' = Position(c)
    BY DEF Keeps
  <1>1. CASE emu_files[iob[c]].closed
    BY <1>1, HandleSlot DEF Position, Seeking
  <1>2. CASE ~emu_files[iob[c]].closed
    BY <1>2, HandleSlot DEF Position, Seeking, Tell, Live
  <1> QED
    BY <1>1, <1>2

\* The position is saved, and the slot is closed or stays as it is
LEMMA PositionSaved ==
  ASSUME TypeInv, Safe, NEW c \in Clients, ~Seeking(c), ~Seeking(c)', iob[c] # NoSlot,
         IsOpen(iob[c]), emu_files'[iob[c]].offset = Tell(emu_files[iob[c]].fd),
         \/ emu_files'[iob[c]].closed
         \/ ~emu_files'[iob[c]].closed /\ emu_files'[iob[c]].fd = emu_files[iob[c]].fd /\ UNCHANGED msfd
  PROVE  Keeps(c)
  <1> SUFFICES ASSUME iob'[c] = iob[c] PROVE Position(c)' = Position(c)
    BY DEF Keeps
  <1> QED
    BY HandleSlot DEF Position, Seeking, Tell, Live, IsOpen

\* A step that leaves the table and the descriptors alone
LEMMA PositionsQuiet ==
  ASSUME TypeInv, Safe, UNCHANGED <<emu_files, msfd>>, \A c \in Clients : Seeking(c)' <=> Seeking(c)
  PROVE  \A c \in Clients : Keeps(c)
  BY PositionFrame

LEMMA SlotsKeptFrame ==
  ASSUME SlotsKept, UNCHANGED <<frz, suspends>>,
         \A s \in Slots : emu_files'[s].offset = emu_files[s].offset \/ emu_files'[s].offset # BadOff,
         \A s \in Slots : emu_files'[s].allocated /\ emu_files'[s].closed =>
            \/ emu_files'[s].flags = "RDONLY"
            \/ /\ emu_files[s].allocated /\ emu_files[s].closed
               /\ emu_files'[s].flags = emu_files[s].flags
  PROVE  SlotsKept'
  BY DEF SlotsKept

\* While a client is inside, nothing is asked of the others
LEMMA HeldOthers ==
  ASSUME TypeInv, Safe, NEW c \in Clients, Inside(c),
         \A t \in Threads \ {c} : pc'[t] = pc[t]
  PROVE  /\ \A d \in Clients \ {c} : Held(d)'
         /\ \A d \in Clients \ {c} : ~Seeking(d) /\ ~Seeking(d)'
  <1>1. \A d \in Clients \ {c} : pc[d] \in {"idle", "lock"} /\ pc'[d] \in {"idle", "lock"}
    <2>1. \A d \in Clients \ {c} : pc[d] \in {"idle", "lock"}
      BY Alone DEF Safe, Threads
    <2> QED
      BY <2>1 DEF Threads
  <1> QED
    BY <1>1 DEF Held, Inside, Seeking

\* Nobody is inside after the step
LEMMA HeldNobody ==
  ASSUME \A d \in Clients : pc'[d] \in {"idle", "lock"}
  PROVE  \A d \in Clients : Held(d)'
  BY DEF Held, Inside

-----------------------------------------------------------------------------
(* The steps of a client inside.                                           *)

\* Steps that leave the slots, the handles and the descriptors' files alone
LEMMA KeptUntouched ==
  ASSUME TypeInv, Safe, Kept, NEW c \in Clients, WaitMS(c) \/ SlotOpenFail(c) \/ PathIo(c)
  PROVE  Held(c)' /\ SlotsKept' /\ \A d \in Clients : Keeps(d)
  <1>0. /\ c \in Threads /\ TypeOK /\ Held(c) /\ pc[c] \notin {"idle", "lock", "seek"} /\ Inside(c)
        /\ UNCHANGED <<emu_files, iob, msfd, frz, suspends>> /\ SlotsKept
        /\ \A t \in Threads \ {c} : pc'[t] = pc[t]
    BY DEF Threads, TypeInv, TypeOK, Kept, WaitMS, SlotOpenFail, PathIo, Inside, Goto, Return,
           slotVars, msVars, sysVars
  <1>1. SlotsKept'
    BY <1>0, SlotsKeptFrame
  <1>2. ASSUME pc'[c] = "idle" PROVE Held(c)'
    BY <1>2 DEF Held, Inside
  <1>3. ASSUME pc'[c] # "idle" PROVE Held(c)'
    <2>1. /\ pc'[c] \in {"hook", "open", "io", "wait"}
          /\ pc'[c] = "io" => req[c].op = "path"
          /\ pc[c] = "io" => req[c].op = "path"
          /\ req'[c].op = req[c].op /\ req'[c].slot = req[c].slot /\ req'[c].flags = req[c].flags
      <3>1. CASE WaitMS(c)
        BY <1>0, <3>1 DEF WaitMS, AfterWait, Goto, TypeOK, ReqRecord
      <3>2. CASE SlotOpenFail(c)
        <4>1. req' = [req EXCEPT ![c].path = <<req[c].path[1], "variant">>] /\ Goto(c, "wait")
              /\ pc[c] = "open"
          BY <1>0, <1>3, <3>2 DEF SlotOpenFail, Return, Goto, TypeOK
        <4> QED
          BY <1>0, <4>1 DEF Goto, TypeOK, ReqRecord
      <3>3. CASE PathIo(c)
        BY <1>0, <1>3, <3>3 DEF PathIo, Return, Goto, TypeOK
      <3> QED
        BY <3>1, <3>2, <3>3
    <2> QED
      BY <1>0, <2>1 DEF Held, HandleOps
  <1>4. \A d \in Clients : Seeking(d)' <=> Seeking(d)
    <2>1. pc'[c] # "seek"
      BY <1>0 DEF WaitMS, AfterWait, SlotOpenFail, PathIo, Goto, Return, TypeOK
    <2> QED
      BY <1>0, <2>1 DEF Seeking, Threads
  <1> QED
    BY <1>0, <1>1, <1>2, <1>3, <1>4, PositionsQuiet

\* A slot that is filled keeps its saved position: a reopened one is still
\* there, and a free one has no handle
LEMMA KeptSlotOpenOk ==
  ASSUME TypeInv, Safe, Kept, NEW c \in Clients, SlotOpenOk(c)
  PROVE  Held(c)' /\ SlotsKept' /\ \A d \in Clients : Keeps(d)
  <1> DEFINE r == req[c]
  <1>0. /\ c \in Threads /\ TypeOK /\ Local(c) /\ Held(c) /\ SlotsKept /\ pc[c] = "open"
        /\ r \in ReqRecord /\ UNCHANGED <<frz, suspends>> /\ Inside(c)
    BY DEF Threads, TypeInv, TypeOK, Safe, Kept, SlotOpenOk, sysVars, Inside
  <1>1. PICK f \in FreeFds :
           /\ msfd' = Opened(f, r.path)
           /\ emu_files' = [emu_files EXCEPT ![r.slot] =
                  [@ EXCEPT !.allocated = TRUE, !.closed = FALSE, !.fd = f,
                            !.path = r.path, !.flags = r.flags]]
           /\ IF r.op = "open" THEN iob' = [iob EXCEPT ![c] = r.slot] /\ Return(c)
              ELSE req' = [req EXCEPT ![c].fd = f] /\ Goto(c, "seek") /\ iob' = iob
    BY DEF SlotOpenOk
  <1>2. /\ r.op \in HandleOps \cup {"open"} /\ r.slot \in Slots
        /\ r.op \in HandleOps => r.slot = iob[c]
    BY <1>0 DEF TypeInv, ShapeInv
  <1>k. PICK k \in Slots : k = r.slot
    BY <1>2
  <1>3. ~Live(f) /\ \A g \in Fds \ {f} : msfd'[g] = msfd[g]
    BY <1>0, <1>1 DEF FreeFds, Opened, TypeOK
  <1>4. /\ emu_files'[k].offset = emu_files[k].offset /\ ~emu_files'[k].closed
        /\ emu_files'[k].flags = r.flags
        /\ \A s \in Slots \ {k} : emu_files'[s] = emu_files[s]
    <2> DEFINE N(e) == [e EXCEPT !.allocated = TRUE, !.closed = FALSE, !.fd = f,
                                 !.path = r.path, !.flags = r.flags]
    <2>1. \A e \in SlotRecord : N(e).offset = e.offset /\ ~N(e).closed /\ N(e).flags = r.flags
      BY DEF SlotRecord
    <2>2. emu_files'[k] = N(emu_files[k])
      BY <1>0, <1>1, <1>k DEF TypeOK
    <2>3. emu_files[k] \in SlotRecord /\ \A s \in Slots \ {k} : emu_files'[s] = emu_files[s]
      BY <1>0, <1>1, <1>k DEF TypeOK
    <2> QED
      BY <2>1, <2>2, <2>3
  <1>5. SlotsKept'
    BY <1>0, <1>4, SlotsKeptFrame
  <1>6. ASSUME NEW d \in Clients, iob[d] # NoSlot, iob[d] # k, Seeking(d)' <=> Seeking(d)
        PROVE  Keeps(d)
    <2>1. emu_files'[iob[d]] = emu_files[iob[d]]
      BY <1>4, <1>6, HandleSlot
    <2>2. IsOpen(iob[d]) => msfd'[emu_files[iob[d]].fd] = msfd[emu_files[iob[d]].fd]
      BY <1>3, <1>6, HandleSlot DEF IsOpen
    <2> QED
      BY <1>6, <2>1, <2>2, PositionFrame
  <1>7. \A t \in Threads \ {c} : pc'[t] = pc[t]
    BY <1>0, <1>1 DEF Return, Goto, TypeOK
  <1>8. \A d \in Clients \ {c} : ~Seeking(d) /\ ~Seeking(d)'
    BY <1>0, <1>7, HeldOthers
  <1>9. CASE r.op = "open"
    <2>1. pc'[c] = "idle" /\ ~emu_files[k].allocated
      BY <1>0, <1>1, <1>9, <1>k DEF Return, Goto, TypeOK, Local, Inside
    <2>2. ASSUME NEW d \in Clients PROVE Keeps(d)
      <3>1. Seeking(d)' <=> Seeking(d)
        BY <1>0, <1>8, <2>1 DEF Seeking
      <3>2. iob[d] # NoSlot => iob[d] # k
        BY <2>1, HandleSlot
      <3> QED
        BY <1>6, <3>1, <3>2 DEF Keeps
    <2> QED
      BY <1>5, <2>1, <2>2 DEF Held, Inside
  <1>10. CASE r.op # "open"
    <2>1. /\ pc'[c] = "seek" /\ req'[c].slot = k /\ req'[c].op = r.op /\ req'[c].flags = r.flags
          /\ UNCHANGED iob /\ iob[c] = k /\ emu_files[k].closed
      BY <1>0, <1>1, <1>2, <1>10, <1>k DEF Goto, TypeOK, ReqRecord, Held
    <2>2. Held(c)'
      BY <1>4, <2>1 DEF Held
    <2>3. Keeps(c)
      BY <1>4, <2>1 DEF Keeps, Position
    <2>4. ASSUME NEW d \in Clients \ {c} PROVE Keeps(d)
      <3>1. iob[d] # NoSlot => iob[d] # k
        BY <2>1, SlotsAssumption DEF Safe, Owned, NoSlot, Slots
      <3> QED
        BY <1>6, <1>8, <3>1 DEF Keeps
    <2> QED
      BY <1>5, <2>2, <2>3, <2>4
  <1> QED
    BY <1>9, <1>10

LEMMA KeptSlotOpenFull ==
  ASSUME TypeInv, Safe, Kept, NEW c \in Clients, SlotOpenFull(c)
  PROVE  Held(c)' /\ SlotsKept' /\ \A d \in Clients : Keeps(d)
  <1>0. /\ c \in Threads /\ TypeOK /\ Held(c) /\ SlotsKept /\ pc[c] = "open" /\ Inside(c)
        /\ UNCHANGED <<iob, msfd, frz, suspends>> /\ req[c] \in ReqRecord
        /\ \A t \in Threads \ {c} : pc'[t] = pc[t]
    BY DEF Threads, TypeInv, TypeOK, Safe, Kept, SlotOpenFull, msVars, sysVars, Inside, Goto
  <1>1. \A d \in Clients \ {c} : ~Seeking(d) /\ ~Seeking(d)'
    BY <1>0, HeldOthers
  <1>2. CASE UNCHANGED emu_files /\ Goto(c, "hook") /\ req' = [req EXCEPT ![c].back = "open"]
    <2>1. /\ pc'[c] = "hook" /\ req'[c].op = req[c].op /\ req'[c].slot = req[c].slot
          /\ req'[c].flags = req[c].flags
      BY <1>0, <1>2 DEF Goto, TypeOK, ReqRecord
    <2>2. Held(c)'
      BY <1>0, <1>2, <2>1 DEF Held
    <2>3. SlotsKept'
      BY <1>0, <1>2, SlotsKeptFrame
    <2>4. \A d \in Clients : Seeking(d)' <=> Seeking(d)
      BY <1>0, <1>1, <2>1 DEF Seeking
    <2> QED
      BY <1>0, <1>2, <2>2, <2>3, <2>4, PositionsQuiet
  <1>3. CASE \E v \in Slots :
                /\ Victim(v)
                /\ emu_files' = [emu_files EXCEPT ![v].offset = Tell(emu_files[v].fd)]
                /\ req' = [req EXCEPT ![c] = [@ EXCEPT !.victim = v, !.fd = emu_files[v].fd]]
                /\ Goto(c, "evict")
    <2>1. PICK v \in Slots :
                /\ Victim(v)
                /\ emu_files' = [emu_files EXCEPT ![v].offset = Tell(emu_files[v].fd)]
                /\ req' = [req EXCEPT ![c] = [@ EXCEPT !.victim = v, !.fd = emu_files[v].fd]]
                /\ Goto(c, "evict")
      BY <1>3
    <2>2. IsOpen(v) /\ emu_files[v].flags = "RDONLY" /\ Tell(emu_files[v].fd) # BadOff
      <3>1. IsOpen(v) /\ emu_files[v].flags = "RDONLY"
        BY <2>1 DEF Victim, Evictable
      <3>2. Live(emu_files[v].fd)
        BY <3>1 DEF Safe, AllBacked, Backed
      <3> QED
        BY <1>0, <3>1, <3>2 DEF Tell, Live, TypeOK, FdRecord, BadOff
    <2>3. \A s \in Slots : /\ emu_files'[s].allocated = emu_files[s].allocated
                           /\ emu_files'[s].closed = emu_files[s].closed
                           /\ emu_files'[s].flags = emu_files[s].flags
                           /\ emu_files'[s].fd = emu_files[s].fd
      <3>1. \A e \in SlotRecord : LET m == [e EXCEPT !.offset = Tell(emu_files[v].fd)] IN
               m.allocated = e.allocated /\ m.closed = e.closed /\ m.flags = e.flags /\ m.fd = e.fd
        BY DEF SlotRecord
      <3> QED
        BY <1>0, <2>1, <3>1 DEF TypeOK
    <2>4. /\ emu_files'[v].offset = Tell(emu_files[v].fd)
          /\ \A s \in Slots \ {v} : emu_files'[s] = emu_files[s]
      <3>1. \A e \in SlotRecord : \A n : [e EXCEPT !.offset = n].offset = n
        BY DEF SlotRecord
      <3>2. emu_files[v] \in SlotRecord
        BY <1>0 DEF TypeOK
      <3> QED
        BY <1>0, <2>1, <3>1, <3>2 DEF TypeOK
    <2>5. /\ pc'[c] = "evict" /\ req'[c].op = req[c].op /\ req'[c].slot = req[c].slot
          /\ req'[c].victim = v /\ req'[c].flags = req[c].flags
      BY <1>0, <2>1 DEF Goto, TypeOK, ReqRecord
    <2>6. Held(c)'
      <3>1. req[c].op \in HandleOps => req[c].slot \in Slots
        BY <1>0 DEF TypeInv, ShapeInv
      <3> QED
        BY <1>0, <2>2, <2>3, <2>4, <2>5, <3>1 DEF Held, Tell, Live
    <2>7. SlotsKept'
      <3>1. \A s \in Slots : emu_files'[s].offset = emu_files[s].offset \/ emu_files'[s].offset # BadOff
        BY <2>2, <2>4
      <3> QED
        BY <1>0, <2>3, <3>1, SlotsKeptFrame
    <2>8. ASSUME NEW d \in Clients PROVE Keeps(d)
      <3>1. ~Seeking(d) /\ ~Seeking(d)'
        BY <1>0, <1>1, <2>5 DEF Seeking
      <3>2. CASE iob[d] = v
        BY <1>0, <2>2, <2>3, <2>4, <3>1, <3>2, PositionSaved, SlotsAssumption
        DEF IsOpen, NoSlot, Slots
      <3>3. CASE iob[d] # v
        BY <1>0, <2>4, <3>1, <3>3, HandleSlot, PositionFrame
      <3> QED
        BY <3>2, <3>3
    <2> QED
      BY <2>6, <2>7, <2>8
  <1> QED
    BY <1>2, <1>3 DEF SlotOpenFull

\* The victim's position has been saved before its descriptor goes
LEMMA KeptEvict ==
  ASSUME TypeInv, Safe, Kept, NEW c \in Clients, Evict(c)
  PROVE  Held(c)' /\ SlotsKept' /\ \A d \in Clients : Keeps(d)
  <1>0. /\ c \in Threads /\ TypeOK /\ Local(c) /\ Held(c) /\ SlotsKept /\ pc[c] = "evict" /\ Inside(c)
        /\ UNCHANGED <<iob, req, frz, suspends>> /\ pc'[c] = "open"
        /\ \A t \in Threads \ {c} : pc'[t] = pc[t]
    BY DEF Threads, TypeInv, TypeOK, Safe, Kept, Evict, Goto, Inside, sysVars
  <1>1. PICK v \in Slots : v = req[c].victim /\ IsOpen(v) /\ emu_files[v].fd = req[c].fd
    BY <1>0 DEF Local
  <1>2. /\ emu_files' = [emu_files EXCEPT ![v].closed = TRUE] /\ msfd' = Shut(emu_files[v].fd)
        /\ emu_files[v].offset = Tell(emu_files[v].fd) /\ emu_files[v].flags = "RDONLY"
    BY <1>0, <1>1 DEF Evict, Held
  <1>3. /\ emu_files'[v].closed /\ emu_files'[v].offset = emu_files[v].offset
        /\ emu_files'[v].flags = emu_files[v].flags
        /\ \A s \in Slots \ {v} : emu_files'[s] = emu_files[s]
    <2>1. \A e \in SlotRecord : LET m == [e EXCEPT !.closed = TRUE] IN
             m.closed /\ m.offset = e.offset /\ m.flags = e.flags
      BY DEF SlotRecord
    <2>2. emu_files[v] \in SlotRecord
      BY <1>0 DEF TypeOK
    <2> QED
      BY <1>0, <1>2, <2>1, <2>2 DEF TypeOK
  <1>4. \A g \in Fds : g # emu_files[v].fd => msfd'[g] = msfd[g]
    BY <1>0, <1>2, ShutFrame
  <1>5. Held(c)'
    <2>1. req[c].op \in HandleOps => req[c].slot \in Slots
      BY <1>0 DEF TypeInv, ShapeInv
    <2> QED
      BY <1>0, <1>3, <2>1 DEF Held
  <1>6. SlotsKept'
    <2>1. \A s \in Slots : emu_files'[s].offset = emu_files[s].offset
      BY <1>3
    <2> QED
      BY <1>0, <1>2, <1>3, <2>1, SlotsKeptFrame
  <1>7. ASSUME NEW d \in Clients PROVE Keeps(d)
    <2>1. ~Seeking(d) /\ ~Seeking(d)'
      BY <1>0, HeldOthers DEF Seeking
    <2>2. CASE iob[d] = v
      BY <1>0, <1>1, <1>2, <1>3, <2>1, <2>2, PositionSaved, SlotsAssumption DEF NoSlot, Slots
    <2>3. CASE iob[d] # v
      <3>1. iob[d] # NoSlot /\ IsOpen(iob[d]) => emu_files[iob[d]].fd # emu_files[v].fd
        BY <1>1, <2>3, HandleSlot DEF Safe, AllBacked, Backed
      <3> QED
        BY <1>0, <1>3, <1>4, <2>1, <2>3, <3>1, HandleSlot, PositionFrame DEF IsOpen
    <2> QED
      BY <2>2, <2>3
  <1> QED
    BY <1>5, <1>6, <1>7

\* A reopened descriptor is moved to the position that was saved
LEMMA KeptReseek ==
  ASSUME TypeInv, Safe, Kept, NEW c \in Clients, Reseek(c)
  PROVE  Held(c)' /\ SlotsKept' /\ \A d \in Clients : Keeps(d)
  <1>0. /\ c \in Threads /\ TypeOK /\ Local(c) /\ Held(c) /\ SlotsKept /\ pc[c] = "seek" /\ Inside(c)
        /\ UNCHANGED <<iob, req, frz, suspends>> /\ pc'[c] = "io" /\ req[c].op \in HandleOps
        /\ \A t \in Threads \ {c} : pc'[t] = pc[t]
    BY DEF Threads, TypeInv, TypeOK, ShapeInv, Safe, Kept, Reseek, Goto, Inside, sysVars
  <1>1. PICK k \in Slots : k = req[c].slot /\ k = iob[c]
    BY <1>0 DEF TypeInv, ShapeInv
  <1> DEFINE f == req[c].fd
  <1>2. IsOpen(k) /\ emu_files[k].fd = f /\ Live(f) /\ f \in Fds /\ emu_files[k].offset # BadOff
    BY <1>0, <1>1 DEF Local, Safe, AllBacked, Backed, Live, SlotsKept
  <1>3. /\ emu_files' = [emu_files EXCEPT ![k] = [@ EXCEPT !.fd = f, !.closed = FALSE]]
        /\ msfd' = Sought(f, emu_files[k].offset)
    BY <1>1 DEF Reseek
  <1>4. /\ emu_files'[k].offset = emu_files[k].offset /\ ~emu_files'[k].closed
        /\ emu_files'[k].flags = emu_files[k].flags /\ emu_files'[k].fd = f
        /\ \A s \in Slots \ {k} : emu_files'[s] = emu_files[s]
    <2>1. \A e \in SlotRecord : LET m == [e EXCEPT !.fd = f, !.closed = FALSE] IN
             m.offset = e.offset /\ m.fd = f /\ m.flags = e.flags /\ ~m.closed
      BY DEF SlotRecord
    <2>2. emu_files[k] \in SlotRecord /\ \A s \in Slots \ {k} : emu_files'[s] = emu_files[s]
      BY <1>0, <1>3 DEF TypeOK
    <2>3. emu_files'[k] = [emu_files[k] EXCEPT !.fd = f, !.closed = FALSE]
      BY <1>0, <1>3 DEF TypeOK
    <2> QED
      BY <2>1, <2>2, <2>3
  <1>5. /\ msfd'[f].pos = emu_files[k].offset /\ msfd'[f].file = msfd[f].file
        /\ \A g \in Fds \ {f} : msfd'[g] = msfd[g]
    <2>1. \A n : \A e \in FdRecord : [e EXCEPT !.pos = n].pos = n /\ [e EXCEPT !.pos = n].file = e.file
      BY DEF FdRecord
    <2>2. msfd' = [msfd EXCEPT ![f].pos = emu_files[k].offset]
      BY <1>2, <1>3 DEF Sought
    <2> QED
      BY <1>0, <1>2, <2>1, <2>2 DEF TypeOK
  <1>6. Held(c)'
    BY <1>0, <1>1, <1>4 DEF Held
  <1>7. SlotsKept'
    BY <1>0, <1>4, SlotsKeptFrame
  <1>8. Keeps(c)
    <2>1. Position(c) = emu_files[k].offset
      BY <1>0, <1>1 DEF Position
    <2>2. Position(c)' = emu_files[k].offset
      BY <1>0, <1>1, <1>2, <1>4, <1>5 DEF Position, Tell, Live
    <2> QED
      BY <2>1, <2>2 DEF Keeps
  <1>9. ASSUME NEW d \in Clients \ {c} PROVE Keeps(d)
    <2>1. ~Seeking(d) /\ ~Seeking(d)'
      BY <1>0, HeldOthers
    <2>2. iob[d] # NoSlot => iob[d] # k
      BY <1>1, SlotsAssumption DEF Safe, Owned, NoSlot, Slots
    <2>3. iob[d] # NoSlot /\ IsOpen(iob[d]) => emu_files[iob[d]].fd # f
      BY <1>2, <2>2, HandleSlot DEF Safe, AllBacked, Backed
    <2> QED
      BY <1>4, <1>5, <2>1, <2>2, <2>3, HandleSlot, PositionFrame DEF IsOpen
  <1> QED
    BY <1>6, <1>7, <1>8, <1>9

\* A request moves the descriptor of its own handle
LEMMA KeptTransfer ==
  ASSUME TypeInv, Safe, Kept, NEW c \in Clients, Transfer(c)
  PROVE  Held(c)' /\ SlotsKept' /\ \A d \in Clients : Keeps(d)
  <1>0. /\ c \in Threads /\ TypeOK /\ SlotsKept /\ Local(c) /\ Inside(c)
        /\ UNCHANGED <<iob, emu_files, frz, suspends>> /\ pc[c] = "io" /\ pc'[c] = "idle"
        /\ req[c].op \in HandleOps
        /\ \A t \in Threads \ {c} : pc'[t] = pc[t]
    BY DEF Threads, TypeInv, TypeOK, Safe, Kept, Transfer, Return, Goto, Inside, HandleOps,
           slotVars, sysVars
  <1>1. PICK k \in Slots : k = req[c].slot /\ k = iob[c]
    BY <1>0 DEF TypeInv, ShapeInv
  <1>2. IsOpen(k) /\ emu_files[k].fd = req[c].fd
    BY <1>0, <1>1 DEF Local
  <1>3. \A g \in Fds \ {req[c].fd} : msfd'[g] = msfd[g]
    BY <1>0 DEF Transfer, TypeOK, msVars
  <1>4. SlotsKept'
    BY <1>0, SlotsKeptFrame
  <1>5. Held(c)' /\ Keeps(c)
    BY <1>0 DEF Held, Inside, Keeps
  <1>6. ASSUME NEW d \in Clients \ {c} PROVE Keeps(d)
    <2>1. ~Seeking(d) /\ ~Seeking(d)'
      BY <1>0, HeldOthers
    <2>2. iob[d] # NoSlot => iob[d] # k
      BY <1>1, SlotsAssumption DEF Safe, Owned, NoSlot, Slots
    <2>3. iob[d] # NoSlot /\ IsOpen(iob[d]) => emu_files[iob[d]].fd # req[c].fd
      BY <1>2, <2>2, HandleSlot DEF Safe, AllBacked, Backed
    <2> QED
      BY <1>0, <1>3, <2>1, <2>3, HandleSlot, PositionFrame DEF IsOpen
  <1> QED
    BY <1>4, <1>5, <1>6

\* and so does a close
LEMMA KeptClose ==
  ASSUME TypeInv, Safe, Kept, NEW c \in Clients, Close(c)
  PROVE  Held(c)' /\ SlotsKept' /\ \A d \in Clients : Keeps(d)
  <1>0. /\ c \in Threads /\ TypeOK /\ SlotsKept /\ Local(c) /\ Inside(c)
        /\ UNCHANGED <<frz, suspends>> /\ pc[c] = "io" /\ pc'[c] = "idle"
        /\ req[c].op \in HandleOps
        /\ \A t \in Threads \ {c} : pc'[t] = pc[t]
    BY DEF Threads, TypeInv, TypeOK, Safe, Kept, Close, Return, Goto, Inside, HandleOps, sysVars
  <1>1. PICK k \in Slots : k = req[c].slot /\ k = iob[c]
    BY <1>0 DEF TypeInv, ShapeInv
  <1>2. IsOpen(k) /\ emu_files[k].fd = req[c].fd
    BY <1>0, <1>1 DEF Local
  <1>3. /\ emu_files' = [emu_files EXCEPT ![k].allocated = FALSE] \/ UNCHANGED emu_files
        /\ msfd' = Shut(req[c].fd) \/ UNCHANGED msfd
    BY <1>1 DEF Close
  <1>4. /\ \A g \in Fds : g # req[c].fd => msfd'[g] = msfd[g]
        /\ \A s \in Slots \ {k} : emu_files'[s] = emu_files[s]
        /\ emu_files'[k].offset = emu_files[k].offset
        /\ emu_files'[k].allocated => emu_files'[k] = emu_files[k]
    <2>1. \A e \in SlotRecord : LET m == [e EXCEPT !.allocated = FALSE] IN
             m.offset = e.offset /\ ~m.allocated
      BY DEF SlotRecord
    <2>2. emu_files[k] \in SlotRecord
      BY <1>0 DEF TypeOK
    <2>3. \A g \in Fds : g # req[c].fd => msfd'[g] = msfd[g]
      BY <1>0, <1>3, ShutFrame
    <2>4. CASE emu_files' = [emu_files EXCEPT ![k].allocated = FALSE]
      BY <1>0, <2>1, <2>2, <2>3, <2>4 DEF TypeOK
    <2>5. CASE UNCHANGED emu_files
      BY <2>3, <2>5
    <2> QED
      BY <1>3, <2>4, <2>5
  <1>5. SlotsKept'
    BY <1>0, <1>4, SlotsKeptFrame
  <1>6. Held(c)' /\ Keeps(c)
    BY <1>0 DEF Held, Inside, Keeps
  <1>7. ASSUME NEW d \in Clients \ {c} PROVE Keeps(d)
    <2>1. ~Seeking(d) /\ ~Seeking(d)'
      BY <1>0, HeldOthers
    <2>2. iob[d] # NoSlot => iob[d] # k
      BY <1>1, SlotsAssumption DEF Safe, Owned, NoSlot, Slots
    <2>3. iob[d] # NoSlot /\ IsOpen(iob[d]) => emu_files[iob[d]].fd # req[c].fd
      BY <1>2, <2>2, HandleSlot DEF Safe, AllBacked, Backed
    <2> QED
      BY <1>0, <1>4, <2>1, <2>2, <2>3, HandleSlot, PositionFrame DEF IsOpen
  <1> QED
    BY <1>5, <1>6, <1>7

LEMMA KeptRequest ==
  ASSUME TypeInv, Safe, Kept, NEW c \in Clients, Request(c)
  PROVE  Kept' /\ \A d \in Clients : Keeps(d)
  <1>1. Held(c)' /\ SlotsKept' /\ \A d \in Clients : Keeps(d)
    BY KeptUntouched, KeptSlotOpenOk, KeptSlotOpenFull, KeptEvict, KeptReseek, KeptTransfer,
       KeptClose DEF Request
  <1>2. \A d \in Clients \ {c} : Held(d)'
    BY InsideStep, HeldOthers DEF Safe
  <1> QED
    BY <1>1, <1>2 DEF Kept

-----------------------------------------------------------------------------
(* The steps of the others.                                                *)

\* A step that leaves the slots, the open descriptors and the other clients
\* alone, while c stays outside, or locks the slot of its handle
LEMMA KeptOutside ==
  ASSUME TypeInv, Safe, Kept, UNCHANGED <<emu_files, frz, suspends>>,
         \A s \in Slots : IsOpen(s) => msfd'[emu_files[s].fd] = msfd[emu_files[s].fd],
         NEW c, \A d \in Clients \ {c} : pc'[d] = pc[d] /\ req'[d] = req[d],
         c \in Clients => Held(c)' /\ ~Seeking(c) /\ ~Seeking(c)'
  PROVE  Kept' /\ \A d \in Clients : Keeps(d)
  <1>1. SlotsKept'
    BY SlotsKeptFrame DEF Kept
  <1>2. ASSUME NEW d \in Clients \ {c} PROVE Held(d)'
    <2>1. /\ pc'[d] = pc[d] /\ req'[d] = req[d] /\ Held(d) /\ Local(d)
      BY DEF Kept, Safe
    <2>2. pc[d] = "evict" =>
             /\ IsOpen(req[d].victim) /\ req[d].victim \in Slots
             /\ emu_files[req[d].victim].fd \in Fds /\ Live(emu_files[req[d].victim].fd)
      BY <2>1 DEF Local, Safe, AllBacked, Backed, Live
    <2>3. pc[d] = "evict" => Tell(emu_files[req[d].victim].fd)' = Tell(emu_files[req[d].victim].fd)
      BY <2>2 DEF Tell, Live
    <2> QED
      BY <2>1, <2>3 DEF Held, Inside
  <1>3. ASSUME NEW d \in Clients PROVE Keeps(d)
    <2>1. Seeking(d)' <=> Seeking(d)
      BY DEF Seeking
    <2> QED
      BY <2>1, HandleSlot, PositionFrame
  <1> QED
    BY <1>1, <1>2, <1>3 DEF Kept

LEMMA KeptCall ==
  ASSUME TypeInv, Safe, Kept, NEW c \in Clients, Call(c)
  PROVE  Kept' /\ \A d \in Clients : Keeps(d)
  <1>0. c \in Threads /\ pc[c] = "idle" /\ TypeOK
    BY DEF Threads, TypeInv, Call
  <1>1. \A t \in Threads \ {c} : req'[t] = req[t]
    <2>1. PICK rec : req' = [req EXCEPT ![c] = rec]
      BY DEF Call
    <2> QED
      BY <1>0, <2>1 DEF TypeOK
  <1>2. /\ UNCHANGED <<emu_files, iob, msfd, frz, suspends>>
        /\ pc'[c] = "lock" /\ \A t \in Threads \ {c} : pc'[t] = pc[t]
    BY <1>0 DEF Call, Goto, TypeOK, slotVars, msVars, sysVars
  <1>3. Held(c)' /\ ~Seeking(c) /\ ~Seeking(c)'
    BY <1>0, <1>2 DEF Held, Inside, Seeking
  <1> QED
    BY <1>1, <1>2, <1>3, KeptOutside DEF Threads

\* SlotGetFd copies the mode of the slot, and waits only if it is closed
LEMMA KeptEnter ==
  ASSUME TypeInv, Safe, Kept, NEW c \in Clients, Enter(c)
  PROVE  Kept' /\ \A d \in Clients : Keeps(d)
  <1>0. c \in Threads /\ pc[c] = "lock" /\ TypeOK
    BY DEF Threads, TypeInv, Enter, EnterOpen, EnterHandle, EnterPath, Ioctl
  <1>1. UNCHANGED <<emu_files, iob, msfd, frz, suspends>>
    BY DEF Enter, EnterOpen, EnterHandle, EnterPath, Ioctl, slotVars, msVars, sysVars
  <1>2. /\ \A t \in Threads \ {c} : pc'[t] = pc[t] /\ req'[t] = req[t]
        /\ pc'[c] # "seek"
    BY <1>0 DEF Enter, EnterOpen, EnterHandle, EnterPath, Ioctl, Goto, Return, TypeOK
  <1>3. Held(c)'
    <2>1. CASE Return(c)
      BY <1>0, <2>1 DEF Return, Goto, Held, Inside, TypeOK
    <2>2. CASE EnterOpen(c)
      <3>1. CASE /\ Goto(c, "wait")
                 /\ \E s \in Slots : SlotGetFree(s) /\ req' = [req EXCEPT ![c].slot = s]
        <4>1. pc'[c] = "wait" /\ req'[c].op = "open"
          BY <1>0, <2>2, <3>1 DEF EnterOpen, Goto, TypeOK, ReqRecord
        <4> QED
          BY <4>1 DEF Held, HandleOps
      <3> QED
        BY <2>1, <2>2, <3>1 DEF EnterOpen
    <2>3. CASE EnterHandle(c)
      <3>1. PICK k \in Slots : k = iob[c]
        BY <1>0, <2>3 DEF EnterHandle, TypeInv, ShapeInv
      <3>2. CASE /\ req' = [req EXCEPT ![c] =
                       [@ EXCEPT !.slot = k, !.fd = emu_files[k].fd,
                                 !.path = emu_files[k].path, !.flags = emu_files[k].flags]]
                 /\ Goto(c, IF emu_files[k].closed THEN "wait" ELSE "io")
        <4>1. \A r \in ReqRecord :
                 LET n == [r EXCEPT !.slot = k, !.fd = emu_files[k].fd,
                                 !.path = emu_files[k].path, !.flags = emu_files[k].flags]
                 IN  n.slot = k /\ n.flags = emu_files[k].flags
          BY DEF ReqRecord
        <4>2. req'[c].slot = k /\ req'[c].flags = emu_files[k].flags
          BY <1>0, <3>2, <4>1 DEF TypeOK
        <4>3. pc'[c] \in {"wait", "io"} /\ (pc'[c] = "wait" => emu_files[k].closed)
          BY <1>0, <3>2 DEF Goto, TypeOK
        <4> QED
          BY <1>1, <4>2, <4>3 DEF Held
      <3> QED
        BY <2>1, <2>3, <3>1, <3>2 DEF EnterHandle
    <2>4. CASE EnterPath(c) \/ (Ioctl(c) /\ ~Return(c))
      <3>1. pc'[c] \in {"wait", "trap"} /\ req'[c].op \in {"path", "ioctl"}
        BY <1>0, <2>4 DEF EnterPath, Ioctl, Goto, TypeOK
      <3> QED
        BY <3>1 DEF Held, HandleOps
    <2> QED
      BY <2>1, <2>2, <2>3, <2>4 DEF Enter
  <1> QED
    BY <1>0, <1>1, <1>2, <1>3, KeptOutside DEF Threads, Seeking

LEMMA KeptApp ==
  ASSUME TypeInv, Safe, Kept, NEW a \in Apps, AppCall(a) \/ AppOpen(a) \/ AppClose(a)
  PROVE  Kept' /\ \A d \in Clients : Keeps(d)
  <1>0. a \in Threads /\ Clients \subseteq Threads /\ a \notin Clients /\ TypeOK
    BY ThreadsAssumption DEF Threads, TypeInv
  <1>1. /\ UNCHANGED <<emu_files, frz, suspends>>
        /\ \A t \in Threads \ {a} : pc'[t] = pc[t] /\ req'[t] = req[t]
    BY <1>0 DEF AppCall, AppOpen, AppClose, slotVars, sysVars, Goto, Return, TypeOK
  <1>2. \A s \in Slots : IsOpen(s) => msfd'[emu_files[s].fd] = msfd[emu_files[s].fd]
    BY AppFds
  <1> QED
    BY <1>0, <1>1, <1>2, KeptOutside

\* A slot's position is saved and the slot is closed while nobody is inside
LEMMA KeptSaved ==
  ASSUME TypeInv, Safe, Kept, NEW v \in Slots, IsOpen(v),
         emu_files' = [emu_files EXCEPT ![v] =
                [@ EXCEPT !.offset = Tell(emu_files[v].fd), !.closed = TRUE]],
         UNCHANGED <<msfd, suspends>>,
         suspends # 0 \/ (UNCHANGED frz /\ emu_files[v].flags = "RDONLY"),
         \A d \in Clients : pc[d] \in {"idle", "lock"} /\ pc'[d] = pc[d]
  PROVE  Kept' /\ \A d \in Clients : Keeps(d)
  <1>0. TypeOK /\ SlotsKept
    BY DEF TypeInv, Kept
  <1>1. Tell(emu_files[v].fd) # BadOff
    <2>1. Live(emu_files[v].fd)
      BY DEF Safe, AllBacked, Backed
    <2> QED
      BY <1>0, <2>1 DEF Tell, Live, TypeOK, FdRecord, BadOff
  <1>2. /\ emu_files'[v].offset = Tell(emu_files[v].fd) /\ emu_files'[v].closed
        /\ emu_files'[v].flags = emu_files[v].flags
        /\ \A s \in Slots \ {v} : emu_files'[s] = emu_files[s]
    <2>1. \A e \in SlotRecord : \A n : LET m == [e EXCEPT !.offset = n, !.closed = TRUE] IN
             m.offset = n /\ m.closed /\ m.flags = e.flags
      BY DEF SlotRecord
    <2>2. emu_files[v] \in SlotRecord
      BY <1>0 DEF TypeOK
    <2>3. emu_files'[v] = [emu_files[v] EXCEPT !.offset = Tell(emu_files[v].fd), !.closed = TRUE]
      BY <1>0 DEF TypeOK
    <2> QED
      BY <1>0, <2>1, <2>2, <2>3 DEF TypeOK
  <1>3. SlotsKept'
    BY <1>0, <1>1, <1>2 DEF SlotsKept
  <1>4. ASSUME NEW d \in Clients PROVE Keeps(d)
    <2>1. ~Seeking(d) /\ ~Seeking(d)'
      BY DEF Seeking
    <2>2. CASE iob[d] = v
      BY <1>2, <2>1, <2>2, PositionSaved, SlotsAssumption DEF NoSlot, Slots
    <2>3. CASE iob[d] # v
      BY <1>2, <2>1, <2>3, HandleSlot, PositionFrame
    <2> QED
      BY <2>2, <2>3
  <1> QED
    BY <1>3, <1>4, HeldNobody DEF Kept

\* A descriptor that backs no slot is closed
LEMMA KeptOrphan ==
  ASSUME TypeInv, Safe, Kept, NEW f, msfd' = Shut(f), \A s \in Slots : IsOpen(s) => emu_files[s].fd # f,
         UNCHANGED <<emu_files, suspends>>, suspends # 0 \/ UNCHANGED frz,
         \A d \in Clients : pc[d] \in {"idle", "lock"} /\ pc'[d] = pc[d]
  PROVE  Kept' /\ \A d \in Clients : Keeps(d)
  <1>1. SlotsKept'
    BY DEF Kept, SlotsKept
  <1>2. ASSUME NEW d \in Clients PROVE Keeps(d)
    <2>1. ~Seeking(d) /\ ~Seeking(d)'
      BY DEF Seeking
    <2>2. \A g \in Fds : g # f => msfd'[g] = msfd[g]
      BY ShutFrame DEF TypeInv
    <2> QED
      BY <2>1, <2>2, HandleSlot, PositionFrame DEF IsOpen
  <1> QED
    BY <1>1, <1>2, HeldNobody DEF Kept

LEMMA KeptHook ==
  ASSUME TypeInv, Safe, Kept, ~unguarded', NEW t \in Threads, Hook(t)
  PROVE  Kept' /\ \A d \in Clients : Keeps(d)
  <1>0. TypeOK /\ MutexInv /\ Orphaned
    BY DEF TypeInv, Safe
  <1>1. CASE SlotCloseOneReadOnly(t)
    <2>1. flashemu_sema = Free
      BY <1>0, <1>1 DEF SlotCloseOneReadOnly, MutexInv, Lock
    <2>2. \A d \in Clients : pc[d] \in {"idle", "lock"}
      BY <1>0, <2>1, ThreadsAssumption DEF MutexInv, Inside, Threads
    <2>3. t \in Apps /\ t \notin Clients
      BY <1>1, <2>2, ThreadsAssumption DEF SlotCloseOneReadOnly, Threads
    <2>4. UNCHANGED <<msfd, frz, suspends>> /\ \A d \in Clients : pc'[d] = pc[d]
      BY <1>0, <1>1, <2>3 DEF SlotCloseOneReadOnly, Goto, Return, TypeOK, Threads, msVars, sysVars
    <2>5. CASE \E v \in Slots :
                  /\ Victim(v)
                  /\ emu_files' = [emu_files EXCEPT ![v] =
                         [@ EXCEPT !.offset = Tell(emu_files[v].fd), !.closed = TRUE]]
      <3>1. PICK v \in Slots :
                  /\ Victim(v)
                  /\ emu_files' = [emu_files EXCEPT ![v] =
                         [@ EXCEPT !.offset = Tell(emu_files[v].fd), !.closed = TRUE]]
        BY <2>5
      <3>2. IsOpen(v) /\ emu_files[v].flags = "RDONLY"
        BY <3>1 DEF Victim, Evictable
      <3> QED
        BY <2>2, <2>4, <3>1, <3>2, KeptSaved
    <2>6. CASE UNCHANGED emu_files
      <3>1. SlotsKept'
        BY <2>4, <2>6, SlotsKeptFrame DEF Kept
      <3>2. \A d \in Clients : Seeking(d)' <=> Seeking(d)
        BY <2>4 DEF Seeking
      <3> QED
        BY <2>2, <2>4, <2>6, <3>1, <3>2, HeldNobody, PositionsQuiet DEF Kept
    <2> QED
      BY <1>1, <2>5, <2>6 DEF SlotCloseOneReadOnly
  <1>2. CASE HookClose(t)
    <2>1. /\ pc[t] = "hookclose" /\ msfd' = Shut(req[t].fd)
          /\ UNCHANGED <<emu_files, frz, suspends>>
      BY <1>2 DEF HookClose, slotVars, sysVars
    <2>2. t \in Apps /\ t \notin Clients
      BY <2>1, ThreadsAssumption DEF Safe, Local, Threads
    <2>3. \A d \in Clients : pc[d] \in {"idle", "lock"}
      BY <1>0, <2>1, <2>2, Alone DEF Inside
    <2>4. \A d \in Clients : pc'[d] = pc[d]
      BY <1>0, <1>2, <2>2 DEF HookClose, Goto, TypeOK, Threads
    <2>5. \A s \in Slots : IsOpen(s) => emu_files[s].fd # req[t].fd
      BY <1>0, <2>1, <2>2 DEF Orphaned
    <2> QED
      BY <2>1, <2>3, <2>4, <2>5, KeptOrphan
  <1> QED
    BY <1>1, <1>2 DEF Hook

LEMMA KeptSystem ==
  ASSUME TypeInv, Safe, Kept, ~unguarded', System \/ UNCHANGED vars
  PROVE  Kept' /\ \A d \in Clients : Keeps(d)
  <1>0. TypeOK /\ MutexInv /\ Orphaned /\ SlotsKept
    BY DEF TypeInv, Safe, Kept
  <1>1. CASE SuspendSlot \/ SuspendClose
    <2>1. UNCHANGED <<pc, suspends>> /\ frz \in Slots
      BY <1>1 DEF TypeInv, ShapeInv, SuspendSlot, SuspendClose
    <2>2. frz # -1 /\ suspends # 0
      BY <1>0, <2>1, SlotsAssumption DEF Slots, SlotsKept
    <2>3. \A d \in Clients : pc[d] \in {"idle", "lock"}
      BY <1>0, <2>2, ThreadsAssumption DEF MutexInv, Inside, Threads
    <2>4. CASE SuspendSlot /\ IsOpen(frz) /\ emu_files[frz].flags # "DIR"
      <3>1. PICK v \in Slots : v = frz
        BY <2>1
      <3>2. /\ emu_files' = [emu_files EXCEPT ![v] =
                      [@ EXCEPT !.offset = Tell(emu_files[v].fd), !.closed = TRUE]]
            /\ UNCHANGED <<msfd, suspends>> /\ IsOpen(v)
        BY <2>1, <2>4, <3>1 DEF SuspendSlot, msVars
      <3>3. \A d \in Clients : pc[d] \in {"idle", "lock"} /\ pc'[d] = pc[d]
        BY <2>1, <2>3
      <3>4. v \in Slots
        OBVIOUS
      <3> QED
        BY <2>2, <3>2, <3>3, <3>4, KeptSaved
    <2>5. CASE SuspendSlot /\ ~(IsOpen(frz) /\ emu_files[frz].flags # "DIR")
      <3>1. UNCHANGED <<emu_files, msfd>>
        BY <2>5 DEF SuspendSlot, msVars
      <3>2. SlotsKept'
        BY <1>0, <2>1, <2>2, <3>1 DEF SlotsKept
      <3>3. \A d \in Clients : Seeking(d)' <=> Seeking(d)
        BY <2>1 DEF Seeking
      <3> QED
        BY <2>1, <2>3, <3>1, <3>2, <3>3, HeldNobody, PositionsQuiet DEF Kept
    <2>6. CASE SuspendClose
      <3>1. msfd' = Shut(frzFd) /\ UNCHANGED emu_files
        BY <2>6 DEF SuspendClose, slotVars
      <3> QED
        BY <1>0, <2>1, <2>2, <2>3, <3>1, KeptOrphan DEF Orphaned
    <2> QED
      BY <1>1, <2>4, <2>5, <2>6
  <1>2. CASE SceLfatfsAssign \/ OnModuleStart \/ CardReady \/ SuspendStart \/ Resume
             \/ UNCHANGED vars
    <2>1. UNCHANGED <<emu_files, msfd, pc, req>>
      BY <1>2 DEF SceLfatfsAssign, OnModuleStart, CardReady, SuspendStart, Resume, vars,
                  slotVars, lockVars, msVars, sysVars
    <2>2. \A d \in Clients : Held(d)'
      BY <2>1 DEF Kept, Held, Inside, Tell, Live
    <2>3. suspends' = 0 => suspends = 0 /\ frz' = frz
      BY <1>0, <1>2, SizeAssumption DEF SceLfatfsAssign, OnModuleStart, CardReady, SuspendStart, Resume,
         vars, sysVars, SlotsKept, TypeOK
    <2>4. SlotsKept'
      BY <1>0, <2>1, <2>3 DEF SlotsKept
    <2>5. \A d \in Clients : Seeking(d)' <=> Seeking(d)
      BY <2>1 DEF Seeking
    <2> QED
      BY <2>1, <2>2, <2>4, <2>5, PositionsQuiet DEF Kept
  <1> QED
    BY <1>1, <1>2 DEF System, Suspend, PreareRebootFlashEmu

-----------------------------------------------------------------------------
(* The invariant and the theorems.                                         *)

LEMMA KeptStep ==
  ASSUME TypeInv, Safe, Kept, ~unguarded', [Next]_vars
  PROVE  Kept' /\ \A d \in Clients : Keeps(d)
  BY KeptCall, KeptEnter, KeptRequest, KeptApp, KeptHook, KeptSystem DEF Next

LEMMA PInvInit == Init => PInv
  <1> SUFFICES ASSUME Init PROVE PInv
    OBVIOUS
  <1>1. IInv
    BY IInvInit
  <1>2. Kept /\ Closing
    BY DEF Init, Kept, SlotsKept, Held, Inside, Closing, FreshSlot, BadOff, Threads
  <1> QED
    BY <1>1, <1>2 DEF PInv

LEMMA PInvNext == PInv /\ [Next]_vars => PInv'
  <1> SUFFICES ASSUME PInv, [Next]_vars PROVE PInv'
    OBVIOUS
  <1>1. IInv'
    BY IInvNext DEF PInv
  <1>2. ASSUME ~unguarded' PROVE Kept' /\ Closing'
    BY <1>2, UnguardedStays, KeptStep, ClosingStep DEF PInv, IInv
  <1> QED
    BY <1>1, <1>2 DEF PInv

\* When the suspend handler has gone through the table and nothing ran
\* meanwhile, no regular file is left open on the stick.
THEOREM SuspendCloses == Spec => []SuspendClosesAll
  <1>1. PInv => SuspendClosesAll
    BY SlotsAssumption DEF PInv, Closing, SuspendClosesAll, Slots
  <1> QED
    BY PInvInit, PInvNext, <1>1, PTL DEF Spec

\* While the table is used under the lock, the position a client sees through
\* its handle changes only when a request of its own completes.
THEOREM PositionsKept == Spec => PositionKept
  <1>1. ASSUME PInv, [Next]_vars, NEW c \in Clients, ~unguarded', iob[c] # NoSlot,
               iob'[c] = iob[c], Position(c)' # Position(c)
        PROVE  pc[c] = "io" /\ pc'[c] = "idle"
    BY <1>1, UnguardedStays, KeptStep DEF PInv, IInv, Keeps
  <1>2. PInv /\ [Next]_vars =>
           [\A c \in Clients :
              ~unguarded' /\ iob[c] # NoSlot /\ iob'[c] = iob[c] /\ Position(c)' # Position(c)
                  => pc[c] = "io" /\ pc'[c] = "idle"]_vars
    BY <1>1
  <1> QED
    BY PInvInit, PInvNext, <1>2, PTL DEF Spec, PositionKept

\* Before the first suspend a file gets shorter only when a client opens it with
\* O_TRUNC or removes it: what a request reopens was closed, and only read-only
\* files are.
THEOREM ShortenedByRequests == Spec => ShortenedOnRequest
  <1>1. ASSUME PInv, [Next]_vars, suspends = 0, ~unguarded', NEW p \in Paths, size'[p] < size[p]
        PROVE  \E c \in Clients : req[c].path = p /\ req[c].op \in {"open", "path"}
    <2>1. TypeInv /\ TypeOK /\ Safe /\ Kept
      BY <1>1, UnguardedStays DEF PInv, IInv, TypeInv
    <2>2. ~(size[p] \in Int /\ UNCHANGED size)
      BY <1>1
    <2>3. size[p] \in Int
      BY <2>1, SizeAssumption DEF TypeOK, Absent
    <2>4. ASSUME NEW c \in Clients, SlotOpenOk(c)
          PROVE  req[c].path = p /\ req[c].op = "open"
      <3>1. /\ size' = SizeAfterOpen(req[c].path, req[c].flags) /\ pc[c] = "open"
        BY <2>4 DEF SlotOpenOk
      <3>2. req[c].flags = "CREAT_TRUNC" /\ req[c].path = p
        BY <1>1, <2>1, <2>3, <3>1 DEF SizeAfterOpen, TypeOK
      <3>3. ASSUME req[c].op \in HandleOps PROVE FALSE
        <4>1. req[c].slot = iob[c] /\ iob[c] \in Slots /\ iob[c] # NoSlot
          BY <2>1, <3>1, <3>3, SlotsAssumption DEF TypeInv, ShapeInv, Slots, NoSlot
        <4>2. emu_files[iob[c]].allocated
          BY <2>1, <4>1 DEF Safe, Owned
        <4>3. emu_files[iob[c]].closed /\ req[c].flags = emu_files[iob[c]].flags
          BY <2>1, <3>1, <3>3, <4>1 DEF Kept, Held, Inside
        <4> QED
          BY <1>1, <2>1, <3>2, <4>1, <4>2, <4>3 DEF Kept, SlotsKept
      <3> QED
        BY <2>1, <3>1, <3>2, <3>3 DEF TypeInv, ShapeInv
    <2>5. ASSUME NEW c \in Clients, PathIo(c)
          PROVE  req[c].path = p /\ req[c].op = "path"
      BY <1>1, <2>1, <2>3, <2>5 DEF PathIo, TypeOK
    <2>6. ASSUME NEW c \in Clients, Transfer(c) PROVE FALSE
      <3> DEFINE f == req[c].fd
      <3>1. CASE UNCHANGED size
        BY <2>2, <2>3, <3>1
      <3>2. CASE /\ Live(f) /\ Length(msfd[f].file) <= msfd[f].pos
                 /\ size' = [size EXCEPT ![msfd[f].file] = msfd[f].pos + 1]
        <4>1. msfd[f].pos \in Nat
          BY <2>1, <3>2 DEF Live, TypeOK, FdRecord
        <4>2. p = msfd[f].file
          BY <1>1, <2>1, <2>3, <3>2 DEF TypeOK
        <4>3. size'[p] = msfd[f].pos + 1 /\ size[p] <= msfd[f].pos
          BY <2>1, <3>2, <4>2 DEF TypeOK, Length
        <4> QED
          BY <1>1, <2>3, <4>1, <4>3
      <3> QED
        BY <2>6, <3>1, <3>2 DEF Transfer, msVars
    <2>7. CASE \E c \in Clients : Request(c)
      <3>1. PICK c \in Clients : Request(c)
        BY <2>7
      <3>2. CASE SlotOpenOk(c) \/ PathIo(c) \/ Transfer(c)
        BY <2>4, <2>5, <2>6, <3>2
      <3>3. CASE UNCHANGED size
        BY <2>2, <2>3, <3>3
      <3> QED
        BY <3>1, <3>2, <3>3
        DEF Request, WaitMS, SlotOpenFail, SlotOpenFull, Evict, Reseek, Close, msVars
    <2>8. CASE UNCHANGED size
      BY <2>2, <2>3, <2>8
    <2>9. CASE \E c \in Clients : Call(c) \/ Enter(c)
      BY <2>8, <2>9 DEF Call, Enter, EnterOpen, EnterHandle, EnterPath, Ioctl, msVars
    <2>10. CASE \/ \E a \in Apps : AppCall(a) \/ AppOpen(a) \/ AppClose(a)
                \/ \E t \in Threads : Hook(t)
      BY <2>8, <2>10 DEF AppCall, AppOpen, AppClose, Hook, SlotCloseOneReadOnly, HookClose, msVars
    <2>11. CASE System \/ UNCHANGED vars
      BY <2>8, <2>11 DEF System, SceLfatfsAssign, OnModuleStart, CardReady, SuspendStart, Suspend,
         SuspendSlot, SuspendClose, Resume, PreareRebootFlashEmu, vars, msVars
    <2> QED
      BY <1>1, <2>7, <2>9, <2>10, <2>11 DEF Next
  <1>2. PInv /\ [Next]_vars =>
           [suspends = 0 /\ ~unguarded' =>
              \A p \in Paths : size'[p] < size[p] =>
                  \E c \in Clients : req[c].path = p /\ req[c].op \in {"open", "path"}]_vars
    BY <1>1
  <1> QED
    BY PInvInit, PInvNext, <1>2, PTL DEF Spec, ShortenedOnRequest

=============================================================================
