------------------------------ MODULE FlashEmu ------------------------------
(***************************************************************************)
(* src/modules/flashemu: the driver "flashfat" that serves flash0:..flash3:*)
(* from the directory ms0:/TM/DC9 of the memory stick.                     *)
(*                                                                         *)
(* Every open flash file is a slot of emu_files.  The memory stick driver  *)
(* has few descriptors: when sceIoOpen answers EMFILE the code closes the  *)
(* descriptor of a read-only slot, remembering its position, and reopens   *)
(* it on the next use of the slot.  The suspend event closes every regular *)
(* file the same way.  Requests run under flashemu_sema; the suspend       *)
(* handler does not take it.                                               *)
(*                                                                         *)
(* A thread is preempted where it blocks: at the semaphore and at each     *)
(* sceIo call.  What runs between two such calls is one step.              *)
(***************************************************************************)
EXTENDS Integers, FiniteSets

CONSTANTS
    Clients,        \* threads with a request; each owns at most one handle
    Apps,           \* threads that use ms0: directly, past this driver
    NSlots,         \* entries of emu_files (32 in the code)
    Fds,            \* descriptors of the memory stick driver
    Names,          \* flash file names
    OpenFlags,      \* the modes in which Clients open files and directories
    Requests,       \* the requests they make
    MaxSize,        \* bound on file sizes and positions
    MaxSuspends,    \* bound on the number of suspends
    Reboots,        \* whether the machine is rebooted
    HasFallback,    \* names found under /retail or /testingtool
    NoFile, AppFile, NoFd, Free, Deleted

ASSUME SlotsAssumption == NSlots \in Nat \ {0}
ASSUME FdsAssumption == NoFd \notin Fds
ASSUME SizeAssumption == MaxSize \in Nat /\ MaxSuspends \in Nat /\ Reboots \in BOOLEAN
ASSUME FlagsAssumption ==
    /\ OpenFlags \subseteq {"RDONLY", "RDWR", "CREAT_TRUNC", "DIR"}
    /\ Requests \subseteq {"open", "read", "write", "lseek", "close", "dread", "dclose",
                           "path", "ioctl"}
ASSUME NamesAssumption ==
    /\ HasFallback \subseteq Names
    /\ NoFile # AppFile
    /\ {NoFile, AppFile} \cap (Names \X {"DC9", "variant"}) = {}
ASSUME ThreadsAssumption ==
    /\ Clients \cap Apps = {}
    /\ {Free, Deleted} \cap (Clients \cup Apps) = {}
    /\ Free # Deleted

Threads == Clients \cup Apps
Slots   == 0 .. NSlots - 1
NoSlot  == -1                       \* SlotGetFree's failure
Absent  == -1                       \* size of a file that does not exist
BadOff  == -1                       \* sceIoLseek on a dead descriptor
Dirs    == {"DC9", "variant"}       \* variant: DC9/retail or DC9/testingtool
Paths   == Names \X Dirs
Modes   == {"RDONLY", "RDWR", "CREAT_TRUNC", "DIR"}    \* "DIR" is 0xD0D0
HandleOps == {"read", "write", "lseek", "close", "dread", "dclose"}
Ops       == {"open", "path", "ioctl", "none"} \cup HandleOps

VARIABLES
    flashemu_sema,  \* Free, its holder, or Deleted
    emu_files,      \* the slot table
    iob,            \* i_private of the handle of each client, or NoSlot
    pc, req,        \* where each thread is, and its locals
    need_wait,      \* the stick must be probed before it is used
    assigned,       \* SceLfatfsAssign has assigned the volumes
    hooked,         \* the MSFAT driver calls SlotCloseOneReadOnly on EMFILE
    frz, frzFd,     \* the suspend handler: slot it is at (-1: not running), fd it closes
    suspends,       \* number of suspends so far
    card, msfd, size, \* external: stick mounted, its descriptors, its files
    unguarded       \* history: emu_files may have been used without the lock

slotVars == <<emu_files, iob>>
lockVars == <<flashemu_sema, unguarded>>
msVars   == <<msfd, size>>
sysVars  == <<assigned, hooked, frz, frzFd, suspends, card>>
vars     == <<slotVars, lockVars, msVars, sysVars, pc, req, need_wait>>

NoReq == [op |-> "none", path |-> NoFile, flags |-> "RDONLY",
          slot |-> NoSlot, fd |-> NoFd, victim |-> NoSlot, back |-> "open"]
FreshSlot == [allocated |-> FALSE, closed |-> FALSE, fd |-> NoFd,
              path |-> NoFile, flags |-> "RDONLY", offset |-> 0]

SlotRecord == [allocated : BOOLEAN, closed : BOOLEAN, fd : Fds \cup {NoFd},
               path : Paths \cup {NoFile}, flags : Modes, offset : BadOff .. MaxSize]
ReqRecord  == [op : Ops, path : Paths \cup {NoFile}, flags : Modes,
               slot : Slots \cup {NoSlot}, fd : Fds \cup {NoFd},
               victim : Slots \cup {NoSlot}, back : {"open", "wait"}]
FdRecord   == [file : Paths \cup {NoFile, AppFile}, pos : 0 .. MaxSize]
Labels     == {"idle", "lock", "wait", "open", "evict", "seek", "io",
               "hook", "hookclose", "trap"}

TypeOK ==
    /\ flashemu_sema \in Threads \cup {Free, Deleted}
    /\ emu_files \in [Slots -> SlotRecord]
    /\ iob \in [Clients -> Slots \cup {NoSlot}]
    /\ pc \in [Threads -> Labels]
    /\ req \in [Threads -> ReqRecord]
    /\ need_wait \in BOOLEAN /\ assigned \in BOOLEAN /\ hooked \in BOOLEAN
    /\ frz \in -1 .. NSlots /\ frzFd \in Fds \cup {NoFd}
    /\ suspends \in 0 .. MaxSuspends
    /\ card \in BOOLEAN
    /\ msfd \in [Fds -> FdRecord]
    /\ size \in [Paths -> Absent .. MaxSize]
    /\ unguarded \in BOOLEAN

Init ==
    /\ flashemu_sema = Free
    /\ emu_files = [s \in Slots |-> FreshSlot]
    /\ iob = [c \in Clients |-> NoSlot]
    /\ pc = [t \in Threads |-> "idle"]
    /\ req = [t \in Threads |-> NoReq]
    /\ need_wait = TRUE /\ assigned = FALSE /\ hooked = FALSE
    /\ frz = -1 /\ frzFd = NoFd /\ suspends = 0
    /\ card = FALSE
    /\ msfd = [f \in Fds |-> [file |-> NoFile, pos |-> 0]]
    /\ size = [p \in Paths |-> IF (p[2] = "variant") = (p[1] \in HasFallback)
                               THEN 0 ELSE Absent]
    /\ unguarded = FALSE

-----------------------------------------------------------------------------
(* The memory stick driver, as the code uses it.                           *)

Live(f)  == f \in Fds /\ msfd[f].file # NoFile
FreeFds  == {f \in Fds : ~Live(f)}
Tell(f)  == IF Live(f) THEN msfd[f].pos ELSE BadOff
Opened(f, p) == [msfd EXCEPT ![f] = [file |-> p, pos |-> 0]]
Sought(f, n) == IF Live(f) /\ n # BadOff THEN [msfd EXCEPT ![f].pos = n] ELSE msfd
Shut(f)  == IF Live(f) THEN [msfd EXCEPT ![f] = [file |-> NoFile, pos |-> 0]] ELSE msfd

\* a descriptor another user of the stick opened has a file of any length
Length(p) == IF p \in Paths THEN size[p] ELSE MaxSize

\* sceIoOpen can find p, or may create it
Openable(p, flags) == flags \in {"CREAT_TRUNC", "DIR"} \/ size[p] # Absent
SizeAfterOpen(p, flags) ==
    IF flags = "CREAT_TRUNC" THEN [size EXCEPT ![p] = 0] ELSE size

-----------------------------------------------------------------------------
(* The semaphore and the slot table.                                       *)

\* sceKernelWaitSema returns at once, with an error nobody tests, once the
\* semaphore is deleted.
Lock(t) ==
    /\ flashemu_sema \in {Free, Deleted}
    /\ flashemu_sema' = IF flashemu_sema = Free THEN t ELSE Deleted
    /\ unguarded' = (unguarded \/ flashemu_sema = Deleted \/ frz # -1)

UnLock ==
    /\ flashemu_sema' = IF flashemu_sema = Deleted THEN Deleted ELSE Free
    /\ UNCHANGED unguarded

IsOpen(s) == emu_files[s].allocated /\ ~emu_files[s].closed

\* mutant: a slot whose file is closed is taken for a free one
SlotGetFreeClosed(s) ==
    /\ ~IsOpen(s)
    /\ \A r \in Slots : r < s => IsOpen(r)

\* s is the first slot that is not allocated
SlotGetFree(s) ==
    /\ ~emu_files[s].allocated
    /\ \A r \in Slots : r < s => emu_files[r].allocated

\* mutants: the "not closed" test, the O_RDONLY test is missing
EvictableClosed   == {s \in Slots : emu_files[s].allocated /\ emu_files[s].flags = "RDONLY"}
EvictableWritable == {s \in Slots : IsOpen(s)}

Evictable == {s \in Slots : IsOpen(s) /\ emu_files[s].flags = "RDONLY"}
Victim(s) == s \in Evictable /\ \A r \in Evictable : s <= r

Goto(t, label)      == pc' = [pc EXCEPT ![t] = label]
Return(t) == Goto(t, "idle") /\ req' = [req EXCEPT ![t] = NoReq]

-----------------------------------------------------------------------------
(* A request: from the call to the first call that blocks.                 *)

\* iofilemgr passes a client's request on; reads and writes obey the mode
MayCall(c, op, n, m) ==
    \/ op = "open" /\ iob[c] = NoSlot
    \/ op \in {"path", "ioctl"} /\ m = "RDONLY"
    \/ /\ op \in HandleOps /\ iob[c] # NoSlot
       /\ m = emu_files[iob[c]].flags /\ n = emu_files[iob[c]].path[1]
       /\ m = "DIR" <=> op \in {"dread", "dclose"}
       /\ ~(op = "write" /\ m = "RDONLY")

\* "path" is any of remove, mkdir, rmdir, getstat, chstat, rename, chdir
Call(c) ==
    /\ pc[c] = "idle" /\ assigned
    /\ \E op \in Requests, n \in Names, m \in OpenFlags :
          /\ MayCall(c, op, n, m)
          /\ req' = [req EXCEPT ![c] = [NoReq EXCEPT !.op = op, !.path = <<n, "DC9">>,
                                                     !.flags = m]]
    /\ Goto(c, "lock")
    /\ UNCHANGED <<slotVars, lockVars, msVars, sysVars, need_wait>>

\* mutant: SlotGetFree returns the length of the table when it is full
EnterOpenFull(c) ==
    /\ pc[c] = "lock" /\ req[c].op = "open"
    /\ Lock(c) /\ Goto(c, "wait")
    /\ \E s \in 0 .. NSlots :
          /\ s \in Slots => ~emu_files[s].allocated
          /\ \A r \in Slots : r < s => emu_files[r].allocated
          /\ req' = [req EXCEPT ![c].slot = s]
    /\ UNCHANGED <<slotVars, msVars, sysVars, need_wait>>

\* open_main, dopen_main: a slot is chosen but not yet allocated
EnterOpen(c) ==
    /\ pc[c] = "lock" /\ req[c].op = "open"
    /\ \/ /\ Lock(c)
          /\ \E s \in Slots : SlotGetFree(s) /\ req' = [req EXCEPT ![c].slot = s]
          /\ Goto(c, "wait")
       \/ /\ flashemu_sema \in {Free, Deleted} /\ UNCHANGED lockVars
          /\ \A s \in Slots : emu_files[s].allocated
          /\ Return(c)
    /\ UNCHANGED <<slotVars, msVars, sysVars, need_wait>>

\* SlotGetFd: the descriptor of the slot, which may have to be reopened
EnterHandle(c) ==
    /\ pc[c] = "lock" /\ req[c].op \in HandleOps
    /\ LET s == iob[c] IN
       \/ /\ Lock(c) /\ emu_files[s].allocated
          /\ req' = [req EXCEPT ![c] =
                 [@ EXCEPT !.slot = s, !.fd = emu_files[s].fd,
                           !.path = emu_files[s].path, !.flags = emu_files[s].flags]]
          /\ Goto(c, IF emu_files[s].closed THEN "wait" ELSE "io")
       \/ /\ flashemu_sema \in {Free, Deleted} /\ UNCHANGED lockVars
          /\ ~emu_files[s].allocated
          /\ Return(c)
    /\ UNCHANGED <<slotVars, msVars, sysVars, need_wait>>

EnterPath(c) ==
    /\ pc[c] = "lock" /\ req[c].op = "path"
    /\ Lock(c) /\ Goto(c, "wait")
    /\ UNCHANGED <<slotVars, msVars, sysVars, need_wait, req>>

\* FlashEmu_IoIoctl: an unknown command spins for ever with the lock held
Ioctl(c) ==
    /\ pc[c] = "lock" /\ req[c].op = "ioctl"
    /\ \/ flashemu_sema \in {Free, Deleted} /\ UNCHANGED lockVars /\ Return(c)
       \/ Lock(c) /\ Goto(c, "trap") /\ UNCHANGED req
    /\ UNCHANGED <<slotVars, msVars, sysVars, need_wait>>

-----------------------------------------------------------------------------
(* SlotOpen and the I/O of the request.                                    *)

\* what a request does once the stick is there
AfterWait(c) == IF req[c].op = "path" THEN "io" ELSE "open"

\* WaitMS: probe the stick with sceIoDopen, every 20 ms, until it answers.
\* The probe itself needs a descriptor.
WaitMS(c) ==
    /\ pc[c] = "wait"
    /\ \/ ~need_wait /\ Goto(c, AfterWait(c)) /\ UNCHANGED <<need_wait, req>>
       \/ /\ need_wait /\ card /\ FreeFds # {}
          /\ need_wait' = FALSE /\ Goto(c, AfterWait(c)) /\ UNCHANGED req
       \/ /\ need_wait /\ card /\ FreeFds = {} /\ hooked
          /\ Goto(c, "hook") /\ req' = [req EXCEPT ![c].back = "wait"]
          /\ UNCHANGED need_wait
    /\ UNCHANGED <<slotVars, lockVars, msVars, sysVars>>

\* SlotOpen succeeds: the slot is filled.  A new handle is returned; a
\* reopened one must still be moved to the position it had.
SlotOpenOk(c) ==
    /\ pc[c] = "open" /\ c \in Clients /\ card
    /\ LET r == req[c] IN
       /\ Openable(r.path, r.flags)
       /\ \E f \in FreeFds :
             /\ msfd' = Opened(f, r.path)
             /\ size' = SizeAfterOpen(r.path, r.flags)
             /\ emu_files' = [emu_files EXCEPT ![r.slot] =
                    [@ EXCEPT !.allocated = TRUE, !.closed = FALSE, !.fd = f,
                              !.path = r.path, !.flags = r.flags]]
             /\ IF r.op = "open"
                THEN iob' = [iob EXCEPT ![c] = r.slot] /\ Return(c) /\ UnLock
                ELSE /\ req' = [req EXCEPT ![c].fd = f] /\ Goto(c, "seek")
                     /\ UNCHANGED <<iob, lockVars>>
    /\ UNCHANGED <<sysVars, need_wait>>

\* mutant: the error path of a reopen returns without UnLock
SlotOpenFailLocked(c) ==
    /\ pc[c] = "open" /\ c \in Clients
    /\ ~card \/ FreeFds # {}
    /\ LET r == req[c] IN
       IF r.op = "open" /\ r.path[2] = "DC9"
       THEN /\ req' = [req EXCEPT ![c].path = <<r.path[1], "variant">>]
            /\ Goto(c, "wait")
       ELSE Return(c)
    /\ UNCHANGED <<slotVars, lockVars, msVars, sysVars, need_wait>>

\* sceIoOpen fails for another reason than EMFILE: a first open is tried
\* again in the fallback directory, anything else is the request's error
SlotOpenFail(c) ==
    /\ pc[c] = "open" /\ c \in Clients
    /\ ~card \/ FreeFds # {}
    /\ LET r == req[c] IN
       IF r.op = "open" /\ r.path[2] = "DC9"
       THEN /\ req' = [req EXCEPT ![c].path = <<r.path[1], "variant">>]
            /\ Goto(c, "wait") /\ UNCHANGED lockVars
       ELSE Return(c) /\ UnLock
    /\ UNCHANGED <<slotVars, msVars, sysVars, need_wait>>

\* sceIoOpen answers EMFILE.  The patched MSFAT driver calls
\* SlotCloseOneReadOnly before it answers; otherwise SlotOpen closes the
\* descriptor of the first read-only slot itself and tries again.
SlotOpenFull(c) ==
    /\ pc[c] = "open" /\ c \in Clients /\ card /\ FreeFds = {}
    /\ \/ /\ hooked
          /\ Goto(c, "hook") /\ req' = [req EXCEPT ![c].back = "open"]
          /\ UNCHANGED emu_files
       \/ /\ ~hooked
          /\ \E v \in Slots :
                /\ Victim(v)
                /\ emu_files' = [emu_files EXCEPT ![v].offset = Tell(emu_files[v].fd)]
                /\ req' = [req EXCEPT ![c] = [@ EXCEPT !.victim = v, !.fd = emu_files[v].fd]]
          /\ Goto(c, "evict")
    /\ UNCHANGED <<iob, lockVars, msVars, sysVars, need_wait>>

\* the victim's descriptor is closed, then the slot is marked
Evict(c) ==
    /\ pc[c] = "evict"
    /\ msfd' = Shut(req[c].fd)
    /\ emu_files' = [emu_files EXCEPT ![req[c].victim].closed = TRUE]
    /\ Goto(c, "open")
    /\ UNCHANGED <<iob, lockVars, size, sysVars, req, need_wait>>

\* mutant: the reopened descriptor is not moved to the saved position
ReseekNot(c) ==
    /\ pc[c] = "seek"
    /\ emu_files' = [emu_files EXCEPT ![req[c].slot] =
           [@ EXCEPT !.fd = req[c].fd, !.closed = FALSE]]
    /\ Goto(c, "io")
    /\ UNCHANGED <<iob, lockVars, msVars, sysVars, req, need_wait>>

\* SlotGetFd after a reopen: back to the saved position
Reseek(c) ==
    /\ pc[c] = "seek"
    /\ LET s == req[c].slot  f == req[c].fd IN
       /\ msfd' = Sought(f, emu_files[s].offset)
       /\ emu_files' = [emu_files EXCEPT ![s] = [@ EXCEPT !.fd = f, !.closed = FALSE]]
    /\ Goto(c, "io")
    /\ UNCHANGED <<iob, lockVars, size, sysVars, req, need_wait>>

\* sceIoRead, sceIoWrite, sceIoLseek, sceIoDread on the descriptor; the
\* last disjunct is an error or an empty transfer
Transfer(c) ==
    /\ pc[c] = "io" /\ req[c].op \in {"read", "write", "lseek", "dread"}
    /\ LET f == req[c].fd  op == req[c].op IN
       \/ /\ Live(f) /\ op \in {"read", "write", "dread"} /\ msfd[f].pos < MaxSize
          /\ op = "read" => msfd[f].pos < Length(msfd[f].file)
          /\ msfd' = [msfd EXCEPT ![f].pos = @ + 1]
          /\ size' = IF op = "write" /\ Length(msfd[f].file) <= msfd[f].pos
                     THEN [size EXCEPT ![msfd[f].file] = msfd[f].pos + 1] ELSE size
       \/ /\ Live(f) /\ op = "lseek"
          /\ \E n \in 0 .. MaxSize : msfd' = [msfd EXCEPT ![f].pos = n]
          /\ UNCHANGED size
       \/ UNCHANGED msVars
    /\ Return(c) /\ UnLock
    /\ UNCHANGED <<slotVars, sysVars, need_wait>>

\* close_main: a failed sceIoClose leaves the slot allocated, and the caller
\* either keeps the handle or gives it up.  dclose_main always clears it.
Close(c) ==
    /\ pc[c] = "io" /\ req[c].op \in {"close", "dclose"}
    /\ LET s == req[c].slot  f == req[c].fd IN
       \/ /\ Live(f) \/ req[c].op = "dclose"
          /\ msfd' = Shut(f)
          /\ emu_files' = [emu_files EXCEPT ![s].allocated = FALSE]
          /\ iob' = [iob EXCEPT ![c] = NoSlot]
       \/ /\ req[c].op = "close"
          /\ iob' \in {iob, [iob EXCEPT ![c] = NoSlot]}
          /\ UNCHANGED <<emu_files, msfd>>
    /\ Return(c) /\ UnLock
    /\ UNCHANGED <<size, sysVars, need_wait>>

\* remove_main and the other path operations: only the writable directory
\* is changed, and a file that is open on the stick is not removed
PathIo(c) ==
    /\ pc[c] = "io" /\ req[c].op = "path"
    /\ \/ /\ \A f \in Fds : msfd[f].file # req[c].path
          /\ size' = [size EXCEPT ![req[c].path] = Absent]
       \/ UNCHANGED size
    /\ Return(c) /\ UnLock
    /\ UNCHANGED <<slotVars, msfd, sysVars, need_wait>>

-----------------------------------------------------------------------------
(* SlotCloseOneReadOnly, called by the patched MSFAT driver in the thread  *)
(* that found the descriptors exhausted: a client of this driver, which    *)
(* already holds the semaphore, or another user of the stick.              *)

SlotCloseOneReadOnly(t) ==
    /\ pc[t] = "hook"
    /\ \/ /\ Lock(t)
          /\ \E v \in Slots :
                /\ Victim(v)
                /\ emu_files' = [emu_files EXCEPT ![v] =
                       [@ EXCEPT !.offset = Tell(emu_files[v].fd), !.closed = TRUE]]
                /\ req' = [req EXCEPT ![t].fd = emu_files[v].fd]
          /\ Goto(t, "hookclose")
       \/ /\ flashemu_sema \in {Free, Deleted} /\ UNCHANGED <<lockVars, emu_files>>
          /\ Evictable = {}
          /\ IF t \in Apps THEN Return(t) ELSE Goto(t, req[t].back) /\ UNCHANGED req
    /\ UNCHANGED <<iob, msVars, sysVars, need_wait>>

HookClose(t) ==
    /\ pc[t] = "hookclose"
    /\ msfd' = Shut(req[t].fd)
    /\ Goto(t, req[t].back) /\ UnLock
    /\ UNCHANGED <<slotVars, size, sysVars, req, need_wait>>

\* another user of the stick opens a file, with the hook's retries
AppCall(a) ==
    /\ pc[a] = "idle" /\ Goto(a, "open")
    /\ UNCHANGED <<slotVars, lockVars, msVars, sysVars, need_wait, req>>

AppOpen(a) ==
    /\ pc[a] = "open" /\ a \in Apps
    /\ \/ \E f \in FreeFds : msfd' = Opened(f, AppFile) /\ Return(a)
       \/ FreeFds = {} /\ hooked /\ Goto(a, "hook") /\ UNCHANGED <<msfd, req>>
       \/ FreeFds = {} /\ ~hooked /\ Return(a) /\ UNCHANGED msfd
    /\ UNCHANGED <<slotVars, lockVars, size, sysVars, need_wait>>

AppClose(a) ==
    /\ pc[a] = "idle"
    /\ \E f \in Fds : msfd[f].file = AppFile /\ msfd' = Shut(f)
    /\ UNCHANGED <<slotVars, lockVars, size, sysVars, need_wait, pc, req>>

-----------------------------------------------------------------------------
(* The rest of the system.                                                 *)

\* SceLfatfsAssign: WaitMS, without the lock, then the volumes exist
SceLfatfsAssign ==
    /\ ~assigned /\ (~need_wait \/ (card /\ FreeFds # {}))
    /\ need_wait' = FALSE /\ assigned' = TRUE
    /\ UNCHANGED <<slotVars, lockVars, msVars, hooked, frz, frzFd, suspends, card, pc, req>>

\* OnModuleStart for sceMediaSync patches the MSFAT driver
OnModuleStart ==
    /\ ~hooked /\ hooked' = TRUE
    /\ UNCHANGED <<slotVars, lockVars, msVars, assigned, frz, frzFd, suspends, card,
                   pc, req, need_wait>>

\* external: the stick is mounted, after boot and after each resume
CardReady ==
    /\ ~card /\ frz = -1 /\ card' = TRUE
    /\ UNCHANGED <<slotVars, lockVars, msVars, assigned, hooked, frz, frzFd, suspends,
                   pc, req, need_wait>>

\* SysEventHandlerFunc, event 0x4000: every open regular file is closed,
\* one slot after the other, without Lock
SuspendStart ==
    /\ frz = -1 /\ suspends < MaxSuspends
    /\ frz' = 0 /\ suspends' = suspends + 1
    /\ unguarded' = (unguarded \/ flashemu_sema # Free)
    /\ UNCHANGED <<slotVars, flashemu_sema, msVars, assigned, hooked, frzFd, card,
                   pc, req, need_wait>>

\* mutant: only the slots SlotCloseOneReadOnly may close are closed
SuspendReadOnlySlot ==
    /\ frz \in Slots /\ frzFd = NoFd
    /\ IF frz \in Evictable
       THEN /\ emu_files' = [emu_files EXCEPT ![frz] =
                   [@ EXCEPT !.offset = Tell(emu_files[frz].fd), !.closed = TRUE]]
            /\ frzFd' = emu_files[frz].fd /\ UNCHANGED frz
       ELSE frz' = frz + 1 /\ UNCHANGED <<emu_files, frzFd>>
    /\ UNCHANGED <<iob, lockVars, msVars, assigned, hooked, suspends, card, pc, req, need_wait>>

SuspendSlot ==
    /\ frz \in Slots /\ frzFd = NoFd
    /\ IF IsOpen(frz) /\ emu_files[frz].flags # "DIR"
       THEN /\ emu_files' = [emu_files EXCEPT ![frz] =
                   [@ EXCEPT !.offset = Tell(emu_files[frz].fd), !.closed = TRUE]]
            /\ frzFd' = emu_files[frz].fd /\ UNCHANGED frz
       ELSE frz' = frz + 1 /\ UNCHANGED <<emu_files, frzFd>>
    /\ UNCHANGED <<iob, lockVars, msVars, assigned, hooked, suspends, card, pc, req, need_wait>>

SuspendClose ==
    /\ frzFd # NoFd
    /\ msfd' = Shut(frzFd) /\ frzFd' = NoFd /\ frz' = frz + 1
    /\ UNCHANGED <<slotVars, lockVars, size, assigned, hooked, suspends, card, pc, req, need_wait>>

\* event 0x10009: the stick must be mounted again
Resume ==
    /\ frz = NSlots
    /\ frz' = -1 /\ need_wait' = TRUE /\ card' = FALSE
    /\ UNCHANGED <<slotVars, lockVars, msVars, assigned, hooked, frzFd, suspends, pc, req>>

\* mutant: the wait for the lock has no timeout
PreareRebootPatient ==
    /\ Reboots /\ flashemu_sema = Free
    /\ flashemu_sema' = Deleted /\ unguarded' = TRUE
    /\ UNCHANGED <<slotVars, msVars, sysVars, pc, req, need_wait>>

\* PreareRebootFlashEmu: wait for the lock at most 500 ms, delete it anyway
PreareRebootFlashEmu ==
    /\ Reboots /\ flashemu_sema # Deleted
    /\ flashemu_sema' = Deleted /\ unguarded' = TRUE
    /\ UNCHANGED <<slotVars, msVars, sysVars, pc, req, need_wait>>

-----------------------------------------------------------------------------
Enter(c)   == EnterOpen(c) \/ EnterHandle(c) \/ EnterPath(c) \/ Ioctl(c)
Request(c) == \/ WaitMS(c) \/ SlotOpenOk(c) \/ SlotOpenFail(c) \/ SlotOpenFull(c)
              \/ Evict(c) \/ Reseek(c) \/ Transfer(c) \/ Close(c) \/ PathIo(c)
Hook(t)    == SlotCloseOneReadOnly(t) \/ HookClose(t)
Suspend    == SuspendSlot \/ SuspendClose \/ Resume
System     == SceLfatfsAssign \/ OnModuleStart \/ CardReady \/ SuspendStart
              \/ Suspend \/ PreareRebootFlashEmu

Next == \/ \E c \in Clients : Call(c) \/ Enter(c) \/ Request(c)
        \/ \E a \in Apps : AppCall(a) \/ AppOpen(a) \/ AppClose(a)
        \/ \E t \in Threads : Hook(t)
        \/ System

Spec == Init /\ [][Next]_vars

\* The kernel runs ready threads; a semaphore of attribute 0 serves its
\* waiters in turn; the stick is mounted in the end; the handlers go on.
Fairness ==
    /\ \A c \in Clients : WF_vars(Request(c)) /\ SF_vars(Enter(c))
    /\ \A t \in Threads : SF_vars(SlotCloseOneReadOnly(t)) /\ WF_vars(HookClose(t))
    /\ \A a \in Apps : WF_vars(AppOpen(a))
    /\ WF_vars(Suspend) /\ WF_vars(CardReady) /\ WF_vars(PreareRebootFlashEmu)

FairSpec == Spec /\ Fairness

-----------------------------------------------------------------------------
(* Properties.                                                             *)

\* An open slot has a descriptor of its own, which is live and is open on
\* the slot's file: eviction and reopening never make a request read or
\* write another file.  (SlotOpen, SlotGetFd, SlotCloseOneReadOnly)
SlotsBacked ==
    ~unguarded =>
        \A s \in Slots : IsOpen(s) =>
            /\ Live(emu_files[s].fd)
            /\ msfd[emu_files[s].fd].file = emu_files[s].path
            /\ \A r \in Slots \ {s} : IsOpen(r) => emu_files[r].fd # emu_files[s].fd

\* Two handles never share a slot, and the slot of a handle stays allocated
\* until the handle is closed, although a slot is chosen before the open
\* that may block and is allocated after it.  (SlotGetFree, SlotOpen)
HandlesOwnSlots ==
    ~unguarded =>
        \A c \in Clients : iob[c] # NoSlot =>
            /\ emu_files[iob[c]].allocated
            /\ \A d \in Clients \ {c} : iob[d] # iob[c]

\* The position a client sees through its handle, wherever it is kept
Position(c) ==
    LET e == emu_files[iob[c]] IN
    IF e.closed \/ (pc[c] = "seek") THEN e.offset ELSE Tell(e.fd)

\* That position changes only when a request of that client completes:
\* evictions, suspends and reopens, by whichever thread, keep it.
PositionKept ==
    [][\A c \in Clients :
          ~unguarded' /\ iob[c] # NoSlot /\ iob'[c] = iob[c] /\ Position(c)' # Position(c)
              => pc[c] = "io" /\ pc'[c] = "idle"]_vars

\* As long as the machine has not been suspended, a file gets shorter only
\* when a client opens it with O_TRUNC or removes it: a reopen, which
\* repeats the flags of the open, truncates nothing, since only read-only
\* slots are evicted.  (SlotOpen, SlotCloseOneReadOnly)
ShortenedOnRequest ==
    [][suspends = 0 /\ ~unguarded' =>
          \A p \in Paths : size'[p] < size[p] =>
              \E c \in Clients : req[c].path = p /\ req[c].op \in {"open", "path"}]_vars

\* When the suspend handler has gone through the table and nothing ran
\* meanwhile, no regular file is left open on the stick.  (SysEventHandlerFunc)
SuspendClosesAll ==
    frz = NSlots /\ ~unguarded =>
        \A s \in Slots : IsOpen(s) => emu_files[s].flags = "DIR"

\* The ways in which a request can hang: it spins on an unknown ioctl; the
\* hook waits for the lock its own thread holds; all descriptors are taken
\* and no read-only slot can give one back.
Hung ==
    \E c \in Clients :
        \/ pc[c] = "trap"
        \/ pc[c] = "hook"
        \/ pc[c] \in {"open", "wait"} /\ FreeFds = {} /\ ~hooked
              /\ (pc[c] = "open" => Evictable = {})

\* Without a reboot every request returns, unless a request hangs in one of
\* those ways: no other path leaves the lock taken or a thread waiting.
RequestsReturn ==
    \A c \in Clients : pc[c] = "lock" ~> (pc[c] = "idle" \/ Hung)

\* A reboot ends every wait for the lock, even when the holder hangs.
\* (PreareRebootFlashEmu's timeout)
RebootEndsWaits ==
    \A t \in Threads : pc[t] \in {"lock", "hook"} ~> pc[t] \notin {"lock", "hook"}

=============================================================================
