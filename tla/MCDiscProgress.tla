---------------------------- MODULE MCDiscProgress ----------------------------
(***************************************************************************)
(* The liveness of the three ways to the disc image under the fairness     *)
(* their scheduling justifies: the FairSpec of UmdImage, of Isofs and of   *)
(* Galaxy.  One part runs in a behaviour; the variables it does not have   *)
(* are 0.                                                                  *)
(*                                                                         *)
(*   umd0    two readers of umd0: while the stick comes and goes           *)
(*           (UmdImage)                                                    *)
(*   isofs   two threads and two files of the disc (Isofs)                 *)
(*   galaxy  a reader, the mount thread and a close (Galaxy)               *)
(***************************************************************************)
EXTENDS Integers, Sequences

CONSTANTS t1, t2, t3, i1, i2, f1, iso1, NoFd, Free, NoImage, Closed

VARIABLES
    part, pc, req, card, iob, out, umdfd, cso, buf,
    umdfile, mounted, discsize, discpointer, umdsema, index, fds, res, setting, steady, misled,
    isofs_sema, handlers, sought, kept,
    stick, image, fd, npfd, FdMutex, ret, try, how, clash, headless, reread

U == INSTANCE UmdImage WITH
    Readers <- {t1, t2}, UmdReaders <- {t1, t2}, Images <- {iso1}, Cso <- {},
    Length <- [i \in {iso1} |-> 1], Stored <- {1}, IndexSize <- 2, BufSize <- 2,
    Switching <- FALSE, MaxTry <- 1, MaxLength <- 1, Fds <- {f1}
I == INSTANCE Isofs WITH
    Threads <- {t1, t2}, Iobs <- {i1, i2}, Handlers <- {1}, Bytes <- 1, MaxLen <- 1,
    Files <- {[lba |-> 1, size |-> 1, dir |-> FALSE], [lba |-> 2, size |-> 1, dir |-> TRUE]},
    MaxPos <- 1, Truncated <- FALSE
G == INSTANCE Galaxy WITH
    Readers <- {t1}, Mount <- t2, Closer <- t3, Fds <- {1, 2}, MaxTry <- 1

ofUmd    == <<umdfile, mounted, discsize, discpointer, umdsema, index, fds, res, setting,
              steady, misled>>
ofIsofs  == <<isofs_sema, handlers, sought, kept>>
ofGalaxy == <<stick, image, fd, npfd, FdMutex, ret, try, how, clash, headless, reread>>
allVars  == <<part, pc, req, card, iob, out, umdfd, cso, buf, ofUmd, ofIsofs, ofGalaxy>>

NotUmd ==
    umdfile = 0 /\ mounted = 0 /\ discsize = 0 /\ discpointer = 0 /\ umdsema = 0 /\ index = 0
    /\ fds = 0 /\ res = 0 /\ setting = 0 /\ steady = 0 /\ misled = 0
NotIsofs == isofs_sema = 0 /\ handlers = 0 /\ sought = 0 /\ kept = 0
NotGalaxy ==
    stick = 0 /\ image = 0 /\ fd = 0 /\ npfd = 0 /\ FdMutex = 0 /\ ret = 0 /\ try = 0 /\ how = 0
    /\ clash = 0 /\ headless = 0 /\ reread = 0

Init ==
    \/ /\ part = "umd0" /\ U!Init
       /\ NotIsofs /\ NotGalaxy
       /\ iob = 0 /\ out = 0
    \/ /\ part = "isofs" /\ I!Init
       /\ NotUmd /\ NotGalaxy
       /\ card = 0 /\ umdfd = 0 /\ cso = 0 /\ buf = 0
    \/ /\ part = "galaxy" /\ G!Init
       /\ NotUmd /\ NotIsofs
       /\ req = 0 /\ card = 0 /\ iob = 0 /\ buf = 0

\* each part leaves the variables of the others alone
UmdFrame    == UNCHANGED <<part, ofIsofs, ofGalaxy, iob, out>>
IsofsFrame  == UNCHANGED <<part, ofUmd, ofGalaxy, card, umdfd, cso, buf>>
GalaxyFrame == UNCHANGED <<part, ofUmd, ofIsofs, req, card, iob, buf>>

Next ==
    \/ part = "umd0" /\ U!Next /\ UmdFrame
    \/ part = "isofs" /\ I!Next /\ IsofsFrame
    \/ part = "galaxy" /\ G!Next /\ GalaxyFrame

-----------------------------------------------------------------------------
\* thread t goes on
Run(t) ==
    \/ part = "umd0" /\ t # t3 /\ U!Step(t) /\ UmdFrame
    \/ part = "isofs" /\ t # t3 /\ I!LseekResult(t) /\ IsofsFrame
    \/ part = "galaxy" /\ G!Step(t) /\ GalaxyFrame

\* thread t gets the lock it waits for
GetLock(t) ==
    \/ part = "umd0" /\ t # t3 /\ U!Lock(t) /\ UmdFrame
    \/ part = "isofs" /\ t # t3 /\ I!Step(t) /\ IsofsFrame
    \/ part = "galaxy" /\ G!Lock(t) /\ GalaxyFrame

\* the call that changes the image ends
SetUmdFileEnd == part = "umd0" /\ U!SetUmdFileEnd /\ UmdFrame

Fairness ==
    /\ \A t \in {t1, t2, t3} : WF_allVars(Run(t)) /\ SF_allVars(GetLock(t))
    /\ WF_allVars(SetUmdFileEnd)

FairSpec == Init /\ [][Next]_allVars /\ Fairness

-----------------------------------------------------------------------------
\* A request to umd0:, or to the disc file system, whose semaphore no ioctl
\* has kept, comes to its end, the stick in or out (umd_read, isofs_funcs).
Busy(t) ==
    \/ part = "umd0" /\ pc[t] # "idle"
    \/ part = "isofs" /\ pc[t] # "idle" /\ ~kept
DiscRequestsEnd == \A t \in {t1, t2} : Busy(t) ~> ~Busy(t)

\* Once the stick stays, every request of a reader of sceNp9660 is answered,
\* although the one that waits for the stick holds the mutex (OpenIso).
Asking(t) == part = "galaxy" /\ pc[t] # "idle" /\ ~clash
GalaxyAnswers == <>[](part = "galaxy" /\ stick) => Asking(t1) ~> ~Asking(t1)
=============================================================================
