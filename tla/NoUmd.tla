-------------------------------- MODULE NoUmd --------------------------------
(***************************************************************************)
(* The drive that a title finds when systemctrl serves the image itself    *)
(* (DoNoUmdPatches, src/modules/systemctrl/sysmodpatches.c): the calls of  *)
(* sceUmdUser are replaced by ones that keep a status, give the disc its   *)
(* name and tell a callback of the title.  Threads of the title call them  *)
(* as they like; nothing excludes one another.                             *)
(*                                                                         *)
(* The mark: a call that changes the status met another.                   *)
(***************************************************************************)
EXTENDS Integers

CONSTANTS Threads, Callback

CallbackAssumption == Callback \in Nat \ {0}

VARIABLES
    drivestat,      \* whether the disc is readable
    assigned,       \* whether it has its name, disc0:
    umdcallback,    \* whom to tell; 0 and then -1 is nobody
    told,           \* history: what Callback was told last, since it was registered
    pc, report,     \* where each thread is, and whether it will tell
    met

vars == <<drivestat, assigned, umdcallback, told, pc, report, met>>

\* SCE_UMD_MEDIA_IN and SCE_UMD_READY hold all along
Ready    == "ready"
Readable == "readable"

Init ==
    /\ drivestat = Ready /\ assigned = FALSE /\ umdcallback = 0 /\ told = "nothing"
    /\ pc = [t \in Threads |-> "out"] /\ report = [t \in Threads |-> FALSE]
    /\ met = FALSE

Go(t, from, to) == pc[t] = from /\ pc' = [pc EXCEPT ![t] = to]

Inside(t) == \E u \in Threads \ {t} : pc[u] # "out"

\* UmdCallback
Tell(stat) == told' = IF umdcallback = Callback THEN stat ELSE told

\* sceUmdActivate: the name, then the status, then the callback when the disc
\* was not readable yet
Activate(t) ==
    /\ Go(t, "out", "activate")
    /\ assigned' = TRUE
    /\ met' = (met \/ Inside(t))
    /\ UNCHANGED <<drivestat, umdcallback, told, report>>

SetReadable(t) ==
    /\ Go(t, "activate", "report")
    /\ report' = [report EXCEPT ![t] = drivestat # Readable]
    /\ drivestat' = Readable
    /\ UNCHANGED <<assigned, umdcallback, told, met>>

Report(t) ==
    /\ Go(t, "report", "out")
    /\ IF report[t] THEN Tell(Readable) ELSE UNCHANGED told
    /\ report' = [report EXCEPT ![t] = FALSE]
    /\ UNCHANGED <<drivestat, assigned, umdcallback, met>>

\* sceUmdDeactivate
Deactivate(t) ==
    /\ Go(t, "out", "deactivate")
    /\ assigned' = FALSE
    /\ met' = (met \/ Inside(t))
    /\ UNCHANGED <<drivestat, umdcallback, told, report>>

SetReady(t) ==
    /\ Go(t, "deactivate", "out")
    /\ drivestat' = Ready /\ Tell(Ready)
    /\ UNCHANGED <<assigned, umdcallback, report, met>>

\* sceUmdRegisterUMDCallBack tells the status at once.
Register(t) ==
    /\ pc[t] = "out" /\ umdcallback # Callback
    /\ umdcallback' = Callback /\ told' = drivestat
    /\ met' = (met \/ Inside(t))
    /\ UNCHANGED <<drivestat, assigned, pc, report>>

UnRegister(t) ==
    /\ pc[t] = "out" /\ umdcallback' = -1 /\ told' = "nothing"
    /\ UNCHANGED <<drivestat, assigned, pc, report, met>>

Next ==
    \E t \in Threads :
        \/ Activate(t) \/ SetReadable(t) \/ Report(t)
        \/ Deactivate(t) \/ SetReady(t) \/ Register(t) \/ UnRegister(t)

Spec == Init /\ [][Next]_vars

-----------------------------------------------------------------------------
Quiet == \A t \in Threads : pc[t] = "out"

\* Between the calls the callback was last told what the status is, and the
\* disc has its name exactly when it is readable (sceUmdActivatePatched,
\* sceUmdDeactivatePatched), unless two calls met.
CallbackTold ==
    Quiet /\ ~met =>
        /\ umdcallback = Callback => told = drivestat
        /\ assigned <=> drivestat = Readable
==============================================================================
