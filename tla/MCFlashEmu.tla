----------------------------- MODULE MCFlashEmu -----------------------------
(***************************************************************************)
(* Small instances of FlashEmu for TLC.  A behaviour is that of one part:  *)
(*                                                                         *)
(*   emu     the constants of the module are those of this part; the runs  *)
(*           of safety have no other                                       *)
(*   reboot  a request that may hang, another user of the stick with one   *)
(*           descriptor, and a reboot                                      *)
(*                                                                         *)
(* Liveness is that under the fairness the scheduling justifies (Fairness).*)
(***************************************************************************)
EXTENDS FlashEmu, TLC

CONSTANTS c1, c2, c3, a1, f1, f2, lib, cfg

VARIABLE part

OneClient    == {c1}
TwoClients   == {c1, c2}
ThreeClients == {c1, c2, c3}
OneApp       == {a1}
OneFd        == {f1}
TwoFds       == {f1, f2}
TwoNames     == {lib, cfg}
OneName      == {lib}

B == INSTANCE FlashEmu WITH
    Clients <- {c1}, Apps <- {a1}, NSlots <- 2, Fds <- {f1}, Names <- {lib},
    HasFallback <- {}, OpenFlags <- {"RDONLY", "DIR"},
    Requests <- {"open", "close", "dclose", "dread", "path", "ioctl"},
    MaxSize <- 0, Reboots <- TRUE, MaxSuspends <- 0

CallsSpec == part = "emu" /\ Init /\ [][Next /\ UNCHANGED part]_<<part, vars>>

\* the properties promise nothing once the lock has been bypassed
Guarded      == ~unguarded
\* Stale fields do not tell states apart: those of a free slot and the offset
\* of an open one are overwritten before they are read.
SlotView(s)  == LET e == emu_files[s] IN
                IF ~e.allocated THEN FreshSlot
                ELSE IF e.closed \/ (\E t \in Threads : pc[t] \in {"seek", "evict"}) THEN e
                ELSE [e EXCEPT !.offset = 0]
View         == <<[s \in Slots |-> SlotView(s)], iob, lockVars, msVars, sysVars,
                  pc, req, need_wait>>
Symmetry     == Permutations(Clients) \cup Permutations(Fds)

-----------------------------------------------------------------------------
(* The fairness of FlashEmu, part by part; a thread waits for the lock in  *)
(* one place at a time, so one condition covers both.                      *)

\* thread t goes on
Run(t) ==
    /\ UNCHANGED part
    /\ \/ part = "emu" /\ t \in Clients /\ Request(t)
       \/ part = "emu" /\ (HookClose(t) \/ (t \in Apps /\ AppOpen(t)))
       \/ part = "reboot" /\ t = c1 /\ B!Request(t)
       \/ part = "reboot" /\ t # c2 /\ (B!HookClose(t) \/ (t = a1 /\ B!AppOpen(t)))

\* thread t gets the lock it waits for
GetLock(t) ==
    /\ UNCHANGED part
    /\ \/ part = "emu" /\ ((t \in Clients /\ Enter(t)) \/ SlotCloseOneReadOnly(t))
       \/ part = "reboot" /\ t # c2 /\ ((t = c1 /\ B!Enter(t)) \/ B!SlotCloseOneReadOnly(t))

\* what the system does by itself
Suspends == UNCHANGED part /\ ((part = "emu" /\ Suspend) \/ (part = "reboot" /\ B!Suspend))
Ready    == UNCHANGED part /\ ((part = "emu" /\ CardReady) \/ (part = "reboot" /\ B!CardReady))
Restart  == UNCHANGED part /\ part = "reboot" /\ B!PreareRebootFlashEmu

ProgressNext ==
    /\ UNCHANGED part
    /\ (part = "emu" /\ Next) \/ (part = "reboot" /\ B!Next)

ProgressSpec ==
    /\ (part = "emu" /\ Init) \/ (part = "reboot" /\ B!Init)
    /\ [][ProgressNext]_<<part, vars>>
    /\ \A t \in {c1, c2, a1} :
        WF_<<part, vars>>(Run(t)) /\ SF_<<part, vars>>(GetLock(t))
    /\ WF_<<part, vars>>(Suspends) /\ WF_<<part, vars>>(Ready) /\ WF_<<part, vars>>(Restart)

-----------------------------------------------------------------------------
\* Every request to the emulated flash returns, unless it hangs in a known
\* way: see FlashEmu.RequestsReturn (SlotOpen, Lock).
FlashRequestsReturn ==
    \A t \in {c1, c2} :
        part = "emu" /\ pc[t] = "lock" ~> part = "emu" /\ (pc[t] = "idle" \/ Hung)

\* A reboot ends every wait for the lock: see FlashEmu.RebootEndsWaits
\* (PreareRebootFlashEmu).
Waiting(t) == part = "reboot" /\ pc[t] \in {"lock", "hook"}
RebootEndsEveryWait == \A t \in {c1, a1} : Waiting(t) ~> ~Waiting(t)
=============================================================================
