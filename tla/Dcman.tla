-------------------------------- MODULE Dcman --------------------------------
(***************************************************************************)
(* What dcman tells and does for the pages of the unbricker                *)
(* (src/modules/dcman/main.c): the board it finds, the formatting of the   *)
(* identification storage by a thread of its own, the blocks of the flash  *)
(* it reads through whichever driver is there, and the words it changes in *)
(* the memory of a module.                                                 *)
(*                                                                         *)
(* Marks: the calls that format at once, those whose thread could not be   *)
(* made, a block read between the loading and the start of a driver.       *)
(***************************************************************************)
EXTENDS Integers

CONSTANTS
    Callers,        \* threads that ask for a format
    Nobody

VARIABLES
    board, mb,              \* the board, and what was found
    format_thid,            \* whose thread formats, or Nobody
    format_res,             \* its result, or that of an earlier one
    call,                   \* where each caller is
    outcome,                \* history: what the format of each caller did
    answer,                 \* what dcIdStorageFormat returned
    updater,                \* the driver of the updaters: "no", "loaded", "started"
    scramble,               \* of each driver: 0, or that of the loader
    raw,                    \* history: the last block was read with this
    met, unmade, between    \* marks

formatVars == <<format_thid, format_res, call, outcome, answer, met, unmade>>
nandVars   == <<updater, scramble, raw, between>>
vars       == <<board, mb, formatVars, nandVars>>

-----------------------------------------------------------------------------
\* The boards: the processor, then the controller of the power, then that of
\* the voltage, each looked at only where it tells boards apart.
Other == "any"
Rows == {
    <<"14", "10600", Other, "TA-079v1">>,    <<"14", "10601", Other, "TMU-001v1">>,
    <<"14", "20600", Other, "TA-079v2">>,    <<"14", "20601", Other, "TMU-001v2">>,
    <<"14", "30600", Other, "TA-079v3">>,    <<"14", "30601", Other, "TMU-002">>,
    <<"20", "30600", Other, "TA-079v4">>,    <<"20", "40600", Other, "TA-079v5">>,
    <<"30", "40600", "103", "TA-081v1">>,  <<"30", "40600", "104", "TA-081v2">>,
    <<"40", "114000", Other, "TA-082">>,     <<"40", "121000", Other, "TA-086">>,
    <<"50", "22B200", Other, "TA-085v1">>,   <<"50", "234000", Other, "TA-085v2">>,
    <<"50", "243000", "123", "TA-088v1">>, <<"50", "243000", "132", "TA-090v1">>,
    <<"60", "243000", Other, "TA-088v3">>,   <<"60", "263100", "132", "TA-090v2">>,
    <<"60", "263100", "133", "TA-090v3">>, <<"60", "285000", Other, "TA-092">>,
    <<"72", Other, Other, "TA-091">>,          <<"80", Other, Other, "TA-094">>,
    <<"81", "2C4000", "141", "TA-093v1">>, <<"81", "2C4000", "143", "TA-093v2">>,
    <<"81", "2E4000", Other, "TA-095v1">>,   <<"82", Other, Other, "TA-095v2">>,
    <<"90", Other, Other, "TA-096">> }

Matching(t, b, p) ==
    {r \in Rows : r[1] = t /\ r[2] \in {Other, b} /\ r[3] \in {Other, p}}

GetHardwareInfo(t, b, p) ==
    IF Matching(t, b, p) = {} THEN "unknown" ELSE (CHOOSE r \in Matching(t, b, p) : TRUE)[4]

\* What the chips of a board answer: any version where it is not looked at, and
\* nothing when the controller of the power does not answer.
Unread == "DADADADA"
Answers(r, k) ==
    {Unread} \cup IF r[k] = Other THEN {q[k] : q \in Rows} \ {Other} ELSE {r[k]}

Init ==
    /\ board \in Rows
    /\ \E b \in Answers(board, 2), p \in Answers(board, 3) : mb = GetHardwareInfo(board[1], b, p)
    /\ format_thid = Nobody /\ format_res = 0
    /\ call = [c \in Callers |-> "out"]
    /\ outcome = [c \in Callers |-> 0] /\ answer = [c \in Callers |-> 0]
    /\ met = {} /\ unmade = {}
    /\ updater = "no" /\ scramble = [lowio |-> "own", updater |-> "own"]
    /\ raw = 0 /\ between = FALSE

-----------------------------------------------------------------------------
(* Formatting.                                                             *)

Go(c, from, to) == call[c] = from /\ call' = [call EXCEPT ![c] = to]

Others(c) == {d \in Callers \ {c} : call[d] # "out"}

Kept == UNCHANGED <<board, mb, nandVars>>

\* dcIdStorageFormat: refused while the thread of another formats
Ask(c) ==
    /\ call[c] = "out"
    /\ IF format_thid # Nobody
       THEN /\ answer' = [answer EXCEPT ![c] = -1] /\ outcome' = [outcome EXCEPT ![c] = -1]
            /\ met' = met \ {c} /\ UNCHANGED call
       ELSE /\ call' = [call EXCEPT ![c] = "create"]
            /\ met' = IF Others(c) = {} THEN met \ {c} ELSE met \cup {c} \cup Others(c)
            /\ UNCHANGED <<answer, outcome>>
    /\ unmade' = unmade \ {c}
    /\ UNCHANGED <<format_thid, format_res>> /\ Kept

\* A thread that is not made is neither started nor waited for, and its
\* number, an error, counts as none.
CreateThread(c, fails) ==
    /\ Go(c, "create", IF fails THEN "ended" ELSE "wait")
    /\ format_thid' = IF fails THEN Nobody ELSE c
    /\ outcome' = [outcome EXCEPT ![c] = -1]
    /\ unmade' = IF fails THEN unmade \cup {c} ELSE unmade
    /\ UNCHANGED <<format_res, answer, met>> /\ Kept

\* idsformat_thread
FormatThread(c, res) ==
    /\ Go(c, "wait", "ended")
    /\ format_res' = res /\ outcome' = [outcome EXCEPT ![c] = res]
    /\ UNCHANGED <<format_thid, answer, met, unmade>> /\ Kept

Forget(c) ==
    /\ Go(c, "ended", "return")
    /\ format_thid' = Nobody
    /\ UNCHANGED <<format_res, outcome, answer, met, unmade>> /\ Kept

Return(c) ==
    /\ Go(c, "return", "out")
    /\ answer' = [answer EXCEPT ![c] = format_res]
    /\ UNCHANGED <<format_thid, format_res, outcome, met, unmade>> /\ Kept

-----------------------------------------------------------------------------
(* The blocks of the flash.                                                *)

\* the updaters load their driver ...
LoadUpdater ==
    /\ updater = "no" /\ updater' = "loaded"
    /\ UNCHANGED <<board, mb, formatVars, scramble, raw, between>>

\* ... and when it starts, the calls of the first are sent to it (OnModuleStart)
StartUpdater ==
    /\ updater = "loaded" /\ updater' = "started"
    /\ UNCHANGED <<board, mb, formatVars, scramble, raw, between>>

\* the driver whose scramble is set: that of the updaters is looked for first
SetScrambleZero == [scramble EXCEPT ![IF updater = "no" THEN "lowio" ELSE "updater"] = 0]

\* the driver that reads
Reader == IF updater = "started" THEN "updater" ELSE "lowio"

ReadNandBlock ==
    /\ scramble' = SetScrambleZero
    /\ raw' = scramble'[Reader]
    /\ between' = (updater = "loaded")
    /\ UNCHANGED <<board, mb, formatVars, updater>>

\* the loader of the firmware has a scramble of its own, in either driver
Firmware(d) ==
    /\ d = "updater" => updater = "started"
    /\ scramble' = [scramble EXCEPT ![d] = "own"]
    /\ UNCHANGED <<board, mb, formatVars, updater, raw, between>>

Next ==
    \/ \E c \in Callers :
          \/ Ask(c) \/ Forget(c) \/ Return(c)
          \/ \E fails \in BOOLEAN : CreateThread(c, fails)
          \/ \E res \in {0, -1} : FormatThread(c, res)
    \/ LoadUpdater \/ StartUpdater \/ ReadNandBlock
    \/ \E d \in {"lowio", "updater"} : Firmware(d)

Spec == Init /\ [][Next]_vars

-----------------------------------------------------------------------------
\* The board is found by its chips, and one that does not answer makes it
\* unknown, never another (GetHardwareInfo).
BoardRight == mb \in {board[4], "unknown"}

\* The answer to a call is what its own format did, unless two calls met or a
\* thread could not be made, when it is that of an earlier one
\* (dcIdStorageFormat).
AnswerOwn ==
    \A c \in Callers \ (met \cup unmade) : call[c] = "out" => answer[c] = outcome[c]

\* One that nobody shares the driver with is never refused for good: once all
\* have returned, the next call formats.
FormatFree == (\A c \in Callers : call[c] = "out") => format_thid = Nobody

\* The blocks of the loader are read as they lie, whichever driver reads them
\* (SetScrambleZero, RedirectNandFunc).
ReadRaw == ~between => raw = 0

DcmanAnswers == BoardRight /\ AnswerOwn /\ FormatFree /\ ReadRaw
=============================================================================
