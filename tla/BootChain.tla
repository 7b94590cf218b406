------------------------------ MODULE BootChain -------------------------------
(***************************************************************************)
(* What is booted (ipl_stage1_payload, msipl, ipl_stage2_payload and       *)
(* payloadex): the code in front of the firmware asks the controller of    *)
(* the power for the buttons (ipl/common/syscon.c), once to choose between *)
(* the flash and the memory stick and once to choose a list of modules.    *)
(* It runs twice when the stick is chosen: from the flash up to that       *)
(* choice, and then from the stick, built for it.  A battery of the        *)
(* service boots the stick at once.                                        *)
(*                                                                         *)
(* Answers may be damaged on the way or not come.  Marks end promises: a   *)
(* damaged answer that passed, a version or a file that was not read.      *)
(***************************************************************************)
EXTENDS Integers

CONSTANTS
    Boards,     \* of each board the versions of its two chips, and the model it is of
    Holds       \* the sets of buttons a hand may hold

BootButtons == {"L", "R", "HOME", "TRIANGLE", "UP", "START"}

BootChainAssumption == Boards \subseteq Nat \X Nat \X Nat /\ Holds \subseteq SUBSET BootButtons

VARIABLES
    board, service, \* of this device: its chips, and is the battery of the service in it
    card,           \* is the memory stick booted
    pc,
    ctrl,           \* what the code takes for the buttons
    asked, held,    \* history: were those of the stick held at its read, and those at that of ctrl
    gen,            \* the file msipl loads
    list,           \* of modules, or "firmware" when nothing is patched
    damaged, unread
vars == <<board, service, card, pc, ctrl, asked, held, gen, list, damaged, unread>>

None == "none"

\* msipl: the file for the versions of the chips, in units of 2^16 the first
Gen(t, b) ==
    IF t <= \h40 THEN 1
    ELSE IF t = \h50 \/ (t = \h60 /\ b = \h243000) THEN 2
    ELSE IF t <= \h60 THEN 3
    ELSE IF t = \h81 /\ b = \h2C4000 THEN 4
    ELSE IF t <= \h80 THEN 5
    ELSE IF t = \h81 /\ b = \h2E4000 THEN 7
    ELSE IF t = \h82 /\ b = \h2E4000 THEN 9
    ELSE 11

Init ==
    /\ board \in Boards /\ service \in BOOLEAN
    /\ card = service /\ pc = IF service THEN "msipl" ELSE "version"
    /\ ctrl = {} /\ asked = FALSE /\ held = {} /\ gen = 0 /\ list = None
    /\ damaged = FALSE /\ unread = FALSE

-----------------------------------------------------------------------------
\* Syscon_cmd: there is no answer, or one whose length and sum are looked at,
\* unless its first byte is 0.  One that says "busy" repeats the command.
Answers == [silent : BOOLEAN, status : {0, 1}, long : BOOLEAN, sum : BOOLEAN]
Syscon_cmd(a) ==
    IF a.silent THEN -1
    ELSE IF a.status > 0 /\ ~(a.long /\ a.sum) THEN -2
    ELSE a.status

Right(a) == a.long /\ a.sum

\* sceSysconCommonRead of a value in "all": what the caller has afterwards, which
\* is what it had before when the command failed
CommonRead(a, value, before, all) ==
    IF Syscon_cmd(a) < 0 THEN {before} ELSE IF Right(a) THEN {value} ELSE all

Damaged(a) == damaged' = (damaged \/ (Syscon_cmd(a) >= 0 /\ ~Right(a)))

-----------------------------------------------------------------------------
Chooses(keys) == {"L", "HOME"} \subseteq keys

\* stage 1: its two first commands are repeated until they succeed.
Stage1(from, to) ==
    /\ pc = from
    /\ \E a \in Answers : Syscon_cmd(a) >= 0 /\ pc' = to
    /\ UNCHANGED <<board, service, card, ctrl, asked, held, gen, list, damaged, unread>>
\* Its command for the buttons is not repeated; built for the stick it does not ask.
GetCtrl1 ==
    /\ pc = "keys"
    /\ IF card THEN pc' = "stage2" /\ UNCHANGED <<card, asked, damaged>>
       ELSE \E a \in Answers, buttons \in Holds :
              /\ Damaged(a)
              /\ asked' = (Syscon_cmd(a) >= 0 /\ Chooses(buttons))
              /\ \E keys \in CommonRead(a, buttons, {}, Holds) : card' = Chooses(keys)
              /\ pc' = IF card' THEN "msipl" ELSE "stage2"
    /\ UNCHANGED <<board, service, ctrl, held, gen, list, unread>>

\* msipl: the version is 0 if the controller does not tell it.  Mounting, opening
\* and reading are not looked at: what they leave is run.
MsIpl ==
    /\ pc = "msipl"
    /\ \E a \in Answers, loaded \in BOOLEAN :
         \E b \in CommonRead(a, board[2], 0, {r[2] : r \in Boards}) :
            /\ gen' = Gen(board[1], b) /\ Damaged(a)
            /\ unread' = (Syscon_cmd(a) < 0)
            /\ pc' = IF loaded THEN "version" ELSE "lost"
    /\ UNCHANGED <<board, service, card, ctrl, asked, held, list>>

\* stage 2: no buttons, unless they are read.
Stage2 ==
    /\ pc = "stage2" /\ pc' = "payloadex"
    /\ \E a \in Answers, buttons \in Holds :
         /\ ctrl' \in CommonRead(a, buttons, {}, Holds) /\ Damaged(a)
         /\ held' = IF Syscon_cmd(a) < 0 THEN {} ELSE buttons
    /\ UNCHANGED <<board, service, card, asked, gen, list, unread>>

\* sceBootLfatOpenPatched: the list that is opened for the list of modules
List(keys) ==
    IF "R" \in keys THEN "recovery" ELSE IF card /\ "START" \notin keys THEN "dc" ELSE "umd"

\* payloadex: from the flash, three buttons leave the firmware as it is.
Payloadex ==
    /\ pc = "payloadex" /\ pc' = "booted"
    /\ list' = IF ~card /\ {"HOME", "TRIANGLE", "UP"} \subseteq ctrl THEN "firmware"
               ELSE List(ctrl)
    /\ ctrl' = {}
    /\ UNCHANGED <<board, service, card, asked, held, gen, damaged, unread>>

PowerOff ==
    /\ pc \in {"booted", "lost"}
    /\ card' = service /\ pc' = IF service THEN "msipl" ELSE "version"
    /\ ctrl' = {} /\ asked' = FALSE /\ held' = {} /\ gen' = 0 /\ list' = None
    /\ damaged' = FALSE /\ unread' = FALSE /\ UNCHANGED <<board, service>>

Next ==
    \/ Stage1("version", "time") \/ Stage1("time", "keys") \/ GetCtrl1 \/ MsIpl \/ Stage2
    \/ Payloadex \/ PowerOff

Spec == Init /\ [][Next]_vars

-----------------------------------------------------------------------------
\* The stick is booted, the firmware left alone, the recovery started and the
\* menu of the stick passed over only for who held the buttons of it when they
\* were asked for ("Key combinations" of the repository's README): an answer that
\* does not come is never a button (stage 1 main, stage 2 main, payloadex entry).
BootAsked ==
    pc = "booted" /\ ~damaged =>
        /\ card => service \/ asked
        /\ list = "firmware" <=> ~card /\ {"HOME", "TRIANGLE", "UP"} \subseteq held
        /\ list = "recovery" <=> "R" \in held /\ list # "firmware"
        /\ list = "dc" <=> card /\ {"R", "START"} \cap held = {}

\* The file is the one of the model, unless the version was not read on a board
\* that needs it: msipl asks once, where stage 1 asks until it is told.
GenRight ==
    gen # 0 /\ ~damaged =>
        \/ gen = board[3]
        \/ unread /\ board[1] \in {\h60, \h81, \h82}

BootRight == BootAsked /\ GenRight
===============================================================================
