-------------------------------- MODULE MsCard --------------------------------
(***************************************************************************)
(* The sectors of the memory stick before there is a kernel                *)
(* (src/ipl/common/ms.c): pspMsReadSector and pspMsWriteSector send a      *)
(* command with the number of the sector, wait for the card to ask for the *)
(* data, move them word by word and wait for the end of the command.  Any  *)
(* wait may end in a time-out, which gives the call up where it is; the    *)
(* card does not know of that.                                             *)
(*                                                                         *)
(* Two marks end the promises: the card did not take the command of a call *)
(* because it was still at an earlier one, or it ended one with an error.  *)
(***************************************************************************)
EXTENDS Integers, Sequences

CONSTANTS
    Base,           \* values of a byte: 256
    Words,          \* words of a sector: 128
    Used            \* the sectors that are called for

Sectors == 0 .. Base * Base * 2 - 1

MsCardAssumption ==
    Base \in Nat /\ Base >= 2 /\ Words \in Nat \ {0} /\ Used \subseteq Sectors

VARIABLES
    pc,             \* where the running call is
    call,           \* what was called: [op, sector]
    words,          \* the memory of the caller, from 1 to how far it was moved
    res,            \* the result
    card,           \* what the card is at
    stored,         \* what it holds: 0 as it was, 1 as the caller gives it
    late, ended

vars == <<pc, call, words, res, card, stored, late, ended>>

\* a card that waits for a command: after its last one, and how that ended
Free(error) == [state |-> "end", op |-> "read", sector |-> 0, at |-> 0, error |-> error]
Busy == card.state \in {"works", "asks", "moves"}

Init ==
    /\ pc = "out" /\ call = [op |-> "read", sector |-> 0] /\ words = <<>> /\ res = -1
    /\ card = Free(FALSE) /\ stored = [s \in Sectors |-> [i \in 1 .. Words |-> 0]]
    /\ late = FALSE /\ ended = FALSE

\* _ms_init: the controller is reset, and the card with it
MsInit ==
    /\ pc = "out" /\ card' = Free(FALSE) /\ late' = FALSE
    /\ UNCHANGED <<pc, call, words, res, stored, ended>>

-----------------------------------------------------------------------------
\* The bytes of a number, the first one the lowest.
Byte(n, k) == (n \div Base ^ k) % Base

\* The parameters of a command, as the two words that are sent lie in memory:
\* the mode, the count, the number of the sector from its highest byte on, 0.
Parameters(op, sector) ==
    <<op, 0, 1, Byte(sector, 3), Byte(sector, 2), Byte(sector, 1), Byte(sector, 0), 0>>

\* the sector that the card understands
Addressed(p) == ((p[4] * Base + p[5]) * Base + p[6]) * Base + p[7]

Return(r) == pc' = "out" /\ res' = r

Call(op, sector) ==
    /\ pc = "out" /\ pc' = "send"
    /\ call' = [op |-> op, sector |-> sector] /\ words' = <<>>
    /\ ended' = FALSE
    /\ UNCHANGED <<res, card, stored, late>>

\* pspMsReadSector and pspMsWriteSector, the same steps with another mode and
\* direction.
ReadSector(sector)  == Call("read", sector)
WriteSector(sector) == Call("write", sector)

\* EX_SET_CMD and send_data_and_sync.  The card takes it unless it is at another.
SendDataAndSync(fails) ==
    LET p == Parameters(call.op, call.sector)
    IN  /\ pc = "send"
        /\ card' = IF Busy THEN card
                   ELSE [state |-> "works", op |-> p[1], sector |-> Addressed(p), at |-> 0,
                         error |-> FALSE]
        /\ late' = (late \/ Busy)
        /\ IF fails THEN Return(-1) ELSE pc' = "request" /\ UNCHANGED res
        /\ UNCHANGED <<call, words, stored, ended>>

\* ms_wait_unk1, then ms_get_reg_int until the card asks for data.  One that
\* has ended the command instead is asked for ever.
WaitRequest(fails) ==
    /\ pc = "request" /\ card.state \in {"asks", "end"}
    /\ IF fails \/ (card.state = "asks" /\ card.error)
       THEN Return(-1) /\ UNCHANGED card
       ELSE /\ card.state = "asks" /\ pc' = "data" /\ UNCHANGED res
            /\ card' = [card EXCEPT !.state = "moves"]
    /\ UNCHANGED <<call, words, stored, late, ended>>

\* read_data and write_data: a word when the buffer of the controller has one
\* to give or takes one
MoveWord(fails) ==
    LET i == Len(words) + 1
    IN  /\ pc = "data" /\ card.state = "moves" /\ card.op = call.op
        /\ IF fails THEN Return(-1) /\ UNCHANGED <<words, card, stored>>
           ELSE /\ words' = Append(words, IF call.op = "write" THEN 1
                                          ELSE <<card.sector, card.at + 1, stored[card.sector][card.at + 1]>>)
                /\ stored' = IF call.op = "read" THEN stored
                             ELSE [stored EXCEPT ![card.sector][card.at + 1] = 1]
                /\ card' = [card EXCEPT !.at = @ + 1,
                                        !.state = IF card.at + 1 = Words THEN "works" ELSE @]
                /\ pc' = IF i = Words THEN "ready" ELSE pc
                /\ UNCHANGED res
        /\ UNCHANGED <<call, late, ended>>

\* ms_wait_ready: with a time-out or a wrong sum the call fails
WaitReady(fails) ==
    /\ pc = "ready"
    /\ IF fails THEN Return(-1) ELSE pc' = "end" /\ UNCHANGED res
    /\ UNCHANGED <<call, words, card, stored, late, ended>>

\* Until the command has ended; a time-out here only means another look, and
\* how it ended is not looked at.
WaitEnd ==
    /\ pc = "end" /\ card.state = "end"
    /\ ended' = card.error
    /\ Return(0)
    /\ UNCHANGED <<call, words, card, stored, late>>

-----------------------------------------------------------------------------
\* The card asks for data when it has found the sector, and ends the command
\* when they were moved; either may be an error.
CardAsks(error, ends) ==
    /\ card.state = "works" /\ card.at = 0
    /\ ends => error
    /\ card' = [card EXCEPT !.state = IF ends THEN "end" ELSE "asks", !.error = error]
    /\ UNCHANGED <<pc, call, words, res, stored, late, ended>>

CardEnds(error) ==
    /\ card.state = "works" /\ card.at = Words
    /\ card' = [card EXCEPT !.state = "end", !.error = error]
    /\ UNCHANGED <<pc, call, words, res, stored, late, ended>>

\* A request for data that nobody answers is given up at last.
CardGivesUp ==
    /\ card.state \in {"asks", "moves"} /\ pc \in {"out", "send"}
    /\ card' = [card EXCEPT !.state = "end", !.error = TRUE]
    /\ UNCHANGED <<pc, call, words, res, stored, late, ended>>

Next ==
    \/ MsInit \/ WaitEnd \/ CardGivesUp
    \/ \E s \in Used : ReadSector(s) \/ WriteSector(s)
    \/ \E fails \in BOOLEAN :
          SendDataAndSync(fails) \/ WaitRequest(fails) \/ MoveWord(fails) \/ WaitReady(fails)
    \/ \E error \in BOOLEAN : CardEnds(error) \/ \E ends \in BOOLEAN : CardAsks(error, ends)

Spec == Init /\ [][Next]_vars

\* a call that meets an earlier one ends the exploration
Guarded == ~late

-----------------------------------------------------------------------------
Succeeded(op) == pc = "out" /\ res = 0 /\ call.op = op /\ ~late /\ ~ended

\* A sector that was read is the one that was asked for, whole and in order,
\* whatever earlier calls left behind (pspMsReadSector).
SectorRead ==
    Succeeded("read") => words = [i \in 1 .. Words |-> <<call.sector, i, stored[call.sector][i]>>]

\* One that was written holds what was given (pspMsWriteSector).
SectorWritten == Succeeded("write") => \A i \in 1 .. Words : stored[call.sector][i] = 1

\* And no other than the sectors that were called for has changed.
OthersKept == \A s \in Sectors \ Used : \A i \in 1 .. Words : stored[s][i] = 0

SectorsRight == SectorRead /\ SectorWritten /\ OthersKept
===============================================================================
