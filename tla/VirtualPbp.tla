----------------------------- MODULE VirtualPbp -----------------------------
(***************************************************************************)
(* The manager of virtual EBOOT.PBP files (vshctrl/virtualpbpmgr.c).  The  *)
(* menu sees every image of the memory stick as a game directory with an   *)
(* IMAGE.ISO and an EBOOT.PBP; the second is put together, at each read,   *)
(* of a header, a PARAM.SFO made up in memory and five files of the image. *)
(* Every call holds the semaphore vpsema from its beginning to its end and *)
(* is one action.  Slot k is index k-1 of the arrays vpbps and states, and *)
(* the descriptor 0x7000+k-1.  Data is counted in units, each named by its *)
(* owner, its part of the file and its place there.                        *)
(***************************************************************************)
EXTENDS Integers, Sequences, FiniteSets, FiniteSetsExt

CONSTANTS
    Isos,           \* the images
    NoIso,
    Sizes,          \* the five files of each image, in units
    Broken,         \* the images without a readable PARAM.SFO
    Anonymous,      \* the images whose PARAM.SFO has no DISC_ID
    Versions,       \* modification times, each standing for one content
    MaxFiles,       \* MAX_FILES
    HeaderLength,   \* 0x28
    SfoLength,      \* sizeof(virtualsfo): one unit of title, then disc id
    ReadSizes,
    Positions,      \* where the menu seeks to
    MaxHandles,     \* bound: descriptors the menu keeps
    Kinds,          \* what the menu opens: "file", "dir"
    Removable       \* the slots the menu deletes

ASSUME VirtualPbpAssumption ==
    /\ Sizes \in [Isos -> Seq(Nat)] /\ \A iso \in Isos : Len(Sizes[iso]) = 5
    /\ Broken \subseteq Isos /\ Anonymous \subseteq Isos /\ NoIso \notin Isos
    /\ MaxFiles \in Nat \ {0} /\ HeaderLength \in Nat /\ SfoLength \in Nat
    /\ Positions \subseteq Nat /\ ReadSizes \subseteq Nat

VARIABLES
    slots,      \* vpbps[0..g_index-1]
    states,     \* states[]: the directory read state and the deleted marks
    sfo,        \* whose disc id virtualsfo holds
    handles,    \* what the menu holds open, with what it believes of it
    answer      \* the last read or finished directory listing
pbpVars == <<slots, states, sfo, handles, answer>>

Indices == 1..MaxFiles
Slot == [iso : Isos, mtime : Versions, header : Seq(Nat), pos : Nat]
InternalState == [dread : 0..2, deleted : BOOLEAN, psdirdeleted : BOOLEAN]
Fresh == [dread |-> 0, deleted |-> FALSE, psdirdeleted |-> FALSE]
Nothing == [kind |-> "none"]

-----------------------------------------------------------------------------
(* Mutant: the sections overlap by the one before. *)
OffsetsBefore(sizes) ==
    LET icon0 == HeaderLength + SfoLength
        icon1 == icon0 + sizes[1]
        pic0  == icon1 + sizes[2]
        pic1  == pic0 + sizes[3]
        snd0  == pic1 + sizes[4]
    IN  <<icon0, icon0, icon1, pic0, pic1, snd0>>

(* The layout of the file: header[3..8] are the ends of the SFO and of the *)
(* five sections; header[8] is also the size.                              *)
Offsets(sizes) ==
    LET icon0 == HeaderLength + SfoLength
        icon1 == icon0 + sizes[1]
        pic0  == icon1 + sizes[2]
        pic1  == pic0 + sizes[3]
        snd0  == pic1 + sizes[4]
    IN  <<icon0, icon1, pic0, pic1, snd0, snd0 + sizes[5]>>
Bounds(slot) == <<0, HeaderLength>> \o slot.header
Filesize(slot) == slot.header[6]

PbpOf(iso, mtime) ==
    [iso |-> iso, mtime |-> mtime, header |-> Offsets(Sizes[iso]), pos |-> 0]

Unit(owner, part, place) == <<owner, part, place>>

(* What a copy of n units from place base of a part yields.  The SFO has   *)
(* the title of the image and the disc id virtualsfo holds.                *)
Piece(slot, id, part, base, n, ok) ==
    [k \in 1..n |->
        IF part = 2 /\ base + k - 1 = 1 THEN Unit(id, part, 1)
        ELSE IF part > 2 /\ ~ok THEN Unit(NoIso, 0, 0)
        ELSE Unit(slot.iso, part, base + k - 1)]

IdAfter(slot) == IF slot.iso \in Anonymous THEN sfo ELSE slot.iso

(* One part of the loop of virtualpbp_read: the part the position is in    *)
(* gives what it has left, at most what is still wanted.                   *)
Take(slot, ok, acc, part) ==
    LET from == Bounds(slot)[part]
        to == Bounds(slot)[part + 1]
        base == acc.pos - from
        n == Min({to - from - base, acc.left})
        id == IF part = 2 THEN IdAfter(slot) ELSE acc.id
    IN IF acc.pos >= from /\ acc.pos < to
       THEN [pos |-> acc.pos + n, left |-> acc.left - n, id |-> id,
             bytes |-> acc.bytes \o Piece(slot, id, part, base, n, ok)]
       ELSE acc

(* The whole read: the parts follow one another, so one pass over them     *)
(* ends with nothing wanted or at the size of the file.                    *)
Begun(slot, size) == [pos |-> slot.pos, left |-> size, id |-> sfo, bytes |-> <<>>]
Title(slot, ok, acc) == Take(slot, ok, Take(slot, ok, acc, 1), 2)
Icons(slot, ok, acc) == Take(slot, ok, Take(slot, ok, acc, 3), 4)
Pics(slot, ok, acc) == Take(slot, ok, Take(slot, ok, acc, 5), 6)
Sound(slot, ok, acc) == Take(slot, ok, acc, 7)
Assemble(slot, size, ok) ==
    Sound(slot, ok, Pics(slot, ok, Icons(slot, ok, Title(slot, ok, Begun(slot, size)))))

-----------------------------------------------------------------------------
Init ==
    /\ slots = <<>> /\ states = [i \in Indices |-> Fresh]
    /\ sfo = NoIso /\ handles = {} /\ answer = Nothing

(* virtualpbp_add: refuses when the table is full or the image has no      *)
(* PARAM.SFO.                                                              *)
AddAccepts(table, iso) == Len(table) < MaxFiles /\ iso \notin Broken
Add(iso, mtime) ==
    /\ AddAccepts(slots, iso)
    /\ slots' = Append(slots, PbpOf(iso, mtime))
    /\ UNCHANGED <<states, sfo, handles>>
    /\ answer' = Nothing

(* virtualpbp_reset: what is open stays open in the menu, and refers to    *)
(* whatever takes its slot.                                                *)
Reset ==
    /\ slots' = <<>>
    /\ states' = [i \in Indices |-> Fresh]
    /\ handles' = {[h EXCEPT !.lost = TRUE, !.pos = 0, !.names = <<>>] :
                        h \in handles}
    /\ answer' = Nothing
    /\ UNCHANGED sfo

Others(i) == {h \in handles : h.slot = i}

(* virtualpbp_open, for a file or a directory: the position of the slot is *)
(* set to 0 under whoever has it open, and the directory state is not.     *)
Open(i, kind) ==
    /\ i \in 1..Len(slots) /\ ~states[i].deleted
    /\ Cardinality(handles) < MaxHandles
    /\ slots' = [slots EXCEPT ![i].pos = 0]
    /\ LET shared == \E o \in Others(i) : o.kind = kind
           h == [id |-> Min((0..MaxHandles - 1) \ {o.id : o \in handles}), slot |-> i, kind |-> kind,
                 iso |-> slots[i].iso, pos |-> 0, names |-> <<>>,
                 lost |-> FALSE,
                 shared |-> shared \/ (kind = "dir" /\ states[i].dread # 0)]
       IN handles' = (handles \ Others(i))
             \cup {[o EXCEPT !.shared = TRUE, !.pos = 0, !.names = <<>>] :
                    o \in Others(i)} \cup {h}
    /\ answer' = Nothing
    /\ UNCHANGED <<states, sfo>>

(* virtualpbp_close changes nothing: a directory closed before its end     *)
(* keeps its read state.                                                   *)
Close(h) ==
    /\ handles' = handles \ {h}
    /\ UNCHANGED <<slots, states, sfo>>
    /\ answer' = Nothing

(* What the menu believes of a file it shares or has lost is not followed. *)
Alone(h) == ~h.lost /\ ~h.shared
Move(h, pos) ==
    handles' = (handles \ {h})
        \cup {[h EXCEPT !.pos = IF Alone(h) THEN pos ELSE 0]}

(* virtualpbp_lseek with PSP_SEEK_SET, and PSP_SEEK_CUR to the same place. *)
Lseek(h, pos) ==
    /\ h.kind = "file" /\ h.slot <= Len(slots)
    /\ slots' = [slots EXCEPT ![h.slot].pos = pos]
    /\ Move(h, pos)
    /\ UNCHANGED <<states, sfo>>
    /\ answer' = Nothing

(* virtualpbp_lseek with PSP_SEEK_END: the code compares the position, not *)
(* whence, with PSP_SEEK_END (2); at any other position the call fails.    *)
LseekEnd(h, back) ==
    /\ h.kind = "file" /\ h.slot <= Len(slots)
    /\ slots[h.slot].pos = 2 /\ back <= Filesize(slots[h.slot])
    /\ LET pos == Filesize(slots[h.slot]) - back
       IN slots' = [slots EXCEPT ![h.slot].pos = pos] /\ Move(h, pos)
    /\ UNCHANGED <<states, sfo>>
    /\ answer' = Nothing

(* virtualpbp_read.  ok is whether the image could be read; the count is   *)
(* the same when it could not.                                             *)
Read(h, size, ok) ==
    /\ h.kind = "file" /\ h.slot <= Len(slots)
    /\ ok => ~states[h.slot].deleted
    /\ LET done == Assemble(slots[h.slot], size, ok)
       IN /\ slots' = [slots EXCEPT ![h.slot].pos = done.pos]
          /\ sfo' = done.id
          /\ Move(h, h.pos + Len(done.bytes))
          /\ answer' = [kind |-> "read", iso |-> h.iso, from |-> h.pos,
                        size |-> size, bytes |-> done.bytes,
                        ok |-> ok /\ Alone(h)]
    /\ UNCHANGED states

(* virtualpbp_dread: IMAGE.ISO, EBOOT.PBP, and the end, which starts the   *)
(* state again.                                                            *)
Dread(h) ==
    /\ h.kind = "dir" /\ h.slot <= Len(slots)
    /\ LET at == states[h.slot].dread
           name == IF at = 0 THEN "IMAGE.ISO" ELSE "EBOOT.PBP"
       IN IF at = 2
          THEN /\ states' = [states EXCEPT ![h.slot].dread = 0]
               /\ answer' = [kind |-> "dir", names |-> h.names,
                             ok |-> Alone(h)]
               /\ handles' = handles \ {h}
          ELSE /\ states' = [states EXCEPT ![h.slot].dread = @ + 1]
               /\ handles' = (handles \ {h})
                    \cup {[h EXCEPT !.names =
                            IF Alone(h) THEN Append(@, name) ELSE <<>>]}
               /\ answer' = Nothing
    /\ UNCHANGED <<slots, sfo>>

(* virtualpbp_remove, when the stick lets the file go; when it does not,   *)
(* nothing changes here.  What it does to the UMD file is in IsoListing.   *)
RemoveFile(i) ==
    /\ i \in 1..Len(slots)
    /\ states' = [states EXCEPT ![i].deleted = TRUE]
    /\ UNCHANGED <<slots, sfo, handles>>
    /\ answer' = Nothing

(* virtualpbp_rmdir.                                                       *)
Rmdir(i) ==
    /\ i \in 1..Len(slots) /\ ~states[i].psdirdeleted
    /\ states' = [states EXCEPT ![i].psdirdeleted = TRUE]
    /\ UNCHANGED <<slots, sfo, handles>>
    /\ answer' = Nothing

Next ==
    \/ \E iso \in Isos, v \in Versions : Add(iso, v)
    \/ Reset
    \/ \E i \in Indices, kind \in Kinds : Open(i, kind)
    \/ \E h \in handles :
        \/ Close(h)
        \/ \E pos \in Positions : Lseek(h, pos) \/ LseekEnd(h, pos)
        \/ \E size \in ReadSizes, ok \in BOOLEAN : Read(h, size, ok)
        \/ Dread(h)
    \/ \E i \in Removable : RemoveFile(i) \/ Rmdir(i)

Spec == Init /\ [][Next]_pbpVars

-----------------------------------------------------------------------------
(* Types: the slots in use, the state of every slot, and the handles.      *)
TypeOK ==
    /\ slots \in Seq(Slot) /\ Len(slots) <= MaxFiles
    /\ states \in [Indices -> InternalState]
    /\ sfo \in Isos \cup {NoIso}
    /\ \A h \in handles : h.slot \in Indices /\ h.pos \in Nat
    /\ answer.kind \in {"none", "read", "dir"}

(* The file a reader should see: the parts of its image in order.          *)
Part(iso, p, n) == [k \in 1..n |-> Unit(iso, p, k - 1)]
Whole(iso) ==
    LET sizes == Sizes[iso] IN
    Part(iso, 1, HeaderLength) \o Part(iso, 2, SfoLength)
        \o Part(iso, 3, sizes[1]) \o Part(iso, 4, sizes[2]) \o Part(iso, 5, sizes[3])
        \o Part(iso, 6, sizes[4]) \o Part(iso, 7, sizes[5])

(* A reader that alone has the file open gets the units its position and   *)
(* its size ask for, cut at the end of the file, whatever was read of      *)
(* other files in between; the disc id is its own unless its image has     *)
(* none, when it is the one virtualsfo last held (virtualpbpmgr.c:395-418).*)
BytesRight ==
    answer.kind = "read" /\ answer.ok =>
        LET whole == Whole(answer.iso)
            want == SubSeq(whole, answer.from + 1,
                           Min({answer.from + answer.size, Len(whole)}))
        IN /\ Len(answer.bytes) = Len(want)
           /\ \A k \in DOMAIN want :
                \/ answer.bytes[k] = want[k]
                \/ answer.iso \in Anonymous
                   /\ want[k] = Unit(answer.iso, 2, 1)

(* A directory that alone is listed, and whose last listing ended, lists   *)
(* the image and the EBOOT once each, in that order.                       *)
ListsBoth ==
    answer.kind = "dir" /\ answer.ok =>
        answer.names = <<"IMAGE.ISO", "EBOOT.PBP">>

=============================================================================
