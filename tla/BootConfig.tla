----------------------------- MODULE BootConfig -----------------------------
(***************************************************************************)
(* The tool that makes the boot configuration, a binary file that says     *)
(* which modules are loaded in which mode, out of a text, and the text out *)
(* of a binary (bootcnf).                                                  *)
(*                                                                         *)
(* A text is a sequence of lines.  A line is blank; or a name alone; or a  *)
(* name and the letters of the modes.  "$" and "%" marks go before the     *)
(* name.  A name is a sequence of letters, since the names of a binary lie *)
(* in one table, where a name is looked for with strstr.                   *)
(***************************************************************************)
EXTENDS Integers, Sequences, SequencesExt, FiniteSetsExt

CONSTANTS
    Garbage         \* the flags that may lie behind the last module in memory

\* the modes: V G U P L A D M, in the order of their flags 1, 2, 4 ...
Modes == 1 .. 8
GarbageAssumption == Garbage \subseteq SUBSET Modes

\* CBootMode(1, 2), (2, 1), (4, 3), (8, 4) ...: the number of the mode to the system
Number == [m \in Modes |-> CASE m = 1 -> 2 [] m = 2 -> 1 [] m = 3 -> 3 [] OTHER -> m]

Blank == [kind |-> "blank", dollar |-> FALSE, percent |-> 0, name |-> <<>>, flags |-> {}]

-----------------------------------------------------------------------------
(* The text: CBootConfig::ParseText.                                       *)

\* the lines at which sscanf starts: all, but after a blank first line the
\* second is missed
Starts(text) ==
    [k \in 1 .. Len(text) |-> k = 2 => text[1].kind # "blank"]

\* sscanf passes over line ends: the first line from k on that is not blank
LineFrom(text, k) ==
    LET there == {l \in k .. Len(text) : text[l].kind # "blank"}
    IN  IF there = {} THEN 0 ELSE Min(there)

\* the modes of a line: a name alone takes the next word of the text for its
\* modes, and that is a name, which has no capital letters; at the end of the
\* text it has those of the line before
FlagsOf(text, l) ==
    IF text[l].kind = "entry" THEN text[l].flags
    ELSE IF LineFrom(text, l + 1) # 0 \/ l = 1 THEN {}
    ELSE LET before == {k \in 1 .. l - 1 : text[k].kind = "entry"}
         IN  IF before = {} THEN {} ELSE text[Max(before)].flags

\* the lines that become modules, in their order
Taken(text) ==
    LET starts == SelectSeq([k \in 1 .. Len(text) |-> k],
                            LAMBDA k : Starts(text)[k] /\ LineFrom(text, k) # 0)
    IN  [i \in 1 .. Len(starts) |-> LineFrom(text, starts[i])]

-----------------------------------------------------------------------------
(* The table of the names: CModuleEntry::ParseText.  It begins with a      *)
(* separator, and each name is followed by one.                            *)

Occurs(name, table) ==
    {o \in 1 .. Len(table) - Len(name) + 1 : SubSeq(table, o, o + Len(name) - 1) = name}

\* a name is put at the end unless it occurs in the table
Placed(table, name) ==
    IF Occurs(name, table) # {} THEN table ELSE table \o name \o <<"*">>

\* a module, and the table after it
AddModule(c, line, flags) ==
    LET table == Placed(c.names, line.name)
        at == Min(Occurs(line.name, table))
    IN  [c EXCEPT !.names = table,
                  !.modules = Append(@, [offset |-> at, dollar |-> line.dollar,
                                         percent |-> line.percent, flags |-> flags])]

\* the name that begins at an offset of the table
NameAt(table, offset) ==
    LET end == Min({o \in offset .. Len(table) : table[o] = "*"})
    IN  SubSeq(table, offset, end - 1)

-----------------------------------------------------------------------------
(* The modes, each with the number of the modules that have to be looked   *)
(* at for it.                                                              *)

\* The modules are gone through from the last to the second; the one behind the
\* last, where anything may lie, is looked at before
ModCount(modules, m, behind) ==
    LET last == {j \in 2 .. Len(modules) : m \in modules[j].flags}
    IN  IF m \in behind THEN Len(modules) + 1
        ELSE IF last = {} THEN 0 ELSE Max(last)

\* the modes that any module has
ModesOf(modules, behind) ==
    LET used == SelectSeq([m \in 1 .. 8 |-> m],
                          LAMBDA m : \E j \in 1 .. Len(modules) : m \in modules[j].flags)
    IN  [i \in 1 .. Len(used) |->
            [mode |-> used[i], number |-> Number[used[i]],
             count |-> ModCount(modules, used[i], behind)]]

ParseText(text, behind) ==
    LET taken == Taken(text)
        c == FoldLeft(LAMBDA d, l : AddModule(d, text[l], FlagsOf(text, l)),
                      [names |-> <<"*">>, modules |-> <<>>], taken)
    IN  [names |-> c.names, modules |-> c.modules, modes |-> ModesOf(c.modules, behind)]

-----------------------------------------------------------------------------
(* Binary and text out of what was parsed.  The header gives the start of  *)
(* the modes, of the modules and of the names, 32 bytes each of the first  *)
(* two.                                                                    *)

HeaderSize == 64
EntrySize  == 32

WriteBinary(c) ==
    LET modules == HeaderSize + EntrySize * Len(c.modes)
        names   == modules + EntrySize * Len(c.modules)
    IN  [modeStart |-> HeaderSize, modeCount |-> Len(c.modes),
         moduleStart |-> modules, moduleCount |-> Len(c.modules),
         nameStart |-> names, nameEnd |-> names + Len(c.names),
         body |-> c.modes \o c.modules \o c.names]

\* the entry of the body that lies at a byte of the file
Slot(start) == (start - HeaderSize) \div EntrySize

ParseBinary(b) ==
    LET modes == Slot(b.modeStart)   modules == Slot(b.moduleStart)   names == Slot(b.nameStart)
    IN  [modes   |-> SubSeq(b.body, modes + 1, modes + b.modeCount),
         modules |-> SubSeq(b.body, modules + 1, modules + b.moduleCount),
         names   |-> SubSeq(b.body, names + 1, names + b.nameEnd - b.nameStart)]

WriteText(c) ==
    [i \in 1 .. Len(c.modules) |->
        [kind |-> "entry", dollar |-> c.modules[i].dollar, percent |-> c.modules[i].percent,
         name |-> NameAt(c.names, c.modules[i].offset), flags |-> c.modules[i].flags]]

-----------------------------------------------------------------------------
(* Properties of a text and of what may lie behind the modules.            *)

\* Lines that are not blank, with modes, and no name inside an earlier one but
\* at its end (such a name is cut out of the longer one).
Inside(x, y) == \E o \in Occurs(x, y) : o + Len(x) <= Len(y)
Plain(text) ==
    /\ \A l \in 1 .. Len(text) : text[l].kind = "entry"
    /\ \A l \in 1 .. Len(text) : \A k \in 1 .. l - 1 : ~Inside(text[l].name, text[k].name)

\* A plain text comes back out of the binary made of it, line by line.
TextReturns(text) ==
    Plain(text) => WriteText(ParseBinary(WriteBinary(ParseText(text, {})))) = text

\* The binary has a mode for each letter, once, in the order the system knows,
\* and its count reaches the last module with the letter and no further.  The
\* code misses the first module, and looks one too far.
ModesReach(text) ==
    \A behind \in Garbage :
        LET c == ParseText(text, behind)
            having(m) == {j \in 1 .. Len(c.modules) : m \in c.modules[j].flags}
        IN  /\ {c.modes[i].mode : i \in 1 .. Len(c.modes)} = {m \in Modes : having(m) # {}}
            /\ \A i, j \in 1 .. Len(c.modes) : i < j => c.modes[i].mode < c.modes[j].mode
            /\ \A i \in 1 .. Len(c.modes) :
                  LET m == c.modes[i].mode IN
                  m \notin behind /\ Max(having(m)) > 1 => c.modes[i].count = Max(having(m))

\* Whatever the text, a module comes from a line that has its name, and blank
\* lines alone add or take any.
ModulesFromLines(text) ==
    LET taken == Taken(text) IN
    /\ \A i, j \in 1 .. Len(taken) : i < j => taken[i] <= taken[j]
    /\ (\A l \in 1 .. Len(text) : text[l].kind # "blank") => taken = [l \in 1 .. Len(text) |-> l]

ConfigRight(text) == TextReturns(text) /\ ModesReach(text) /\ ModulesFromLines(text)
=============================================================================
