----------------------------- MODULE BootPlugins -----------------------------
(***************************************************************************)
(* The plugins that are started while the system boots: the loader of the  *)
(* modules goes through sceKernelStartModulePatched, which starts those of *)
(* the list on the memory stick once, before the first module that comes   *)
(* after the drivers they need (systemctrl/init_patch.c).                  *)
(*                                                                         *)
(* A list is a sequence of characters, of which the code tells apart: "n"  *)
(* a letter of a name, "1", "s" a space, "t" a tab, "e" any control        *)
(* character, "h" a character over 127, which is negative and so counts    *)
(* as a control character.                                                 *)
(***************************************************************************)
EXTENDS Integers, Sequences, FiniteSets, SequencesExt

CONSTANTS
    Lists,          \* what a list may hold
    BufSize,        \* 1024: what is read of one
    MaxLines,       \* 5: the lines that are looked at
    Modules         \* what init starts after the wait module of the mode

BootPluginsAssumption ==
    /\ BufSize \in Nat /\ MaxLines \in Nat
    /\ \A l \in Lists : l \in Seq({"n", "1", "s", "t", "e", "h"})
    /\ "vsh_module" \notin Modules

VARIABLES
    mode,           \* sceKernelInitKeyConfig
    list,           \* the list of the mode, or NoList
    skiplogo,       \* the setting
    card,           \* "out", "in" or "mounted"
    np9660,         \* the disc driver for images is there: so is the stick
    drm,            \* scePspNpDrm_Driver is there
    ready,          \* the module waited for is there
    plugindone, ms_status,
    pc, starting,   \* sceKernelStartModulePatched, and the module
    begun, plugins, \* history: the modules, and the plugins in their order
    logo,           \* history: the XMB shows its logo
    why,            \* history: why no plugins were started
    astray          \* history: an uninitialized pointer was written through

vars == <<mode, list, skiplogo, card, np9660, drm, ready, plugindone, ms_status, pc,
          starting, begun, plugins, logo, why, astray>>
machine == <<mode, list, skiplogo, np9660, drm>>
history == <<begun, plugins, logo, why, astray>>

Characters == {"n", "1", "s", "t", "e", "h"}
Modes  == {"vsh", "game", "pops"}
NoList == <<"none">>

-----------------------------------------------------------------------------
(* A line of a list.                                                       *)

Control(ch) == ch \in {"e", "h"}
Blank(ch)   == ch \in {"s", "t"}

\* the first place of s where Test holds, Len(s) + 1 for none
First(s, Test(_)) ==
    LET at == {i \in 1 .. Len(s) : Test(s[i])}
    IN  IF at = {} THEN Len(s) + 1 ELSE CHOOSE i \in at : \A j \in at : i <= j

\* trim: the spaces at the end go
Trim(s) ==
    LET ink == {i \in 1 .. Len(s) : s[i] # "s"}
    IN  IF ink = {} THEN <<>> ELSE SubSeq(s, 1, CHOOSE i \in ink : \A j \in ink : i >= j)

\* what the line says: the name, and whether "1" follows the first blank
Said(s) ==
    LET p == First(s, Blank)
    IN  [name |-> SubSeq(s, 1, p - 1), enabled |-> SubSeq(s, p + 1, Len(s)) = <<"1">>]

\* mutant: the line is not trimmed
ReadLineRaw(buf) ==
    LET from == First(buf, LAMBDA ch : ~Control(ch))
        text == SubSeq(buf, from, Len(buf))
        n    == First(text, Control) - 1
        i    == from + n
    IN  Said(SubSeq(text, 1, n)) @@ [taken |-> IF i > Len(buf) THEN Len(buf) ELSE i]

\* ReadLine: how many characters of buf are taken, and what they say
ReadLine(buf) ==
    LET from == First(buf, LAMBDA ch : ~Control(ch))
        text == SubSeq(buf, from, Len(buf))
        n    == First(text, Control) - 1
        i    == from + n
    IN  Said(Trim(SubSeq(text, 1, n))) @@ [taken |-> IF i > Len(buf) THEN Len(buf) ELSE i]

\* the lines that are looked at: the first MaxLines, as long as any is left
Read[buf \in Seq(Characters), k \in 0 .. MaxLines] ==
    IF k = 0 \/ buf = <<>> THEN <<>>
    ELSE LET r == ReadLine(buf)
         IN  <<r>> \o Read[SubSeq(buf, r.taken + 1, Len(buf)), k - 1]

Held(l) == SubSeq(l, 1, IF Len(l) > BufSize THEN BufSize ELSE Len(l))
Names(lines) == [i \in 1 .. Len(lines) |-> lines[i].name]

\* what is started of a list; every line of it
Plugins(l) == Names(SelectSeq(Read[Held(l), MaxLines], LAMBDA r : r.enabled))
Every(l)   == Names(Read[Held(l), MaxLines])

-----------------------------------------------------------------------------
Init ==
    /\ mode \in Modes /\ list \in Lists \cup {NoList} /\ skiplogo \in BOOLEAN
    /\ card \in {"out", "in", "mounted"}
    /\ np9660 \in BOOLEAN /\ (np9660 => card = "mounted") /\ drm \in BOOLEAN
    /\ ready = FALSE /\ plugindone = FALSE /\ ms_status = 0
    /\ pc = "idle" /\ starting = "none" /\ begun = {} /\ plugins = <<>>
    /\ logo = TRUE /\ why = "" /\ astray = FALSE

-----------------------------------------------------------------------------
(* The stick.                                                              *)

Card(new) ==
    /\ card' = new
    /\ UNCHANGED <<machine, ready, plugindone, ms_status, pc, starting, history>>

Insert == card = "out" /\ Card("in")
Mount  == card = "in" /\ Card("mounted")
Eject == card # "out" /\ Card("out")

-----------------------------------------------------------------------------
(* sceKernelStartModulePatched.                                            *)

\* init loads the module that the plugins wait for; it is started like others
Load ==
    /\ pc = "idle" /\ ~ready /\ ready' = TRUE
    /\ UNCHANGED <<machine, card, plugindone, ms_status, pc, starting, history>>

\* the XMB itself is given arguments that leave the logo out
StartVsh ==
    /\ pc = "idle" /\ "vsh_module" \notin begun
    /\ begun' = begun \cup {"vsh_module"} /\ logo' = ~(mode = "vsh" /\ skiplogo)
    /\ UNCHANGED <<machine, card, ready, plugindone, ms_status, pc, starting, plugins, why, astray>>

\* a driver for images says the stick is there
Status == IF ~plugindone /\ np9660 THEN 1 ELSE ms_status

\* a module that is started before the plugins can be, or after them
StartModule(m) ==
    /\ pc = "idle" /\ m \notin begun /\ (plugindone \/ ~ready)
    /\ begun' = begun \cup {m} /\ ms_status' = Status
    /\ UNCHANGED <<machine, card, ready, plugindone, pc, starting, plugins, logo, why, astray>>

\* Why the plugins are left out: the DRM driver of a full XMB is missing, there
\* is no stick, or no memory
LeaveOut(reason) == pc' = "start" /\ why' = reason

\* the first module after it: the plugins are looked for, now or never
StartPlugins(m) ==
    /\ pc = "idle" /\ m \notin begun /\ ~plugindone /\ ready
    /\ plugindone' = TRUE /\ starting' = m /\ ms_status' = Status
    /\ \/ mode = "vsh" /\ ~drm /\ LeaveOut("drm")
       \/ /\ mode = "vsh" => drm
          /\ \/ Status # 0 /\ pc' = "lists" /\ UNCHANGED why
             \/ Status = 0 /\ card # "out" /\ pc' = "wait" /\ UNCHANGED why
             \/ Status = 0 /\ card = "out" /\ LeaveOut("stick")
    /\ UNCHANGED <<machine, card, ready, begun, plugins, logo, astray>>

\* Ms_Callback: the file system is there, or the stick has gone; the wait has no
\* end of its own
Ms_Callback ==
    /\ pc = "wait" /\ card # "in"
    /\ ms_status' = IF card = "mounted" THEN 1 ELSE 2
    /\ pc' = "lists"
    /\ UNCHANGED <<machine, card, ready, plugindone, starting, history>>

NoMemory ==
    /\ pc = "lists" /\ LeaveOut("memory")
    /\ UNCHANGED <<machine, card, ready, plugindone, ms_status, starting, begun, plugins, logo,
                   astray>>

\* the list of the mode is read; those of the other modes are for nothing
ReadList ==
    /\ pc = "lists" /\ mode # "pops" /\ pc' = "start"
    /\ IF card = "mounted" /\ list # NoList
       THEN plugins' = plugins \o Plugins(list) /\ UNCHANGED why
       ELSE why' = "stick" /\ UNCHANGED plugins
    /\ UNCHANGED <<machine, card, ready, plugindone, ms_status, starting, begun, logo, astray>>

\* The list of the PSX mode: ReadLine is given the value of `enabled`, which has
\* none, in the place of its address.  What lies there is written over; the
\* system stops, or every line is taken for an enabled one
ReadPops ==
    /\ pc = "lists" /\ mode = "pops"
    /\ IF card = "mounted" /\ list \notin {NoList, <<>>}
       THEN /\ astray' = TRUE
            /\ \/ pc' = "dead" /\ UNCHANGED plugins
               \/ pc' = "start" /\ plugins' = plugins \o Every(list)
       ELSE pc' = "start" /\ UNCHANGED <<astray, plugins>>
    /\ UNCHANGED <<machine, card, ready, plugindone, ms_status, starting, begun, logo, why>>

\* START_MODULE: the module itself, and what was allocated is freed
Start ==
    /\ pc = "start" /\ pc' = "idle"
    /\ begun' = begun \cup {starting} /\ starting' = "none"
    /\ UNCHANGED <<machine, card, ready, plugindone, ms_status, plugins, logo, why, astray>>

Next ==
    \/ Insert \/ Mount \/ Eject
    \/ Load \/ StartVsh \/ Ms_Callback \/ NoMemory \/ ReadList \/ ReadPops \/ Start
    \/ \E m \in Modules : StartModule(m) \/ StartPlugins(m)

Spec == Init /\ [][Next]_vars

-----------------------------------------------------------------------------
(* Properties.                                                             *)

\* what a list asks for: the lines are the runs of other than control
\* characters, and one is on if a blank and "1" follow the name, and then at most
\* spaces
Runs(l) ==
    {r \in (1 .. Len(l)) \X (1 .. Len(l)) :
        /\ r[1] <= r[2] /\ \A i \in r[1] .. r[2] : ~Control(l[i])
        /\ r[1] = 1 \/ Control(l[r[1] - 1])
        /\ r[2] = Len(l) \/ Control(l[r[2] + 1])}
On(l, r, p) ==
    /\ p \in r[1] .. r[2] - 1 /\ Blank(l[p]) /\ l[p + 1] = "1"
    /\ \A i \in r[1] .. p - 1 : ~Blank(l[i])
    /\ \A i \in p + 2 .. r[2] : l[i] = "s"
Wanted(l) ==
    LET taken == {r \in Runs(l) : Cardinality({q \in Runs(l) : q[1] < r[1]}) < MaxLines}
        on    == {r \in taken : \E p \in r[1] .. r[2] : On(l, r, p)}
        lines == SetToSortSeq(on, LAMBDA a, b : a[1] < b[1])
    IN  [i \in 1 .. Len(lines) |->
            SubSeq(l, lines[i][1], (CHOOSE p \in 1 .. Len(l) : On(l, lines[i], p)) - 1)]

\* Before the first module that follows the drivers, and never again, the
\* plugins that the list of the mode asks for are started, in its order; none
\* are if there is no stick, no memory or no DRM driver.
PluginsStarted ==
    ~astray =>
        plugins = IF pc \in {"start", "idle"} /\ plugindone /\ why = "" /\ mode # "pops"
                  THEN Wanted(Held(list)) ELSE <<>>
=============================================================================
