------------------------------- MODULE ExecFile -------------------------------
(***************************************************************************)
(* What systemctrl adds to the checks of an executable                     *)
(* (src/modules/systemctrl/main.c): the firmware asks whether a file is    *)
(* one (sceKernelCheckExecFile), looks into it (ProbeExec1, ProbeExec2)    *)
(* and chooses its partition (PartitionCheck); each is patched so that     *)
(* files that are not encrypted pass.  All of them write to one record,    *)
(* "check".                                                                *)
(*                                                                         *)
(* PartitionCheckPatched reads the file itself, through the descriptor of  *)
(* the loader and a buffer that all loaders share.  Marks suspend its      *)
(* promise: two loaders in it at once, attributes that could not be read.  *)
(***************************************************************************)
EXTENDS Integers

CONSTANTS
    Loaders,        \* threads that load
    Titles,         \* the executables they load
    Apitypes,       \* the kinds of loading
    Together,       \* bound: what may be loaded at once, and how
    None

VARIABLES
    pc,             \* "idle", "check", "probe", "header", "elf", "attributes", "done", "refused"
    file,           \* what each loads
    check,          \* its record
    pos,            \* where its descriptor stands
    buf,            \* the buffer of PartitionCheckPatched
    overlapped, unread

vars == <<pc, file, check, pos, buf, overlapped, unread>>

\* Executables: in a PBP or not, plain or encrypted, static or to be relocated,
\* with the names of their sections or without, with attributes of the user, of
\* the kernel or of the XMB; at least as long as the piece that is read of
\* them, or shorter.
Files ==
    {f \in [pbp : BOOLEAN, plain : BOOLEAN, static : BOOLEAN, sections : BOOLEAN,
           attributes : {"user", "kernel", "vsh"}, whole : BOOLEAN] :
        /\ f.static => f.plain /\ f.attributes = "user"
        /\ ~f.static => f.sections}

TitlesAssumption ==
    /\ Titles \subseteq Files /\ Apitypes \subseteq Nat
    /\ Together \subseteq Titles \X Apitypes

\* a place in the file of a loader: 0, that of the executable in the PBP, or
\* that of its module info
Place(base, offset) == <<base, offset>>
Before == Place(None, 2)        \* where its loader left it

-----------------------------------------------------------------------------
\* The kernel fills the record.  It finds the module info of an executable that
\* is to be relocated; that of a static one it may miss (info = 0).
Records(f) ==
    [apitype : Apitypes, kernel : BOOLEAN, decrypted : {FALSE}, size : {0, 1},
     info : IF f.static THEN {0, 1} ELSE {1}, attributes : {"user", f.attributes},
     elf : IF f.static THEN {"other", "none"} ELSE {"other"}]

Init ==
    /\ pc = [t \in Loaders |-> "idle"]
    /\ file = [t \in Loaders |-> None] /\ check = [t \in Loaders |-> None]
    /\ pos = [t \in Loaders |-> Before]
    /\ buf = [magic |-> None, static |-> FALSE, base |-> None]
    /\ overlapped = FALSE /\ unread = FALSE

At(t, from, to) == pc[t] = from /\ pc' = [pc EXCEPT ![t] = to]

Alone(t) == \A u \in Loaders \ {t} : pc[u] = "idle"

Small(t) == pc[t] # "idle" => <<file[t], check[t].apitype>> \in Together

Load(t) ==
    /\ At(t, "idle", "check")
    /\ \E f \in IF Alone(t) THEN Titles ELSE {p[1] : p \in Together} : \E c \in Records(f) :
          /\ ~Alone(t) => <<f, c.apitype>> \in Together /\ \A u \in Loaders : Small(u)
          /\ file' = [file EXCEPT ![t] = f] /\ check' = [check EXCEPT ![t] = c]
    /\ UNCHANGED <<pos, buf, overlapped, unread>>

\* The attributes at the place of the module info; without one that is the
\* beginning of the file, its magic number.
AtInfo(f, c) == IF c.info = 0 THEN "magic" ELSE f.attributes

\* They go into the record.
PatchExec2(f, c) == [c EXCEPT !.attributes = AtInfo(f, c)]

\* A plain executable is accepted before the kernel looks at it ...
PatchExec1(f, c) ==
    IF ~f.plain \/ (c.apitype >= 82 /\ c.apitype \notin {288, 320, 321, 322, 323}) THEN <<-1, c>>
    ELSE IF c.apitype >= 288 /\ c.size # 0
    THEN <<0, [PatchExec2(f, c) EXCEPT !.decrypted = TRUE, !.kernel = TRUE]>>
    ELSE IF c.kernel THEN <<0, [c EXCEPT !.decrypted = TRUE]>>
    ELSE <<-1, c>>

\* ... or after it was refused, when its attributes are not those of a user.
PatchExec3(f, c, res) ==
    IF ~f.plain THEN <<res, c>>
    ELSE IF c.apitype >= 82
    THEN <<res, IF c.elf = "none" THEN [c EXCEPT !.elf = "static"] ELSE c>>
    ELSE IF AtInfo(f, c) = "user" THEN <<res, PatchExec2(f, c)>>
    ELSE <<0, [PatchExec2(f, c) EXCEPT !.kernel = TRUE]>>

\* What the kernel answers is its own.
CheckExecFile(t, res) ==
    LET f == file[t]
        c == check[t]
        r == IF PatchExec1(f, c)[1] = 0 THEN PatchExec1(f, c) ELSE PatchExec3(f, c, res)
    IN  /\ pc[t] = "check"
        /\ PatchExec1(f, c)[1] = 0 => res = 0
        /\ At(t, "check", IF r[1] = 0 THEN "probe" ELSE "refused")
        /\ check' = [check EXCEPT ![t] = r[2]]
        /\ UNCHANGED <<file, pos, buf, overlapped, unread>>

\* The attributes of the record become those of the file, if it has any
\* (ProbeExec1); a static executable may run where a game may, and its module
\* info is looked for by the name of its section (ProbeExec2).
ProbeExec(t) ==
    LET f == file[t]
        c == check[t]
        found == c.info = 0 /\ f.static /\ f.sections
    IN  /\ At(t, "probe", "header")
        /\ check' = [check EXCEPT ![t] =
               IF ~f.plain THEN c
               ELSE [c EXCEPT !.attributes = IF found THEN "user"
                                             ELSE IF AtInfo(f, c) # "user" THEN AtInfo(f, c) ELSE @,
                              !.decrypted = TRUE,
                              !.apitype = IF f.static /\ @ \in 320 .. 324 THEN 288 ELSE @,
                              !.info = IF found THEN 1 ELSE @]]
        /\ UNCHANGED <<file, pos, buf, overlapped, unread>>

-----------------------------------------------------------------------------
Inside(t) == pc[t] \in {"elf", "attributes"}

\* The end of PartitionCheckPatched: back to where the descriptor stood.
Back(t) == pos' = [pos EXCEPT ![t] = Before]

\* The beginning of the file is read into the buffer: less of it leaves
\* everything as it was.
ReadHeader(t) ==
    LET f == file[t]
        magic == IF f.pbp THEN "pbp" ELSE IF f.plain THEN "elf" ELSE "encrypted"
    IN  /\ At(t, "header", IF ~f.whole \/ magic = "encrypted" THEN "done"
                           ELSE IF magic = "pbp" THEN "elf" ELSE "attributes")
        /\ buf' = IF ~f.whole THEN buf
                  ELSE [magic |-> magic, static |-> magic = "elf" /\ f.static,
                        base |-> IF f.pbp THEN t ELSE buf.base]
        /\ IF f.whole /\ magic = "elf"
           THEN pos' = [pos EXCEPT ![t] = Place(None, check[t].info)]
           ELSE IF f.whole /\ magic = "pbp"
           THEN pos' = [pos EXCEPT ![t] = Place(t, 0)]
           ELSE Back(t)
        /\ overlapped' = (overlapped \/ \E u \in Loaders \ {t} : Inside(u))
        /\ UNCHANGED <<file, check, unread>>

\* The beginning of the executable in a PBP goes over the beginning of the
\* buffer; where it lies, and what follows it, stay behind it.  When it cannot
\* be read the buffer still holds that of the PBP.
Overlaid(f, fails) ==
    IF fails THEN buf
    ELSE [buf EXCEPT !.magic = IF f.plain THEN "elf" ELSE "encrypted", !.static = f.static]

ReadElf(t, fails) ==
    LET f == file[t]
        read == Overlaid(f, fails)
    IN  /\ At(t, "elf", IF read.magic = "elf" THEN "attributes" ELSE "done")
        /\ buf' = read
        /\ IF read.magic = "elf"
           THEN /\ pos' = [pos EXCEPT ![t] = Place(read.base, check[t].info)]
                /\ check' = IF read.static THEN check ELSE [check EXCEPT ![t].size = 1]
           ELSE Back(t) /\ UNCHANGED check
        /\ unread' = (unread \/ fails)
        /\ UNCHANGED <<file, overlapped>>

\* The attributes are read, and they or the kind of the executable say whether
\* it belongs to the kernel; what could not be read may be anything.
ReadAttributes(t, fails, garbage) ==
    LET f == file[t]
        own == pos[t] = Place(IF f.pbp THEN t ELSE None, 1)     \* at the module info
        attributes == IF fails \/ ~own THEN garbage ELSE f.attributes
    IN  /\ At(t, "attributes", "done")
        /\ ~fails /\ own => garbage = "user"
        /\ check' = [check EXCEPT ![t].kernel = ~buf.static /\ attributes = "kernel"]
        /\ Back(t)
        /\ unread' = (unread \/ fails)
        /\ UNCHANGED <<file, buf, overlapped>>

\* The loader lets go of the file; the marks end with the last of them.
Close(t) ==
    /\ \E s \in {"done", "refused"} : At(t, s, "idle")
    /\ file' = [file EXCEPT ![t] = None] /\ check' = [check EXCEPT ![t] = None]
    /\ overlapped' = (overlapped /\ ~Alone(t)) /\ unread' = (unread /\ ~Alone(t))
    /\ UNCHANGED <<pos, buf>>

Next ==
    \E t \in Loaders :
        \/ Load(t)
        \/ \E res \in {0, -1} : CheckExecFile(t, res)
        \/ ProbeExec(t) \/ ReadHeader(t)
        \/ \E fails \in BOOLEAN : ReadElf(t, fails)
        \/ \E fails \in BOOLEAN, garbage \in {"user", "kernel"} : ReadAttributes(t, fails, garbage)
        \/ Close(t)

Spec == Init /\ [][Next]_vars

-----------------------------------------------------------------------------
\* A plain executable that is accepted goes where its own attributes say: to
\* the kernel if they say so and it is not static, to the user otherwise,
\* from a PBP and alone (PatchExec1, PartitionCheckPatched).
PartitionRight ==
    \A t \in Loaders :
        pc[t] = "done" /\ file[t].plain /\ file[t].whole /\ ~overlapped /\ ~unread =>
            check[t].kernel <=> file[t].attributes = "kernel"

\* The checks leave the descriptor where the loader had it.
PositionLeft == \A t \in Loaders : pc[t] \in {"done", "refused"} => pos[t] = Before

\* The attributes of the record are those of the file once it has been probed,
\* unless its sections have no names (ProbeExec1Patched, ProbeExec2Patched).
AttributesRight ==
    \A t \in Loaders :
        pc[t] = "done" /\ file[t].plain /\ file[t].sections =>
            check[t].attributes = file[t].attributes

ExecRight == PartitionRight /\ PositionLeft /\ AttributesRight
=============================================================================
