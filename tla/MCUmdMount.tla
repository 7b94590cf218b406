------------------------------ MODULE MCUmdMount ------------------------------
(***************************************************************************)
(* Instances for TLC of the modules in which an image is put in the place  *)
(* of a disc and a title of it is started.  One part runs in a behaviour   *)
(* and the others stay as they begin:                                      *)
(*                                                                         *)
(*   drive   the menu and USB mount over the disc drive (UmdMount)         *)
(*   galaxy  two readers, the mount thread and a close share the           *)
(*           descriptor behind sceNp9660 (Galaxy)                          *)
(*   cso     requests of any place and size to a compressed image of three *)
(*           sectors with blocks of any length, some of them shared        *)
(*           (CisoFile)                                                    *)
(*   title   titles of two images, one of them with a long path, the disc  *)
(*           and homebrews, started one after another (GameStart)          *)
(*   noumd   two threads of a title and the calls of its drive (NoUmd)     *)
(*   old     an old title gets its keys and its icon, with any call that   *)
(*           fails and power cuts (OldTitle)                               *)
(*   hooks   two modules, one of them the formatter, start and stop while  *)
(*           four others register their handlers (StartHandlers)           *)
(*   link    imports and exports of two libraries, one of them in the      *)
(*           table, and a handler that takes one for the other             *)
(*           (NidResolver)                                                 *)
(*   exec    two loaders with files of every kind, both at once with a     *)
(*           few of them (ExecFile)                                        *)
(***************************************************************************)
EXTENDS UmdMount, FiniteSets

CONSTANTS
    Parts,
    Readers, Mount, Closer, Fds, MaxTry, Free,      \* Galaxy
    Sectors, Layouts, SectorBytes, BufSize, IndexSize, Never,   \* CisoFile
    Images, Long,                                   \* GameStart
    Callers, Callback,                              \* NoUmd, StartHandlers
    Descriptors,                                    \* OldTitle
    Modules, Formatter,                             \* StartHandlers
    Libraries, ExportTables, ImportTables, Wrapped, \* NidResolver
    Loaders, Titles, Apitypes, Together             \* ExecFile

VARIABLES
    part,
    stick, gimage, fd, gumdfd, npfd, cso, FdMutex, gpc, ret, try, how, out,
    clash, headless, reread,
    start, length, cur_index, index_buf, buf_pos, data_buf, request, data,
    spc, config, vsh, sys, bootfile, sumdfile, ram2, exec, left, umd, isofs, hooked, given,
    wanted, leftover, blind, carried,
    stmod_handler, previous, returned, thread, start_thread, last_module, seen, due, misled,
    overlapped, abandoned, cut,
    title, keysbin, opc, use_dracula, patched, lost, flash2, keys, setkeys, taken, ofd, misread,
    declined,
    drivestat, assigned, umdcallback, told, npc, report, met,
    exports, imports, at, lle_handler, lpc, asked,
    xpc, file, check, pos, buf, xoverlapped, unread

Executables ==
    {f \in [pbp : BOOLEAN, plain : BOOLEAN, static : BOOLEAN, sections : BOOLEAN,
           attributes : {"user", "kernel", "vsh"}, whole : BOOLEAN] :
        (f.static => f.plain /\ f.attributes = "user") /\ (~f.static => f.sections)}
Few == {f \in Executables : f.pbp /\ f.plain /\ ~f.static /\ f.whole /\ f.attributes # "vsh"} \X {16}

\* The library k was given new numbers, two old ones the same; u was not.
Renumbering == [k |-> <<<<1, 11>>, <<2, 12>>, <<3, 12>>>>]
Exporting ==
    LET entry(l, s, v) == [libname |-> l, stubs |-> s, vars |-> v]
    IN  {<<entry("none", <<5>>, <<>>), entry("k", s, v), entry("u", <<1, 2>>, <<3>>)>> :
            s \in {<<>>, <<12>>, <<12, 11>>, <<1, 12>>}, v \in {<<>>, <<13>>}}
Importing ==
    LET import == [libname : {"k", "u", "none"},
                   nids : {<<>>} \cup {<<n>> : n \in {1, 3, 11, 13}} \cup {<<2, 1>>, <<1, 12>>}]
    IN  {<<e>> : e \in import} \cup {<<e, f>> : e \in import, f \in {g \in import : Len(g.nids) # 1}}
TakenFor == <<"u", "k">>
\* blocks of every length in every order, those of 3 as they are; and ones that
\* are shared, out of order or have gaps between them
Indexes ==
    LET ordered == {f \in [0 .. 3 -> 0 .. 9] :
                       f[0] = 0 /\ \A s \in 0 .. 2 : f[s + 1] - f[s] \in 1 .. 3}
    IN  {[start |-> f, length |-> [s \in 0 .. 2 |-> (f[s + 1] - f[s]) % 3]] : f \in ordered}
        \cup {[start |-> f, length |-> [s \in 0 .. 2 |->
                   IF f[s + 1] - f[s] \in 1 .. 3 THEN f[s + 1] - f[s] ELSE 3]] :
                f \in [0 .. 3 -> {0, 2, 6}]}

G == INSTANCE Galaxy WITH
    image <- gimage, umdfd <- gumdfd, pc <- gpc
C == INSTANCE CisoFile WITH Bytes <- SectorBytes
S == INSTANCE GameStart WITH
    pc <- spc, umdfile <- sumdfile
U == INSTANCE NoUmd WITH Threads <- Callers, pc <- npc
O == INSTANCE OldTitle WITH Fds <- Descriptors, pc <- opc, fd <- ofd, refused <- declined
H == INSTANCE StartHandlers WITH Threads <- Callers, None <- NoFile
N == INSTANCE NidResolver WITH i <- at, pc <- lpc
E == INSTANCE ExecFile WITH
    None <- NoFile, pc <- xpc, overlapped <- xoverlapped

ASSUME TitleAssumption ==
    /\ G!FdsAssumption /\ G!TryAssumption /\ G!ThreadsAssumption
    /\ C!SizesAssumption /\ C!BufferAssumption /\ C!LayoutsAssumption
    /\ S!ImagesAssumption /\ U!CallbackAssumption /\ O!FdsAssumption
    /\ H!FormatterAssumption /\ E!TitlesAssumption /\ N!NidResolverAssumption

galaxyVars == <<stick, gimage, fd, gumdfd, npfd, cso, FdMutex, gpc, ret, try, how, out,
                clash, headless, reread>>
csoVars == <<start, length, cur_index, index_buf, buf_pos, data_buf, request, data>>
titleVars == <<spc, config, vsh, sys, bootfile, sumdfile, ram2, exec, left, umd, isofs, hooked,
               given, wanted, leftover, blind, carried>>
hookVars == <<stmod_handler, previous, returned, thread, start_thread, last_module, seen, due,
              misled, overlapped, abandoned, cut>>
driveVars == <<drivestat, assigned, umdcallback, told, npc, report, met>>
oldVars == <<title, keysbin, opc, use_dracula, patched, lost, flash2, keys, setkeys, taken, ofd,
             misread, declined>>
linkVars == <<exports, imports, at, lle_handler, lpc, asked>>
execVars == <<xpc, file, check, pos, buf, xoverlapped, unread>>
allVars == <<part, vars, galaxyVars, csoVars, titleVars, oldVars, driveVars, hookVars, linkVars, execVars>>

AllInit ==
    /\ part \in Parts
    /\ Init /\ (part # "drive" => disctype = CHOOSE t \in Types : TRUE)
    /\ G!Init /\ (part # "galaxy" => stick /\ gimage = "plain")
    /\ C!Init /\ (part # "cso" => start[3] = 9)
    /\ S!Init /\ (part # "title" => config = "umd")
    /\ O!Init /\ (part # "old" => title.original /\ title.small /\ keysbin = "none")
    /\ U!Init /\ H!Init /\ E!Init
    /\ IF part = "link" THEN N!Init
       ELSE exports = <<>> /\ imports = <<>> /\ at = 0 /\ lle_handler = FALSE /\ lpc = "out"
            /\ asked = <<>>

AllNext ==
    /\ UNCHANGED part
    /\ IF part = "drive" THEN Next ELSE UNCHANGED vars
    /\ IF part = "galaxy" THEN G!Next ELSE UNCHANGED galaxyVars
    /\ IF part = "cso" THEN C!Next ELSE UNCHANGED csoVars
    /\ IF part = "title" THEN S!Next ELSE UNCHANGED titleVars
    /\ IF part = "noumd" THEN U!Next ELSE UNCHANGED driveVars
    /\ IF part = "old" THEN O!Next ELSE UNCHANGED oldVars
    /\ IF part = "hooks" THEN H!Next ELSE UNCHANGED hookVars
    /\ IF part = "link" THEN N!Next ELSE UNCHANGED linkVars
    /\ IF part = "exec" THEN E!Next ELSE UNCHANGED execVars

AllSpec == AllInit /\ [][AllNext]_allVars

AllGuarded == Guarded /\ G!Guarded /\ H!Guarded

\* Readers, the mount thread and the close of the closed module agree on the
\* descriptor, every request gets its bytes (OneDescriptor, ModuleKnows and
\* BytesWanted of Galaxy: OpenIso, ReadUmdFileRetry), and so does one to a
\* compressed image, whatever the window and the buffer hold
\* (CisoFile.BytesRight: CisoReadFile).
ImageServes ==
    /\ G!OneDescriptor /\ G!ModuleKnows /\ G!BytesWanted
    /\ C!BytesRight

\* A title runs with its image, its drivers and its memory, and nothing of them
\* stays for the next; it is told what its drive is, and an old one has its keys
\* and its icon: see ImageServed, NothingLeft and MemoryAsked of GameStart
\* (PatchInitLoadExecAndMediaSync, OnImposeLoad, CheckSfoPatched), CallbackTold
\* of NoUmd (DoNoUmdPatches), OldTitleRight of OldTitle (SetKeys, module_start of
\* popcorn).
TitleStarted == (part = "title" => S!GameStarted) /\ U!CallbackTold /\ O!OldTitleRight

\* Every handler sees every module that starts, and none that stops, and an
\* executable gets the partition and the attributes of its own file and is
\* linked to the functions it names: see HandlersCalled of StartHandlers,
\* ExecRight of ExecFile and NamesKept of NidResolver
\* (sceKernelStartThreadPatched, PartitionCheckPatched, aLinkLibEntriesPatched).
ModuleStarted ==
    /\ H!HandlersCalled
    /\ part = "exec" => E!ExecRight
    /\ part = "link" => N!NamesKept
=============================================================================
