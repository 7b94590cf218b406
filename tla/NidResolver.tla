----------------------------- MODULE NidResolver -----------------------------
(***************************************************************************)
(* The names of functions (src/modules/nidresolver/main.c and              *)
(* sctrlHENFindFunction, src/modules/systemctrl/main.c).  The firmware     *)
(* numbers the functions of some of its libraries anew; modules and        *)
(* callers still use the old numbers.  aLinkLibEntriesPatched renumbers    *)
(* what a module imports, one import after another, and then has the       *)
(* kernel link it; sctrlHENFindFunction renumbers what it is asked for and *)
(* looks it up among what a module exports.                                *)
(*                                                                         *)
(* Imports and exports are records one behind the other in memory, each of *)
(* which says its own length, so that a walk over the bytes is one over    *)
(* the records.  The address of the function n of the library l is         *)
(* <<l, n>>, and <<>> is none.                                             *)
(***************************************************************************)
EXTENDS Integers, Sequences

CONSTANTS
    Libraries,      \* the table: name -> sequence of <<old, new>>
    ExportTables,   \* what the firmware may export: sequences of entries
    ImportTables,   \* what a module may import: sequences of imports
    Wrapped         \* <<from, to>>: the library a handler takes another for

None == "none"      \* the null name

Old(l) == {Libraries[l][k][1] : k \in DOMAIN Libraries[l]}
New(l) == {Libraries[l][k][2] : k \in DOMAIN Libraries[l]}

\* No number of libraries.h is an old and a new one, or old twice.
NidResolverAssumption ==
    /\ \A l \in DOMAIN Libraries :
        /\ Libraries[l] \in Seq(Nat \X Nat)
        /\ Old(l) \cap New(l) = {}
        /\ \A j, k \in DOMAIN Libraries[l] : Libraries[l][j][1] = Libraries[l][k][1] => j = k
    /\ ImportTables \subseteq Seq([libname : STRING, nids : Seq(Nat)])
    /\ ExportTables \subseteq Seq([libname : STRING, stubs : Seq(Nat), vars : Seq(Nat)])
    /\ Wrapped \in STRING \X STRING

VARIABLES
    exports,        \* what the firmware exports: [libname, stubs, vars]
    imports,        \* what the module at hand imports: [libname, nids]
    i,              \* how many of the imports were walked
    lle_handler,    \* whether one is registered
    pc,             \* "out", "walk", or "linked"
    asked           \* history: the imports as they were loaded

vars == <<exports, imports, i, lle_handler, pc, asked>>

Init ==
    /\ exports \in ExportTables
    /\ imports = <<>> /\ i = 0 /\ lle_handler = FALSE /\ pc = "out" /\ asked = <<>>

-----------------------------------------------------------------------------
FindLib(name) == name # None /\ name \in DOMAIN Libraries

\* the first of the places a loop looks for
First(places) == CHOOSE k \in places : \A j \in places : k <= j

\* the new number of nid, or 0
FindNewNid(lib, nid) ==
    LET rows == {k \in DOMAIN Libraries[lib] : Libraries[lib][k][1] = nid}
    IN  IF rows = {} THEN 0 ELSE Libraries[lib][First(rows)][2]

Renumbered(name, nid) ==
    IF FindLib(name) /\ FindNewNid(name, nid) # 0 THEN FindNewNid(name, nid) ELSE nid

Among(nid, nids) == \E c \in DOMAIN nids : nids[c] = nid

\* sctrlHENFindFunction in a module with these exports.  Only entries with
\* functions are looked into, their variables too.
FindFunction(lib, nid) ==
    LET n == Renumbered(lib, nid)
        entries == {k \in DOMAIN exports :
                       /\ lib = None \/ exports[k].libname = lib
                       /\ exports[k].stubs # <<>>
                       /\ Among(n, exports[k].stubs) \/ Among(n, exports[k].vars)}
    IN  IF entries = {} THEN <<>> ELSE <<exports[First(entries)].libname, n>>

-----------------------------------------------------------------------------
RegisterLLEHandler ==
    /\ lle_handler' = ~lle_handler     \* or the null pointer again
    /\ UNCHANGED <<exports, imports, i, pc, asked>>

\* The kernel has loaded a module and calls aLinkLibEntriesPatched.
Load ==
    /\ pc = "out" /\ pc' = "walk" /\ i' = 0
    /\ imports' \in ImportTables /\ asked' = imports'
    /\ UNCHANGED <<exports, lle_handler>>

\* One turn of its loop: the handler may change the import; its library is
\* looked up then.
LinkImport ==
    LET k == i + 1
        name == IF lle_handler /\ imports[k].libname = Wrapped[1] THEN Wrapped[2]
                ELSE imports[k].libname
    IN  /\ pc = "walk" /\ i < Len(imports)
        /\ imports' = [imports EXCEPT ![k] =
               [libname |-> name,
                nids |-> [j \in DOMAIN imports[k].nids |-> Renumbered(name, imports[k].nids[j])]]]
        /\ i' = k
        /\ UNCHANGED <<exports, lle_handler, pc, asked>>

\* aLinkLibEntries of the kernel
LinkLibEntries ==
    /\ pc = "walk" /\ i >= Len(imports) /\ pc' = "linked"
    /\ UNCHANGED <<exports, imports, i, lle_handler, asked>>

\* and the next module is loaded some time
Forget ==
    /\ pc = "linked" /\ pc' = "out" /\ imports' = <<>> /\ asked' = <<>> /\ i' = 0
    /\ UNCHANGED <<exports, lle_handler>>

Next == RegisterLLEHandler \/ Load \/ LinkImport \/ LinkLibEntries \/ Forget

Spec == Init /\ [][Next]_vars

-----------------------------------------------------------------------------
\* what the kernel links an import to: functions are looked up by their number
Linked(name, nid) ==
    IF \E e \in DOMAIN exports : exports[e].libname = name /\ Among(nid, exports[e].stubs)
    THEN <<name, nid>> ELSE <<>>

\* An import that is linked is linked to the function sctrlHENFindFunction
\* finds under the name and number it was loaded with, and one that is found
\* there as a function is linked (aLinkLibEntriesPatched, sctrlHENFindFunction).
LinkedAsFound ==
    pc = "linked" =>
        \A k \in DOMAIN imports : \A j \in DOMAIN imports[k].nids :
            LET name  == imports[k].libname
                link  == Linked(name, imports[k].nids[j])
                found == FindFunction(name, asked[k].nids[j])
                Variable == /\ found # <<>>
                            /\ \E e \in DOMAIN exports :
                                  exports[e].libname = name /\ Among(found[2], exports[e].vars)
            IN  name # None /\ ~Variable => link = found

\* A module that uses the new numbers already, or no library of the table, is
\* left as it is.
NewKept ==
    pc = "linked" =>
        \A k \in DOMAIN imports : \A j \in DOMAIN imports[k].nids :
            LET name == imports[k].libname
            IN  (name = None \/ name \notin DOMAIN Libraries \/ asked[k].nids[j] \notin Old(name))
                => imports[k].nids[j] = asked[k].nids[j]

NamesKept == LinkedAsFound /\ NewKept
===============================================================================
