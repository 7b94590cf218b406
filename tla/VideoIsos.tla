------------------------------ MODULE VideoIsos ------------------------------
(***************************************************************************)
(* The list of video images that the menu of the XMB shows, and the cache  *)
(* file that spares it the reading of each one (satelite/videoiso.c).  The *)
(* module of the menu is loaded anew for each menu, so every listing       *)
(* begins with fresh variables; the stick and the cache file are what is   *)
(* left of the listing before.                                             *)
(*                                                                         *)
(* An entry of the cache names a file, the type found in it and the time   *)
(* of its last change.  The cache is kept without gaps, as a sequence.     *)
(***************************************************************************)
EXTENDS Integers, Sequences, FiniteSets

CONSTANTS
    Names,          \* of the files that ms0:/ISO/VIDEO may have
    Types,          \* "video", "audio", "both", and "none": not an image
    CacheSize,      \* VideoIso cache[32]
    MaxTime         \* bound: the files are changed so often

VideoIsosAssumption ==
    /\ IsFiniteSet(Names) /\ "none" \in Types
    /\ CacheSize \in Nat /\ MaxTime \in Nat

VARIABLES
    stick,          \* the files: type and time of each, or NoFile
    clock,          \* the time of the last change
    stored,         \* isocachev.bin
    pc,             \* "idle", "list" or "show"
    left,           \* the names the directory has still to give
    cache, referenced, cachechanged,
    misread,        \* history: a file could not be read
    stale           \* history: how many entries of the cache file no file has

vars == <<stick, clock, stored, pc, left, cache, referenced, cachechanged, misread, stale>>

NoFile == [type |-> "none", mtime |-> 0]
Files  == {n \in Names : stick[n] # NoFile}

Entry(n, type, mtime) == [filename |-> n, disctype |-> type, mtime |-> mtime]

\* an entry that a file of the stick will find
Current(e) == stick[e.filename] # NoFile /\ stick[e.filename].mtime = e.mtime

Init ==
    /\ stick = [n \in Names |-> NoFile] /\ clock = 0
    /\ stored = <<>> /\ pc = "idle" /\ left = {}
    /\ cache = <<>> /\ referenced = {} /\ cachechanged = FALSE /\ misread = FALSE /\ stale = 0

-----------------------------------------------------------------------------
\* a file is written, replaced or removed between two menus; a change has a
\* time of its own
Change ==
    /\ pc = "idle" /\ clock < MaxTime /\ clock' = clock + 1
    /\ \E n \in Names, t \in Types :
          \/ stick' = [stick EXCEPT ![n] = [type |-> t, mtime |-> clock']]
          \/ stick[n] # NoFile /\ stick' = [stick EXCEPT ![n] = NoFile]
    /\ UNCHANGED <<stored, pc, left, cache, referenced, cachechanged, misread, stale>>

\* GetVideoIsos: the directory is opened, and the cache file read if it can be
ReadCache ==
    /\ pc = "idle" /\ pc' = "list" /\ left' = Files
    /\ cache' \in {stored, <<>>}
    /\ referenced' = {} /\ cachechanged' = FALSE /\ misread' = FALSE
    /\ stale' = Cardinality({i \in 1 .. Len(cache') : ~Current(cache'[i])})
    /\ UNCHANGED <<stick, clock, stored>>

\* mutant: the time of the change does not count
IsCachedName(n, mtime) ==
    LET at == {i \in 1 .. Len(cache) : cache[i].filename = n}
    IN  IF at = {} THEN 0 ELSE CHOOSE i \in at : \A j \in at : i <= j

\* the entry that has the name and the time, 0 for none
IsCached(n, mtime) ==
    LET at == {i \in 1 .. Len(cache) : cache[i].filename = n /\ cache[i].mtime = mtime}
    IN  IF at = {} THEN 0 ELSE CHOOSE i \in at : \A j \in at : i <= j

\* Cache: the first free entry is taken, if there is one
Cache(e) ==
    IF Len(cache) < CacheSize
    THEN /\ cache' = Append(cache, e) /\ referenced' = referenced \cup {Len(cache) + 1}
         /\ cachechanged' = TRUE
    ELSE UNCHANGED <<cache, referenced, cachechanged>>

\* what the path table of the file says it is
CheckIso(n) == stick[n].type

\* a name of the directory: CheckIso reads the file if the cache has not got it
Dread ==
    /\ pc = "list"
    /\ \E n \in left :
          LET f == stick[n]   i == IsCached(n, f.mtime) IN
          /\ left' = left \ {n}
          /\ IF i # 0
             THEN /\ referenced' = referenced \cup {i}
                  /\ UNCHANGED <<cache, cachechanged, misread>>
             ELSE \/ /\ IF CheckIso(n) # "none"
                        THEN Cache(Entry(n, CheckIso(n), f.mtime))
                        ELSE UNCHANGED <<cache, referenced, cachechanged>>
                     /\ UNCHANGED misread
                  \/ misread' = TRUE /\ UNCHANGED <<cache, referenced, cachechanged>>
    /\ UNCHANGED <<stick, clock, stored, pc, stale>>

\* what SaveCache keeps, moved to the left: an entry goes to the place that is
\* the number of those kept up to it
Place(i) == Cardinality({j \in referenced : j <= i})
Purged ==
    [k \in 1 .. Cardinality(referenced) |-> cache[CHOOSE i \in referenced : Place(i) = k]]

\* a file that was not written to its end: k entries and a piece without a time
Torn(c, k) == Append(SubSeq(c, 1, k), [c[k + 1] EXCEPT !.mtime = 0])

\* SaveCache: the file is written if anything changed and it can be opened; a
\* write that fails leaves part of it
SaveCache ==
    /\ pc = "list" /\ left = {} /\ pc' = "show"
    /\ cache' = Purged /\ referenced' = {}
    /\ cachechanged' = FALSE
    /\ \/ stored' = IF cachechanged \/ Purged # cache THEN Purged ELSE stored
       \/ /\ cachechanged \/ Purged # cache
          /\ \/ stored' = stored
             \/ \E k \in 0 .. Len(Purged) - 1 : stored' = Torn(Purged, k)
    /\ UNCHANGED <<stick, clock, left, misread, stale>>

\* the menu is closed, and its module unloaded
Close ==
    /\ pc = "show" /\ pc' = "idle" /\ cache' = <<>> /\ misread' = FALSE /\ stale' = 0
    /\ UNCHANGED <<stick, clock, stored, left, referenced, cachechanged>>

Next == Change \/ ReadCache \/ Dread \/ SaveCache \/ Close

Spec == Init /\ [][Next]_vars

-----------------------------------------------------------------------------
(* Properties.                                                             *)

Valid == {n \in Names : stick[n].type # "none"}
Listed == {cache[i].filename : i \in 1 .. Len(cache)}

\* What the menu shows is what the stick has: an entry for a file that is
\* there, with the type that is in it now, and no two of one file.
ShownTrue ==
    pc = "show" =>
        /\ \A i \in 1 .. Len(cache) :
              /\ cache[i].filename \in Valid
              /\ cache[i].disctype = stick[cache[i].filename].type
        /\ \A i, j \in 1 .. Len(cache) :
              cache[i].filename = cache[j].filename => i = j

\* Every image that could be read is shown, as long as the cache has room for
\* those of the directory beside the stale entries it began with: those are
\* purged only after the directory has been read.
ShownWhole ==
    pc = "show" /\ ~misread /\ Cardinality(Valid) + stale <= CacheSize => Valid \subseteq Listed

ListRight == ShownTrue /\ ShownWhole
=============================================================================
