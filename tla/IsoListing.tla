----------------------------- MODULE IsoListing -----------------------------
(***************************************************************************)
(* The listing of the game directory (vshctrl/iopatches.c).  While the     *)
(* menu reads ms0:/PSP/GAME it is given, before the real entries, one      *)
(* directory MMMMMISO<i> for each image of ms0:/ISO; the number is all     *)
(* that ties the name to slot i of the virtual PBP manager.  What was      *)
(* worked out of an image is kept from one listing to the next in a cache  *)
(* file.  The menu lists from one thread, closes a listing when it likes,  *)
(* deletes images, and may meet a stick that was changed, a cache file     *)
(* that cannot be read or written as a whole, and a power cut.             *)
(***************************************************************************)
EXTENDS VirtualPbp

CONSTANTS
    Video,          \* the video image the menu mounts
    Order,          \* the order ms0:/ISO is read in: images and "dir"
    Dotted,         \* the images whose name begins with a dot
    CacheSize,      \* 32
    MaxCloses,      \* bound: listings closed
    Mounting        \* does the menu mount video images

ASSUME ListingAssumption ==
    /\ Order \in Seq(Isos \cup {"dir"}) /\ Isos \subseteq Range(Order)
    /\ \A j, k \in DOMAIN Order : Order[j] \in Isos /\ Order[j] = Order[k] => j = k
    /\ Video \notin Isos \cup {NoIso} /\ Dotted \subseteq Isos
    /\ Versions \subseteq Nat \ {0} /\ 1 \in Versions
    /\ CacheSize \in Nat /\ MaxCloses \in Nat /\ Mounting \in BOOLEAN

VARIABLES
    stick,          \* the version of each image on the stick, 0 when absent
    gamedfd,        \* is the game directory open
    isodfd,         \* the entries of ms0:/ISO that were read, or Closed
    overiso, vpbpinited, isoindex,
    cache, referenced, cachechanged,
    disk,           \* isocache.bin, by entry
    mounted,        \* videoiso_mounted
    umdfile,        \* the file of sctrlSESetUmdFile
    listed,         \* what this listing has shown of the images
    whole,          \* this listing began at the beginning of ms0:/ISO, and
                    \* no image was deleted since
    scanned,        \* the images this listing worked out
    warm,           \* a whole listing was saved and nothing has changed
    short,          \* the cache file was not read as a whole
    swapped,        \* the UMD file was changed under a mounted video image
    closes

listVars == <<stick, gamedfd, isodfd, overiso, vpbpinited, isoindex, cache,
              referenced, cachechanged, disk, mounted, umdfile, listed,
              whole, scanned, warm, short, swapped, closes>>
vars == <<pbpVars, listVars>>

Closed == -1
Cells == 1..CacheSize
NoEntry == [iso |-> NoIso, mtime |-> 0, content |-> 0]
Empty == [c \in Cells |-> NoEntry]
Raw == -1           \* an entry that keeps its name

-----------------------------------------------------------------------------
ListInit ==
    /\ Init
    /\ stick \in {s \in [Isos -> {0, 1}] : \E i \in Isos : s[i] = 1}
    /\ gamedfd = FALSE /\ isodfd = Closed
    /\ overiso = FALSE /\ vpbpinited = FALSE /\ isoindex = 0
    /\ cache = Empty /\ referenced = {} /\ cachechanged = FALSE
    /\ disk = Empty /\ mounted = FALSE /\ umdfile = NoIso
    /\ listed = <<>> /\ whole = FALSE /\ scanned = {} /\ warm = FALSE
    /\ short = FALSE /\ swapped = FALSE /\ closes = 0

(* Dopen of ms0:/PSP/GAME; the listing of ms0:/ISO of an earlier one that  *)
(* was closed part way goes on.                                            *)
DopenGame ==
    /\ ~gamedfd /\ closes < MaxCloses
    /\ gamedfd' = TRUE /\ overiso' = FALSE /\ listed' = <<>> /\ scanned' = {}
    /\ whole' = (isodfd = Closed)
    /\ UNCHANGED <<pbpVars, stick, isodfd, vpbpinited, isoindex, cache,
                   referenced, cachechanged, disk, mounted, umdfile, warm,
                   short, swapped, closes>>

(* What comes through when the cells are read or written: nothing when the *)
(* file cannot be opened, all, or the cells before some place and of that  *)
(* one perhaps a part that ends before its modification time.              *)
Torn(entry) == [entry EXCEPT !.mtime = 0, !.content = 0]
Through(cells) ==
    {[c \in Cells |-> IF c < n THEN cells[c]
                      ELSE IF c = n /\ torn THEN Torn(cells[c])
                      ELSE NoEntry] : n \in 1..(CacheSize + 1), torn \in BOOLEAN}

(* The state a Dread works on: when ms0:/ISO is not open it is opened, the *)
(* manager reset and the cache file read into cells that were cleared;     *)
(* isoindex is 0 again.                                                    *)
Entering == isodfd = Closed /\ ~overiso
Working ==
    IF Entering
    THEN {[slots |-> <<>>, cache |-> cells, referenced |-> {}, isoindex |-> 0, at |-> 0,
           short |-> cells # disk] : cells \in Through(disk)}
    ELSE {[slots |-> slots, cache |-> cache, referenced |-> referenced,
           isoindex |-> isoindex, at |-> isodfd, short |-> short]}

(* Mutant: a directory ends the listing of the images. *)
AheadBefore(w) ==
    {k \in DOMAIN Order : /\ k > w.at /\ \A j \in w.at + 1 .. k : Order[j] \in Isos
                          /\ stick[Order[k]] # 0}

(* The images that the directory has left to read; directories are passed  *)
(* over (goto NEXT).                                                       *)
Ahead(w) ==
    {k \in DOMAIN Order : k > w.at /\ Order[k] \in Isos /\ stick[Order[k]] # 0}

Reading == gamedfd /\ (Entering \/ isodfd # Closed)
ManagerState ==
    IF Entering
    THEN /\ states' = [i \in Indices |-> Fresh]
         /\ handles' = {[h EXCEPT !.lost = TRUE] : h \in handles}
    ELSE UNCHANGED <<states, handles>>

(* IsCached: a cell with the name and the modification time of the entry.  *)
Hits(w, iso) ==
    {c \in Cells : w.cache[c].iso = iso /\ w.cache[c].mtime = stick[iso]}

(* Cache: the first free cell, if there is one.                            *)
Free(w) == {c \in Cells : w.cache[c].iso = NoIso}

(* ApplyIsoNamePatch: a name that begins with a dot stays, and isoindex    *)
(* with it.                                                                *)
Named(iso) == iso \notin Dotted

(* Mutant: numbers go on from the slots of the listing before. *)
NameOfSlots(w, iso) == IF Named(iso) THEN Len(slots) ELSE Raw

NameOf(w, iso) == IF Named(iso) THEN w.isoindex ELSE Raw

(* The menu is shown the entry of slot Len(slots) under a name.            *)
Show(w, iso) ==
    /\ listed' = Append(listed, [iso |-> iso, name |-> NameOf(w, iso),
                                 mtime |-> stick[iso]])
    /\ isoindex' = w.isoindex + (IF Named(iso) THEN 1 ELSE 0)

(* Mutant: the video image is left mounted. *)
ReturnToDiscNot == UNCHANGED mounted

(* ReturnToDisc, called when a video image is mounted.                     *)
ReturnToDisc == mounted' = FALSE

Fastadd(w, c) ==
    [PbpOf(w.cache[c].iso, w.cache[c].mtime) EXCEPT !.mtime = w.cache[c].content]

Common(w) ==
    /\ vpbpinited' = (vpbpinited \/ Entering) /\ short' = w.short
    /\ UNCHANGED <<sfo, answer, stick, gamedfd, overiso, disk, whole, warm,
                   closes>>

(* Dread of an image that is cached.                                       *)
DreadCached ==
    /\ Reading
    /\ \E w \in Working :
          /\ Ahead(w) # {}
          /\ LET iso == Order[Min(Ahead(w))]
                 c == Min(Hits(w, iso))
             IN /\ Hits(w, iso) # {} /\ Len(w.slots) < MaxFiles
                /\ slots' = Append(w.slots, Fastadd(w, c))
                /\ referenced' = w.referenced \cup {c}
                /\ Show(w, iso)
          /\ cache' = w.cache /\ isodfd' = Min(Ahead(w)) /\ Common(w)
    /\ ManagerState /\ ReturnToDisc
    /\ UNCHANGED <<cachechanged, umdfile, scanned, swapped>>

(* Dread of an image that is not: virtualpbp_add makes it the UMD file and *)
(* reads it.                                                               *)
DreadAdded ==
    /\ Reading
    /\ \E w \in Working :
          /\ Ahead(w) # {}
          /\ LET iso == Order[Min(Ahead(w))]
                 c == Min(Free(w))
                 entry == [iso |-> iso, mtime |-> stick[iso],
                           content |-> stick[iso]]
             IN /\ Hits(w, iso) = {} /\ AddAccepts(w.slots, iso)
                /\ slots' = Append(w.slots, PbpOf(iso, stick[iso]))
                /\ Show(w, iso)
                /\ umdfile' = iso /\ scanned' = scanned \cup {iso}
                /\ IF Free(w) # {}
                   THEN /\ cache' = [w.cache EXCEPT ![c] = entry]
                        /\ referenced' = w.referenced \cup {c}
                        /\ cachechanged' = TRUE
                   ELSE /\ cache' = w.cache /\ referenced' = w.referenced
                        /\ UNCHANGED cachechanged
          /\ isodfd' = Min(Ahead(w)) /\ Common(w)
    /\ ManagerState /\ ReturnToDisc
    /\ UNCHANGED swapped

(* Dread of an image that cannot be added: the entry of the file itself,   *)
(* and a video image that is mounted stays mounted, over another file when *)
(* virtualpbp_add has come to open it.                                     *)
DreadRefused ==
    /\ Reading
    /\ \E w \in Working :
          /\ Ahead(w) # {}
          /\ LET iso == Order[Min(Ahead(w))]
                 opened == Hits(w, iso) = {} /\ Len(w.slots) < MaxFiles
             IN /\ IF Hits(w, iso) # {} THEN Len(w.slots) = MaxFiles
                   ELSE ~AddAccepts(w.slots, iso)
                /\ umdfile' = IF opened THEN iso ELSE umdfile
                /\ swapped' = (swapped \/ (mounted /\ opened))
                /\ referenced' =
                    w.referenced \cup (IF Hits(w, iso) = {} THEN {}
                                       ELSE {Min(Hits(w, iso))})
          /\ slots' = w.slots /\ cache' = w.cache
          /\ isoindex' = w.isoindex /\ isodfd' = Min(Ahead(w)) /\ Common(w)
    /\ ManagerState
    /\ UNCHANGED <<cachechanged, mounted, listed, scanned>>

(* Dread at the end of ms0:/ISO, which goes on with the real directory.    *)
DreadEnd ==
    /\ Reading
    /\ \E w \in Working :
          /\ Ahead(w) = {}
          /\ slots' = w.slots /\ cache' = w.cache /\ short' = w.short
          /\ referenced' = w.referenced /\ isoindex' = w.isoindex
    /\ isodfd' = Closed /\ overiso' = TRUE /\ vpbpinited' = TRUE
    /\ ManagerState
    /\ UNCHANGED <<sfo, answer, stick, gamedfd, cachechanged, disk, mounted,
                   umdfile, listed, whole, scanned, warm, swapped, closes>>

(* Dread when ms0:/ISO cannot be opened.                                   *)
DreadNoIso ==
    /\ gamedfd /\ Entering
    /\ overiso' = TRUE /\ whole' = FALSE
    /\ UNCHANGED <<pbpVars, stick, gamedfd, isodfd, vpbpinited, isoindex,
                   cache, referenced, cachechanged, disk, mounted, umdfile,
                   listed, scanned, warm, short, swapped, closes>>

-----------------------------------------------------------------------------
(* SaveCache: what this listing did not refer to is dropped; the file is   *)
(* written when something changed.                                         *)
Purged == [c \in Cells |-> IF c \in referenced THEN cache[c] ELSE NoEntry]

(* Mutant: only a purge makes the cache dirty. *)
DirtyPurged == Purged # cache

Dirty == cachechanged \/ Purged # cache

(* How a save may end: not opened, or the file emptied and written in part *)
(* or as a whole.                                                          *)
Outcomes == IF Dirty THEN Through(Purged) \cup {disk} ELSE {disk}

Finished == overiso /\ whole
Good == {iso \in Isos \ Broken : stick[iso] # 0}
Held == Good \subseteq {Purged[c].iso : c \in Cells}

(* Dclose of the game directory.                                           *)
DcloseGame ==
    /\ gamedfd
    /\ gamedfd' = FALSE /\ overiso' = FALSE
    /\ cache' = Purged /\ cachechanged' = FALSE
    /\ disk' \in Outcomes
    /\ warm' = ((Dirty => disk' = Purged) /\ Held /\ (Finished \/ (warm /\ Purged = cache)))
    /\ listed' = <<>> /\ scanned' = {} /\ closes' = closes + 1
    /\ UNCHANGED <<pbpVars, stick, isodfd, vpbpinited, isoindex, referenced,
                   mounted, umdfile, whole, short, swapped>>

(* Open of the EBOOT of a listed image, and its close (sceIoOpenPatched,   *)
(* sceIoClosePatched).  A name without a slot, or that of a deleted image, *)
(* unmounts the video image all the same.                                  *)
NotThere(i) == i > Len(slots) \/ states[i].deleted
OpenFile(i) ==
    /\ vpbpinited /\ ReturnToDisc
    /\ \/ Open(i, "file")
       \/ NotThere(i) /\ UNCHANGED pbpVars
    /\ UNCHANGED <<stick, gamedfd, isodfd, overiso, vpbpinited, isoindex,
                   cache, referenced, cachechanged, disk, umdfile, listed,
                   whole, scanned, warm, short, swapped, closes>>

(* The first thing virtualpbp_read does with a handle: SetUmdFile.         *)
ReadFile(h) ==
    /\ h.kind = "file" /\ h.slot <= Len(slots)
    /\ umdfile' = slots[h.slot].iso
    /\ swapped' = (swapped \/ mounted)
    /\ UNCHANGED <<pbpVars, stick, gamedfd, isodfd, overiso, vpbpinited,
                   isoindex, cache, referenced, cachechanged, disk, mounted,
                   listed, whole, scanned, warm, short, closes>>

CloseFile(h) ==
    /\ Close(h)
    /\ UNCHANGED listVars

(* The menu deletes a listed image (sceIoRemovePatched, virtualpbp_remove).*)
(* There is no UMD file any more, whether the stick lets the file go or    *)
(* not, and a video image stays mounted.                                   *)
RemoveImage(i) ==
    /\ vpbpinited /\ i <= Len(slots)
    /\ umdfile' = NoIso /\ swapped' = (swapped \/ mounted)
    /\ \/ UNCHANGED <<pbpVars, stick, whole, warm>>
       \/ /\ stick[slots[i].iso] # 0
          /\ stick' = [stick EXCEPT ![slots[i].iso] = 0]
          /\ whole' = FALSE /\ warm' = FALSE /\ RemoveFile(i)
    /\ UNCHANGED <<gamedfd, isodfd, overiso, vpbpinited, isoindex, cache,
                   referenced, cachechanged, disk, mounted, listed, scanned,
                   short, closes>>

(* The menu mounts a video image, over another one or not                  *)
(* (vshctrl/main.c).                                                       *)
Mount ==
    /\ Mounting /\ mounted' = TRUE /\ umdfile' = Video /\ swapped' = FALSE
    /\ UNCHANGED <<pbpVars, stick, gamedfd, isodfd, overiso, vpbpinited,
                   isoindex, cache, referenced, cachechanged, disk, listed,
                   whole, scanned, warm, short, closes>>

(* The stick is changed from outside between two listings: an image comes, *)
(* goes, or is replaced by one of another modification time.               *)
ChangeStick ==
    /\ ~gamedfd
    /\ \E iso \in Isos, v \in {0} \cup Versions :
        /\ v # stick[iso]
        /\ stick' = [stick EXCEPT ![iso] = v]
    /\ warm' = FALSE
    /\ UNCHANGED <<pbpVars, gamedfd, isodfd, overiso, vpbpinited, isoindex,
                   cache, referenced, cachechanged, disk, mounted, umdfile,
                   listed, whole, scanned, short, swapped, closes>>

(* The power goes: only the stick and the cache file stay.                 *)
PowerCut ==
    /\ vpbpinited
    /\ slots' = <<>> /\ states' = [i \in Indices |-> Fresh]
    /\ sfo' = NoIso /\ handles' = {} /\ answer' = Nothing
    /\ gamedfd' = FALSE /\ isodfd' = Closed /\ overiso' = FALSE
    /\ vpbpinited' = FALSE /\ isoindex' = 0 /\ cache' = Empty
    /\ referenced' = {} /\ cachechanged' = FALSE
    /\ mounted' = FALSE /\ umdfile' = NoIso /\ listed' = <<>>
    /\ whole' = FALSE /\ scanned' = {} /\ short' = FALSE /\ swapped' = FALSE
    /\ UNCHANGED <<stick, disk, warm, closes>>

ListNext ==
    \/ DopenGame \/ DreadCached \/ DreadAdded \/ DreadRefused \/ DreadEnd
    \/ DreadNoIso \/ DcloseGame
    \/ \E i \in Indices : OpenFile(i) \/ RemoveImage(i)
    \/ \E h \in handles : ReadFile(h) \/ CloseFile(h)
    \/ Mount \/ ChangeStick \/ PowerCut

ListSpec == ListInit /\ [][ListNext]_vars

-----------------------------------------------------------------------------
(* Types: the manager's, the cells of the cache and what is referred to.   *)
ListTypeOK ==
    /\ stick \in [Isos -> {0} \cup Versions] /\ isoindex \in 0..MaxFiles
    /\ Len(slots) <= MaxFiles /\ isodfd \in {Closed} \cup DOMAIN Order
    /\ cache \in [Cells -> [iso : Isos \cup {NoIso}, mtime : {0} \cup Versions,
                            content : {0} \cup Versions]]
    /\ DOMAIN disk = Cells /\ referenced \subseteq Cells
    /\ umdfile \in Isos \cup {NoIso, Video}

(* Whatever was skipped, refused or cached, and however earlier listings   *)
(* ended, the name an image is shown under is the number of the slot that  *)
(* holds it (iopatches.c:65-72, virtualpbpmgr.c:270-288).  An image whose  *)
(* name begins with a dot uses up a slot and no number: the names after it *)
(* are those of other images.                                              *)
Drifted == \E s \in DOMAIN slots : ~Named(slots[s].iso)
NamesRefer ==
    ~Drifted =>
        \A k \in DOMAIN listed :
            /\ listed[k].name + 1 \in DOMAIN slots
            /\ slots[listed[k].name + 1].iso = listed[k].iso

(* A listing that ran from the beginning to the end of ms0:/ISO shows each *)
(* good image once, and no other.                                          *)
ListsEvery ==
    gamedfd /\ overiso /\ whole =>
        /\ \A j, k \in DOMAIN listed : listed[j].iso = listed[k].iso => j = k
        /\ {listed[k].iso : k \in DOMAIN listed} \subseteq Good
        /\ Cardinality(Good) <= MaxFiles =>
             {listed[k].iso : k \in DOMAIN listed} = Good

(* What the manager has of an image shown is what the image holds now,     *)
(* although it may come from a cache file that is as old as it likes and   *)
(* whose writing failed half way (iopatches.c:98, 137, 143-164).           *)
SlotsTrue ==
    \A k \in DOMAIN listed : \A s \in DOMAIN slots :
        slots[s].iso = listed[k].iso => slots[s].mtime = listed[k].mtime

(* Once a whole listing has been saved, later ones that could read the     *)
(* cache file work no image out until the stick changes, over a restart    *)
(* too (iopatches.c:74-182).  Saved it is when each image found a cell; a  *)
(* listing closed part way drops what it did not come to.                  *)
CacheServes == warm /\ ~short => scanned = {}

(* The cache is true and saves the work. *)
CacheTrue == SlotsTrue /\ CacheServes

(* While a video image is mounted the UMD file is that image, unless an    *)
(* image that cannot be added was met, a file read that was open before,   *)
(* or an image deleted, each of which changes the UMD file and leaves the  *)
(* image mounted (iopatches.c:303, 371, virtualpbpmgr.c:198, 338, 633).    *)
MountKept == mounted /\ ~swapped => umdfile = Video
=============================================================================
