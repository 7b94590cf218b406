----------------------------- MODULE MCIsoListing -----------------------------
(***************************************************************************)
(* Instances of the modules of the menu's images for TLC.  One part runs   *)
(* in a behaviour:                                                         *)
(*                                                                         *)
(*   names  listings beside open files, deleted images and mounted video   *)
(*          images, with more images than slots and one cell; the other    *)
(*          constants of the module are those of this part (IsoListing)    *)
(*   cache  three listings in a row of three images, which are replaced    *)
(*          between them; image d is not there (IsoListing)                *)
(*   read   two descriptors read, seek, are deleted and reset (VirtualPbp) *)
(*   list   virtual directories are listed and deleted (VirtualPbp)        *)
(***************************************************************************)
EXTENDS IsoListing

CONSTANTS           \* of the parts read and list; see VirtualPbp
    Images, Files, Unreadable, Unnamed, Dates, Slots, Header, Sfo, Lengths, Seeks,
    Descriptors, Deletable

VARIABLES
    part,
    vslots, vstates, vsfo, vhandles, vanswer    \* of the parts read and list

\* images of one size; a directory lies between them
MCIsos  == {"a", "b", "c", "d"}
MCSizes == [i \in MCIsos |-> <<1, 0, 0, 0, 0>>]
MCOrder == <<"a", "dir", "b", "c", "d">>

\* two images whose files have sizes 0 to 2, the second without a disc id
VIsos == {"plain", "anonymous", "broken"}
VSizes == [i \in VIsos |-> IF i = "plain" THEN <<2, 0, 1, 0, 1>> ELSE <<1, 0, 0, 0, 1>>]

N == INSTANCE IsoListing WITH CacheSize <- 1
C == INSTANCE IsoListing WITH
    Isos <- MCIsos \ {"d"}, Order <- <<"a", "dir", "b", "c">>, Dotted <- {}, Versions <- {1, 2},
    MaxHandles <- 0, MaxCloses <- 3, Mounting <- FALSE
V == INSTANCE VirtualPbp WITH
    Isos <- Images, Sizes <- Files, Broken <- Unreadable, Anonymous <- Unnamed,
    Versions <- Dates, MaxFiles <- Slots, HeaderLength <- Header, SfoLength <- Sfo,
    ReadSizes <- Lengths, Positions <- Seeks, MaxHandles <- Descriptors,
    Kinds <- {"file", "dir"}, Removable <- Deletable,
    slots <- vslots, states <- vstates, sfo <- vsfo, handles <- vhandles, answer <- vanswer

ASSUME VirtualAssumption == V!VirtualPbpAssumption

virtualVars == <<vslots, vstates, vsfo, vhandles, vanswer>>

AllInit ==
    /\ part \in {"names", "cache", "read", "list"}
    /\ IF part = "names" THEN N!ListInit ELSE ListInit
    /\ part = "cache" => stick["d"] = 0
    /\ part \in {"read", "list"} => \A i \in Isos : stick[i] = 1
    /\ V!Init

AllNext ==
    /\ UNCHANGED part
    /\ \/ part = "names" /\ N!ListNext /\ UNCHANGED virtualVars
       \/ part = "cache" /\ C!ListNext /\ UNCHANGED virtualVars
       \/ /\ part \in {"read", "list"} /\ V!Next /\ UNCHANGED vars
          /\ \A h \in vhandles' : h.kind = IF part = "read" THEN "file" ELSE "dir"
          /\ part = "read" => \A i \in V!Indices : ~vstates'[i].psdirdeleted

AllSpec == AllInit /\ [][AllNext]_<<part, vars, virtualVars>>

\* An open file of the assembled kind gives the bytes of its image, and a
\* virtual directory lists its two names each time: see BytesRight and
\* ListsBoth of VirtualPbp (virtualpbp_read, virtualpbp_dread).
VirtualFilesRight == part \in {"read", "list"} => V!BytesRight /\ V!ListsBoth
=============================================================================
