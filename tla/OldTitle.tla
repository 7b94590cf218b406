------------------------------- MODULE OldTitle -------------------------------
(***************************************************************************)
(* A PlayStation title in a PBP file: popcorn (popcorn/main.c) looks into  *)
(* the file and patches the emulator for one that was converted, and       *)
(* idcanager (idcanager/main.c) gives the emulator its keys.  Those of an  *)
(* original title come out of its licence and are kept in KEYS.BIN beside  *)
(* it; a converted one has an ELF where an original has none, and needs no *)
(* real keys.                                                              *)
(*                                                                         *)
(* Any call to the stick may fail, and the power may go.  A descriptor     *)
(* that nobody closes is gone until then.  Two marks end promises: a read  *)
(* whose failure was not noticed, keys that the emulator did not take.     *)
(***************************************************************************)
EXTENDS Integers

CONSTANTS Fds       \* descriptors of the stick

FdsAssumption == Fds \in Nat \ {0}

VARIABLES
    title,      \* is it original, and is its icon one of 80x80
    keysbin,    \* KEYS.BIN: "none", "cut" or whose keys it has
    pc,         \* "off", "idle" or where SetKeys is
    use_dracula, patched,
    lost,       \* descriptors that were left open
    flash2,     \* is the volume assigned
    keys, setkeys, taken,   \* the answer; is popsman_setkeys registered; what it was given
    fd,         \* what the last OpenEncrypted gave: <<>>, or how the file is read
    misread, refused

vars == <<title, keysbin, pc, use_dracula, patched, lost, flash2, keys, setkeys, taken, fd,
          misread, refused>>

None == "none"

\* the keys a title must get, and the file they may come from
Keys == IF title.original THEN "own" ELSE "dummy"

Init ==
    /\ title \in [original : BOOLEAN, small : BOOLEAN]
    /\ keysbin \in {None, "cut", Keys}
    /\ pc = "off" /\ use_dracula = TRUE /\ patched = FALSE /\ lost = 0 /\ flash2 = FALSE
    /\ keys = None /\ setkeys = FALSE /\ taken = None /\ fd = <<>>
    /\ misread = FALSE /\ refused = FALSE

DescriptorLeft == lost < Fds

\* An open may fail, and does when no descriptor is left.
Opens == {ok \in BOOLEAN : ok => DescriptorLeft}
-----------------------------------------------------------------------------
\* module_start of popcorn: five reads, none of them looked at.  Each that
\* fails leaves what the one before it read: a header that is no PGD, a title
\* that is not of several discs, data that is no icon; with the first one the
\* others are made anywhere.  A file that cannot be opened leaves the emulator
\* as it is.
ModuleStart ==
    /\ pc = "off" /\ pc' = "idle"
    /\ \E opened \in Opens, read \in [{"offsets", "kind", "signature", "icon"} -> BOOLEAN] :
         LET anywhere == opened /\ ~read["offsets"]
             here     == {read["signature"] /\ title.original} \cup
                         (IF read["kind"] THEN {} ELSE {FALSE})
         IN  \E original \in IF anywhere THEN BOOLEAN ELSE here,
                small \in IF anywhere THEN BOOLEAN ELSE {read["icon"] /\ title.small} :
                /\ patched' = (opened /\ ~original)
                /\ use_dracula' = ~(opened /\ ~original /\ small)
                /\ misread' = anywhere
    /\ UNCHANGED <<title, keysbin, lost, flash2, keys, setkeys, taken, fd, refused>>

\* The size that the emulator is told of the icon (OnModuleStart), and the one
\* it gets when it asks for the icon: the title's, or that of popcorn.
SizeTold  == IF use_dracula THEN "popcorn" ELSE "own"
IconGiven == IF use_dracula THEN "popcorn" ELSE "own"

-----------------------------------------------------------------------------
(* SetKeys of idcanager, which the firmware calls for a title.             *)

\* The manager of the emulator asks to be given the keys.
RegisterCallback ==
    /\ pc = "idle" /\ keys = None /\ setkeys' = TRUE
    /\ UNCHANGED <<title, keysbin, pc, use_dracula, patched, lost, flash2, keys, taken, fd,
                   misread, refused>>

\* popsman_setkeys, if there is one, may refuse the keys.
Register(k, error) ==
    \/ ~setkeys /\ keys' = k /\ UNCHANGED <<taken, refused>>
    \/ setkeys /\ taken' = k /\ keys' = k /\ UNCHANGED refused
    \/ setkeys /\ keys' = error /\ UNCHANGED taken /\ refused' = (refused \/ error = k)

Fails == pc' = "idle" /\ keys' = None

\* A KEYS.BIN that is too short, or cannot be read, is not one.
SetKeys ==
    /\ pc = "idle"
    /\ \/ /\ keysbin \notin {None, "cut"} /\ DescriptorLeft
          /\ Register(keysbin, None) /\ pc' = "idle"
       \/ pc' = "elf" /\ keys' = None /\ UNCHANGED <<taken, refused>>
    /\ fd' = <<>>
    /\ UNCHANGED <<title, keysbin, use_dracula, patched, lost, flash2, setkeys, misread>>

\* An ELF behind the header needs no keys.  The reads are not looked at: when
\* the last one fails the header of the PBP stays, which is none, and when the
\* first one does the others are made anywhere.
LookForElf ==
    /\ pc = "elf"
    /\ \E opened \in Opens, header, data \in BOOLEAN :
         LET anywhere == opened /\ ~header
         IN  /\ misread' = (misread \/ anywhere)
             /\ \E elf \in IF anywhere THEN BOOLEAN ELSE {opened /\ data /\ ~title.original} :
                  IF elf THEN Register("dummy", None) /\ pc' = "idle"
                  ELSE pc' = "license" /\ UNCHANGED <<keys, taken, refused>>
    /\ UNCHANGED <<title, keysbin, use_dracula, patched, lost, flash2, setkeys, fd>>

\* GetOriginalKeys: memory; GetLicense, which does not close the file when it
\* gives up; ReadLicense, which wants the licence of this title.
GetLicense ==
    /\ pc = "license"
    /\ \/ Fails /\ UNCHANGED lost
       \/ Fails /\ DescriptorLeft /\ lost' = lost + 1
       \/ title.original /\ DescriptorLeft /\ pc' = "act" /\ UNCHANGED <<keys, lost>>
    /\ UNCHANGED <<title, keysbin, use_dracula, patched, flash2, setkeys, taken, fd, misread,
                   refused>>

\* ReadFlash2Act: the volume is assigned for one file, and given back however
\* the reading of it ends.
AssignFlash2 ==
    /\ pc = "act"
    /\ \/ Fails /\ UNCHANGED flash2
       \/ ~flash2 /\ flash2' = TRUE /\ pc' = "read" /\ UNCHANGED keys
    /\ UNCHANGED <<title, keysbin, use_dracula, patched, lost, setkeys, taken, fd, misread,
                   refused>>
ReadFlash2Act ==
    /\ pc = "read" /\ flash2' = FALSE
    /\ (Fails \/ (pc' = "version" /\ UNCHANGED keys))
    /\ UNCHANGED <<title, keysbin, use_dracula, patched, lost, setkeys, taken, fd, misread,
                   refused>>

\* sceNpDrmGetVersionKey; then KEYS.BIN is emptied, if it can be opened
VersionKey ==
    /\ pc = "version"
    /\ \/ Fails /\ UNCHANGED keysbin
       \/ pc' = "set" /\ UNCHANGED <<keysbin, keys>>
       \/ DescriptorLeft /\ pc' = "write" /\ keysbin' = "cut" /\ UNCHANGED keys
    /\ UNCHANGED <<title, use_dracula, patched, lost, flash2, setkeys, taken, fd, misread, refused>>
\* and written, whole or not; nobody looks at the result.
WriteKeys ==
    /\ pc = "write" /\ pc' = "set"
    /\ keysbin' \in {"cut", "own"}
    /\ UNCHANGED <<title, use_dracula, patched, lost, flash2, keys, setkeys, taken, fd, misread,
                   refused>>
\* What popsman_setkeys says of these keys is not looked at either.
Registered ==
    /\ pc = "set" /\ pc' = "idle" /\ Register("own", "own")
    /\ UNCHANGED <<title, keysbin, use_dracula, patched, lost, flash2, setkeys, fd, misread>>

-----------------------------------------------------------------------------
\* OpenEncryptedPatched: what the patched emulator opens, a part of the file
\* that is enciphered or not.  The signature tells; without it chance does.
\* An enciphered part is opened again, and closed when its offset or its keys
\* are refused.
OpenEncrypted(enciphered) ==
    /\ pc = "idle" /\ patched /\ keys # None
    /\ \E read \in BOOLEAN, opened \in Opens :
         \E pgd \in IF read THEN {enciphered} ELSE BOOLEAN :
            /\ misread' = (misread \/ (opened /\ ~read))
            /\ fd' \in IF ~opened THEN {<<>>}
                       ELSE IF pgd THEN {<<>>, <<"deciphers", enciphered>>}
                       ELSE {<<"plain", enciphered>>}
    /\ UNCHANGED <<title, keysbin, pc, use_dracula, patched, lost, flash2, keys, setkeys, taken,
                   refused>>

PowerOff ==
    /\ pc # "off"
    /\ pc' = "off" /\ use_dracula' = TRUE /\ patched' = FALSE /\ lost' = 0 /\ flash2' = FALSE
    /\ keys' = None /\ setkeys' = FALSE /\ taken' = None /\ fd' = <<>>
    /\ misread' = FALSE /\ refused' = FALSE /\ UNCHANGED <<title, keysbin>>

Next ==
    \/ ModuleStart \/ RegisterCallback \/ SetKeys \/ LookForElf \/ GetLicense
    \/ AssignFlash2 \/ ReadFlash2Act \/ VersionKey \/ WriteKeys \/ Registered \/ PowerOff
    \/ \E enciphered \in BOOLEAN : OpenEncrypted(enciphered)

Spec == Init /\ [][Next]_vars

-----------------------------------------------------------------------------
\* The keys that SetKeys answers, and gives to the emulator, are those of the
\* title, whatever failed or was cut off by the power before, and whatever was
\* left of KEYS.BIN (SetKeys, GetOriginalKeys).
KeysRight ==
    keys # None /\ ~misread /\ pc = "idle" =>
        /\ keys = Keys
        /\ setkeys /\ ~refused => taken = keys

\* flash2: is not left assigned: the next SetKeys could not assign it again
\* (ReadFlash2Act).
VolumeBack == flash2 => pc = "read"

\* "Not 80x80 icons crashes pops" (popcorn/main.c): a patched emulator gets the
\* icon of popcorn, and its size, unless that of the title is 80x80, whichever
\* reads of module_start fail behind the first.
IconFits ==
    patched /\ ~misread => SizeTold = IconGiven /\ (IconGiven = "own" => title.small)

\* What the patched emulator opens is deciphered if it is enciphered
\* (OpenEncryptedPatched).
PartsOpened == fd # <<>> /\ ~misread => (fd[1] = "deciphers" <=> fd[2])

OldTitleRight == KeysRight /\ VolumeBack /\ IconFits /\ PartsOpened
===============================================================================
