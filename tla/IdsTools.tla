------------------------------ MODULE IdsTools -------------------------------
(***************************************************************************)
(* The pages of the unbricker that rebuild the identification storage      *)
(* (vunbricker/idstools.c), with the driver that makes the keys            *)
(* (idsregeneration/main.c).                                               *)
(*                                                                         *)
(* The driver says, for a type of board and a region, which leaves to      *)
(* create and what each of them holds.  A range of leaves is a pair; what  *)
(* a leaf holds is named by what the choice of it depends on.  The numbers *)
(* of the boards are those of that file: 0 to 2 TA-079, 3 TA-081, 4        *)
(* TA-082, 5 and 6 TA-085, 7 TA-086, and TA-088 from 8 on.                 *)
(*                                                                         *)
(* The pages act while three kinds of threads run: one that asks for the   *)
(* address of the network chip, for the new storage or for the present one *)
(* (mac_thid keeps a second one away), one that makes a new storage, and   *)
(* one that changes the region.  They share a buffer, the address and the  *)
(* region; what a thread leaves to the pages is handled later.             *)
(***************************************************************************)
EXTENDS Integers, Sequences, Functions

JAPAN   == 3
AMERICA == 4
EUROPE  == 5
Region  == {JAPAN, AMERICA, EUROPE}

TA82   == 4
TA85   == 5
TA85v2 == 6
TA86   == 7

(* idsRegenerationSetup. *)
PspType(mb) == IF mb < TA82 THEN 1 ELSE IF mb \in {TA82, TA86} THEN 2 ELSE 3
IsSlim(mb)  == PspType(mb) = 3

Certs  == <<\h100, \h11F>>
Umd    == <<\h120, \h13F>>
Hw     == <<\h04, \h06>>
Mg     == <<\h10, \h2F>>
Bad    == <<\h0F, \h0F>>
Serial == <<\h50, \h50>>
Mac    == <<\h44, \h44>>
Wlan   == <<\h45, \h45>>
Audio  == <<\h46, \h46>>
Usb    == <<\h41, \h43>>
Unk140 == <<\h140, \h140>>
Mg40   == <<\h40, \h40>>
Unk3X  == <<\h30, \h3F>>
Lock   == <<\h47, \h47>>
Fw     == <<\h51, \h51>>
Lcd    == <<\h08, \h08>>
Calib  == <<\h07, \h07>>
Unk52  == <<\h52, \h53>>
Color  == <<\h54, \h54>>

(* idsRegenerationGetIndex: the ranges that are created, each in one go;   *)
(* their order is left out.                                                *)
Index(mb, region) ==
    {Umd, Mg, Bad, Serial, <<\h45, \h46>>, Hw, Mg40, Unk140, Unk3X, Certs}
    \cup (IF PspType(mb) = 1 /\ region # JAPAN THEN {<<\h41, \h44>>} ELSE {Usb, Mac})
    \cup (IF PspType(mb) = 1 THEN {} ELSE {Lock, Fw})
    \cup (IF PspType(mb) = 1 \/ mb = TA82 THEN {} ELSE {Lcd, Calib})
    \cup (IF IsSlim(mb) THEN {Unk52, Color} ELSE {})

Leaves(ranges) == UNION {r[1]..r[2] : r \in ranges}

(* The keys that apply to a board, in the order idscreate_thread asks for  *)
(* them: a key that does not apply is answered with 0.                     *)
Applies(mb, r) ==
    CASE r \in {Lock, Fw}     -> PspType(mb) # 1
      [] r \in {Lcd, Calib}   -> PspType(mb) # 1 /\ mb # TA82
      [] r \in {Unk52, Color} -> IsSlim(mb)
      [] OTHER                -> TRUE

Keys(mb) ==
    <<Hw, Mg, Bad, Serial, Mac, Wlan, Usb, Unk140, Mg40, Unk3X>>
    \o (IF Applies(mb, Lock) THEN <<Lock, Fw>> ELSE <<>>)
    \o (IF Applies(mb, Lcd) THEN <<Lcd, Calib>> ELSE <<>>)
    \o (IF Applies(mb, Unk52) THEN <<Unk52, Color>> ELSE <<>>)

(* What a key is, for a board and a region. *)
Slim2000(mb) == IF mb \in {TA85, TA85v2} THEN mb ELSE 8

Key(r, mb, region) ==
    CASE r \in {Hw, Mg, Unk140, Mg40} -> <<r, "type", PspType(mb)>>
      [] r = Serial -> <<r, "type and region", PspType(mb), region>>
      [] r = Wlan   -> <<r, "slim and region", IsSlim(mb), region>>
      [] r = Usb    -> <<r, "slim", IsSlim(mb)>>
      [] r = Fw     -> <<r, "version", IF IsSlim(mb) THEN Slim2000(mb) ELSE mb>>
      [] r = Lcd    -> <<r, "display", IF IsSlim(mb) THEN Slim2000(mb) ELSE TA86>>
      [] r = Unk52  -> <<r, "board and region", Slim2000(mb), region>>
      [] OTHER      -> <<r, "same">>

(* generate_thread: the certificates and UMD keys, out of data taken from  *)
(* a device of the board and the region; a Japanese TA-081 shares those of *)
(* the TA-079.                                                             *)
Certificates(mb, region) ==
    <<"certificates",
      IF mb <= 2 \/ (mb = 3 /\ region = JAPAN) THEN 0 ELSE IF mb <= TA86 THEN mb ELSE 8,
      region>>

-----------------------------------------------------------------------------
(* Every leaf that is written has been created, and every leaf created is  *)
(* written but 0x46, whose key nobody asks for (main.c:152, idstools.c).   *)
EveryLeafWritten(mb, region) ==
    LET keys == {Certs, Umd} \cup Range(Keys(mb))
    IN Leaves(Index(mb, region)) = Leaves(keys) \cup {Audio[1]}

-----------------------------------------------------------------------------
(* The pages and their threads.                                            *)

CONSTANTS
    Boards,     \* what idsRegenerationSetup may be given
    Tried,    \* the regions the user tries
    Batch       \* keys that are written in one step; no other thread is about

IdsToolsAssumption == Boards \subseteq Nat /\ Tried \subseteq Region /\ Batch \in Nat \ {0}

VARIABLES
    page,       \* "menu", "region", "mac", "create", "busy", "created",
                \* "choose", "changing"
    mb,         \* the board
    region,     \* selectedregion, as the region it stands for
    macrandom, macaddress,
    thread,     \* mac_thid: "none", "get", "fix", "write", "flush"
    event,      \* OnUpdateMacAddress waits
    maker,      \* idscreate_thread or changereg_thread: where it is
    driver,     \* idsregeneration.prx: "out", "loaded", "started", or "stuck":
                \* gen_thid was set by a thread that never started
    setparam,   \* "read", or what the stack held
    head, rest, \* big_buffer: its first sector and the others
    stored,     \* ranges of leaves and what they hold
    dirty,      \* leaves are written and not flushed
    cancelmode, \* a suspend is refused
    said,       \* the last message of success
    late,       \* the mac page was left with its event waiting
    shared      \* two threads were at big_buffer
vars == <<page, mb, region, macrandom, macaddress, thread, event, maker, driver, setparam,
          head, rest, stored, dirty, cancelmode, said, late, shared>>
mac  == <<macrandom, macaddress, event, late>>
ids  == <<driver, setparam, head, rest, stored, dirty, shared>>

None   == <<"none">>
Wiped  == [r \in {} |-> None]
Cert   == Certificates(mb, region)
Ranges == {Certs, Umd} \cup Range(Keys(mb))

\* what a leaf should hold in the end
Content(r) == IF r \in {Certs, Umd} THEN Cert
              ELSE IF r = Mac THEN <<"mac", macaddress>>
              ELSE IF r = Calib THEN <<r, setparam>>
              ELSE Key(r, mb, region)

(* An older device has either certificates or UMD keys, or both. *)
Init ==
    /\ mb \in Boards /\ page = "menu" /\ region = EUROPE
    /\ macrandom = FALSE /\ macaddress = "unset" /\ event = FALSE /\ late = FALSE
    /\ thread = "none" /\ maker = None /\ driver = "out"
    /\ setparam = "read" /\ head = None /\ rest = None
    /\ \E lack \in {{}, {Certs}, {Umd}} : stored = [r \in {Certs, Umd, Mac} \ lack |-> None]
    /\ dirty = FALSE /\ cancelmode = FALSE /\ said = None /\ shared = FALSE

-----------------------------------------------------------------------------
\* at the menu the choices count no more: what is selected sets them anew
Home ==
    /\ page' = "menu" /\ region' = EUROPE
    /\ macrandom' = FALSE /\ macaddress' = "unset" /\ late' = FALSE

(* The pages of a new storage. *)
SelectCreate ==
    /\ page = "menu" /\ page' = "region" /\ region' = EUROPE
    /\ macrandom' = TRUE /\ late' = event /\ said' = None
    /\ UNCHANGED <<mb, macaddress, event, thread, maker, ids, cancelmode>>

SelectRegion ==
    /\ page = "region" /\ page' = "mac" /\ region' \in Tried
    /\ UNCHANGED <<mb, mac, thread, maker, ids, cancelmode, said>>

\* OnPreviousPage, and the way back from the regions
GoBack ==
    /\ \/ page = "create" /\ page' = "mac" /\ UNCHANGED <<region, macrandom, macaddress, late>>
       \/ /\ page = "mac" /\ thread = "none" /\ page' = "region" /\ late' = (late \/ event)
          /\ UNCHANGED <<region, macrandom, macaddress>>
       \/ page \in {"region", "choose", "created"} /\ Home
    /\ UNCHANGED <<mb, event, thread, maker, ids, cancelmode, said>>

(* Mutant: the page is left while the address is asked for. *)
NextPageUnguarded ==
    /\ page = "mac" /\ page' = "create" /\ late' = (late \/ event)
    /\ macaddress' = IF macrandom THEN "random" ELSE macaddress
    /\ UNCHANGED <<mb, region, macrandom, event, thread, maker, ids, cancelmode, said>>

(* OnNextPage and PreCreateIdsPage: without an address one is made up. *)
NextPage ==
    /\ page = "mac" /\ thread = "none"
    /\ page' = "create" /\ late' = (late \/ event)
    /\ macaddress' = IF macrandom THEN "random" ELSE macaddress
    /\ UNCHANGED <<mb, region, macrandom, event, thread, maker, ids, cancelmode, said>>

\* a thread that could not be created leaves the page as it is
BeginCreate ==
    /\ page = "create" /\ page' = "busy" /\ maker' \in {<<"load">>, None} /\ said' = None
    /\ UNCHANGED <<mb, region, mac, thread, ids, cancelmode>>

-----------------------------------------------------------------------------
(* OnGetMac and FixMac; the switch may be off. *)
StartMacThread ==
    /\ thread = "none"
    /\ \/ page = "mac" /\ thread' = "get"
       \/ page = "menu" /\ thread' = "fix"
    /\ said' = None
    /\ UNCHANGED <<page, mb, region, mac, maker, ids, cancelmode>>

(* getmac_thread: the address is there at last, or is not. *)
GetMac ==
    /\ thread = "get" /\ thread' = "none"
    /\ \/ macaddress' = "real" /\ event' = TRUE
       \/ UNCHANGED <<macaddress, event>>
    /\ UNCHANGED <<page, mb, region, macrandom, late, maker, ids, cancelmode, said>>

OnUpdateMacAddress ==
    /\ event /\ event' = FALSE /\ macrandom' = FALSE
    /\ UNCHANGED <<page, mb, region, macaddress, late, thread, maker, ids, cancelmode, said>>

AtBuffer == maker[1] \in {"certs", "umd", "verify"}

(* fixmac_thread, with an address of its own. *)
FixMac ==
    /\ thread = "fix"
    /\ \/ /\ thread' = "write" /\ head' = <<"mac", "real">> /\ shared' = (shared \/ AtBuffer)
       \/ thread' = "none" /\ UNCHANGED <<head, shared>>
    /\ UNCHANGED <<page, mb, region, mac, maker, driver, setparam, rest, stored, dirty,
                   cancelmode, said>>

\* a range that exists takes what is written, or the write fails
Put(r, what) ==
    /\ r \in DOMAIN stored /\ stored' = [stored EXCEPT ![r] = what] /\ dirty' = TRUE

FixMacWrite ==
    /\ thread = "write"
    /\ \/ Put(Mac, head) /\ thread' = "flush"
       \/ thread' = "none" /\ UNCHANGED <<stored, dirty>>
    /\ UNCHANGED <<page, mb, region, mac, maker, driver, setparam, head, rest,
                   cancelmode, said, shared>>

FixMacFlush ==
    /\ thread = "flush" /\ thread' = "none"
    /\ \/ dirty' = FALSE /\ said' = <<"fixed">>
       \/ UNCHANGED <<dirty, said>>
    /\ head' = IF maker = None THEN None ELSE head
    /\ UNCHANGED <<page, mb, region, mac, maker, driver, setparam, rest, stored, cancelmode,
                   shared>>

-----------------------------------------------------------------------------
(* Both makers. *)
Fail == maker' = <<"failed">>
making == <<page, mb, region, mac, thread, said>>

(* LoadRegeneration, the cancel mode and idsRegenerationSetup; the console *)
(* may have failed to tell its parameter, which nobody looks at.           *)
LoadRegeneration(new) ==
    /\ maker = IF new THEN <<"load">> ELSE <<"load", "region">>
    /\ \/ /\ driver' = IF driver = "out" THEN "started" ELSE driver
          /\ driver' # "loaded" /\ cancelmode' = TRUE
          /\ setparam' \in IF new THEN {"read", "unread"} ELSE {setparam}
          /\ maker' = IF new THEN <<"format">> ELSE <<"generate", "region">>
       \/ /\ driver' \in IF driver = "out" THEN {"out", "loaded"} ELSE {driver}
          /\ Fail /\ UNCHANGED <<cancelmode, setparam>>
    /\ UNCHANGED <<making, head, rest, stored, dirty, shared>>

(* idsRegenerationCreateCertificatesAndUMDKeys: a thread that was made and *)
(* not started keeps every later one away.                                 *)
Generate ==
    /\ maker[1] = "generate"
    /\ \/ /\ driver = "started" /\ head' = Cert /\ rest' = Cert /\ UNCHANGED driver
          /\ maker' = [maker EXCEPT ![1] = "certs"]
          /\ shared' = (shared \/ thread = "write")
       \/ driver' \in {driver, "stuck"} /\ Fail /\ UNCHANGED <<head, rest, shared>>
    /\ UNCHANGED <<making, setparam, stored, dirty, cancelmode>>

\* the first leaf of a range is the first sector of the buffer
Buffer == IF head = rest THEN rest ELSE <<"mixed">>

(* Each range is written, if the storage has it; a change of the region is *)
(* content with one of them.                                               *)
WriteCertificates(from, r, to) ==
    /\ maker[1] = from
    /\ \/ Put(r, Buffer) /\ maker' = [maker EXCEPT ![1] = to]
       \/ /\ maker[Len(maker)] = "region" /\ r \notin DOMAIN stored
          /\ {Certs, Umd} \cap DOMAIN stored # {}
          /\ maker' = [maker EXCEPT ![1] = to] /\ UNCHANGED <<stored, dirty>>
       \/ Fail /\ UNCHANGED <<stored, dirty>>
    /\ UNCHANGED <<making, driver, setparam, head, rest, cancelmode, shared>>

(* The flush, and VerifyCertificates, which reads them back: the leaves    *)
(* from 0x100, or from 0x120 where there are none.                         *)
Verify ==
    /\ maker[1] = "verify"
    /\ LET r == IF Certs \in DOMAIN stored THEN Certs ELSE Umd
       IN \/ /\ r \in DOMAIN stored /\ stored[r] = Cert /\ dirty' = FALSE
             /\ head' = Cert
             /\ maker' = IF maker = <<"verify", "region">> THEN <<"changed">> ELSE <<"key", 1>>
          \/ dirty' \in {dirty, FALSE} /\ Fail /\ UNCHANGED head
    /\ UNCHANGED <<making, driver, setparam, rest, stored, cancelmode, shared>>

-----------------------------------------------------------------------------
(* idscreate_thread. *)
FormatIdStorage ==
    /\ maker = <<"format">> /\ stored' = Wiped /\ dirty' = FALSE
    /\ \/ maker' = <<"index">>
       \/ Fail
    /\ UNCHANGED <<making, driver, setparam, head, rest, cancelmode, shared>>

(* The leaves of the index, and only those. *)
CreateLeaves ==
    LET created == {r \in {Certs, Umd, Mac} \cup Range(Keys(mb)) :
                        r[1]..r[2] \subseteq Leaves(Index(mb, region))}
    IN /\ maker = <<"index">>
       /\ \/ stored' = [r \in created |-> None] /\ maker' = <<"generate", "new">>
          \/ Fail /\ UNCHANGED stored
       /\ UNCHANGED <<making, driver, setparam, head, rest, dirty, cancelmode, shared>>

(* One key after the other is made and written. *)
WriteKeys ==
    \E k \in DOMAIN Keys(mb) :
        LET next == IF k + Batch > Len(Keys(mb)) THEN Len(Keys(mb)) + 1 ELSE k + Batch
            now  == {Keys(mb)[i] : i \in k..(next - 1)}
        IN /\ maker = <<"key", k>>
           /\ \/ /\ now \subseteq DOMAIN stored
                 /\ stored' = [r \in DOMAIN stored |-> IF r \in now THEN Content(r)
                                                       ELSE stored[r]]
                 /\ dirty' = TRUE
                 /\ maker' = IF next > Len(Keys(mb)) THEN <<"end">> ELSE <<"key", next>>
              \/ Fail /\ UNCHANGED <<stored, dirty>>
           /\ UNCHANGED <<making, driver, setparam, head, rest, cancelmode, shared>>

\* what the buffer holds is not asked for any more
Leftover == rest' = None /\ head' = IF thread = "write" THEN head ELSE None

(* The last flush and OnCreateIdsComplete. *)
CreateIdsComplete ==
    /\ maker = <<"end">> /\ dirty' = FALSE
    /\ page' = "created" /\ maker' = None /\ cancelmode' = FALSE /\ Leftover
    /\ UNCHANGED <<mb, region, mac, thread, driver, setparam, stored, said, shared>>

(* OnIdsCreateError, behind one more flush; OnChangeRegionExitMessage. *)
ExitMessage ==
    /\ \/ maker[1] = "failed" /\ UNCHANGED said
          /\ dirty' = (dirty /\ page # "busy")
       \/ maker = <<"changed">> /\ said' = <<"changed", Cert>> /\ UNCHANGED dirty
    /\ Home /\ maker' = None /\ cancelmode' = FALSE /\ Leftover
    /\ setparam' = "read"
    /\ UNCHANGED <<mb, event, thread, driver, stored, shared>>

EndFails ==
    /\ maker = <<"end">> /\ Fail
    /\ UNCHANGED <<making, ids, cancelmode>>

-----------------------------------------------------------------------------
(* The pages of a change of region: nothing keeps them from a thread that  *)
(* still writes the address.                                               *)
SelectChange ==
    /\ page = "menu" /\ page' = "choose" /\ said' = None
    /\ UNCHANGED <<mb, region, mac, thread, maker, ids, cancelmode>>

ChangeRegion ==
    /\ page = "choose" /\ region' \in Tried
    /\ page' = "changing" /\ maker' \in {<<"load", "region">>, None}
    /\ shared' = (shared /\ thread # "none") /\ said' = None
    /\ UNCHANGED <<mb, mac, thread, driver, setparam, head, rest, stored, dirty,
                   cancelmode>>

Next ==
    \/ SelectCreate \/ SelectRegion \/ GoBack \/ NextPage \/ BeginCreate
    \/ StartMacThread \/ GetMac \/ OnUpdateMacAddress \/ FixMac \/ FixMacWrite \/ FixMacFlush
    \/ \E new \in BOOLEAN : LoadRegeneration(new)
    \/ Generate \/ WriteCertificates("certs", Certs, "umd")
    \/ WriteCertificates("umd", Umd, "verify") \/ Verify
    \/ FormatIdStorage \/ CreateLeaves \/ WriteKeys \/ CreateIdsComplete \/ EndFails
    \/ ExitMessage \/ SelectChange \/ ChangeRegion

Spec == Init /\ [][Next]_vars

-----------------------------------------------------------------------------
(* A storage that is shown as created holds every leaf of the board, each  *)
(* with what belongs into it for the board, the region and the address     *)
(* shown, and is flushed, whatever failed before (idscreate_thread).       *)
Created ==
    page = "created" =>
        /\ ~dirty /\ DOMAIN stored = Ranges
        /\ \A r \in Ranges : stored[r] = Content(r)
        /\ \A b \in 0..10, g \in Region : EveryLeafWritten(b, g)

(* The address of a new storage is what the page says of it: the one asked *)
(* for is the real one, the one made up is called random.  Not when the    *)
(* page was left before it heard of the answer.                            *)
AddressShown ==
    page \in {"create", "busy", "created"} /\ ~late =>
        /\ ~event /\ (macrandom <=> macaddress = "random")
        /\ ~macrandom => macaddress = "real"

(* What the messages say: the present storage has the real address, or the *)
(* certificates of the region, wherever it had any.  Not when the threads  *)
(* met at the buffer.                                                      *)
MessagesTrue ==
    /\ said = <<"fixed">> /\ ~shared /\ page = "menu" => stored[Mac] = <<"mac", "real">>
    /\ said[1] = "changed" /\ ~shared =>
          \A r \in {Certs, Umd} \cap DOMAIN stored : stored[r] = said[2]

\* the generation of a board, by the numbers of dcGetHardwareInfo (dcman.h)
Generation(n) == IF n < 10 THEN 1 ELSE IF n \in {10, 11} THEN 2 ELSE 3

(* What idsregeneration says of the boards it takes keys for (the enum of  *)
(* main.c and the comments of its tables), of those dcman names: the keys  *)
(* of a new storage are those of the board.                                *)
KeysOfBoard == page = "created" => PspType(mb) = Generation(mb)

(* No suspend while a storage is made, none refused afterwards. *)
SuspendRefused ==
    /\ maker # None /\ maker[1] \notin {"load", "failed"} => cancelmode
    /\ page \notin {"busy", "changing"} => ~cancelmode
=============================================================================
