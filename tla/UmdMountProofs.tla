---------------------------- MODULE UmdMountProofs ----------------------------
(***************************************************************************)
(* What UmdMount promises, for any images, disc types, sector sizes and    *)
(* requests: the types, the words of the drive (OriginalsKept,             *)
(* MountedServed) and the requests of its thread (RequestsServed).  Then   *)
(* the parts of MCUmdMount that start a title: its drive (NoUmd), its keys *)
(* (OldTitle), its drivers and memory (GameStart), which together are      *)
(* TitleStarted.  Then those that start a module: the handlers that see it *)
(* (StartHandlers), the check of its executable (ExecFile) and the names   *)
(* of its imports (NidResolver), which together are ModuleStarted; and     *)
(* those that serve an image behind sceNp9660: its descriptor (Galaxy) and *)
(* its compressed sectors (CisoFile), which together are ImageServes.      *)
(***************************************************************************)
EXTENDS MCUmdMount, SequenceTheorems, WellFoundedInduction, TLAPS

\* A request of the thread of the drive
Requests == [pc : {"open", "read", "done"}, lba : Int, offs : 0 .. Bytes - 1, size : Int,
             from : Int, want : Int, data : Seq(Int), iso : Isos \cup {NoFile}]

\* What a word of the drive may be
Code(k) == {Orig} \cup IF k \in {3, 4} THEN Types ELSE {Hook}

TypeInv ==
    /\ TypeOK
    /\ word = [k \in Words |-> word[k]]
    /\ \A k \in Words : address[k] => restore[k] \in Code(k)
    /\ reader \in {Idle} \cup Requests

\* An image is served through the patches
Served == word[1] = Hook /\ word[3] \in Types /\ umdsector /\ ~discout

\* While the calls do not meet, one thread works at most; an image that is to
\* be unmounted is served, as is one between the calls
WordsInv ==
    marks \cap {"mixed", "cut"} = {} =>
        /\ ~(Working("menu") /\ Working("usb"))
        /\ (Settled /\ videoiso_mounted) \/ pc["menu"] = "unmount"
              \/ pc["usb"] \in {"unmount", "hooked"} => Served

\* Which words are patched at each place of a call: an unmount restores them
\* all, and the port is patched before an image is mounted on a drive that had
\* none, which it is not after an unmount
PlaceInv(t) ==
    /\ pc[t] \in {"unmount", "restore"} => \A k \in Words : address[k]
    /\ pc[t] \in {"restore", "returned"} => ~umdsector /\ discout
    /\ pc[t] = "returned" => \A k \in Words : ~address[k]
    /\ pc[t] \in {"out", "mount"} =>
          /\ ~umdsector /\ \A k \in {1, 2, 3, 4} : ~address[k]
          /\ address[5] <=> address[6]

GuardedInv ==
    /\ OriginalsKept
    /\ Settled /\ videoiso_mounted => \A k \in Words : address[k]
    /\ Settled /\ ~videoiso_mounted => ~umdsector /\ discout /\ \A k \in Words : ~address[k]
    /\ \A t \in Threads : PlaceInv(t)
    /\ pc["usb"] = "hooked" => \A k \in Words : address[k]
    /\ pc["menu"] = "out" => ~videoiso_mounted
    /\ pc["menu"] \in {"unmount", "restore", "returned", "mount"} => videoiso_mounted
    /\ Working("menu") => ~return_iso
    /\ pc["usb"] \in {"unmount", "restore", "returned"} => videoiso_mounted
    /\ pc["usb"] \in {"out", "mount", "hooked"} => ~videoiso_mounted
    /\ return_iso /\ videoiso_mounted => pc["usb"] \in {"unmount", "restore", "returned"}

\* What the request of the thread of the drive has read, and where it is
RequestInv ==
    reader # Idle =>
        /\ reader.size <= reader.want /\ reader.want > 0
        /\ reader.offs > 0 => reader.size = reader.want
        /\ reader.data = [n \in 1 .. reader.want - reader.size |-> reader.from + n - 1]
        /\ reader.size > 0 =>
              reader.lba * Bytes + reader.offs = reader.from + (reader.want - reader.size)
        /\ reader.pc = "done" => reader.size = 0
        /\ reader.pc = "open" => reader.size = reader.want

BufferInv == reader # Idle /\ ~overlap => umdsector

IInv == TypeInv /\ WordsInv /\ RequestInv /\ (Guarded => GuardedInv /\ BufferInv)

-----------------------------------------------------------------------------
(* Types.                                                                  *)

USE DEF hooks, image, menu, drive

LEMMA TypeInit == Init => TypeInv
  BY DEF Init, TypeInv, TypeOK, Words, Code

\* Saving words and patching them keeps their types
LEMMA PatchType ==
  ASSUME TypeInv, NEW W \in SUBSET Words, Patch(W, New)
  PROVE  /\ \A k \in Words : word'[k] \in Code(k)
         /\ word' = [k \in Words |-> word'[k]]
         /\ restore' \in [Words -> {Orig, Hook, NoFile} \cup Types]
         /\ address' \in [Words -> BOOLEAN]
         /\ \A k \in Words : address'[k] => restore'[k] \in Code(k)
  BY DEF TypeInv, TypeOK, Patch, New, Code, Words

\* A call of one of the threads, and what comes back from its delays
Handling ==
    \/ \E t \in Threads :
          MountUmdFromFile(t) \/ Mounted(t) \/ Unmount(t) \/ Restore(t) \/ Unmounted(t) \/ Waited(t)
    \/ MenuNone \/ MenuCut \/ TitleRemoved
    \/ \E disc \in BOOLEAN : UsbStart(disc) \/ UsbStop(disc)
    \/ \E iso \in Isos, type \in Types :
          MenuFirst(iso, type) \/ MenuOther(iso, type) \/ MenuSame(iso, type)

Place == {"idle", "out", "unmount", "restore", "returned", "mount", "hooked"}

LEMMA GoType ==
  ASSUME TypeInv, NEW t \in Threads, NEW place \in Place, Go(t, place)
  PROVE  /\ pc' \in [Threads -> Place] /\ pc'[t] = place
         /\ \A u \in Threads \ {t} : pc'[u] = pc[u]
  BY DEF Go, TypeInv, TypeOK, Place

LEMMA TypeMenu == ASSUME TypeInv, Handling PROVE TypeInv'
  <1>0. {5, 6} \in SUBSET Words /\ "menu" \in Threads /\ "usb" \in Threads
    BY DEF Words, Threads
  <1>a. \A t \in Threads : \A place \in Place : Go(t, place) => pc' \in [Threads -> Place]
    BY GoType
  <1>b. \A t \in Threads : Mixed(t) \subseteq {"refused", "crossed", "mixed", "cut"}
    BY DEF Mixed
  <1> USE DEF Place
  <1>1. ASSUME NEW t \in Threads, MountUmdFromFile(t) PROVE TypeInv'
    <2>1. AnyUmdWords \in SUBSET Words
      BY DEF AnyUmdWords, Words
    <2>2. umdfile' \in Isos \cup {NoFile}
      BY <1>1 DEF MountUmdFromFile, TypeInv, TypeOK
    <2> QED
      BY <1>1, <1>a, <2>1, <2>2, PatchType DEF MountUmdFromFile, TypeInv, TypeOK, Code
  <1>2. ASSUME NEW t \in Threads, Mounted(t) PROVE TypeInv'
    BY <1>2, <1>a DEF Mounted, TypeInv, TypeOK, Code
  <1>3. ASSUME NEW t \in Threads, Unmount(t) PROVE TypeInv'
    <2>1. /\ umdsector' \in BOOLEAN /\ discout' \in BOOLEAN /\ overlap' \in BOOLEAN
          /\ marks' \subseteq {"refused", "crossed", "mixed", "cut"}
          /\ pc' \in [Threads -> Place]
      BY <1>3, <1>a DEF Unmount, TypeInv, TypeOK
    <2> QED
      BY <1>3, <2>1 DEF Unmount, TypeInv, TypeOK, Code
  <1>4. ASSUME NEW t \in Threads, Restore(t) PROVE TypeInv'
    <2>1. \A k \in Words : word'[k] \in Code(k)
      BY <1>4 DEF Restore, TypeInv, TypeOK, Code
    <2> QED
      BY <1>4, <1>a, <2>1 DEF Restore, TypeInv, TypeOK, Code
  <1>5. ASSUME NEW t \in Threads, Unmounted(t) PROVE TypeInv'
    <2>1. /\ videoiso_mounted' \in BOOLEAN /\ usbdev' \in BOOLEAN
          /\ pc' \in [Threads -> Place]
      BY <1>5, <1>a DEF Unmounted, TypeInv, TypeOK
    <2> QED
      BY <1>5, <2>1 DEF Unmounted, TypeInv, TypeOK, Code
  <1>6. ASSUME NEW t \in Threads, Waited(t) PROVE TypeInv'
    BY <1>6, <1>a DEF Waited, TypeInv, TypeOK, Code
  <1>7. CASE MenuNone
    BY <1>7, <1>0, <1>a, <1>b DEF MenuNone, Begin, TypeInv, TypeOK, Code
  <1>8. CASE MenuCut
    BY <1>8, <1>0, <1>a DEF MenuCut, TypeInv, TypeOK, Code
  <1>9. CASE TitleRemoved
    BY <1>9 DEF TitleRemoved, TypeInv, TypeOK, Code
  <1>10. ASSUME NEW disc \in BOOLEAN, UsbStart(disc) PROVE TypeInv'
    <2>1. /\ return_iso' \in BOOLEAN /\ usbdev' \in BOOLEAN
          /\ marks' \subseteq {"refused", "crossed", "mixed", "cut"}
          /\ pc' \in [Threads -> Place]
      BY <1>10, <1>0, <1>a, <1>b DEF UsbStart, Begin, TypeInv, TypeOK
    <2> QED
      BY <1>10, <2>1 DEF UsbStart, Begin, TypeInv, TypeOK, Code
  <1>11. ASSUME NEW disc \in BOOLEAN, UsbStop(disc) PROVE TypeInv'
    <2>1. /\ usbdev' \in BOOLEAN /\ discout' \in BOOLEAN /\ pc' \in [Threads -> Place]
          /\ marks' \subseteq {"refused", "crossed", "mixed", "cut"}
      BY <1>11, <1>0, <1>a, <1>b DEF UsbStop, Begin, DiscOut, TypeInv, TypeOK
    <2>2. CASE DiscOut
      BY <1>11, <1>0, <2>1, <2>2, PatchType DEF UsbStop, Begin, DiscOut, TypeInv, TypeOK, Code
    <2>3. CASE UNCHANGED hooks
      BY <1>11, <2>1, <2>3 DEF UsbStop, Begin, TypeInv, TypeOK, Code
    <2> QED
      BY <1>11, <2>2, <2>3 DEF UsbStop
  <1>12. ASSUME NEW iso \in Isos, NEW type \in Types, MenuFirst(iso, type) PROVE TypeInv'
    BY <1>0, <1>12, <1>a, <1>b, PatchType DEF MenuFirst, Begin, DiscOut, TypeInv, TypeOK, Code
  <1>13. ASSUME NEW iso \in Isos, NEW type \in Types, MenuOther(iso, type) PROVE TypeInv'
    BY <1>0, <1>13, <1>a, <1>b DEF MenuOther, Begin, TypeInv, TypeOK, Code
  <1>14. ASSUME NEW iso \in Isos, NEW type \in Types, MenuSame(iso, type) PROVE TypeInv'
    BY <1>14 DEF MenuSame, TypeInv, TypeOK, Code
  <1> QED
    BY <1>1, <1>2, <1>3, <1>4, <1>5, <1>6, <1>7, <1>8, <1>9, <1>10, <1>11, <1>12, <1>13, <1>14
    DEF Handling

\* A part of the image is a sequence of bytes
LEMMA CopyType ==
  ASSUME NEW lba \in Int, NEW o \in Int, NEW k \in Int
  PROVE  Copy(lba, o, k) \in Seq(Int)
  <1>1. CASE k >= 0
    BY <1>1, SizesAssumption DEF Copy
  <1>2. CASE k < 0
    <2>1. 1 .. k = 1 .. 0
      BY <1>2
    <2>2. Copy(lba, o, k) = [n \in 1 .. 0 |-> lba * Bytes + o + n - 1]
      BY <2>1 DEF Copy
    <2> QED
      BY <2>2, SizesAssumption
  <1> QED
    BY <1>1, <1>2

\* The thread of the drive
LEMMA RequestType ==
  ASSUME NEW state \in {"open", "read", "done"}, NEW lba \in Int, NEW offs \in 0 .. Bytes - 1,
         NEW size \in Int, NEW from \in Int, NEW want \in Int, NEW bytes \in Seq(Int),
         NEW iso \in Isos \cup {NoFile}
  PROVE  [pc |-> state, lba |-> lba, offs |-> offs, size |-> size, from |-> from, want |-> want,
          data |-> bytes, iso |-> iso] \in Requests
  BY DEF Requests

LEMMA TypeReader ==
  ASSUME TypeInv, ReadStart \/ ReadOpen \/ ReadBlock \/ ReadEnd
  PROVE  TypeInv'
  <1> SUFFICES reader' \in {Idle} \cup Requests
    <2>1. CASE ReadStart
      BY <2>1 DEF TypeInv, TypeOK, Code, ReadStart
    <2>2. CASE ReadOpen
      <3>1. mounted' \in BOOLEAN /\ overlap' \in BOOLEAN
        BY <2>2 DEF TypeInv, TypeOK, ReadOpen
      <3> QED
        BY <2>2, <3>1 DEF TypeInv, TypeOK, Code, ReadOpen
    <2>3. CASE ReadBlock
      BY <2>3 DEF TypeInv, TypeOK, Code, ReadBlock
    <2>4. CASE ReadEnd
      BY <2>4 DEF TypeInv, TypeOK, Code, ReadEnd
    <2> QED
      BY <2>1, <2>2, <2>3, <2>4
  <1>1. CASE ReadStart
    <2>1. PICK lba \in 0 .. 1, offs \in 0 .. Bytes - 1, size \in 1 .. MaxSize :
             reader' = [pc |-> "open", lba |-> lba, offs |-> offs, size |-> size,
                        from |-> lba * Bytes + offs, want |-> size, data |-> <<>>, iso |-> umdfile]
      BY <1>1 DEF ReadStart
    <2>2. lba * Bytes + offs \in Int
      BY SizesAssumption
    <2> QED
      BY <2>1, <2>2 DEF Requests, TypeInv, TypeOK
  <1>2. CASE ReadOpen
    <2>1. reader \in Requests
      BY <1>2 DEF ReadOpen, TypeInv, Idle
    <2>2. CASE reader' = [reader EXCEPT !.pc = "read"]
      BY <2>1, <2>2 DEF Requests
    <2> QED
      BY <1>2, <2>2 DEF ReadOpen
  <1>3. CASE ReadBlock
    <2>1. reader \in Requests /\ reader.pc = "read"
      BY <1>3 DEF ReadBlock, TypeInv, Idle
    <2> DEFINE head == IF Bytes - reader.offs > reader.size THEN reader.size ELSE Bytes - reader.offs
               n    == reader.size \div Bytes
    <2>0. /\ reader.lba \in Int /\ reader.offs \in 0 .. Bytes - 1 /\ reader.size \in Int
          /\ reader.from \in Int /\ reader.want \in Int /\ reader.data \in Seq(Int)
          /\ reader.iso \in Isos \cup {NoFile}
      BY <2>1 DEF Requests
    <2>a. 0 \in Int /\ 0 \in 0 .. Bytes - 1 /\ "read" \in {"open", "read", "done"}
      BY SizesAssumption
    <2>2. n \in Int /\ head \in Int /\ reader.offs \in Int
      BY <2>0, SizesAssumption
    <2>3. CASE /\ reader.offs > 0
               /\ reader' = [reader EXCEPT !.data = Copy(reader.lba, reader.offs, head), !.offs = 0,
                                           !.size = @ - head, !.lba = LbaAfterHead(reader)]
      <3>1. Copy(reader.lba, reader.offs, head) \in Seq(Int)
        BY <2>0, <2>2, CopyType, Zenon
      <3>2. reader' = [pc |-> "read", lba |-> reader.lba + 1, offs |-> 0, size |-> reader.size - head,
                     from |-> reader.from, want |-> reader.want, data |-> Copy(reader.lba, reader.offs, head),
                     iso |-> reader.iso]
        BY <2>1, <2>3 DEF Requests, LbaAfterHead
      <3>3. reader.lba + 1 \in Int /\ reader.size - head \in Int
        BY <2>0, <2>2
      <3> QED
        BY <2>0, <2>a, <2>2, <3>1, <3>2, <3>3, RequestType, Zenon
    <2>4. CASE /\ n > 0
               /\ reader' = [reader EXCEPT !.data = @ \o Copy(reader.lba, 0, n * Bytes),
                                           !.size = @ - n * Bytes, !.lba = @ + n]
      <3>1. n * Bytes \in Int
        BY <2>2, SizesAssumption
      <3>2. Copy(reader.lba, 0, n * Bytes) \in Seq(Int)
        BY <2>0, <2>a, <3>1, CopyType, Zenon
      <3>3. reader.data \o Copy(reader.lba, 0, n * Bytes) \in Seq(Int)
        BY <2>0, <3>2
      <3>4. reader' = [pc |-> "read", lba |-> reader.lba + n, offs |-> reader.offs, size |-> reader.size - n * Bytes,
                     from |-> reader.from, want |-> reader.want, data |-> reader.data \o Copy(reader.lba, 0, n * Bytes),
                     iso |-> reader.iso]
        BY <2>1, <2>4 DEF Requests
      <3>5. reader.lba + n \in Int /\ reader.size - n * Bytes \in Int
        BY <2>0, <2>2, <3>1
      <3> QED
        BY <2>0, <2>a, <2>2, <3>1, <3>3, <3>4, <3>5, RequestType, Zenon
    <2>5. CASE reader' = [reader EXCEPT !.data = @ \o Copy(reader.lba, 0, reader.size), !.size = 0]
      <3>1. Copy(reader.lba, 0, reader.size) \in Seq(Int)
        BY <2>0, <2>a, CopyType, Zenon
      <3>2. reader.data \o Copy(reader.lba, 0, reader.size) \in Seq(Int)
        BY <2>0, <3>1
      <3>3. reader' = [pc |-> "read", lba |-> reader.lba, offs |-> reader.offs, size |-> 0,
                     from |-> reader.from, want |-> reader.want, data |-> reader.data \o Copy(reader.lba, 0, reader.size),
                     iso |-> reader.iso]
        BY <2>1, <2>5 DEF Requests
      <3> QED
        BY <2>0, <2>a, <3>2, <3>3, RequestType, Zenon
    <2>6. CASE reader' = [reader EXCEPT !.pc = "done"]
      BY <2>1, <2>6 DEF Requests
    <2> QED
      BY <1>3, <2>3, <2>4, <2>5, <2>6 DEF ReadBlock
  <1>4. CASE ReadEnd
    BY <1>4 DEF ReadEnd
  <1> QED
    BY <1>1, <1>2, <1>3, <1>4

LEMMA TypeStep == TypeInv /\ [Next]_vars => TypeInv'
  <1> SUFFICES ASSUME TypeInv, [Next]_vars PROVE TypeInv'
    OBVIOUS
  <1>1. CASE Next
    BY <1>1, TypeMenu, TypeReader DEF Next, Handling
  <1>2. CASE UNCHANGED vars
    BY <1>2 DEF vars, TypeInv, TypeOK, Code
  <1> QED
    BY <1>1, <1>2

-----------------------------------------------------------------------------
(* The thread of the drive reads what it was asked for.                    *)

\* Two parts of the image that follow each other are one part of it
LEMMA PartsJoin ==
  ASSUME NEW f \in Int, NEW a \in Nat, NEW b \in Nat
  PROVE  [n \in 1 .. a |-> f + n - 1] \o [n \in 1 .. b |-> (f + a) + n - 1]
            = [n \in 1 .. a + b |-> f + n - 1]
  <1> DEFINE rest  == [n \in 1 .. a |-> f + n - 1]
             right == [n \in 1 .. b |-> (f + a) + n - 1]
             both  == [n \in 1 .. a + b |-> f + n - 1]
  <1>1. rest \in Seq(Int) /\ right \in Seq(Int) /\ both \in Seq(Int)
    OBVIOUS
  <1>2. Len(rest) = a /\ Len(right) = b /\ Len(both) = a + b
    OBVIOUS
  <1>3. \A n \in 1 .. a : rest[n] = f + n - 1
    OBVIOUS
  <1>4. \A n \in 1 .. b : right[n] = f + a + n - 1
    OBVIOUS
  <1>5. \A n \in 1 .. a + b : both[n] = f + n - 1
    OBVIOUS
  <1> HIDE DEF rest, right, both
  <1>6. rest \o right \in Seq(Int) /\ Len(rest \o right) = a + b
    BY <1>1, <1>2, ConcatProperties
  <1>7. \A n \in 1 .. a + b : (rest \o right)[n] = both[n]
    BY <1>1, <1>2, <1>3, <1>4, <1>5
  <1>8. rest \o right = both
    BY <1>1, <1>2, <1>6, <1>7, SeqEqual
  <1> QED
    BY <1>8 DEF rest, right, both

\* A number of whole sectors in a size
LEMMA WholeSectors == ASSUME NEW s \in Int, s \div Bytes > 0 PROVE s > 0
  BY SizesAssumption

\* ReadBlock keeps the bytes it has read those that were asked for: the rest of
\* the first sector begins where the request does, every further part where the
\* last one ended
LEMMA RequestBlock ==
  ASSUME TypeInv, TypeInv', RequestInv, ReadBlock
  PROVE  RequestInv'
  <1>1. reader \in Requests /\ reader # Idle /\ reader.pc = "read"
    BY DEF ReadBlock, TypeInv, Idle
  <1> DEFINE head == IF Bytes - reader.offs > reader.size THEN reader.size ELSE Bytes - reader.offs
             n    == reader.size \div Bytes
             got  == reader.want - reader.size
  <1>2. /\ reader.lba \in Int /\ reader.offs \in 0 .. Bytes - 1 /\ reader.size \in Int
        /\ reader.from \in Int /\ reader.want \in Int /\ reader.data \in Seq(Int)
        /\ n \in Int /\ head \in Int /\ got \in Nat /\ reader.want > 0
    BY <1>1, SizesAssumption DEF Requests, RequestInv
  <1>3. /\ reader.data = [i \in 1 .. got |-> reader.from + i - 1]
        /\ reader.size > 0 => reader.lba * Bytes + reader.offs = reader.from + got
        /\ reader.offs > 0 => got = 0
    BY <1>1, <1>2 DEF RequestInv
  <1>4. CASE /\ reader.offs > 0
             /\ reader' = [reader EXCEPT !.data = Copy(reader.lba, reader.offs, head), !.offs = 0,
                                         !.size = @ - head, !.lba = LbaAfterHead(reader)]
    <2>1. /\ reader'.data = Copy(reader.lba, reader.offs, head) /\ reader'.offs = 0
          /\ reader'.size = reader.size - head /\ reader'.lba = reader.lba + 1
          /\ reader'.from = reader.from /\ reader'.want = reader.want /\ reader'.pc = "read"
      BY <1>1, <1>4 DEF Requests, LbaAfterHead
    <2>2. got = 0 /\ reader.size = reader.want
      BY <1>2, <1>3, <1>4
    <2>3. head \in Nat /\ head <= reader.size
      BY <1>2, <1>3, <2>2, SizesAssumption
    <2>4. reader'.want - reader'.size = head
      BY <1>2, <2>1, <2>2
    <2>5. reader.lba * Bytes + reader.offs = reader.from
      BY <1>2, <1>3, <2>2
    <2>6. reader'.data = [i \in 1 .. head |-> reader.from + i - 1]
      BY <2>1, <2>5 DEF Copy
    <2>7. reader'.size > 0 => reader'.lba * Bytes + reader'.offs = reader.from + head
      <3>1. reader'.size > 0 => head = Bytes - reader.offs
        BY <1>2, <2>1
      <3>2. (reader.lba + 1) * Bytes = reader.lba * Bytes + Bytes
        BY <1>2, SizesAssumption
      <3> QED
        BY <1>2, <2>1, <2>5, <3>1, <3>2, SizesAssumption
    <2>8. reader'.size <= reader'.want /\ reader'.want > 0
      BY <1>2, <2>1, <2>2, <2>3
    <2> HIDE DEF head
    <2> QED
      BY <2>1, <2>4, <2>6, <2>7, <2>8 DEF RequestInv
  <1>5. CASE /\ reader.offs = 0 /\ n > 0
             /\ reader' = [reader EXCEPT !.data = @ \o Copy(reader.lba, 0, n * Bytes),
                                         !.size = @ - n * Bytes, !.lba = @ + n]
    <2>1. /\ reader'.data = reader.data \o Copy(reader.lba, 0, n * Bytes) /\ reader'.offs = 0
          /\ reader'.size = reader.size - n * Bytes /\ reader'.lba = reader.lba + n
          /\ reader'.from = reader.from /\ reader'.want = reader.want /\ reader'.pc = "read"
      BY <1>1, <1>5 DEF Requests
    <2>2. n * Bytes \in Nat
      BY <1>2, <1>5, SizesAssumption
    <2>3. reader.size > 0
      BY <1>2, <1>5, WholeSectors
    <2>4. reader.lba * Bytes = reader.from + got
      BY <1>2, <1>3, <1>5, <2>3, SizesAssumption
    <2>5. Copy(reader.lba, 0, n * Bytes) = [i \in 1 .. n * Bytes |-> (reader.from + got) + i - 1]
      BY <1>2, <2>4 DEF Copy
    <2>6. reader'.data = [i \in 1 .. got + n * Bytes |-> reader.from + i - 1]
      <3>1. [i \in 1 .. got |-> reader.from + i - 1] \o [i \in 1 .. n * Bytes |-> (reader.from + got) + i - 1]
               = [i \in 1 .. got + n * Bytes |-> reader.from + i - 1]
        BY <1>2, <2>2, PartsJoin
      <3> QED
        BY <1>3, <2>1, <2>5, <3>1
    <2>7. reader'.want - reader'.size = got + n * Bytes
      BY <1>2, <2>1, <2>2
    <2>8. reader'.lba * Bytes + reader'.offs = reader'.from + (reader'.want - reader'.size)
      <3>1. (reader.lba + n) * Bytes = reader.lba * Bytes + n * Bytes
        BY <1>2, SizesAssumption
      <3> QED
        BY <1>2, <2>1, <2>2, <2>4, <2>7, <3>1
    <2>9. reader'.size <= reader'.want /\ reader'.want > 0
      BY <1>2, <2>1, <2>2
    <2>10. reader'.data = [i \in 1 .. reader'.want - reader'.size |-> reader'.from + i - 1]
      BY <2>1, <2>6, <2>7
    <2>11. ~(reader'.offs > 0) /\ reader'.pc = "read"
      BY <2>1
    <2> HIDE DEF n, got
    <2> QED
      BY <2>8, <2>9, <2>10, <2>11 DEF RequestInv
  <1>6. CASE /\ reader.offs = 0 /\ reader.size > 0
             /\ reader' = [reader EXCEPT !.data = @ \o Copy(reader.lba, 0, reader.size), !.size = 0]
    <2>1. /\ reader'.data = reader.data \o Copy(reader.lba, 0, reader.size) /\ reader'.offs = 0
          /\ reader'.size = 0 /\ reader'.want = reader.want /\ reader'.from = reader.from
          /\ reader'.pc = "read"
      BY <1>1, <1>6 DEF Requests
    <2>2. Copy(reader.lba, 0, reader.size)
             = [i \in 1 .. reader.size |-> (reader.from + got) + i - 1]
      <3>1. reader.lba * Bytes + 0 = reader.from + got
        BY <1>3, <1>6
      <3> QED
        BY <3>1 DEF Copy
    <2>3. reader'.data = [i \in 1 .. got + reader.size |-> reader.from + i - 1]
      <3>1. reader.size \in Nat
        BY <1>2, <1>6
      <3>2. [i \in 1 .. got |-> reader.from + i - 1] \o [i \in 1 .. reader.size |-> (reader.from + got) + i - 1]
               = [i \in 1 .. got + reader.size |-> reader.from + i - 1]
        BY <1>2, <3>1, PartsJoin
      <3> QED
        BY <1>3, <2>1, <2>2, <3>2
    <2>4. reader'.want - reader'.size = got + reader.size
      BY <1>2, <2>1
    <2>5. reader'.size <= reader'.want /\ reader'.want > 0 /\ ~(reader'.size > 0)
      BY <1>2, <2>1
    <2> HIDE DEF got
    <2> QED
      BY <2>1, <2>3, <2>4, <2>5 DEF RequestInv
  <1>7. CASE reader.size = 0 /\ reader' = [reader EXCEPT !.pc = "done"]
    BY <1>1, <1>2, <1>3, <1>7 DEF RequestInv, Requests
  <1> QED
    BY <1>4, <1>5, <1>6, <1>7 DEF ReadBlock

LEMMA RequestStep == TypeInv /\ TypeInv' /\ RequestInv /\ [Next]_vars => RequestInv'
  <1> SUFFICES ASSUME TypeInv, TypeInv', RequestInv, [Next]_vars PROVE RequestInv'
    OBVIOUS
  <1>1. CASE UNCHANGED reader
    BY <1>1 DEF RequestInv
  <1>2. CASE ReadStart
    <2>1. PICK lba \in 0 .. 1, offs \in 0 .. Bytes - 1, size \in 1 .. MaxSize :
             reader' = [pc |-> "open", lba |-> lba, offs |-> offs, size |-> size,
                        from |-> lba * Bytes + offs, want |-> size, data |-> <<>>, iso |-> umdfile]
      BY <1>2 DEF ReadStart
    <2>2. lba * Bytes + offs \in Int /\ size - size = 0 /\ size > 0
      BY SizesAssumption
    <2> QED
      BY <2>1, <2>2 DEF RequestInv
  <1>3. CASE ReadOpen
    <2>1. reader \in Requests /\ reader # Idle
      BY <1>3 DEF ReadOpen, TypeInv, Idle
    <2>2. CASE reader' = [reader EXCEPT !.pc = "read"]
      BY <2>1, <2>2 DEF Requests, RequestInv
    <2> QED
      BY <1>3, <2>2 DEF ReadOpen, RequestInv
  <1>4. CASE ReadBlock
    BY <1>4, RequestBlock
  <1>5. CASE ReadEnd
    BY <1>5 DEF ReadEnd, RequestInv
  <1>6. CASE UNCHANGED vars
    BY <1>6, <1>1 DEF vars
  <1> QED
    BY <1>1, <1>2, <1>3, <1>4, <1>5, <1>6
    DEF Next, MountUmdFromFile, Mounted, Unmount, Restore, Unmounted, Waited, MenuNone, MenuCut,
        TitleRemoved, UsbStart, UsbStop, MenuFirst, MenuOther, MenuSame, Begin

-----------------------------------------------------------------------------
(* The words of the drive.                                                 *)

\* Where the threads are after a step of thread t
LEMMA GoPlaces ==
  ASSUME TypeInv, NEW t \in Threads, NEW place \in Place, Go(t, place)
  PROVE  /\ t = "menu" => pc'["menu"] = place /\ pc'["usb"] = pc["usb"]
         /\ t = "usb" => pc'["usb"] = place /\ pc'["menu"] = pc["menu"]
  BY GoType DEF Threads

LEMMA MarksGrow == ASSUME [Next]_vars PROVE marks \subseteq marks'
  BY DEF Next, MountUmdFromFile, Mounted, Unmount, Restore, Unmounted, Waited, MenuNone, MenuCut,
         TitleRemoved, UsbStart, UsbStop, MenuFirst, MenuOther, MenuSame, Begin, ReadStart, ReadOpen,
         ReadBlock, ReadEnd, vars

\* A call that is not marked begins while no thread works
LEMMA Unmixed ==
  ASSUME TypeInv, NEW t \in Threads, pc[t] = "idle", Mixed(t) = {}
  PROVE  Settled
  BY DEF Mixed, Settled, Working, Threads

LEMMA WordsStep == TypeInv /\ WordsInv /\ [Next]_vars => WordsInv'
  <1> SUFFICES ASSUME TypeInv, WordsInv, [Next]_vars, marks' \cap {"mixed", "cut"} = {}
               PROVE  /\ ~(Working("menu") /\ Working("usb"))'
                      /\ ((Settled /\ videoiso_mounted) \/ pc["menu"] = "unmount"
                             \/ pc["usb"] \in {"unmount", "hooked"} => Served)'
    BY DEF WordsInv
  <1>0. /\ ~(Working("menu") /\ Working("usb"))
        /\ (Settled /\ videoiso_mounted) \/ pc["menu"] = "unmount"
              \/ pc["usb"] \in {"unmount", "hooked"} => Served
    BY MarksGrow DEF WordsInv
  <1>a. "menu" \in Threads /\ "usb" \in Threads
    BY DEF Threads
  <1> USE DEF Place, Settled, Working, Served
  <1>1. ASSUME NEW t \in Threads, MountUmdFromFile(t) PROVE WordsInv'
    <2>1. 1 \in AnyUmdWords /\ 3 \in AnyUmdWords /\ AnyUmdWords \in SUBSET Words
      BY DEF AnyUmdWords, Words
    <2>2. word'[1] = Hook /\ word'[3] = disctype
      BY <1>1, <2>1 DEF MountUmdFromFile, Patch, New, Words
    <2>3. /\ t = "menu" => pc'["menu"] = "hooked" /\ pc'["usb"] = pc["usb"]
          /\ t = "usb" => pc'["usb"] = "hooked" /\ pc'["menu"] = pc["menu"]
      BY <1>1, GoPlaces DEF MountUmdFromFile
    <2> QED
      BY <1>0, <1>1, <2>2, <2>3 DEF MountUmdFromFile, WordsInv, TypeInv, TypeOK, Threads
  <1>2. ASSUME NEW t \in Threads, Mounted(t) PROVE WordsInv'
    <2>3. /\ t = "menu" => pc'["menu"] = "idle" /\ pc'["usb"] = pc["usb"]
          /\ t = "usb" => pc'["usb"] = "idle" /\ pc'["menu"] = pc["menu"]
      BY <1>2, GoPlaces DEF Mounted
    <2> QED
      BY <1>0, <1>2, <2>3 DEF Mounted, WordsInv, TypeInv, TypeOK, Threads
  <1>3. ASSUME NEW t \in Threads, Unmount(t) PROVE WordsInv'
    <2>1. PICK place \in {"returned", "restore"} : Go(t, place)
      BY <1>3 DEF Unmount
    <2>3. /\ t = "menu" => pc'["menu"] = place /\ pc'["usb"] = pc["usb"]
          /\ t = "usb" => pc'["usb"] = place /\ pc'["menu"] = pc["menu"]
      BY <2>1, GoPlaces
    <2> QED
      BY <1>0, <1>3, <2>1, <2>3 DEF Unmount, WordsInv, TypeInv, TypeOK, Threads
  <1>4. ASSUME NEW t \in Threads, Restore(t) PROVE WordsInv'
    <2>3. /\ t = "menu" => pc'["menu"] = "returned" /\ pc'["usb"] = pc["usb"]
          /\ t = "usb" => pc'["usb"] = "returned" /\ pc'["menu"] = pc["menu"]
      BY <1>4, GoPlaces DEF Restore
    <2> QED
      BY <1>0, <1>4, <2>3 DEF Restore, WordsInv, TypeInv, TypeOK, Threads
  <1>5. ASSUME NEW t \in Threads, Unmounted(t) PROVE WordsInv'
    <2>1. PICK place \in {"mount", "idle"} :
             Go(t, place) /\ (place = "idle" => ~videoiso_mounted') /\ (t = "usb" => place = "idle")
      BY <1>5 DEF Unmounted
    <2>3. /\ t = "menu" => pc'["menu"] = place /\ pc'["usb"] = pc["usb"]
          /\ t = "usb" => pc'["usb"] = place /\ pc'["menu"] = pc["menu"]
      BY <2>1, GoPlaces
    <2> QED
      BY <1>0, <1>5, <2>1, <2>3 DEF Unmounted, WordsInv, TypeInv, TypeOK, Threads
  <1>6. ASSUME NEW t \in Threads, Waited(t) PROVE WordsInv'
    <2>3. /\ t = "menu" => pc'["menu"] = "mount" /\ pc'["usb"] = pc["usb"]
          /\ t = "usb" => pc'["usb"] = "mount" /\ pc'["menu"] = pc["menu"]
      BY <1>6, GoPlaces DEF Waited
    <2> QED
      BY <1>0, <1>6, <2>3 DEF Waited, WordsInv, TypeInv, TypeOK, Threads
  <1>7. ASSUME NEW next \in {"unmount", "out"}, Begin("menu", next), Mixed("menu") \subseteq marks',
               next = "unmount" => videoiso_mounted /\ UNCHANGED <<hooks, discout>>
        PROVE  WordsInv'
    <2>1. Mixed("menu") = {} /\ pc["menu"] = "idle"
      BY <1>7 DEF Mixed, Begin
    <2>2. Settled
      BY <1>a, <2>1, Unmixed
    <2>3. pc'["menu"] = next /\ pc'["usb"] = pc["usb"]
      BY <1>7, <1>a, GoPlaces DEF Begin
    <2> QED
      BY <1>0, <1>7, <2>2, <2>3 DEF Begin, WordsInv, TypeInv, TypeOK, Threads
  <1>8. ASSUME NEW next \in {"unmount", "out"}, Begin("usb", next), Mixed("usb") \subseteq marks',
               next = "unmount" => videoiso_mounted /\ UNCHANGED <<hooks, discout>>
        PROVE  WordsInv'
    <2>1. Mixed("usb") = {} /\ pc["usb"] = "idle"
      BY <1>8 DEF Mixed, Begin
    <2>2. Settled
      BY <1>a, <2>1, Unmixed
    <2>3. pc'["usb"] = next /\ pc'["menu"] = pc["menu"]
      BY <1>8, <1>a, GoPlaces DEF Begin
    <2> QED
      BY <1>0, <1>8, <2>2, <2>3 DEF Begin, WordsInv, TypeInv, TypeOK, Threads
  <1>9. ASSUME MenuCut PROVE WordsInv'
    <2>1. ~Working("menu") /\ Go("menu", "idle")
      BY <1>9 DEF MenuCut
    <2>2. pc'["menu"] = "idle" /\ pc'["usb"] = pc["usb"]
      BY <1>a, <2>1, GoPlaces
    <2> QED
      BY <1>0, <1>9, <2>1, <2>2 DEF MenuCut, WordsInv, TypeInv, TypeOK, Threads
  <1>10. ASSUME Begin("usb", "idle"), UNCHANGED <<hooks, discout, videoiso_mounted>> PROVE WordsInv'
    <2>1. pc'["usb"] = pc["usb"] /\ pc'["menu"] = pc["menu"]
      BY <1>10, <1>a, GoPlaces DEF Begin
    <2> QED
      BY <1>0, <1>10, <2>1 DEF Begin, WordsInv, Threads
  <1>11. ASSUME MenuNone PROVE WordsInv'
    BY <1>11, <1>7 DEF MenuNone
  <1>12. ASSUME NEW iso \in Isos, NEW type \in Types, MenuFirst(iso, type) PROVE WordsInv'
    BY <1>12, <1>7 DEF MenuFirst
  <1>13. ASSUME NEW iso \in Isos, NEW type \in Types, MenuOther(iso, type) PROVE WordsInv'
    BY <1>13, <1>7 DEF MenuOther
  <1>14. ASSUME NEW disc \in BOOLEAN, UsbStart(disc) PROVE WordsInv'
    BY <1>14, <1>8, <1>10 DEF UsbStart
  <1>15. ASSUME NEW disc \in BOOLEAN, UsbStop(disc) PROVE WordsInv'
    BY <1>15, <1>8, <1>10 DEF UsbStop
  <1>16. ASSUME UNCHANGED <<hooks, umdsector, discout, pc, videoiso_mounted>> PROVE WordsInv'
    BY <1>0, <1>16 DEF WordsInv
  <1>17. ASSUME NEW iso \in Isos, NEW type \in Types, MenuSame(iso, type) PROVE WordsInv'
    BY <1>16, <1>17 DEF MenuSame
  <1>18. ASSUME TitleRemoved \/ ReadStart \/ ReadOpen \/ ReadBlock \/ ReadEnd \/ UNCHANGED vars
         PROVE  WordsInv'
    BY <1>16, <1>18 DEF TitleRemoved, ReadStart, ReadOpen, ReadBlock, ReadEnd, vars
  <1> QED
    <2>1. WordsInv'
      BY <1>1, <1>2, <1>3, <1>4, <1>5, <1>6, <1>9, <1>11, <1>12, <1>13, <1>14, <1>15, <1>17, <1>18
      DEF Next
    <2> QED
      BY <2>1 DEF WordsInv

LEMMA GuardedBack == [Next]_vars /\ Guarded' => Guarded
  BY MarksGrow DEF Guarded

\* The port is patched before an image is mounted on words that are not
LEMMA PortPatched ==
  ASSUME \A k \in Words : ~address[k], OriginalsKept, Guarded, Patch({5, 6}, New)
  PROVE  /\ \A k \in Words : IF address'[k] THEN restore'[k] = Orig ELSE word'[k] = Orig
         /\ \A k \in {1, 2, 3, 4} : ~address'[k]
         /\ address'[5] /\ address'[6]
  <1>1. \A k \in Words : word[k] = Orig
    BY DEF OriginalsKept
  <1>2. \A k \in Words : address'[k] <=> k \in {5, 6}
    BY DEF Patch
  <1>3. \A k \in Words : IF k \in {5, 6} THEN restore'[k] = Orig ELSE word'[k] = Orig
    BY <1>1 DEF Patch
  <1> QED
    BY <1>2, <1>3 DEF Words

\* While nothing is marked
LEMMA GuardedStep ==
  TypeInv /\ WordsInv /\ GuardedInv /\ Guarded /\ Guarded' /\ [Next]_vars => GuardedInv'
  <1> SUFFICES ASSUME TypeInv, WordsInv, GuardedInv, Guarded, Guarded', [Next]_vars
               PROVE  GuardedInv'
    OBVIOUS
  <1>a. "menu" \in Threads /\ "usb" \in Threads
    BY DEF Threads
  <1>b. ~(Working("menu") /\ Working("usb"))
    BY DEF WordsInv, Guarded
  <1>c. marks = {} /\ marks' = {}
    BY DEF Guarded
  <1> USE DEF OriginalsKept, Place, PlaceInv, Threads, Settled, Working
  <1>1. ASSUME NEW t \in Threads, MountUmdFromFile(t) PROVE GuardedInv'
    <2>1. /\ t = "menu" => pc'["menu"] = "hooked" /\ pc'["usb"] = pc["usb"]
          /\ t = "usb" => pc'["usb"] = "hooked" /\ pc'["menu"] = pc["menu"]
      BY <1>1, GoPlaces DEF MountUmdFromFile
    <2>2. Patch(AnyUmdWords, New) /\ pc[t] = "mount" /\ UNCHANGED <<videoiso_mounted, return_iso>>
      BY <1>1 DEF MountUmdFromFile
    <2>3. \A k \in Words : k \in AnyUmdWords \/ address[k]
      BY <2>2 DEF AnyUmdWords, GuardedInv, Words
    <2>4. \A k \in Words : k \in AnyUmdWords => word[k] = Orig
      BY <1>c, <2>2 DEF AnyUmdWords, GuardedInv, Words, Guarded
    <2>5. \A k \in Words : address'[k] /\ restore'[k] = Orig
      BY <1>c, <2>2, <2>3, <2>4 DEF Patch, GuardedInv, Guarded
    <2> QED
      BY <1>b, <2>1, <2>2, <2>5 DEF GuardedInv, TypeInv, TypeOK
  <1>2. ASSUME NEW t \in Threads, Mounted(t) PROVE GuardedInv'
    <2>1. /\ t = "menu" => pc'["menu"] = "idle" /\ pc'["usb"] = pc["usb"]
          /\ t = "usb" => pc'["usb"] = "idle" /\ pc'["menu"] = pc["menu"]
      BY <1>2, GoPlaces DEF Mounted
    <2>2. t = "usb" => videoiso_mounted' /\ ~return_iso'
      BY <1>2 DEF Mounted
    <2>3. t = "menu" => UNCHANGED <<videoiso_mounted, return_iso>>
      BY <1>2 DEF Mounted, TypeInv, TypeOK
    <2> QED
      BY <1>b, <1>c, <1>2, <2>1, <2>2, <2>3 DEF Mounted, GuardedInv, Guarded, WordsInv
  <1>3. ASSUME NEW t \in Threads, Unmount(t) PROVE GuardedInv'
    <2>0. Go(t, "restore") /\ ~umdsector' /\ discout' /\ pc[t] = "unmount"
      BY <1>c, <1>3 DEF Unmount, TypeInv, TypeOK
    <2>1. /\ t = "menu" => pc'["menu"] = "restore" /\ pc'["usb"] = pc["usb"]
          /\ t = "usb" => pc'["usb"] = "restore" /\ pc'["menu"] = pc["menu"]
      BY <2>0, GoPlaces
    <2> QED
      BY <1>b, <1>c, <1>3, <2>0, <2>1 DEF Unmount, GuardedInv, Guarded
  <1>4. ASSUME NEW t \in Threads, Restore(t) PROVE GuardedInv'
    <2>1. /\ t = "menu" => pc'["menu"] = "returned" /\ pc'["usb"] = pc["usb"]
          /\ t = "usb" => pc'["usb"] = "returned" /\ pc'["menu"] = pc["menu"]
      BY <1>4, GoPlaces DEF Restore
    <2>2. \A k \in Words : word'[k] = Orig /\ ~address'[k]
      BY <1>c, <1>4 DEF Restore, GuardedInv, Guarded
    <2> QED
      BY <1>b, <1>4, <2>1, <2>2 DEF Restore, GuardedInv
  <1>5. ASSUME NEW t \in Threads, Unmounted(t) PROVE GuardedInv'
    <2>0. PICK place \in {"mount", "idle"} :
             /\ Go(t, place) /\ (t = "usb" => place = "idle")
             /\ IF place = "idle" THEN ~videoiso_mounted' ELSE UNCHANGED videoiso_mounted
      BY <1>5 DEF Unmounted
    <2>1. /\ t = "menu" => pc'["menu"] = place /\ pc'["usb"] = pc["usb"]
          /\ t = "usb" => pc'["usb"] = place /\ pc'["menu"] = pc["menu"]
      BY <2>0, GoPlaces
    <2> QED
      BY <1>b, <1>c, <1>5, <2>0, <2>1 DEF Unmounted, GuardedInv, Guarded, Words
  <1>6. ASSUME NEW t \in Threads, Waited(t) PROVE GuardedInv'
    <2>1. /\ t = "menu" => pc'["menu"] = "mount" /\ pc'["usb"] = pc["usb"]
          /\ t = "usb" => pc'["usb"] = "mount" /\ pc'["menu"] = pc["menu"]
      BY <1>6, GoPlaces DEF Waited
    <2>2. t = "menu" => videoiso_mounted'
      BY <1>6 DEF Waited
    <2>3. t = "usb" => UNCHANGED videoiso_mounted
      BY <1>6 DEF Waited, TypeInv, TypeOK
    <2> QED
      BY <1>b, <1>c, <1>6, <2>1, <2>2, <2>3 DEF Waited, GuardedInv, Guarded
  <1>7. ASSUME NEW t \in Threads, Begin(t, "unmount"), Mixed(t) \subseteq marks', videoiso_mounted,
               ~return_iso, t = "menu" => UNCHANGED return_iso,
               UNCHANGED <<hooks, discout, videoiso_mounted>>
        PROVE  GuardedInv'
    <2>1. Settled
      BY <1>c, <1>7, Unmixed DEF Begin
    <2>2. /\ t = "menu" => pc'["menu"] = "unmount" /\ pc'["usb"] = pc["usb"]
          /\ t = "usb" => pc'["usb"] = "unmount" /\ pc'["menu"] = pc["menu"]
      BY <1>7, GoPlaces DEF Begin
    <2> QED
      BY <1>c, <1>7, <2>1, <2>2 DEF Begin, GuardedInv, Guarded
  <1>8. ASSUME NEW t \in Threads, Begin(t, "out"), DiscOut, Mixed(t) \subseteq marks',
               ~videoiso_mounted, t = "menu" => ~return_iso,
               UNCHANGED <<videoiso_mounted, return_iso>>
        PROVE  GuardedInv'
    <2>1. Settled
      BY <1>c, <1>8, Unmixed DEF Begin
    <2>2. /\ t = "menu" => pc'["menu"] = "out" /\ pc'["usb"] = pc["usb"]
          /\ t = "usb" => pc'["usb"] = "out" /\ pc'["menu"] = pc["menu"]
      BY <1>8, GoPlaces DEF Begin
    <2>3. \A k \in Words : ~address[k]
      BY <1>8, <2>1 DEF GuardedInv
    <2>4. /\ \A k \in Words : IF address'[k] THEN restore'[k] = Orig ELSE word'[k] = Orig
          /\ \A k \in {1, 2, 3, 4} : ~address'[k]
          /\ address'[5] /\ address'[6]
      BY <1>8, <2>3, PortPatched DEF DiscOut, GuardedInv
    <2> QED
      BY <1>8, <2>1, <2>2, <2>4 DEF Begin, DiscOut, GuardedInv
  <1>9. ASSUME MenuCut PROVE GuardedInv'
    <2>1. ~Working("menu") /\ Go("menu", "idle") /\ UNCHANGED <<videoiso_mounted, return_iso>>
      BY <1>c, <1>9 DEF MenuCut
    <2>2. pc'["menu"] = "idle" /\ pc'["usb"] = pc["usb"]
      BY <1>a, <2>1, GoPlaces
    <2> QED
      BY <1>c, <1>9, <2>1, <2>2 DEF MenuCut, GuardedInv, Guarded
  <1>10. ASSUME Begin("usb", "idle"), UNCHANGED <<hooks, discout, videoiso_mounted, return_iso>>
         PROVE  GuardedInv'
    <2>1. pc'["usb"] = pc["usb"] /\ pc'["menu"] = pc["menu"]
      BY <1>10, <1>a, GoPlaces DEF Begin
    <2> QED
      BY <1>c, <1>10, <2>1 DEF Begin, GuardedInv, Guarded
  <1>11. ASSUME MenuNone PROVE GuardedInv'
    <2>1. ~return_iso
      <3>1. Settled
        BY <1>a, <1>c, <1>11, Unmixed DEF MenuNone, Begin
      <3> QED
        BY <1>11, <3>1 DEF MenuNone, GuardedInv
    <2> QED
      BY <1>7, <1>11, <2>1 DEF MenuNone
  <1>12. ASSUME NEW iso \in Isos, NEW type \in Types, MenuFirst(iso, type) PROVE GuardedInv'
    <2>1. ~return_iso
      BY <1>c, <1>12 DEF MenuFirst
    <2> QED
      BY <1>8, <1>12, <2>1 DEF MenuFirst
  <1>13. ASSUME NEW iso \in Isos, NEW type \in Types, MenuOther(iso, type) PROVE GuardedInv'
    <2>1. ~return_iso
      <3>1. Settled
        BY <1>a, <1>c, <1>13, Unmixed DEF MenuOther, Begin
      <3> QED
        BY <1>13, <3>1 DEF MenuOther, GuardedInv
    <2> QED
      BY <1>7, <1>13, <2>1 DEF MenuOther
  <1>14. ASSUME NEW disc \in BOOLEAN, UsbStart(disc) PROVE GuardedInv'
    <2>1. CASE videoiso_mounted /\ disc
      <3>1. Settled
        BY <1>a, <1>c, <1>14, <2>1, Unmixed DEF UsbStart, Begin
      <3>2. ~return_iso
        BY <2>1, <3>1 DEF GuardedInv
      <3> QED
        BY <1>7, <1>14, <2>1, <3>2 DEF UsbStart
    <2>2. CASE ~(videoiso_mounted /\ disc)
      BY <1>10, <1>14, <2>2 DEF UsbStart
    <2> QED
      BY <2>1, <2>2
  <1>15. ASSUME NEW disc \in BOOLEAN, UsbStop(disc) PROVE GuardedInv'
    <2>1. CASE return_iso /\ disc
      <3>1. ~videoiso_mounted
        BY <1>15, <2>1 DEF UsbStop, Begin, GuardedInv
      <3> QED
        BY <1>8, <1>15, <2>1, <3>1 DEF UsbStop
    <2>2. CASE ~(return_iso /\ disc)
      BY <1>10, <1>15, <2>2 DEF UsbStop
    <2> QED
      BY <2>1, <2>2
  <1>16. ASSUME UNCHANGED <<hooks, umdsector, discout, pc, videoiso_mounted, return_iso>>
         PROVE  GuardedInv'
    BY <1>c, <1>16 DEF GuardedInv, Guarded
  <1>17. ASSUME NEW iso \in Isos, NEW type \in Types, MenuSame(iso, type) PROVE GuardedInv'
    BY <1>16, <1>17 DEF MenuSame
  <1>18. ASSUME TitleRemoved \/ ReadStart \/ ReadOpen \/ ReadBlock \/ ReadEnd \/ UNCHANGED vars
         PROVE  GuardedInv'
    BY <1>16, <1>18 DEF TitleRemoved, ReadStart, ReadOpen, ReadBlock, ReadEnd, vars
  <1> QED
    BY <1>1, <1>2, <1>3, <1>4, <1>5, <1>6, <1>9, <1>11, <1>12, <1>13, <1>14, <1>15, <1>17, <1>18
    DEF Next

\* A request starts on a patched word, and so on the buffer of a mounted image;
\* only an unmount frees the buffer
LEMMA BufferStep ==
  TypeInv /\ WordsInv /\ GuardedInv /\ BufferInv /\ Guarded /\ [Next]_vars => BufferInv'
  <1> SUFFICES ASSUME TypeInv, WordsInv, GuardedInv, BufferInv, Guarded, [Next]_vars
               PROVE  BufferInv'
    OBVIOUS
  <1>1. ASSUME ReadStart PROVE BufferInv'
    <2>1. /\ word[1] = Hook /\ UNCHANGED umdsector
          /\ overlap' = (overlap \/ \E t \in Threads : pc[t] = "restore")
      BY <1>1 DEF ReadStart
    <2>2. address[1]
      BY <2>1, WordsAssumption DEF GuardedInv, OriginalsKept, Words
    <2>3. \A t \in Threads : pc[t] \notin {"returned", "out", "mount"}
      BY <2>2 DEF GuardedInv, PlaceInv, Words
    <2>4. Settled => videoiso_mounted
      BY <2>2 DEF GuardedInv, Words
    <2>5. (\A t \in Threads : pc[t] # "restore") => umdsector
      <3>1. (Settled /\ videoiso_mounted) \/ pc["menu"] = "unmount"
              \/ pc["usb"] \in {"unmount", "hooked"} => umdsector
        BY DEF WordsInv, Served, Guarded
      <3> QED
        BY <2>3, <2>4, <3>1 DEF Settled, Working, Threads, TypeInv, TypeOK
    <2> QED
      BY <2>1, <2>5 DEF BufferInv
  <1>2. ASSUME NEW t \in Threads, Unmount(t) PROVE BufferInv'
    BY <1>2 DEF Unmount, BufferInv
  <1>3. ASSUME NEW t \in Threads, MountUmdFromFile(t) PROVE BufferInv'
    BY <1>3 DEF MountUmdFromFile, BufferInv
  <1>4. ASSUME UNCHANGED umdsector, overlap => overlap', UNCHANGED reader \/ reader # Idle
        PROVE  BufferInv'
    BY <1>4 DEF BufferInv
  <1>5. ASSUME ReadOpen \/ ReadBlock \/ ReadEnd PROVE BufferInv'
    <2>1. reader # Idle
      BY <1>5 DEF ReadOpen, ReadBlock, ReadEnd, Idle
    <2>2. UNCHANGED umdsector /\ (overlap => overlap')
      <3>1. CASE ReadOpen
        BY <3>1 DEF ReadOpen
      <3>2. CASE ReadBlock \/ ReadEnd
        BY <3>2 DEF ReadBlock, ReadEnd
      <3> QED
        BY <1>5, <3>1, <3>2
    <2> QED
      BY <1>4, <2>1, <2>2
  <1>6. ASSUME NEW t \in Threads, Mounted(t) \/ Restore(t) \/ Unmounted(t) \/ Waited(t)
        PROVE  BufferInv'
    BY <1>4, <1>6 DEF Mounted, Restore, Unmounted, Waited
  <1>7. ASSUME MenuNone \/ MenuCut \/ TitleRemoved \/ UNCHANGED vars PROVE BufferInv'
    BY <1>4, <1>7 DEF MenuNone, MenuCut, TitleRemoved, Begin, vars
  <1>8. ASSUME NEW disc \in BOOLEAN, UsbStart(disc) \/ UsbStop(disc) PROVE BufferInv'
    BY <1>4, <1>8 DEF UsbStart, UsbStop, Begin
  <1>9. ASSUME NEW iso \in Isos, NEW type \in Types,
               MenuFirst(iso, type) \/ MenuOther(iso, type) \/ MenuSame(iso, type)
        PROVE  BufferInv'
    BY <1>4, <1>9 DEF MenuFirst, MenuOther, MenuSame, Begin
  <1> QED
    BY <1>1, <1>2, <1>3, <1>5, <1>6, <1>7, <1>8, <1>9 DEF Next

-----------------------------------------------------------------------------
(* The invariant and what follows from it.                                 *)

LEMMA InitIInv == Init => IInv
  BY TypeInit DEF Init, IInv, WordsInv, RequestInv, GuardedInv, PlaceInv, BufferInv, OriginalsKept,
                  Words, Threads, Settled, Working

LEMMA NextIInv == IInv /\ [Next]_vars => IInv'
  BY TypeStep, RequestStep, WordsStep, GuardedBack, GuardedStep, BufferStep DEF IInv

THEOREM SpecIInv == Spec => []IInv
  <1>1. Init => IInv
    BY InitIInv
  <1>2. IInv /\ [Next]_vars => IInv'
    BY NextIInv
  <1> QED
    BY <1>1, <1>2, PTL DEF Spec

\* The variables keep their types, for any images and disc types and for
\* requests of any size.
THEOREM SpecTypeOK == Spec => []TypeOK
  <1>1. IInv => TypeOK
    BY DEF IInv, TypeInv
  <1> QED
    BY <1>1, SpecIInv, PTL

\* The drive can be had back: sctrlSEUmountUmd finds the own code of every word
\* that DoAnyUmd and sctrlSESetDiscOut have patched, until an unmount is refused,
\* an image of the menu meets one that USB is to give back, two calls meet, or the
\* thread of the menu is ended in its call.
THEOREM SpecOriginalsKept == Spec => []OriginalsKept
  <1>1. IInv => OriginalsKept
    BY DEF IInv, GuardedInv, OriginalsKept
  <1> QED
    BY <1>1, SpecIInv, PTL

\* Between the calls of the menu and USB a mounted image has its patches, its
\* buffer and the port, and without one the drive is as it was, until two calls
\* meet or the menu's is cut off.
THEOREM SpecMountedServed == Spec => []MountedServed
  <1>1. IInv => MountedServed
    BY DEF IInv, MountedServed, WordsInv, Served, GuardedInv, OriginalsKept, Guarded
  <1> QED
    BY <1>1, SpecIInv, PTL

\* A request that no unmount has met has the buffer of the image, and umd_read_block
\* puts together the bytes asked for, for every sector size, offset and size.
THEOREM SpecRequestsServed == Spec => []RequestsServed
  <1>1. ASSUME IInv, reader # Idle, reader.pc = "done"
        PROVE  reader.data = [n \in 1 .. reader.want |-> reader.from + n - 1]
    <2>1. reader.size = 0 /\ reader.want \in Int
      BY <1>1 DEF IInv, RequestInv, TypeInv, Requests
    <2>2. reader.data = [n \in 1 .. reader.want - reader.size |-> reader.from + n - 1]
      BY <1>1 DEF IInv, RequestInv
    <2>3. reader.want - reader.size = reader.want
      BY <2>1
    <2> QED
      BY <2>2, <2>3
  <1>2. IInv => RequestsServed
    BY <1>1 DEF IInv, BufferInv, RequestsServed
  <1> QED
    BY <1>2, SpecIInv, PTL


-----------------------------------------------------------------------------
(* The drive of a title (NoUmd, the instance U).                           *)

\* Two threads in the calls that change the status have met; one that is alone
\* has done what it has passed.
DriveInv ==
    /\ npc \in [Callers -> {"out", "activate", "report", "deactivate"}]
    /\ report \in [Callers -> BOOLEAN]
    /\ drivestat \in {U!Ready, U!Readable} /\ umdcallback \in {0, -1, Callback}
    /\ met \in BOOLEAN /\ assigned \in BOOLEAN
    /\ met = FALSE =>
         /\ \A t, u \in Callers : npc[t] # "out" /\ npc[u] # "out" => t = u
         /\ U!Quiet => (assigned = TRUE <=> drivestat = U!Readable)
         /\ U!Quiet /\ umdcallback = Callback => told = drivestat
         /\ \A t \in Callers :
              /\ npc[t] = "activate" =>
                   assigned = TRUE /\ (umdcallback = Callback => told = drivestat)
              /\ npc[t] = "report" =>
                   /\ assigned = TRUE /\ drivestat = U!Readable
                   /\ umdcallback = Callback /\ report[t] = FALSE => told = drivestat
              /\ npc[t] = "deactivate" => assigned = FALSE

LEMMA DriveInit == U!Init => DriveInv
  <1>1. Callback \in Nat \ {0}
    BY TitleAssumption DEF U!CallbackAssumption
  <1> QED
    BY <1>1 DEF U!Init, DriveInv, U!Quiet, U!Ready, U!Readable

\* Who begins or ends a call while nobody else is in one
LEMMA DriveSteps ==
  ASSUME DriveInv, NEW t \in Callers,
         \/ U!Activate(t) \/ U!SetReadable(t) \/ U!Report(t) \/ U!Deactivate(t)
         \/ U!SetReady(t) \/ U!Register(t) \/ U!UnRegister(t)
  PROVE  DriveInv'
  <1> USE DEF U!Ready, U!Readable
  <1>0. Callback \in Nat \ {0}
    BY TitleAssumption DEF U!CallbackAssumption
  <1>a. ASSUME npc[t] = "out", (met' = TRUE <=> met = TRUE \/ U!Inside(t)), met' = FALSE
        PROVE  U!Quiet /\ met = FALSE
    <2>1. met = FALSE
      BY <1>a
    <2>2. \A u \in Callers \ {t} : npc[u] = "out"
      BY <1>a DEF U!Inside
    <2> QED
      BY <1>a, <2>1, <2>2 DEF U!Quiet
  <1>1. CASE U!Activate(t)
    <2>1. /\ npc[t] = "out" /\ npc' = [npc EXCEPT ![t] = "activate"] /\ assigned' = TRUE
          /\ UNCHANGED <<drivestat, umdcallback, told, report>>
          /\ (met' = TRUE <=> met = TRUE \/ U!Inside(t))
      BY <1>1 DEF U!Activate, U!Go, DriveInv
    <2>2. CASE met' = FALSE
      BY <1>a, <2>1, <2>2 DEF DriveInv, U!Quiet
    <2>3. CASE ~(met' = FALSE)
      BY <2>1, <2>3 DEF DriveInv
    <2> QED
      BY <2>2, <2>3
  <1>2. CASE U!SetReadable(t)
    BY <1>2 DEF DriveInv, U!SetReadable, U!Go, U!Quiet
  <1>3. CASE U!Report(t)
    BY <1>3 DEF DriveInv, U!Report, U!Go, U!Quiet, U!Tell
  <1>4. CASE U!Deactivate(t)
    BY <1>4 DEF DriveInv, U!Deactivate, U!Go, U!Inside, U!Quiet
  <1>5. CASE U!SetReady(t)
    BY <1>5 DEF DriveInv, U!SetReady, U!Go, U!Quiet, U!Tell
  <1>6. CASE U!Register(t)
    <2>1. /\ npc[t] = "out" /\ umdcallback' = Callback /\ told' = drivestat
          /\ UNCHANGED <<drivestat, assigned, npc, report>>
          /\ (met' = TRUE <=> met = TRUE \/ U!Inside(t))
      BY <1>6 DEF U!Register, DriveInv
    <2>2. CASE met' = FALSE
      BY <1>a, <2>1, <2>2 DEF DriveInv, U!Quiet
    <2>3. CASE ~(met' = FALSE)
      BY <2>1, <2>3 DEF DriveInv
    <2> QED
      BY <2>2, <2>3
  <1>7. CASE U!UnRegister(t)
    BY <1>0, <1>7 DEF DriveInv, U!UnRegister, U!Quiet
  <1> QED
    BY <1>1, <1>2, <1>3, <1>4, <1>5, <1>6, <1>7

\* Every call of sceUmdUser that is replaced keeps the invariant
\* (sysmodpatches.c, DoNoUmdPatches)
THEOREM SpecDriveInv == U!Spec => []DriveInv
  <1>1. DriveInv /\ [U!Next]_(U!vars) => DriveInv'
    <2> SUFFICES ASSUME DriveInv, [U!Next]_(U!vars) PROVE DriveInv'
      OBVIOUS
    <2>1. CASE U!Next
      BY <2>1, DriveSteps DEF U!Next
    <2>2. CASE UNCHANGED U!vars
      BY <2>2 DEF U!vars, DriveInv, U!Quiet
    <2> QED
      BY <2>1, <2>2
  <1> QED
    BY DriveInit, <1>1, PTL DEF U!Spec


-----------------------------------------------------------------------------
(* The keys and the icon of an old title (OldTitle, the instance O).       *)

\* The keys are answered when SetKeys is over.  Only an original title comes to
\* where a licence is read and KEYS.BIN is written, so that no other keys are
\* in that file.
OldTypes ==
    /\ title \in [original : BOOLEAN, small : BOOLEAN]
    /\ use_dracula \in BOOLEAN /\ patched \in BOOLEAN /\ misread \in BOOLEAN
    /\ declined \in BOOLEAN /\ setkeys \in BOOLEAN /\ flash2 \in BOOLEAN
    /\ keysbin \in {O!None, "cut", O!Keys}
    /\ opc \in {"off", "idle", "elf", "license", "act", "read", "version", "write", "set"}
OldKeys ==
    /\ opc \in {"act", "read", "version", "write", "set"} => title.original = TRUE
    /\ opc # "idle" => keys = O!None
    /\ opc = "off" => ofd = <<>>
    /\ keys # O!None /\ misread = FALSE =>
         keys = O!Keys /\ (setkeys = TRUE /\ declined = FALSE => taken = keys)
OldInv == OldTypes /\ OldKeys /\ O!VolumeBack /\ O!IconFits /\ O!PartsOpened

LEMMA OldInit == O!Init => OldInv
  BY DEF O!Init, OldInv, OldTypes, OldKeys, O!VolumeBack, O!IconFits, O!PartsOpened, O!None, O!Keys

\* popcorn looks into the file, the emulator asks to be given the keys, and the
\* power goes
LEMMA OldStarts ==
  ASSUME OldInv, O!ModuleStart \/ O!RegisterCallback \/ O!PowerOff
  PROVE  OldInv'
  <1> USE DEF OldInv, OldTypes, OldKeys, O!VolumeBack, O!IconFits, O!PartsOpened, O!None, O!Keys
  <1>1. CASE O!ModuleStart
    <2>1. PICK opened \in O!Opens, read \in [{"offsets", "kind", "signature", "icon"} -> BOOLEAN] :
             \E original \in BOOLEAN, small \in BOOLEAN :
                /\ patched' = (opened /\ ~original)
                /\ use_dracula' = ~(opened /\ ~original /\ small)
                /\ misread' = (opened /\ ~read["offsets"])
                /\ ~(opened /\ ~read["offsets"]) => small = (read["icon"] /\ title.small)
      BY <1>1 DEF O!ModuleStart
    <2>2. PICK original \in BOOLEAN, small \in BOOLEAN :
                /\ patched' = (opened /\ ~original)
                /\ use_dracula' = ~(opened /\ ~original /\ small)
                /\ misread' = (opened /\ ~read["offsets"])
                /\ ~(opened /\ ~read["offsets"]) => small = (read["icon"] /\ title.small)
      BY <2>1
    <2>3. /\ opc = "off" /\ opc' = "idle"
          /\ UNCHANGED <<title, keysbin, lost, flash2, keys, setkeys, taken, ofd, declined>>
      BY <1>1 DEF O!ModuleStart
    <2>4. patched' \in BOOLEAN /\ use_dracula' \in BOOLEAN /\ misread' \in BOOLEAN
      BY <2>2
    <2>5. ofd = <<>> /\ keys = "none"
      BY <2>3
    <2>6. patched' /\ ~misread' /\ ~use_dracula' => title.small
      BY <2>2
    <2> QED
      BY <2>3, <2>4, <2>5, <2>6 DEF O!SizeTold, O!IconGiven
  <1>2. CASE O!RegisterCallback
    BY <1>2 DEF O!RegisterCallback, O!SizeTold, O!IconGiven
  <1>3. CASE O!PowerOff
    BY <1>3 DEF O!PowerOff
  <1> QED
    BY <1>1, <1>2, <1>3

\* The keys come from KEYS.BIN, or are none that matter
LEMMA OldSetsKeys ==
  ASSUME OldInv, O!SetKeys \/ O!LookForElf \/ O!GetLicense \/ O!Registered
  PROVE  OldInv'
  <1> USE DEF OldInv, OldTypes, OldKeys, O!VolumeBack, O!IconFits, O!PartsOpened, O!None, O!Keys
  <1>1. CASE O!SetKeys
    BY <1>1 DEF O!SetKeys, O!Register, O!SizeTold, O!IconGiven
  <1>2. CASE O!LookForElf
    BY <1>2 DEF O!LookForElf, O!Register, O!SizeTold, O!IconGiven, O!Opens
  <1>3. CASE O!GetLicense
    BY <1>3 DEF O!GetLicense, O!Fails, O!SizeTold, O!IconGiven
  <1>4. CASE O!Registered
    BY <1>4 DEF O!Registered, O!Register, O!SizeTold, O!IconGiven
  <1> QED
    BY <1>1, <1>2, <1>3, <1>4

\* The licence is read and KEYS.BIN written
LEMMA OldReads ==
  ASSUME OldInv, O!AssignFlash2 \/ O!ReadFlash2Act \/ O!VersionKey \/ O!WriteKeys
  PROVE  OldInv'
  <1> USE DEF OldInv, OldTypes, OldKeys, O!VolumeBack, O!IconFits, O!PartsOpened, O!None, O!Keys
  <1>1. CASE O!AssignFlash2
    <2>1. opc = "act" /\ flash2 = FALSE
      BY <1>1 DEF O!AssignFlash2
    <2>2. /\ \/ opc' = "idle" /\ keys' = "none" /\ flash2' = FALSE
             \/ opc' = "read" /\ flash2' = TRUE /\ keys' = keys
          /\ UNCHANGED <<title, keysbin, use_dracula, patched, setkeys, taken, ofd, misread,
                         declined>>
      BY <1>1, <2>1 DEF O!AssignFlash2, O!Fails
    <2> QED
      BY <2>1, <2>2 DEF O!SizeTold, O!IconGiven
  <1>2. CASE O!ReadFlash2Act
    BY <1>2 DEF O!ReadFlash2Act, O!Fails, O!SizeTold, O!IconGiven
  <1>3. CASE O!VersionKey
    BY <1>3 DEF O!VersionKey, O!Fails, O!SizeTold, O!IconGiven
  <1>4. CASE O!WriteKeys
    BY <1>4 DEF O!WriteKeys, O!SizeTold, O!IconGiven
  <1> QED
    BY <1>1, <1>2, <1>3, <1>4

\* The patched emulator opens a part of its file
LEMMA OldOpens ==
  ASSUME OldInv, NEW enciphered \in BOOLEAN, O!OpenEncrypted(enciphered)
  PROVE  OldInv'
  <1> USE DEF OldInv, OldTypes, OldKeys, O!VolumeBack, O!IconFits, O!PartsOpened, O!None, O!Keys
  <1> QED
    BY DEF O!OpenEncrypted, O!SizeTold, O!IconGiven, O!Opens

\* What is done for an old title, with any call that fails and the power cut
\* anywhere, keeps the invariant (popcorn/main.c, idcanager/main.c)
THEOREM SpecOldInv == O!Spec => []OldInv
  <1>1. OldInv /\ [O!Next]_(O!vars) => OldInv'
    <2> SUFFICES ASSUME OldInv, [O!Next]_(O!vars) PROVE OldInv'
      OBVIOUS
    <2>1. CASE O!Next
      BY <2>1, OldStarts, OldSetsKeys, OldReads, OldOpens DEF O!Next
    <2>2. CASE UNCHANGED O!vars
      BY <2>2 DEF O!vars, OldInv, OldTypes, OldKeys, O!VolumeBack, O!IconFits, O!PartsOpened,
                  O!Keys, O!SizeTold, O!IconGiven
    <2> QED
      BY <2>1, <2>2
  <1> QED
    BY OldInit, <1>1, PTL DEF O!Spec


-----------------------------------------------------------------------------
(* The start of a title (GameStart, the instance S).                       *)

Driver(n) == IF n = 1 THEN "march33" ELSE IF n = 2 THEN "np9660" ELSE "umd9660"

\* The image that drivers are put in place for, and what they make of the file
\* system before and after the last module
Imaged == exec.kind \in {"iso", "disc"} /\ sumdfile # NoFile
FirstIsofs == IF Imaged /\ sys = "legacy" THEN "none" ELSE "firmware"
LastIsofs  == IF sumdfile # NoFile /\ sys = "legacy" THEN "ours" ELSE FirstIsofs
Patched(n) ==
    /\ umd = IF Imaged /\ sys = "legacy" THEN "ours" ELSE Driver(n)
    /\ hooked = TRUE <=> Imaged /\ sys = "umd" /\ n = 0
    /\ ~Imaged => sumdfile = NoFile /\ bootfile = 0
MemoryGiven ==
    exec.kind = "pbp" /\ carried = FALSE =>
        given = IF wanted # 0 THEN wanted ELSE IF exec.large = TRUE THEN S!Large ELSE 0
MemoryWanted == carried = FALSE => ram2 = wanted

\* Which module of the n-th list, and of that of the XMB, is the next
BeforeDriver(n) == left = <<Driver(n), "isofs", "mediasync", "impose">>
BeforeIsofs     == left = <<"isofs", "mediasync", "impose">>
BeforeMediasync == left = <<"mediasync", "impose">>
BeforeImpose    == left = <<"impose">>
XmbDriver    == left = <<"umd9660", "isofs", "chkreg", "mediasync", "impose", "vshctrl">>
XmbIsofs     == left = <<"isofs", "chkreg", "mediasync", "impose", "vshctrl">>
XmbChkreg    == left = <<"chkreg", "mediasync", "impose", "vshctrl">>
XmbMediasync == left = <<"mediasync", "impose", "vshctrl">>
XmbImpose    == left = <<"impose", "vshctrl">>
XmbVshctrl   == left = <<"vshctrl">>

\* How far a title is that boots with the n-th list
Booting(n) ==
    \/ BeforeDriver(n) /\ umd = "none" /\ isofs = "none" /\ hooked = FALSE /\ MemoryWanted
    \/ BeforeIsofs /\ umd = Driver(n) /\ isofs = "none" /\ hooked = FALSE /\ MemoryWanted
    \/ BeforeMediasync /\ umd = Driver(n) /\ isofs = FirstIsofs /\ hooked = FALSE /\ MemoryWanted
    \/ BeforeImpose /\ Patched(n) /\ isofs = FirstIsofs /\ MemoryGiven
Runs(n) == Patched(n) /\ isofs = LastIsofs /\ MemoryGiven

\* The list that an image is started with, and its settings and its image
List == IF exec.kind = "iso" THEN IF sys = "march33" THEN 1 ELSE IF sys = "np9660" THEN 2 ELSE 0
        ELSE 0
OwnDrivers(n) ==
    blind = FALSE /\ exec.kind \in {"iso", "disc"} /\ exec.image \notin Long =>
        /\ sumdfile = exec.image
        /\ IF leftover = TRUE THEN List = 0 ELSE n = List /\ bootfile = List

\* How far the XMB is
XmbBooting ==
    /\ leftover = FALSE /\ (carried = FALSE => ram2 = 0) /\ hooked = FALSE
    /\ \/ XmbDriver /\ umd = "none" /\ isofs = "none"
       \/ XmbIsofs /\ umd = "umd9660" /\ isofs = "none"
       \/ (XmbChkreg \/ XmbMediasync) /\ umd = "umd9660" /\ isofs = "firmware"
       \/ XmbImpose /\ umd = "umd9660" /\ isofs = "firmware" /\ bootfile = 0
       \/ /\ XmbVshctrl /\ umd = "umd9660" /\ isofs = "firmware" /\ bootfile = 0
          /\ blind = FALSE => sys = config
XmbRuns ==
    /\ umd = "umd9660" /\ isofs = "firmware" /\ hooked = FALSE
    /\ leftover = FALSE => bootfile = 0
    /\ blind = FALSE => vsh = sys
    /\ carried = FALSE => ram2 = 0

StartTypes ==
    /\ spc \in {"boot", "game", "xmb"} /\ bootfile \in {0, 1, 2}
    /\ {config, vsh, sys} \subseteq S!Modes
    /\ exec \in {S!Xmb, S!Disc} \cup S!Homebrew \cup S!IsoGames
    /\ leftover \in BOOLEAN /\ blind \in BOOLEAN /\ carried \in BOOLEAN /\ hooked \in BOOLEAN
    /\ ram2 \in Nat /\ wanted \in Nat

StartInv ==
    /\ StartTypes
    /\ spc = "boot" /\ exec.kind # "xmb" => \E n \in {0, 1, 2} : Booting(n) /\ OwnDrivers(n)
    /\ spc = "boot" /\ exec.kind = "xmb" => XmbBooting
    /\ spc = "game" => exec.kind # "xmb" /\ \E n \in {0, 1, 2} : Runs(n) /\ OwnDrivers(n)
    /\ spc = "xmb" => exec.kind = "xmb" /\ XmbRuns

LEMMA TitleKinds ==
  ASSUME StartTypes
  PROVE  /\ exec.kind \in {"xmb", "disc", "pbp", "iso"} /\ exec.large \in BOOLEAN
         /\ exec.kind = "iso" => exec.image \in Images
         /\ exec.kind = "disc" => exec.image = NoFile
         /\ exec.kind = "disc" => exec = S!Disc
  <1>1. CASE exec = S!Xmb
    BY <1>1 DEF S!Xmb
  <1>2. CASE exec = S!Disc
    BY <1>2 DEF S!Disc
  <1>3. CASE exec \in S!Homebrew
    BY <1>3 DEF S!Homebrew
  <1>4. CASE exec \in S!IsoGames
    BY <1>4 DEF S!IsoGames
  <1> QED
    BY <1>1, <1>2, <1>3, <1>4 DEF StartTypes

LEMMA StartInit == S!Init => StartInv
  <1> SUFFICES ASSUME S!Init PROVE StartInv
    OBVIOUS
  <1>1. /\ spc = "boot" /\ exec = S!Xmb /\ exec.kind = "xmb" /\ bootfile = 0 /\ ram2 = 0 /\ wanted = 0
        /\ umd = "none" /\ isofs = "none" /\ hooked = FALSE
        /\ leftover = FALSE /\ blind = FALSE /\ carried = FALSE
        /\ {config, vsh, sys} \subseteq S!Modes
    BY DEF S!Init, S!Xmb, S!Modes
  <1>2. XmbDriver
    BY DEF S!Init, S!BootList, XmbDriver
  <1>3. StartTypes
    BY <1>1 DEF StartTypes
  <1>4. XmbBooting
    BY <1>1, <1>2 DEF XmbBooting
  <1> QED
    BY <1>1, <1>3, <1>4 DEF StartInv

\* The lists, module by module
LEMMA NextModule ==
  ASSUME NEW m, S!Starts(m)
  PROVE  /\ spc = "boot"
         /\ \A n : BeforeDriver(n) => m = Driver(n) /\ BeforeIsofs'
         /\ BeforeIsofs => m = "isofs" /\ BeforeMediasync'
         /\ BeforeMediasync => m = "mediasync" /\ BeforeImpose'
         /\ BeforeImpose => m = "impose" /\ left' = <<>>
         /\ XmbDriver => m = "umd9660" /\ XmbIsofs'
         /\ XmbIsofs => m = "isofs" /\ XmbChkreg'
         /\ XmbChkreg => m = "chkreg" /\ XmbMediasync'
         /\ XmbMediasync => m = "mediasync" /\ XmbImpose'
         /\ XmbImpose => m = "impose" /\ XmbVshctrl' /\ left' # <<>>
         /\ XmbVshctrl => m = "vshctrl"
  <1>1. spc = "boot" /\ left # <<>> /\ m = Head(left) /\ left' = Tail(left)
    BY DEF S!Starts
  <1>2. ASSUME NEW n, BeforeDriver(n) PROVE m = Driver(n) /\ BeforeIsofs'
    <2> DEFINE d == Driver(n)
    <2>1. left = <<d, "isofs", "mediasync", "impose">>
      BY <1>2 DEF BeforeDriver
    <2> HIDE DEF d
    <2>2. m = d /\ left' = <<"isofs", "mediasync", "impose">>
      BY <1>1, <2>1
    <2> QED
      BY <2>2 DEF d, BeforeIsofs
  <1>3. BeforeIsofs => m = "isofs" /\ BeforeMediasync'
    BY <1>1 DEF BeforeIsofs, BeforeMediasync
  <1>4. BeforeMediasync => m = "mediasync" /\ BeforeImpose'
    BY <1>1 DEF BeforeMediasync, BeforeImpose
  <1>5. BeforeImpose => m = "impose" /\ left' = <<>>
    BY <1>1 DEF BeforeImpose
  <1>6. XmbDriver => m = "umd9660" /\ XmbIsofs'
    BY <1>1 DEF XmbDriver, XmbIsofs
  <1>7. XmbIsofs => m = "isofs" /\ XmbChkreg'
    BY <1>1 DEF XmbIsofs, XmbChkreg
  <1>8. XmbChkreg => m = "chkreg" /\ XmbMediasync'
    BY <1>1 DEF XmbChkreg, XmbMediasync
  <1>9. XmbMediasync => m = "mediasync" /\ XmbImpose'
    BY <1>1 DEF XmbMediasync, XmbImpose
  <1>10. XmbImpose => m = "impose" /\ XmbVshctrl' /\ left' # <<>>
    BY <1>1 DEF XmbImpose, XmbVshctrl
  <1>11. XmbVshctrl => m = "vshctrl"
    BY <1>1 DEF XmbVshctrl
  <1> QED
    BY <1>1, <1>2, <1>3, <1>4, <1>5, <1>6, <1>7, <1>8, <1>9, <1>10, <1>11


\* What is there when a module starts
Drivers == {"umd9660", "march33", "np9660"}
Untouched == isofs = "none" /\ hooked = FALSE /\ MemoryWanted
LEMMA TitleBoots ==
  ASSUME StartInv, NEW m, S!Starts(m), exec.kind # "xmb"
  PROVE  /\ spc = "boot" /\ m \notin {"chkreg", "vshctrl"}
         /\ \E n \in {0, 1, 2} :
              /\ OwnDrivers(n)
              /\ m \in Drivers => m = Driver(n) /\ BeforeIsofs' /\ umd = "none" /\ Untouched
              /\ m = "isofs" => BeforeMediasync' /\ umd = Driver(n) /\ Untouched
              /\ m = "mediasync" =>
                   /\ BeforeImpose' /\ umd = Driver(n)
                   /\ isofs = FirstIsofs /\ hooked = FALSE /\ MemoryWanted
              /\ m = "impose" => left' = <<>> /\ Patched(n) /\ isofs = FirstIsofs /\ MemoryGiven
  <1>1. spc = "boot"
    BY NextModule
  <1>2. PICK n \in {0, 1, 2} : Booting(n) /\ OwnDrivers(n)
    BY <1>1 DEF StartInv
  <1>3. Driver(n) \in Drivers
    BY DEF Driver, Drivers
  <1>4. /\ BeforeDriver(n) => m = Driver(n) /\ BeforeIsofs'
        /\ BeforeIsofs => m = "isofs" /\ BeforeMediasync'
        /\ BeforeMediasync => m = "mediasync" /\ BeforeImpose'
        /\ BeforeImpose => m = "impose" /\ left' = <<>>
    BY NextModule
  <1>5. m \notin {"chkreg", "vshctrl"}
    BY <1>2, <1>3, <1>4 DEF Booting, Drivers
  <1>6. m \in Drivers => m = Driver(n) /\ BeforeIsofs' /\ umd = "none" /\ Untouched
    BY <1>2, <1>3, <1>4 DEF Booting, Drivers, Untouched
  <1>7. m = "isofs" => BeforeMediasync' /\ umd = Driver(n) /\ Untouched
    BY <1>2, <1>3, <1>4 DEF Booting, Drivers, Untouched
  <1>8. m = "mediasync" =>
           /\ BeforeImpose' /\ umd = Driver(n)
           /\ isofs = FirstIsofs /\ hooked = FALSE /\ MemoryWanted
    BY <1>2, <1>3, <1>4 DEF Booting, Drivers
  <1>9. m = "impose" => left' = <<>> /\ Patched(n) /\ isofs = FirstIsofs /\ MemoryGiven
    BY <1>2, <1>3, <1>4 DEF Booting, Drivers
  <1> QED
    BY <1>1, <1>2, <1>5, <1>6, <1>7, <1>8, <1>9

LEMMA XmbBoots ==
  ASSUME StartInv, NEW m, S!Starts(m), exec.kind = "xmb"
  PROVE  /\ leftover = FALSE /\ (carried = FALSE => ram2 = 0) /\ hooked = FALSE /\ spc = "boot"
         /\ m \in Drivers => m = "umd9660" /\ XmbIsofs' /\ isofs = "none"
         /\ m = "isofs" => XmbChkreg' /\ umd = "umd9660"
         /\ m \in {"chkreg", "mediasync", "impose", "vshctrl"} =>
              umd = "umd9660" /\ isofs = "firmware"
         /\ m = "chkreg" => XmbMediasync'
         /\ m = "mediasync" => XmbImpose'
         /\ m = "impose" => XmbVshctrl' /\ left' # <<>> /\ bootfile = 0
         /\ m = "vshctrl" => bootfile = 0 /\ (blind = FALSE => sys = config)
  <1>1. spc = "boot"
    BY NextModule
  <1>2. XmbBooting
    BY <1>1 DEF StartInv
  <1>3. CASE XmbDriver
    BY <1>1, <1>2, <1>3, NextModule DEF XmbBooting
  <1>4. CASE XmbIsofs
    BY <1>1, <1>2, <1>4, NextModule DEF XmbBooting, Drivers
  <1>5. CASE XmbChkreg
    BY <1>1, <1>2, <1>5, NextModule DEF XmbBooting, Drivers
  <1>6. CASE XmbMediasync
    BY <1>1, <1>2, <1>6, NextModule DEF XmbBooting, Drivers
  <1>7. CASE XmbImpose
    BY <1>1, <1>2, <1>7, NextModule DEF XmbBooting, Drivers
  <1>8. CASE XmbVshctrl
    BY <1>1, <1>2, <1>8, NextModule DEF XmbBooting, Drivers
  <1> QED
    BY <1>2, <1>3, <1>4, <1>5, <1>6, <1>7, <1>8 DEF XmbBooting

\* The first modules: a driver, the registry, the file system of the firmware
LEMMA StartsFirst ==
  ASSUME StartInv,
         \/ \E m \in {"umd9660", "march33", "np9660"} : S!StartDriver(m)
         \/ S!StartChkreg \/ S!PatchIsofsDriver
  PROVE  StartInv'
  <1>0. /\ UNCHANGED <<spc, config, vsh, sys, bootfile, sumdfile, ram2, exec, hooked, wanted,
                       leftover, blind, carried>>
        /\ StartTypes' /\ spc = "boot"
    BY DEF S!StartDriver, S!StartChkreg, S!PatchIsofsDriver, S!Kept, S!Starts, StartInv, StartTypes
  <1>1. CASE \E m \in {"umd9660", "march33", "np9660"} : S!StartDriver(m)
    <2>1. PICK m \in {"umd9660", "march33", "np9660"} : S!StartDriver(m)
      BY <1>1
    <2>2. S!Starts(m) /\ umd' = m /\ isofs' = isofs
      BY <2>1 DEF S!StartDriver
    <2>3. CASE exec.kind = "xmb"
      <3>1. XmbBooting'
        <4>1. m \in Drivers
          BY DEF Drivers
        <4>2. /\ leftover = FALSE /\ (carried = FALSE => ram2 = 0) /\ hooked = FALSE
              /\ m = "umd9660" /\ XmbIsofs' /\ isofs = "none"
          BY <2>2, <2>3, <4>1, XmbBoots
        <4> QED
          BY <1>0, <2>2, <4>2 DEF XmbBooting
      <3> QED
        BY <1>0, <2>3, <3>1 DEF StartInv
    <2>4. CASE exec.kind # "xmb"
      <3>1. PICK n \in {0, 1, 2} :
               OwnDrivers(n) /\ m = Driver(n) /\ BeforeIsofs' /\ Untouched
        BY <2>2, <2>4, TitleBoots DEF Drivers
      <3>2. Booting(n)' /\ OwnDrivers(n)'
        BY <1>0, <2>2, <3>1 DEF Booting, OwnDrivers, List, MemoryWanted, Untouched
      <3> QED
        BY <1>0, <2>4, <3>2 DEF StartInv
    <2> QED
      BY <2>3, <2>4
  <1>2. CASE S!StartChkreg
    <2>1. S!Starts("chkreg") /\ UNCHANGED <<umd, isofs>>
      BY <1>2 DEF S!StartChkreg
    <2>2. exec.kind = "xmb"
      BY <2>1, TitleBoots
    <2>3. XmbBooting'
      BY <1>0, <2>1, <2>2, XmbBoots DEF XmbBooting
    <2> QED
      BY <1>0, <2>2, <2>3 DEF StartInv
  <1>3. CASE S!PatchIsofsDriver
    <2>1. /\ S!Starts("isofs") /\ umd' = umd
          /\ isofs' = IF exec.kind \in {"iso", "disc"} /\ sumdfile # NoFile /\ sys = "legacy"
                      THEN "none" ELSE "firmware"
      BY <1>3 DEF S!PatchIsofsDriver
    <2>3. CASE exec.kind = "xmb"
      <3>1. XmbBooting'
        BY <1>0, <2>1, <2>3, XmbBoots DEF XmbBooting
      <3> QED
        BY <1>0, <2>3, <3>1 DEF StartInv
    <2>4. CASE exec.kind # "xmb"
      <3>1. PICK n \in {0, 1, 2} :
               OwnDrivers(n) /\ BeforeMediasync' /\ umd = Driver(n) /\ Untouched
        BY <2>1, <2>4, TitleBoots
      <3>2. Booting(n)' /\ OwnDrivers(n)'
        BY <1>0, <2>1, <3>1
        DEF Booting, OwnDrivers, List, MemoryWanted, FirstIsofs, Imaged, Untouched
      <3> QED
        BY <1>0, <2>4, <3>2 DEF StartInv
    <2> QED
      BY <2>3, <2>4
  <1> QED
    BY <1>1, <1>2, <1>3

\* The drivers of an image, and the memory of a homebrew
LEMMA StartsMediasync ==
  ASSUME StartInv, S!PatchInitLoadExecAndMediaSync
  PROVE  StartInv'
  <1>0. /\ UNCHANGED <<spc, config, vsh, sys, exec, isofs, wanted, leftover, blind, carried>>
        /\ S!Starts("mediasync") /\ S!CheckSfo /\ spc = "boot"
        /\ \/ /\ Imaged /\ umd' = IF sys = "legacy" THEN "ours" ELSE umd
              /\ (hooked' = TRUE <=> sys = "umd" /\ umd = "umd9660") /\ hooked' \in BOOLEAN
              /\ sumdfile' = sumdfile /\ bootfile' = bootfile
           \/ /\ ~Imaged /\ sumdfile' = NoFile /\ bootfile' = 0 /\ umd' = umd /\ hooked' = hooked
    BY DEF S!PatchInitLoadExecAndMediaSync, S!Starts, Imaged
  <1>1. ram2' \in Nat
    BY <1>0 DEF S!CheckSfo, StartInv, StartTypes, S!Large
  <1>2. StartTypes'
    BY <1>0, <1>1 DEF StartInv, StartTypes
  <1>3. CASE exec.kind = "xmb"
    <2>1. ~Imaged /\ ram2' = ram2
      BY <1>0, <1>3 DEF Imaged, S!CheckSfo
    <2>2. XmbBooting'
      BY <1>0, <1>3, <2>1, XmbBoots DEF XmbBooting
    <2> QED
      BY <1>0, <1>2, <1>3, <2>2 DEF StartInv
  <1>4. CASE exec.kind # "xmb"
    <2>1. PICK n \in {0, 1, 2} :
             /\ OwnDrivers(n) /\ BeforeImpose' /\ umd = Driver(n) /\ isofs = FirstIsofs
             /\ hooked = FALSE /\ MemoryWanted
      BY <1>0, <1>4, TitleBoots
    <2>2. Patched(n)' /\ isofs' = FirstIsofs'
      BY <1>0, <2>1 DEF Patched, FirstIsofs, Imaged, Driver
    <2>3. MemoryGiven'
      BY <1>0, <2>1 DEF MemoryGiven, MemoryWanted, S!CheckSfo, StartInv, StartTypes
    <2>4. OwnDrivers(n)'
      <3>1. CASE Imaged
        BY <1>0, <2>1, <3>1 DEF OwnDrivers, List
      <3>2. CASE ~Imaged
        <4>1. StartTypes
          BY DEF StartInv
        <4>2. NoFile \notin Images
          BY TitleAssumption DEF S!ImagesAssumption
        <4> QED
          BY <1>0, <2>1, <3>2, <4>1, <4>2, TitleKinds DEF OwnDrivers, List, Imaged
      <3> QED
        BY <3>1, <3>2
    <2>5. Booting(n)'
      BY <2>1, <2>2, <2>3 DEF Booting
    <2> QED
      BY <1>0, <1>2, <1>4, <2>4, <2>5 DEF StartInv
  <1> QED
    BY <1>3, <1>4


\* The last module but one of the XMB, and the last one of a title
LEMMA StartsImpose ==
  ASSUME StartInv, NEW fails \in BOOLEAN, S!OnImposeLoad(fails)
  PROVE  StartInv'
  <1>0. /\ S!Starts("impose")
        /\ UNCHANGED <<config, vsh, bootfile, sumdfile, ram2, exec, umd, hooked, given, wanted,
                       leftover, carried>>
        /\ spc' = IF left' = <<>> THEN "game" ELSE spc
        /\ isofs' = IF exec.kind # "xmb" /\ sumdfile # NoFile /\ sys = "legacy"
                    THEN "ours" ELSE isofs
    BY DEF S!OnImposeLoad
  <1>1. CASE exec.kind = "xmb"
    <2>1. /\ sys' = IF fails THEN "umd" ELSE config
          /\ blind' \in BOOLEAN /\ (blind' = TRUE <=> fails = TRUE /\ config # "umd")
      BY <1>1 DEF S!OnImposeLoad
    <2>2. /\ leftover = FALSE /\ (carried = FALSE => ram2 = 0) /\ hooked = FALSE /\ spc = "boot"
          /\ umd = "umd9660" /\ isofs = "firmware" /\ XmbVshctrl' /\ left' # <<>> /\ bootfile = 0
      BY <1>0, <1>1, XmbBoots
    <2>3. spc' = "boot" /\ isofs' = "firmware"
      BY <1>0, <1>1, <2>2
    <2>4. StartTypes'
      BY <1>0, <2>1, <2>2, <2>3 DEF StartInv, StartTypes, S!Modes
    <2>5. blind' = FALSE => sys' = config'
      BY <1>0, <2>1
    <2>6. XmbBooting'
      BY <1>0, <2>2, <2>3, <2>5 DEF XmbBooting
    <2> QED
      BY <1>0, <1>1, <2>3, <2>4, <2>6 DEF StartInv
  <1>2. CASE exec.kind # "xmb"
    <2>1. sys' = sys /\ blind' = blind
      BY <1>2 DEF S!OnImposeLoad
    <2>2. spc = "boot" /\ \E n \in {0, 1, 2} :
             OwnDrivers(n) /\ left' = <<>> /\ Patched(n) /\ isofs = FirstIsofs /\ MemoryGiven
      BY <1>0, <1>2, TitleBoots
    <2>3. PICK n \in {0, 1, 2} :
             OwnDrivers(n) /\ left' = <<>> /\ Patched(n) /\ isofs = FirstIsofs /\ MemoryGiven
      BY <2>2
    <2>4. spc' = "game"
      BY <1>0, <2>3
    <2>5. Runs(n)'
      BY <1>0, <1>2, <2>1, <2>3
      DEF Runs, Patched, LastIsofs, FirstIsofs, Imaged, MemoryGiven
    <2>6. OwnDrivers(n)'
      BY <1>0, <2>1, <2>3 DEF OwnDrivers, List
    <2>7. StartTypes'
      BY <1>0, <2>1, <2>4 DEF StartInv, StartTypes
    <2> QED
      BY <1>0, <1>2, <2>4, <2>5, <2>6, <2>7 DEF StartInv
  <1> QED
    BY <1>1, <1>2

\* vshctrl, and the XMB is there
LEMMA StartsVshctrl ==
  ASSUME StartInv, NEW fails \in BOOLEAN, S!StartVshctrl(fails)
  PROVE  StartInv'
  <1>0. /\ S!Starts("vshctrl") /\ spc' = "xmb"
        /\ vsh' = IF fails THEN "umd" ELSE config
        /\ blind' \in BOOLEAN
        /\ blind' = TRUE <=> blind = TRUE \/ (fails = TRUE /\ config # "umd")
        /\ UNCHANGED <<config, sys, bootfile, sumdfile, ram2, exec, umd, isofs, hooked, given,
                       wanted, leftover, carried>>
    BY DEF S!StartVshctrl, StartInv, StartTypes
  <1>1. exec.kind = "xmb"
    BY <1>0, TitleBoots
  <1>2. /\ leftover = FALSE /\ (carried = FALSE => ram2 = 0) /\ hooked = FALSE
        /\ umd = "umd9660" /\ isofs = "firmware"
        /\ bootfile = 0 /\ (blind = FALSE => sys = config)
    BY <1>0, <1>1, XmbBoots
  <1>3. blind = FALSE \/ blind = TRUE
    BY DEF StartInv, StartTypes
  <1>4. blind' = FALSE => vsh' = sys'
    BY <1>0, <1>2, <1>3
  <1>5. XmbRuns'
    BY <1>0, <1>2, <1>4 DEF XmbRuns
  <1>6. StartTypes'
    BY <1>0 DEF StartInv, StartTypes, S!Modes
  <1> QED
    BY <1>0, <1>1, <1>5, <1>6 DEF StartInv

\* The first module of a list is the driver that it is for
LEMMA Listed ==
  ASSUME NEW x \in {S!Disc} \cup S!Homebrew \cup S!IsoGames, NEW n \in {0, 1, 2},
         left' = S!BootList(n, x.kind)
  PROVE  BeforeDriver(n)' /\ x.kind \in {"disc", "pbp", "iso"}
  <1>1. x.kind \in {"disc", "pbp", "iso"}
    <2>1. CASE x = S!Disc
      BY <2>1 DEF S!Disc
    <2>2. CASE x \in S!Homebrew
      BY <2>2 DEF S!Homebrew
    <2>3. CASE x \in S!IsoGames
      BY <2>3 DEF S!IsoGames
    <2> QED
      BY <2>1, <2>2, <2>3
  <1>2. CASE n = 0
    BY <1>1, <1>2 DEF S!BootList, BeforeDriver, Driver
  <1>3. CASE n = 1
    BY <1>1, <1>3 DEF S!BootList, BeforeDriver, Driver
  <1>4. CASE n = 2
    BY <1>1, <1>4 DEF S!BootList, BeforeDriver, Driver
  <1> QED
    BY <1>1, <1>2, <1>3, <1>4

\* The XMB starts a title, or tries to
LEMMA Chooses ==
  ASSUME StartInv, NEW x \in S!IsoGames \cup S!Homebrew \cup {S!Disc}, NEW fails \in BOOLEAN,
         S!LoadExecVSHCommon(x, fails)
  PROVE  StartInv'
  <1>0. /\ spc = "xmb" /\ sumdfile' = S!Cut(x.image) /\ wanted' = 0
        /\ bootfile' = IF S!Chosen(x) THEN S!Index(vsh) ELSE bootfile
        /\ UNCHANGED <<config, vsh, sys, ram2, blind, carried>>
    BY DEF S!LoadExecVSHCommon
  <1>1. StartTypes /\ XmbRuns /\ exec.kind = "xmb"
    BY <1>0 DEF StartInv
  <1>2. PICK k \in {0, 1, 2} : bootfile' = k
    BY <1>0, <1>1 DEF StartTypes, S!Index
  <1>3. CASE fails = TRUE
    <2>1. /\ UNCHANGED <<spc, exec, umd, isofs, hooked>>
          /\ leftover' \in BOOLEAN /\ (leftover' = TRUE <=> bootfile' # 0)
      BY <1>3 DEF S!LoadExecVSHCommon
    <2>2. StartTypes'
      BY <1>0, <1>1, <1>2, <2>1 DEF StartTypes
    <2>3. XmbRuns'
      BY <1>0, <1>1, <2>1 DEF XmbRuns
    <2> QED
      BY <1>0, <1>1, <2>1, <2>2, <2>3 DEF StartInv
  <1>4. CASE fails = FALSE
    <2>1. /\ spc' = "boot" /\ exec' = x /\ left' = S!BootList(bootfile', x.kind)
          /\ umd' = "none" /\ isofs' = "none" /\ hooked' = FALSE
          /\ leftover' \in BOOLEAN /\ (leftover' = TRUE <=> leftover = TRUE /\ ~S!Chosen(x))
      BY <1>1, <1>4 DEF S!LoadExecVSHCommon, S!Reboot, StartTypes
    <2>2. StartTypes'
      BY <1>0, <1>1, <1>2, <2>1 DEF StartTypes
    <2>3. BeforeDriver(k)' /\ x.kind \in {"disc", "pbp", "iso"}
      <3>1. left' = S!BootList(k, x.kind)
        BY <1>2, <2>1
      <3> QED
        BY <3>1, Listed
    <2>4. MemoryWanted'
      BY <1>0, <1>1 DEF MemoryWanted, XmbRuns
    <2>5. OwnDrivers(k)'
      <3> SUFFICES ASSUME blind = FALSE, x.kind \in {"iso", "disc"}, x.image \notin Long
                   PROVE  /\ sumdfile' = x.image
                          /\ IF leftover' = TRUE THEN List' = 0
                             ELSE bootfile' = List'
        BY <1>0, <1>2, <2>1 DEF OwnDrivers
      <3>1. sumdfile' = x.image
        BY <1>0 DEF S!Cut
      <3>2. vsh = sys
        BY <1>1 DEF XmbRuns
      <3>3. List' = IF x.kind = "iso" /\ sys = "march33" THEN 1
                    ELSE IF x.kind = "iso" /\ sys = "np9660" THEN 2 ELSE 0
        BY <1>0, <2>1 DEF List
      <3>4. S!Chosen(x) => bootfile' = List' /\ leftover' = FALSE
        BY <1>0, <2>1, <3>2, <3>3 DEF S!Chosen, S!Index
      <3>5. ~S!Chosen(x) => List' = 0 /\ (leftover' = FALSE => bootfile' = 0)
        BY <1>0, <1>1, <2>1, <3>2, <3>3 DEF S!Chosen, XmbRuns, StartTypes
      <3> QED
        BY <2>1, <3>1, <3>4, <3>5
    <2>6. Booting(k)' /\ exec'.kind # "xmb"
      BY <2>1, <2>3, <2>4 DEF Booting
    <2> QED
      BY <1>2, <2>1, <2>2, <2>5, <2>6 DEF StartInv
  <1> QED
    BY <1>3, <1>4


\* The menu changes the mode of a disc
LEMMA MenuChanges ==
  ASSUME StartInv, NEW mode \in S!Modes, NEW saved \in BOOLEAN, S!ExitVSHMenu(mode, saved)
  PROVE  StartInv'
  <1>0. /\ spc = "xmb" /\ vsh' = mode /\ sys' = mode
        /\ config' = IF saved THEN mode ELSE config
        /\ UNCHANGED <<spc, bootfile, sumdfile, ram2, exec, umd, isofs, hooked, wanted,
                       leftover, blind, carried>>
    BY DEF S!ExitVSHMenu
  <1>1. StartTypes'
    BY <1>0 DEF StartInv, StartTypes
  <1>2. XmbRuns'
    BY <1>0 DEF StartInv, XmbRuns
  <1> QED
    BY <1>0, <1>1, <1>2 DEF StartInv

\* A title starts another one, or itself
LEMMA TitleRestarts ==
  ASSUME StartInv, NEW x \in S!IsoGames \cup S!Homebrew \cup {S!Disc}, NEW asks \in {0, 32},
         S!LoadExec(x, asks)
  PROVE  StartInv'
  <1>0. /\ spc = "game"
        /\ exec.kind = "pbp" => x.kind = "pbp"
        /\ exec.kind # "pbp" => x = exec /\ asks = 0
        /\ ram2' = IF asks = 0 THEN ram2 ELSE asks
        /\ wanted' = asks
        /\ carried' \in BOOLEAN /\ (carried' = TRUE <=> asks = 0 /\ ram2 # 0)
        /\ spc' = "boot" /\ exec' = x /\ left' = S!BootList(bootfile, x.kind)
        /\ umd' = "none" /\ isofs' = "none" /\ hooked' = FALSE
        /\ leftover' \in BOOLEAN /\ (leftover' = TRUE <=> leftover = TRUE /\ bootfile # 0)
        /\ UNCHANGED <<config, vsh, sys, bootfile, sumdfile, blind>>
    BY DEF S!LoadExec, S!Reboot, StartInv, StartTypes
  <1>1. StartTypes
    BY DEF StartInv
  <1>2. PICK k \in {0, 1, 2} : bootfile = k
    BY <1>1 DEF StartTypes
  <1>3. PICK n \in {0, 1, 2} : Runs(n) /\ OwnDrivers(n)
    BY <1>0 DEF StartInv
  <1>4. BeforeDriver(k)' /\ x.kind \in {"disc", "pbp", "iso"}
    <2>1. left' = S!BootList(k, x.kind)
      BY <1>0, <1>2
    <2> QED
      BY <2>1, Listed
  <1>5. StartTypes'
    <2>1. ram2' \in Nat /\ wanted' \in Nat
      BY <1>0, <1>1 DEF StartTypes
    <2>2. exec' \in {S!Xmb, S!Disc} \cup S!Homebrew \cup S!IsoGames
      BY <1>0
    <2> QED
      BY <1>0, <1>1, <2>1, <2>2 DEF StartTypes
  <1>6. MemoryWanted'
    BY <1>0, <1>1 DEF MemoryWanted, StartTypes
  <1>7. Booting(k)'
    BY <1>0, <1>4, <1>6 DEF Booting
  <1>8. OwnDrivers(k)'
    <2>1. CASE exec.kind = "pbp"
      BY <1>0, <2>1 DEF OwnDrivers
    <2>2. CASE exec.kind # "pbp"
      <3>1. x = exec /\ exec' = exec
        BY <1>0, <2>2
      <3>2. List' = List
        BY <1>0, <3>1 DEF List
      <3>3. leftover = TRUE \/ leftover = FALSE
        BY <1>1 DEF StartTypes
      <3> QED
        BY <1>0, <1>2, <1>3, <3>1, <3>2, <3>3 DEF OwnDrivers
    <2> QED
      BY <2>1, <2>2
  <1>9. exec'.kind # "xmb"
    BY <1>0, <1>4
  <1> QED
    BY <1>0, <1>5, <1>7, <1>8, <1>9 DEF StartInv

\* A title ends
LEMMA TitleEnds ==
  ASSUME StartInv, S!ExitGame
  PROVE  StartInv'
  <1>0. /\ carried' \in BOOLEAN /\ (carried' = TRUE <=> ram2 # 0) /\ wanted' = 0
        /\ spc' = "boot" /\ exec' = S!Xmb /\ left' = S!BootList(bootfile, S!Xmb.kind)
        /\ umd' = "none" /\ isofs' = "none" /\ hooked' = FALSE /\ leftover' = FALSE
        /\ UNCHANGED <<config, vsh, sys, bootfile, sumdfile, ram2, blind>>
    BY DEF S!ExitGame, S!Reboot
  <1>1. S!Xmb.kind = "xmb"
    BY DEF S!Xmb
  <1>2. XmbDriver'
    BY <1>0, <1>1 DEF S!BootList, XmbDriver
  <1>3. XmbBooting'
    BY <1>0, <1>2 DEF XmbBooting
  <1>4. StartTypes'
    BY <1>0 DEF StartInv, StartTypes
  <1>5. exec'.kind = "xmb"
    BY <1>0, <1>1
  <1> QED
    BY <1>0, <1>3, <1>4, <1>5 DEF StartInv

\* What is started from the XMB and from a title, with any of the settings and
\* any call that fails, keeps the invariant (vshctrl/main.c, sysmodpatches.c)
THEOREM SpecStartInv == S!Spec => []StartInv
  <1>1. StartInv /\ [S!Next]_(S!vars) => StartInv'
    <2> SUFFICES ASSUME StartInv, [S!Next]_(S!vars) PROVE StartInv'
      OBVIOUS
    <2>1. CASE S!Next
      <3>1. CASE \E x \in S!IsoGames \cup S!Homebrew \cup {S!Disc}, fails \in BOOLEAN :
                    S!LoadExecVSHCommon(x, fails)
        BY <3>1, Chooses
      <3>2. CASE \E mode \in S!Modes, saved \in BOOLEAN : S!ExitVSHMenu(mode, saved)
        BY <3>2, MenuChanges
      <3>3. CASE \E x \in S!IsoGames \cup S!Homebrew \cup {S!Disc}, asks \in {0, 32} :
                    S!LoadExec(x, asks)
        BY <3>3, TitleRestarts
      <3>4. CASE S!ExitGame
        BY <3>4, TitleEnds
      <3>5. CASE \/ \E m \in {"umd9660", "march33", "np9660"} : S!StartDriver(m)
                 \/ S!StartChkreg \/ S!PatchIsofsDriver
        BY <3>5, StartsFirst
      <3>6. CASE S!PatchInitLoadExecAndMediaSync
        BY <3>6, StartsMediasync
      <3>7. CASE \E fails \in BOOLEAN : S!OnImposeLoad(fails) \/ S!StartVshctrl(fails)
        BY <3>7, StartsImpose, StartsVshctrl
      <3> QED
        BY <2>1, <3>1, <3>2, <3>3, <3>4, <3>5, <3>6, <3>7 DEF S!Next
    <2>2. CASE UNCHANGED S!vars
      <3>1. /\ UNCHANGED <<spc, config, vsh, sys, bootfile, sumdfile, ram2, exec, left>>
            /\ UNCHANGED <<umd, isofs, hooked, given, wanted, leftover, blind, carried>>
        BY <2>2 DEF S!vars
      <3>2. StartTypes' /\ XmbBooting' = XmbBooting /\ XmbRuns' = XmbRuns
        BY <3>1 DEF StartInv, StartTypes, XmbBooting, XmbRuns,
                    XmbDriver, XmbIsofs, XmbChkreg, XmbMediasync, XmbImpose, XmbVshctrl
      <3>3. \A n \in {0, 1, 2} : /\ Booting(n)' = Booting(n) /\ Runs(n)' = Runs(n)
                                 /\ OwnDrivers(n)' = OwnDrivers(n)
        BY <3>1 DEF Booting, Runs, OwnDrivers, List, Patched, MemoryGiven, MemoryWanted,
                    LastIsofs, FirstIsofs, Imaged,
                    BeforeDriver, BeforeIsofs, BeforeMediasync, BeforeImpose
      <3> QED
        BY <3>1, <3>2, <3>3 DEF StartInv
    <2> QED
      BY <2>1, <2>2
  <1> QED
    BY StartInit, <1>1, PTL DEF S!Spec


LEMMA StartRight == StartInv => S!GameStarted
  <1> SUFFICES ASSUME StartInv PROVE S!GameStarted
    OBVIOUS
  <1>1. StartTypes
    BY DEF StartInv
  <1>2. NoFile \notin Images /\ Long \subseteq Images
    BY TitleAssumption DEF S!ImagesAssumption
  <1>3. S!ImageServed
    <2> SUFFICES ASSUME spc = "game", exec.kind \in {"iso", "disc"}, exec.image \notin Long,
                        leftover = FALSE, blind = FALSE
                 PROVE  S!Served = exec.image
      BY <1>1 DEF S!ImageServed, StartTypes
    <2>1. PICK n \in {0, 1, 2} : Runs(n) /\ OwnDrivers(n)
      BY DEF StartInv
    <2>2. sumdfile = exec.image /\ n = List
      BY <2>1 DEF OwnDrivers
    <2>3. hooked \in BOOLEAN /\ sys \in {"umd", "legacy", "march33", "np9660"}
      BY <1>1 DEF StartTypes, S!Modes
    <2>4. CASE sumdfile = NoFile
      <3>1. exec.kind = "disc" /\ n = 0
        BY <1>1, <1>2, <2>2, <2>4, TitleKinds DEF List
      <3> QED
        BY <2>1, <2>2, <2>3, <2>4, <3>1
        DEF Runs, Patched, LastIsofs, FirstIsofs, Imaged, Driver, S!Served
    <2>5. CASE sumdfile # NoFile
      <3>1. exec.kind = "iso"
        BY <1>1, <2>2, <2>5, TitleKinds
      <3> QED
        BY <2>1, <2>2, <2>3, <2>5, <3>1
        DEF Runs, Patched, LastIsofs, FirstIsofs, Imaged, Driver, List, S!Served
    <2> QED
      BY <2>4, <2>5
  <1>4. S!NothingLeft
    <2>1. CASE spc = "game" /\ exec.kind = "pbp"
      <3>1. PICK n \in {0, 1, 2} : Runs(n)
        BY <2>1 DEF StartInv
      <3> QED
        BY <1>1, <2>1, <3>1
        DEF Runs, Patched, LastIsofs, FirstIsofs, Imaged, Driver, StartTypes, S!NothingLeft
    <2>2. CASE spc = "xmb" /\ leftover = FALSE
      BY <2>2 DEF StartInv, XmbRuns, S!NothingLeft
    <2> QED
      BY <1>1, <2>1, <2>2 DEF S!NothingLeft, StartTypes
  <1>5. S!MemoryAsked
    <2> SUFFICES ASSUME spc = "game", exec.kind = "pbp", carried = FALSE
                 PROVE  given = IF wanted # 0 THEN wanted ELSE IF exec.large THEN S!Large ELSE 0
      BY <1>1 DEF S!MemoryAsked, StartTypes
    <2>1. PICK n \in {0, 1, 2} : Runs(n)
      BY DEF StartInv
    <2>2. exec.large \in BOOLEAN
      BY <1>1, TitleKinds
    <2> QED
      BY <2>1, <2>2 DEF Runs, MemoryGiven
  <1> QED
    BY <1>3, <1>4, <1>5 DEF S!GameStarted

\* A title runs with its image, its drivers and its memory, its drive tells it
\* what it does, and an old title has its keys and its icon (ImageServed,
\* NothingLeft, MemoryAsked, CallbackTold, OldTitleRight).
THEOREM SpecTitleStarted == AllSpec => []TitleStarted
  <1>1. AllInit => U!Init /\ O!Init /\ (part = "title" => S!Init)
    BY DEF AllInit
  <1>2. [AllNext]_allVars => [U!Next]_(U!vars)
    <2> SUFFICES ASSUME [AllNext]_allVars, ~(UNCHANGED U!vars) PROVE U!Next
      OBVIOUS
    <2>1. ~UNCHANGED driveVars
      BY DEF driveVars, U!vars
    <2>2. ~UNCHANGED allVars
      BY <2>1 DEF allVars
    <2> QED
      BY <2>1, <2>2 DEF AllNext
  <1>3. [AllNext]_allVars => [O!Next]_(O!vars)
    <2> SUFFICES ASSUME [AllNext]_allVars, ~(UNCHANGED O!vars) PROVE O!Next
      OBVIOUS
    <2>1. ~UNCHANGED oldVars
      BY DEF oldVars, O!vars
    <2>2. ~UNCHANGED allVars
      BY <2>1 DEF allVars
    <2> QED
      BY <2>1, <2>2 DEF AllNext
  <1>4. part = "title" /\ [AllNext]_allVars => (part = "title")' /\ [S!Next]_(S!vars)
    <2> SUFFICES ASSUME part = "title", [AllNext]_allVars
                 PROVE  part' = part /\ [S!Next]_(S!vars)
      OBVIOUS
    <2>1. CASE AllNext
      BY <2>1 DEF AllNext
    <2>2. CASE UNCHANGED allVars
      BY <2>2 DEF allVars, titleVars, S!vars
    <2> QED
      BY <2>1, <2>2
  <1>5. ~(part = "title") /\ [AllNext]_allVars => ~(part = "title")'
    BY DEF AllNext, allVars
  <1>6. DriveInv => U!CallbackTold
    BY DEF DriveInv, U!CallbackTold
  <1>7. OldInv => O!OldTitleRight
    BY DEF OldInv, OldTypes, OldKeys, O!OldTitleRight, O!KeysRight, O!None, O!Keys
  <1>8. DriveInv /\ OldInv /\ (StartInv \/ ~(part = "title")) => TitleStarted
    BY <1>6, <1>7, StartRight DEF TitleStarted
  <1> QED
    BY <1>1, <1>2, <1>3, <1>4, <1>5, <1>8, SpecDriveInv, SpecOldInv, SpecStartInv, PTL
    DEF AllSpec, U!Spec, O!Spec, S!Spec

-----------------------------------------------------------------------------
(* The handlers that see a module start (StartHandlers, the instance H).   *)

\* The handlers registered stand in a line: the driver of the flash comes before
\* the XMB or the loader of old titles, and dcman after all of them.
Line(h, who) ==
    \/ h = "systemctrl" /\ who = {"systemctrl"}
    \/ h = "flashemu" /\ who = {"systemctrl", "flashemu"} /\ previous["flashemu"] = "systemctrl"
    \/ h \in {"vshctrl", "popcorn"} /\ who = {"systemctrl", h} /\ previous[h] = "systemctrl"
    \/ /\ h \in {"vshctrl", "popcorn"} /\ who = {"systemctrl", "flashemu", h}
       /\ previous[h] = "flashemu" /\ previous["flashemu"] = "systemctrl"
DcmanLine(who) ==
    /\ "dcman" \in who
    /\ \E h \in H!Handlers \ {"dcman"} : previous["dcman"] = h /\ Line(h, who \ {"dcman"})
ChainInv ==
    /\ previous \in [H!Handlers -> H!Handlers \cup {NoFile}] /\ previous["systemctrl"] = NoFile
    /\ stmod_handler \in H!Handlers
    /\ returned = <<>> =>
          Line(stmod_handler, H!Registered) \/ (stmod_handler = "dcman" /\ DcmanLine(H!Registered))
    /\ returned # <<>> =>
          \E s \in H!Handlers \ {"dcman"} :
             /\ returned = <<stmod_handler, s>> /\ Line(s, H!Registered)
             /\ stmod_handler \notin H!Registered
             /\ stmod_handler = "flashemu" => s = "systemctrl"
             /\ stmod_handler \in {"vshctrl", "popcorn"} => s \in {"systemctrl", "flashemu"}

\* The start thread that was made last is the only one, and it is for the module
\* that was noted; who was to see a module has seen it.
HookTypes ==
    /\ thread \in [Callers -> [kind : {"start", "stop", "runs", NoFile},
                               module : Modules \cup {NoFile}]]
    /\ start_thread \in Callers \cup {NoFile} /\ last_module \in Modules \cup {NoFile}
    /\ start_thread # NoFile => last_module \in Modules
    /\ seen \subseteq H!Handlers \X Modules /\ due \in [Modules -> SUBSET H!Handlers]
    /\ misled \in BOOLEAN /\ overlapped \in BOOLEAN /\ abandoned \in BOOLEAN /\ cut \in BOOLEAN
StartNoted ==
    /\ \A t \in Callers : thread[t].kind = "start" =>
          start_thread = t /\ last_module = thread[t].module
          /\ last_module \in Modules /\ due[last_module] = {}
    /\ start_thread # NoFile => thread[start_thread].kind = "start"
WhoSaw(m) == {h \in H!Handlers : <<h, m>> \in seen}
Seen ==
    /\ \A m \in Modules : due[m] = {} => WhoSaw(m) = {}
    /\ "dcman" \in due[Formatter] => <<"flashemu", Formatter>> \notin seen
    /\ cut = FALSE =>
         /\ misled = FALSE
         /\ \A m \in Modules :
              WhoSaw(m) = IF m = Formatter /\ "dcman" \in due[m] THEN {"dcman"} ELSE due[m]
HookInv ==
    /\ ChainInv /\ HookTypes
    /\ overlapped = FALSE /\ abandoned = FALSE => StartNoted /\ Seen

LEMMA HookInit == H!Init => HookInv
  <1> SUFFICES ASSUME H!Init PROVE HookInv
    OBVIOUS
  <1>1. NoFile \notin Modules \cup Callers \cup H!Handlers \cup {"start", "stop", "runs"}
    BY TitleAssumption DEF H!FormatterAssumption
  <1>2. H!Registered = {"systemctrl"}
    BY <1>1 DEF H!Init, H!Registered, H!Handlers
  <1>3. ChainInv
    BY <1>2 DEF H!Init, ChainInv, Line, H!Handlers
  <1>4. HookTypes
    BY DEF H!Init, HookTypes, H!Gone
  <1>5. StartNoted
    BY <1>1 DEF H!Init, StartNoted, H!Gone
  <1>6. Formatter \in Modules
    BY TitleAssumption DEF H!FormatterAssumption
  <1>7. Seen
    BY <1>6 DEF H!Init, Seen, WhoSaw
  <1> QED
    BY <1>3, <1>4, <1>5, <1>7 DEF HookInv

\* Who is called when a module starts
LEMMA Reached ==
  ASSUME NEW m, NEW who \in SUBSET H!Handlers, stmod_handler \in who,
         \A g \in who : H!Calls(g, m) \subseteq who,
         \A P \in SUBSET H!Handlers :
            stmod_handler \in P /\ (\A g \in P : H!Calls(g, m) \subseteq P) => who \subseteq P
  PROVE  H!Met(m) = who
  BY DEF H!Met

LEMMA LineReached ==
  ASSUME ChainInv, NEW m, NEW h \in H!Handlers, NEW who, Line(h, who)
  PROVE  /\ h \in who /\ who \subseteq H!Handlers \ {"dcman"} /\ "systemctrl" \in who
         /\ \A g \in who : H!Calls(g, m) \subseteq who
         /\ \A P \in SUBSET H!Handlers :
               h \in P /\ (\A g \in P : H!Calls(g, m) \subseteq P) => who \subseteq P
  <1>1. "systemctrl" \in H!Handlers /\ "flashemu" \in H!Handlers
    BY DEF H!Handlers
  <1>0. NoFile \notin H!Handlers
    BY TitleAssumption DEF H!FormatterAssumption
  <1>2. /\ \A g \in H!Handlers \ {"dcman"} : H!Calls(g, m) = {previous[g]} \cap H!Handlers
        /\ H!Calls("systemctrl", m) = {}
    BY <1>0 DEF H!Calls, ChainInv
  <1>3. CASE h = "systemctrl" /\ who = {"systemctrl"}
    BY <1>1, <1>2, <1>3
  <1>4. CASE /\ h = "flashemu" /\ who = {"systemctrl", "flashemu"}
             /\ previous["flashemu"] = "systemctrl"
    BY <1>1, <1>2, <1>4
  <1>5. CASE h \in {"vshctrl", "popcorn"} /\ who = {"systemctrl", h} /\ previous[h] = "systemctrl"
    BY <1>1, <1>2, <1>5
  <1>6. CASE /\ h \in {"vshctrl", "popcorn"} /\ who = {"systemctrl", "flashemu", h}
             /\ previous[h] = "flashemu" /\ previous["flashemu"] = "systemctrl"
    BY <1>1, <1>2, <1>6
  <1> QED
    BY <1>3, <1>4, <1>5, <1>6 DEF Line

\* All that are registered, but dcman keeps the formatter to itself
LEMMA AllMet ==
  ASSUME ChainInv, returned = <<>>, NEW m
  PROVE  /\ H!Registered \subseteq H!Handlers /\ H!Registered # {}
         /\ ~(m = Formatter /\ "dcman" \in H!Registered) => H!Met(m) = H!Registered
         /\ m = Formatter /\ "dcman" \in H!Registered => H!Met(m) = {"dcman"}
  <1> DEFINE R == H!Registered
  <1>0. R \subseteq H!Handlers /\ stmod_handler \in H!Handlers
    BY DEF H!Registered, ChainInv
  <1> HIDE DEF R
  <1>1. CASE Line(stmod_handler, R)
    <2>1. /\ stmod_handler \in R /\ R \subseteq H!Handlers \ {"dcman"} /\ "systemctrl" \in R
          /\ \A g \in R : H!Calls(g, m) \subseteq R
          /\ \A P \in SUBSET H!Handlers :
                stmod_handler \in P /\ (\A g \in P : H!Calls(g, m) \subseteq P) => R \subseteq P
      BY <1>0, <1>1, LineReached
    <2>2. H!Met(m) = R
      BY <1>0, <2>1, Reached
    <2> QED
      BY <1>0, <2>1, <2>2 DEF R
  <1>2. CASE stmod_handler = "dcman" /\ DcmanLine(R)
    <2>1. PICK h \in H!Handlers \ {"dcman"} : previous["dcman"] = h /\ Line(h, R \ {"dcman"})
      BY <1>2 DEF DcmanLine
    <2> DEFINE Q == R \ {"dcman"}
    <2>2. Line(h, Q)
      BY <2>1
    <2> HIDE DEF Q
    <2>3. /\ h \in Q /\ Q \subseteq H!Handlers \ {"dcman"} /\ "systemctrl" \in Q
          /\ \A g \in Q : H!Calls(g, m) \subseteq Q
          /\ \A P \in SUBSET H!Handlers :
                h \in P /\ (\A g \in P : H!Calls(g, m) \subseteq P) => Q \subseteq P
      BY <2>1, <2>2, LineReached
    <2>4. R = Q \cup {"dcman"} /\ "dcman" \in R /\ "dcman" \in H!Handlers
      BY <1>2 DEF DcmanLine, Q, H!Handlers
    <2>5. CASE m = Formatter
      <3>1. H!Calls("dcman", m) = {}
        BY <2>5 DEF H!Calls
      <3>2. H!Met(m) = {"dcman"}
        BY <1>2, <2>4, <3>1 DEF H!Met
      <3> QED
        BY <1>0, <2>4, <2>5, <3>2 DEF R
    <2>6. CASE m # Formatter
      <3>1. H!Calls("dcman", m) = {h}
        BY <2>1, <2>6 DEF H!Calls
      <3>2. \A g \in R : H!Calls(g, m) \subseteq R
        BY <2>3, <2>4, <3>1
      <3>3. \A P \in SUBSET H!Handlers :
               stmod_handler \in P /\ (\A g \in P : H!Calls(g, m) \subseteq P) => R \subseteq P
        BY <1>2, <2>3, <2>4, <3>1
      <3>4. H!Met(m) = R
        BY <1>0, <1>2, <2>4, <3>2, <3>3, Reached
      <3> QED
        BY <1>0, <2>4, <2>6, <3>4 DEF R
    <2> QED
      BY <2>5, <2>6
  <1> QED
    BY <1>1, <1>2 DEF ChainInv, R

\* A handler takes the place of the last, and then knows whom it replaced.
LEMMA Registers ==
  ASSUME HookInv, (\E h \in H!Handlers : H!SetStartModuleHandler(h)) \/ H!SetPrevious
  PROVE  HookInv'
  <1>0. NoFile \notin H!Handlers
    BY TitleAssumption DEF H!FormatterAssumption
  <1>1. UNCHANGED <<thread, start_thread, last_module, seen, due,
                    misled, overlapped, abandoned, cut>>
    BY DEF H!SetStartModuleHandler, H!SetPrevious, H!threadVars
  <1>2. ChainInv'
    <2>1. CASE \E h \in H!Handlers : H!SetStartModuleHandler(h)
      <3>1. PICK h \in H!Handlers :
               /\ returned = <<>> /\ h \notin H!Registered
               /\ h = "flashemu" => stmod_handler = "systemctrl"
               /\ h \in {"vshctrl", "popcorn"} => stmod_handler \in {"systemctrl", "flashemu"}
               /\ stmod_handler' = h /\ returned' = <<h, stmod_handler>> /\ previous' = previous
        BY <2>1 DEF H!SetStartModuleHandler
      <3>2. H!Registered' = H!Registered
        BY <3>1 DEF H!Registered
      <3>3. h # "systemctrl"
        BY <3>1 DEF H!Registered, H!Handlers
      <3>4. stmod_handler # "dcman"
        <4>1. SUFFICES ASSUME stmod_handler = "dcman" PROVE FALSE
          OBVIOUS
        <4>2. h = "dcman"
          BY <3>1, <3>3, <4>1 DEF H!Handlers
        <4>3. ~Line(stmod_handler, H!Registered)
          BY <4>1 DEF Line
        <4>4. "dcman" \in H!Registered
          BY <3>1, <4>3 DEF HookInv, ChainInv, DcmanLine
        <4> QED
          BY <3>1, <4>2, <4>4
      <3>5. Line(stmod_handler, H!Registered) /\ stmod_handler \in H!Handlers \ {"dcman"}
        BY <3>1, <3>4 DEF HookInv, ChainInv
      <3> DEFINE s == stmod_handler
                 R == H!Registered
      <3>6. R' = R
        BY <3>2
      <3>7. \A g, who : Line(g, who)' <=> Line(g, who)
        BY <3>1 DEF Line
      <3>8. PICK g \in H!Handlers \ {"dcman"} : g = stmod_handler
        BY <3>5
      <3>9. Line(g, R)
        BY <3>5, <3>8
      <3> HIDE DEF R
      <3>10. PICK P : P = R
        OBVIOUS
      <3>11. Line(g, P)' /\ R' = P
        BY <3>6, <3>7, <3>9, <3>10
      <3>12. Line(g, H!Registered)'
        BY <3>11 DEF R
      <3> QED
        BY <3>1, <3>2, <3>8, <3>12 DEF HookInv, ChainInv
    <2>2. CASE H!SetPrevious
      <3>1. /\ returned # <<>> /\ previous' = [previous EXCEPT ![returned[1]] = returned[2]]
            /\ returned' = <<>> /\ stmod_handler' = stmod_handler
        BY <2>2 DEF H!SetPrevious
      <3>2. PICK s \in H!Handlers \ {"dcman"} :
               /\ returned = <<stmod_handler, s>> /\ Line(s, H!Registered)
               /\ stmod_handler \notin H!Registered
               /\ stmod_handler = "flashemu" => s = "systemctrl"
               /\ stmod_handler \in {"vshctrl", "popcorn"} => s \in {"systemctrl", "flashemu"}
        BY <3>1 DEF HookInv, ChainInv
      <3>3. PICK h \in H!Handlers : h = stmod_handler
        BY DEF HookInv, ChainInv
      <3>4. PICK R : R = H!Registered
        OBVIOUS
      <3>5. /\ previous \in [H!Handlers -> H!Handlers \cup {NoFile}]
            /\ previous' = [previous EXCEPT ![h] = s]
        BY <3>1, <3>2, <3>3 DEF HookInv, ChainInv
      <3>6. previous'[h] = s /\ \A g \in H!Handlers \ {h} : previous'[g] = previous[g]
        BY <3>5
      <3>7. H!Registered' = R \cup {h}
        BY <1>0, <3>2, <3>4, <3>6 DEF H!Registered
      <3>8. h \notin R /\ h # "systemctrl" /\ R \subseteq H!Handlers
        BY <3>2, <3>3, <3>4 DEF H!Registered, H!Handlers
      <3>9. Line(s, R)
        BY <3>2, <3>4
      <3>10. CASE h = "flashemu"
        <4>1. R = {"systemctrl"} /\ s = "systemctrl"
          BY <3>2, <3>3, <3>9, <3>10 DEF Line
        <4>2. Line(h, R \cup {h})'
          BY <3>6, <3>10, <4>1 DEF Line
        <4> QED
          BY <3>1, <3>3, <3>5, <3>6, <3>7, <3>8, <4>2 DEF HookInv, ChainInv, H!Handlers
      <3>11. CASE h \in {"vshctrl", "popcorn"}
        <4>1. \/ s = "systemctrl" /\ R = {"systemctrl"}
              \/ /\ s = "flashemu" /\ R = {"systemctrl", "flashemu"}
                 /\ previous["flashemu"] = "systemctrl"
          BY <3>2, <3>3, <3>9, <3>11 DEF Line
        <4>2. \/ R \cup {h} = {"systemctrl", h} /\ previous'[h] = "systemctrl"
              \/ /\ R \cup {h} = {"systemctrl", "flashemu", h} /\ previous'[h] = "flashemu"
                 /\ previous'["flashemu"] = "systemctrl"
          BY <3>6, <3>11, <4>1 DEF H!Handlers
        <4>3. Line(h, R \cup {h})'
          BY <3>11, <4>2 DEF Line
        <4> QED
          BY <3>1, <3>3, <3>5, <3>6, <3>7, <3>8, <4>3 DEF HookInv, ChainInv, H!Handlers
      <3>12. CASE h = "dcman"
        <4>1. (R \cup {h}) \ {"dcman"} = R
          BY <3>8, <3>12
        <4>2. Line(s, R)'
          <5>1. \A g \in R : previous'[g] = previous[g]
            BY <3>6, <3>8
          <5>2. CASE s = "systemctrl"
            BY <3>9, <5>2 DEF Line
          <5>3. CASE s = "flashemu"
            BY <3>9, <5>1, <5>3 DEF Line
          <5>4. CASE s \in {"vshctrl", "popcorn"}
            BY <3>9, <5>1, <5>4 DEF Line
          <5> QED
            BY <3>2, <5>2, <5>3, <5>4 DEF H!Handlers
        <4>3. DcmanLine(R \cup {h})'
          BY <3>2, <3>6, <3>12, <4>1, <4>2 DEF DcmanLine
        <4> QED
          BY <3>1, <3>3, <3>5, <3>6, <3>7, <3>8, <3>12, <4>3 DEF HookInv, ChainInv, H!Handlers
      <3> QED
        BY <3>8, <3>10, <3>11, <3>12 DEF H!Handlers
    <2> QED
      BY <2>1, <2>2
  <1> QED
    BY <1>1, <1>2 DEF HookInv, HookTypes, StartNoted, Seen, WhoSaw

\* The threads that the kernel makes, deletes and ends
LEMMA HandlerThreads ==
  ASSUME HookInv, NEW t \in Callers,
         \/ \E m \in Modules : H!CreateStartThread(m, t) \/ H!CreateStopThread(m, t)
         \/ H!DeleteThread(t) \/ H!ExitThread(t)
  PROVE  HookInv'
  <1>0. NoFile \notin Modules \cup Callers \cup H!Handlers \cup {"start", "stop", "runs"}
    BY TitleAssumption DEF H!FormatterAssumption
  <1>1. UNCHANGED <<stmod_handler, previous, returned, seen, due, misled, cut>>
    BY DEF H!CreateStartThread, H!CreateStopThread, H!DeleteThread, H!ExitThread
  <1>2. ChainInv' /\ (Seen => Seen')
    <2>1. H!Registered' = H!Registered
      BY <1>1 DEF H!Registered
    <2>2. \A h, who : /\ Line(h, who)' <=> Line(h, who)
                     /\ DcmanLine(who)' <=> DcmanLine(who)
      BY <1>1 DEF Line, DcmanLine
    <2>3. ChainInv'
      BY <1>1, <2>1 DEF HookInv, ChainInv, Line, DcmanLine, H!Registered
    <2> QED
      BY <1>1, <2>3 DEF Seen, WhoSaw
  <1>3. CASE \E m \in Modules : H!CreateStartThread(m, t)
    <2>1. PICK m \in Modules :
             /\ due[m] = {} /\ thread[t] = H!Gone
             /\ thread' = [thread EXCEPT ![t] = [kind |-> "start", module |-> m]]
             /\ start_thread' = t /\ last_module' = m /\ abandoned' = abandoned
             /\ overlapped' \in BOOLEAN
             /\ overlapped' = TRUE <=> overlapped = TRUE \/ start_thread # NoFile
      BY <1>3 DEF H!CreateStartThread, HookInv, HookTypes
    <2>2. /\ thread'[t] = [kind |-> "start", module |-> m]
          /\ \A u \in Callers \ {t} : thread'[u] = thread[u]
      BY <2>1 DEF HookInv, HookTypes
    <2>3. HookTypes'
      <3>1. [kind |-> "start", module |-> m] \in [kind : {"start", "stop", "runs", NoFile},
                                                 module : Modules \cup {NoFile}]
        OBVIOUS
      <3> QED
        BY <1>1, <2>1, <3>1 DEF HookInv, HookTypes
    <2>4. overlapped' = FALSE /\ abandoned' = FALSE => StartNoted'
      BY <1>0, <1>1, <2>1, <2>2 DEF HookInv, HookTypes, StartNoted
    <2>5. overlapped' = FALSE /\ abandoned' = FALSE => overlapped = FALSE /\ abandoned = FALSE
      BY <2>1 DEF HookInv, HookTypes
    <2> QED
      BY <1>2, <2>3, <2>4, <2>5 DEF HookInv
  <1>4. CASE \E m \in Modules : H!CreateStopThread(m, t)
    <2>1. PICK m \in Modules :
             /\ thread[t] = H!Gone
             /\ thread' = [thread EXCEPT ![t] = [kind |-> "stop", module |-> m]]
             /\ UNCHANGED <<start_thread, last_module, overlapped, abandoned>>
      BY <1>4 DEF H!CreateStopThread
    <2>2. /\ thread'[t] = [kind |-> "stop", module |-> m]
          /\ \A u \in Callers \ {t} : thread'[u] = thread[u]
      BY <2>1 DEF HookInv, HookTypes
    <2>3. HookTypes'
      <3>1. [kind |-> "stop", module |-> m] \in [kind : {"start", "stop", "runs", NoFile},
                                                module : Modules \cup {NoFile}]
        OBVIOUS
      <3> QED
        BY <1>1, <2>1, <3>1 DEF HookInv, HookTypes
    <2>4. StartNoted => StartNoted'
      BY <1>0, <1>1, <2>1, <2>2 DEF HookInv, HookTypes, StartNoted, H!Gone
    <2> QED
      BY <1>2, <2>1, <2>3, <2>4 DEF HookInv
  <1>5. CASE H!DeleteThread(t) \/ H!ExitThread(t)
    <2>1. /\ thread' = [thread EXCEPT ![t] = H!Gone]
          /\ UNCHANGED <<start_thread, last_module, overlapped>>
          /\ abandoned' \in BOOLEAN
          /\ abandoned' = FALSE => abandoned = FALSE /\ thread[t].kind # "start"
      BY <1>5 DEF H!DeleteThread, H!ExitThread, HookInv, HookTypes
    <2>2. thread'[t] = H!Gone /\ \A u \in Callers \ {t} : thread'[u] = thread[u]
      BY <2>1 DEF HookInv, HookTypes
    <2>3. HookTypes'
      <3>1. H!Gone \in [kind : {"start", "stop", "runs", NoFile}, module : Modules \cup {NoFile}]
        BY DEF H!Gone
      <3> QED
        BY <1>1, <2>1, <3>1 DEF HookInv, HookTypes
    <2>4. StartNoted /\ abandoned' = FALSE => StartNoted'
      BY <1>0, <1>1, <2>1, <2>2 DEF HookInv, HookTypes, StartNoted, H!Gone
    <2> QED
      BY <1>2, <2>1, <2>3, <2>4 DEF HookInv
  <1> QED
    BY <1>3, <1>4, <1>5

\* A thread starts, and if it is the one that was noted, its module is shown
LEMMA ThreadStarts ==
  ASSUME HookInv, NEW t \in Callers, H!StartThread(t)
  PROVE  HookInv'
  <1>0. NoFile \notin Modules \cup Callers \cup H!Handlers \cup {"start", "stop", "runs"}
    BY TitleAssumption DEF H!FormatterAssumption
  <1>1. /\ UNCHANGED <<stmod_handler, previous, returned, last_module, overlapped, abandoned>>
        /\ thread[t].kind \in {"start", "stop"}
        /\ thread' = [thread EXCEPT ![t].kind = "runs"]
        /\ start_thread' = IF t = start_thread THEN NoFile ELSE start_thread
        /\ seen' = IF t = start_thread
                   THEN seen \cup (H!Met(last_module) \X {last_module}) ELSE seen
        /\ misled' \in BOOLEAN
        /\ misled' = TRUE <=> misled = TRUE \/ (t = start_thread /\ thread[t].kind = "stop")
        /\ due' = IF thread[t].kind = "start"
                  THEN [due EXCEPT ![thread[t].module] = H!Registered] ELSE due
        /\ cut' \in BOOLEAN /\ (cut' = TRUE <=> cut = TRUE \/ returned # <<>>)
    BY DEF H!StartThread, HookInv, HookTypes
  <1>2. ChainInv'
    BY <1>1 DEF HookInv, ChainInv, Line, DcmanLine, H!Registered
  <1>3. /\ thread'[t].kind = "runs" /\ \A u \in Callers \ {t} : thread'[u] = thread[u]
        /\ thread' \in [Callers -> [kind : {"start", "stop", "runs", NoFile},
                                    module : Modules \cup {NoFile}]]
    BY <1>1 DEF HookInv, HookTypes
  <1>4. H!Registered \subseteq H!Handlers /\ H!Registered # {}
    BY DEF H!Registered, H!Handlers
  <1>5. HookTypes'
    <2>1. seen' \subseteq H!Handlers \X Modules
      <3>1. CASE t = start_thread
        <4>1. last_module \in Modules
          BY <1>0, <3>1 DEF HookInv, HookTypes
        <4>2. H!Met(last_module) \subseteq H!Handlers
          BY DEF H!Met
        <4> QED
          BY <1>1, <3>1, <4>1, <4>2 DEF HookInv, HookTypes
      <3>2. CASE t # start_thread
        BY <1>1, <3>2 DEF HookInv, HookTypes
      <3> QED
        BY <3>1, <3>2
    <2>2. due' \in [Modules -> SUBSET H!Handlers]
      BY <1>1, <1>4 DEF HookInv, HookTypes
    <2>3. /\ start_thread' \in Callers \cup {NoFile}
          /\ start_thread' # NoFile => last_module' \in Modules
      BY <1>1 DEF HookInv, HookTypes
    <2> QED
      BY <1>1, <1>3, <2>1, <2>2, <2>3 DEF HookInv, HookTypes
  <1>6. ASSUME overlapped = FALSE, abandoned = FALSE
        PROVE  StartNoted' /\ Seen'
    <2>0. StartNoted /\ Seen /\ HookTypes /\ ChainInv
      BY <1>6 DEF HookInv
    <2>1. CASE thread[t].kind = "stop"
      <3>1. t # start_thread
        BY <1>0, <2>0, <2>1 DEF StartNoted
      <3>2. /\ seen' = seen /\ due' = due
            /\ start_thread' = start_thread /\ last_module' = last_module
            /\ misled' = misled /\ (cut' = FALSE => cut = FALSE)
        BY <1>1, <2>0, <2>1, <3>1 DEF HookTypes
      <3>3. StartNoted'
        BY <1>0, <1>3, <2>0, <2>1, <3>1, <3>2 DEF StartNoted, HookTypes
      <3>4. Seen'
        BY <2>0, <3>2 DEF Seen, WhoSaw
      <3> QED
        BY <3>3, <3>4
    <2>2. CASE thread[t].kind = "start"
      <3>1. PICK m \in Modules : /\ m = last_module /\ m = thread[t].module
                                /\ t = start_thread /\ due[m] = {}
        BY <2>0, <2>2 DEF StartNoted
      <3>2. PICK R : R = H!Registered
        OBVIOUS
      <3>3. /\ seen' = seen \cup (H!Met(m) \X {m}) /\ due' = [due EXCEPT ![m] = R]
            /\ start_thread' = NoFile /\ misled' = misled
        BY <1>1, <2>0, <2>2, <3>1, <3>2 DEF HookTypes
      <3>4. StartNoted'
        BY <1>0, <1>3, <2>0, <3>1, <3>3 DEF StartNoted
      <3>5. /\ due'[m] = R /\ R # {} /\ R \subseteq H!Handlers
            /\ \A n \in Modules \ {m} : due'[n] = due[n]
        BY <1>4, <2>0, <3>2, <3>3 DEF HookTypes
      <3>6. /\ WhoSaw(m)' = H!Met(m)
            /\ \A n \in Modules \ {m} : WhoSaw(n)' = WhoSaw(n)
        <4>1. WhoSaw(m) = {} /\ H!Met(m) \subseteq H!Handlers
          BY <2>0, <3>1 DEF Seen, H!Met
        <4>2. \A h \in H!Handlers : <<h, m>> \notin seen
          BY <4>1 DEF WhoSaw
        <4>3. \A h \in H!Handlers : <<h, m>> \in seen' <=> h \in H!Met(m)
          BY <3>3, <4>2
        <4>4. \A n \in Modules \ {m}, h \in H!Handlers : <<h, n>> \in seen' <=> <<h, n>> \in seen
          BY <3>3
        <4> QED
          BY <4>1, <4>3, <4>4 DEF WhoSaw
      <3>7. "dcman" \in R => returned = <<>>
        <4>1. \A s \in H!Handlers \ {"dcman"} : Line(s, R) => "dcman" \notin R
          BY DEF Line
        <4> QED
          BY <2>0, <3>2, <4>1 DEF ChainInv
      <3>8. returned = <<>> =>
               /\ ~(m = Formatter /\ "dcman" \in R) => H!Met(m) = R
               /\ m = Formatter /\ "dcman" \in R => H!Met(m) = {"dcman"}
        BY <2>0, <3>2, AllMet
      <3>9. Formatter \in Modules
        BY TitleAssumption DEF H!FormatterAssumption
      <3>10. "dcman" \in due'[Formatter] => <<"flashemu", Formatter>> \notin seen'
        <4>1. CASE m = Formatter
          <5>1. "dcman" \in R => H!Met(m) = {"dcman"}
            BY <3>7, <3>8, <4>1
          <5>2. "dcman" \in R => "flashemu" \notin WhoSaw(m)'
            BY <3>6, <5>1
          <5> QED
            BY <3>5, <4>1, <5>2 DEF WhoSaw, H!Handlers
        <4>2. CASE m # Formatter
          BY <2>0, <3>3, <3>5, <3>9, <4>2 DEF Seen
        <4> QED
          BY <4>1, <4>2
      <3>11. cut' = FALSE =>
               /\ misled' = FALSE
               /\ \A n \in Modules :
                    WhoSaw(n)' = IF n = Formatter /\ "dcman" \in due'[n] THEN {"dcman"} ELSE due'[n]
        <4> SUFFICES ASSUME cut' = FALSE
                     PROVE  /\ misled' = FALSE
                            /\ \A n \in Modules :
                                 WhoSaw(n)' = IF n = Formatter /\ "dcman" \in due'[n]
                                              THEN {"dcman"} ELSE due'[n]
          OBVIOUS
        <4>1. cut = FALSE /\ returned = <<>>
          BY <1>1, <2>0 DEF HookTypes
        <4>2. WhoSaw(m)' = IF m = Formatter /\ "dcman" \in R THEN {"dcman"} ELSE R
          BY <3>6, <3>8, <4>1
        <4> QED
          BY <2>0, <3>3, <3>5, <3>6, <4>1, <4>2 DEF Seen
      <3>12. \A n \in Modules : due'[n] = {} => WhoSaw(n)' = {}
        BY <2>0, <3>5, <3>6 DEF Seen
      <3>13. Seen'
        BY <3>10, <3>11, <3>12 DEF Seen, WhoSaw
      <3> QED
        BY <3>4, <3>13
    <2> QED
      BY <1>1, <2>1, <2>2
  <1> QED
    BY <1>1, <1>2, <1>5, <1>6 DEF HookInv

\* However modules start and stop and handlers are registered, the invariant is
\* kept (sceKernelCreateThreadPatched, sctrlHENSetStartModuleHandler)
THEOREM SpecHookInv == H!Spec => []HookInv
  <1>1. HookInv /\ [H!Next]_(H!vars) => HookInv'
    <2> SUFFICES ASSUME HookInv, [H!Next]_(H!vars) PROVE HookInv'
      OBVIOUS
    <2>1. CASE H!Next
      BY <2>1, Registers, HandlerThreads, ThreadStarts DEF H!Next
    <2>2. CASE UNCHANGED H!vars
      BY <2>2 DEF H!vars, HookInv, ChainInv, Line, DcmanLine, H!Registered, HookTypes,
                  StartNoted, Seen, WhoSaw
    <2> QED
      BY <2>1, <2>2
  <1> QED
    BY HookInit, <1>1, PTL DEF H!Spec

LEMMA HooksServe == HookInv => H!HandlersCalled
  <1> SUFFICES ASSUME HookInv PROVE H!HandlersCalled
    OBVIOUS
  <1>1. H!SeenByAll
    BY DEF HookInv, HookTypes, Seen, WhoSaw, H!SeenByAll
  <1>2. H!FormatterKept
    BY DEF HookInv, HookTypes, Seen, H!FormatterKept
  <1> QED
    BY <1>1, <1>2 DEF H!HandlersCalled

-----------------------------------------------------------------------------
(* The checks of an executable (ExecFile, the instance E).                 *)

\* What a loader has found so far.  While no two have met in
\* PartitionCheckPatched the buffer is that of the one inside.
Inspecting == {"header", "elf", "attributes", "done"}
Checks == [apitype : Nat, kernel : BOOLEAN, decrypted : BOOLEAN, size : {0, 1}, info : {0, 1},
           attributes : {"user", "kernel", "vsh", "magic"}, elf : {"other", "none", "static"}]
ExecTypes ==
    /\ xpc \in [Loaders -> {"idle", "check", "probe", "header", "elf", "attributes", "done",
                             "refused"}]
    /\ \A t \in Loaders : xpc[t] # "idle" => /\ file[t] \in E!Files
                                             /\ check[t] \in Checks
                                             /\ file[t].static = FALSE => check[t].info = 1
    /\ DOMAIN check = Loaders /\ DOMAIN file = Loaders /\ DOMAIN pos = Loaders
    /\ buf \in [magic : {"pbp", "elf", "encrypted", NoFile}, static : BOOLEAN,
               base : Loaders \cup {NoFile}]
    /\ xoverlapped \in BOOLEAN /\ unread \in BOOLEAN
ExecPlaces ==
    \A t \in Loaders :
        /\ xpc[t] \notin {"elf", "attributes"} => pos[t] = E!Before
        /\ xpc[t] = "elf" => file[t].pbp = TRUE /\ file[t].whole = TRUE
        /\ xpc[t] = "attributes" => file[t].whole = TRUE
ExecAttributes ==
    \A t \in Loaders :
        /\ xpc[t] \in {"check", "probe"} /\ file[t].plain = TRUE /\ check[t].info = 1 =>
              check[t].attributes \in {"user", file[t].attributes}
        /\ xpc[t] \in Inspecting /\ file[t].plain = TRUE /\ file[t].sections = TRUE =>
              check[t].attributes = file[t].attributes
ExecBuffer ==
    xoverlapped = FALSE =>
        /\ \A t, u \in Loaders : E!Inside(t) /\ E!Inside(u) => t = u
        /\ \A t \in Loaders :
              /\ xpc[t] = "elf" => buf.magic = "pbp" /\ buf.base = t
              /\ xpc[t] = "attributes" =>
                    /\ file[t].plain = TRUE /\ buf.static = file[t].static
                    /\ pos[t] = <<IF file[t].pbp = TRUE THEN t ELSE NoFile, check[t].info>>
              /\ xpc[t] = "done" /\ file[t].plain = TRUE /\ file[t].whole = TRUE
                    /\ unread = FALSE =>
                    (check[t].kernel <=> file[t].attributes = "kernel")
ExecInv == ExecTypes /\ ExecPlaces /\ ExecAttributes /\ ExecBuffer

LEMMA FileKinds ==
  ASSUME NEW f \in E!Files
  PROVE  /\ f.pbp \in BOOLEAN /\ f.plain \in BOOLEAN /\ f.static \in BOOLEAN
         /\ f.sections \in BOOLEAN /\ f.whole \in BOOLEAN
         /\ f.attributes \in {"user", "kernel", "vsh"}
         /\ f.static = TRUE => f.plain = TRUE /\ f.attributes = "user"
         /\ f.static = FALSE => f.sections = TRUE
  BY DEF E!Files

LEMMA ExecInit == E!Init => ExecInv
  <1> SUFFICES ASSUME E!Init PROVE ExecInv
    OBVIOUS
  <1>1. ExecTypes
    BY DEF E!Init, ExecTypes
  <1>2. ExecPlaces /\ ExecAttributes /\ ExecBuffer
    BY DEF E!Init, ExecPlaces, ExecAttributes, ExecBuffer, E!Inside, Inspecting
  <1> QED
    BY <1>1, <1>2 DEF ExecInv

\* The kernel fills the record of a file
LEMMA Loads ==
  ASSUME ExecInv, NEW t \in Loaders, E!Load(t)
  PROVE  ExecInv'
  <1>1. PICK f \in E!Files : \E c \in E!Records(f) :
           file' = [file EXCEPT ![t] = f] /\ check' = [check EXCEPT ![t] = c]
    BY TitleAssumption DEF E!Load, E!TitlesAssumption
  <1>2. PICK c \in E!Records(f) :
           file' = [file EXCEPT ![t] = f] /\ check' = [check EXCEPT ![t] = c]
    BY <1>1
  <1>3. /\ c \in Checks /\ (f.static = FALSE => c.info = 1)
        /\ c.attributes \in {"user", f.attributes}
    BY FileKinds, TitleAssumption DEF E!Records, E!TitlesAssumption, Checks
  <1>4. /\ xpc[t] = "idle" /\ xpc' = [xpc EXCEPT ![t] = "check"]
        /\ UNCHANGED <<pos, buf, xoverlapped, unread>>
    BY DEF E!Load, E!At
  <1>5. /\ file'[t] = f /\ check'[t] = c /\ xpc'[t] = "check"
        /\ \A u \in Loaders \ {t} : file'[u] = file[u] /\ check'[u] = check[u] /\ xpc'[u] = xpc[u]
    BY <1>2, <1>4 DEF ExecInv, ExecTypes
  <1>6. ExecTypes'
    <2>1. /\ DOMAIN file' = Loaders /\ DOMAIN check' = Loaders /\ DOMAIN pos' = Loaders
          /\ xpc' \in [Loaders -> {"idle", "check", "probe", "header", "elf", "attributes",
                                   "done", "refused"}]
      BY <1>2, <1>4 DEF ExecInv, ExecTypes
    <2> QED
      BY <1>3, <1>4, <1>5, <2>1 DEF ExecInv, ExecTypes
  <1>7. ExecPlaces'
    BY <1>4, <1>5 DEF ExecInv, ExecPlaces
  <1>8. ExecAttributes'
    BY <1>3, <1>5 DEF ExecInv, ExecAttributes, Inspecting
  <1>9. ExecBuffer'
    BY <1>4, <1>5 DEF ExecInv, ExecBuffer, E!Inside
  <1> QED
    BY <1>6, <1>7, <1>8, <1>9 DEF ExecInv

\* A step of one loader that leaves the file and the place, and is not inside
LEMMA Probes ==
  ASSUME ExecInv, NEW t \in Loaders,
         E!ProbeExec(t) \/ \E res \in {0, -1} : E!CheckExecFile(t, res)
  PROVE  ExecInv'
  <1> DEFINE f == file[t]
             c == check[t]
  <1>0. UNCHANGED <<file, pos, buf, xoverlapped, unread>>
    BY DEF E!ProbeExec, E!CheckExecFile
  <1>1. /\ xpc[t] \in {"check", "probe"}
        /\ f \in E!Files /\ c \in Checks /\ (f.static = FALSE => c.info = 1)
        /\ f.plain = TRUE /\ c.info = 1 => c.attributes \in {"user", f.attributes}
    BY DEF E!ProbeExec, E!CheckExecFile, E!At, ExecInv, ExecTypes, ExecAttributes
  <1>2. /\ f.pbp \in BOOLEAN /\ f.plain \in BOOLEAN /\ f.static \in BOOLEAN
        /\ f.sections \in BOOLEAN /\ f.whole \in BOOLEAN
        /\ f.attributes \in {"user", "kernel", "vsh"}
        /\ f.static = TRUE => f.plain = TRUE /\ f.attributes = "user"
        /\ f.static = FALSE => f.sections = TRUE
    BY <1>1, FileKinds
  <1> HIDE DEF f, c
  <1>3. PICK s \in {"probe", "refused", "header"}, d \in Checks :
           /\ xpc' = [xpc EXCEPT ![t] = s] /\ check' = [check EXCEPT ![t] = d]
           /\ f.static = FALSE => d.info = 1
           /\ s = "probe" /\ f.plain = TRUE /\ d.info = 1 => d.attributes \in {"user", f.attributes}
           /\ s = "header" /\ f.plain = TRUE /\ f.sections = TRUE => d.attributes = f.attributes
    <2>1. CASE E!ProbeExec(t)
      <3> DEFINE found == c.info = 0 /\ f.static /\ f.sections
                 a == IF found THEN "user"
                      ELSE IF E!AtInfo(f, c) # "user" THEN E!AtInfo(f, c) ELSE c.attributes
                 p == IF f.static /\ c.apitype \in 320 .. 324 THEN 288 ELSE c.apitype
                 n == IF found THEN 1 ELSE c.info
                 e == [c EXCEPT !.attributes = a, !.decrypted = TRUE, !.apitype = p, !.info = n]
                 d == IF ~f.plain THEN c ELSE e
      <3>1. xpc' = [xpc EXCEPT ![t] = "header"] /\ check' = [check EXCEPT ![t] = d]
        BY <2>1 DEF E!ProbeExec, E!At, f, c
      <3>a. a \in {"user", "kernel", "vsh", "magic"} /\ p \in Nat /\ n \in {0, 1}
        BY <1>1, <1>2 DEF Checks, E!AtInfo
      <3>2. d \in Checks
        <4> HIDE DEF a, p, n
        <4>1. e \in Checks
          BY <1>1, <3>a DEF Checks
        <4> QED
          BY <1>1, <4>1
      <3>3. /\ f.static = FALSE => d.info = 1
            /\ f.plain = TRUE /\ f.sections = TRUE => d.attributes = f.attributes
        BY <1>1, <1>2 DEF Checks, E!AtInfo
      <3> HIDE DEF d
      <3> QED
        BY <3>1, <3>2, <3>3
    <2>2. CASE \E res \in {0, -1} : E!CheckExecFile(t, res)
      <3>1. PICK res \in {0, -1} : E!CheckExecFile(t, res)
        BY <2>2
      <3>2. PICK r \in {E!PatchExec1(f, c), E!PatchExec3(f, c, res)} :
               /\ xpc' = [xpc EXCEPT ![t] = IF r[1] = 0 THEN "probe" ELSE "refused"]
               /\ check' = [check EXCEPT ![t] = r[2]]
        BY <3>1 DEF E!CheckExecFile, E!At, f, c
      <3>3. ASSUME NEW d \in {c, [E!PatchExec2(f, c) EXCEPT !.decrypted = TRUE, !.kernel = TRUE],
                              [c EXCEPT !.decrypted = TRUE], [c EXCEPT !.elf = "static"],
                              E!PatchExec2(f, c), [E!PatchExec2(f, c) EXCEPT !.kernel = TRUE]}
            PROVE  /\ d \in Checks /\ (f.static = FALSE => d.info = 1)
                   /\ f.plain = TRUE /\ d.info = 1 => d.attributes \in {"user", f.attributes}
        <4> DEFINE a == E!AtInfo(f, c)
        <4>1. a \in {"user", "kernel", "vsh", "magic"} /\ (c.info = 1 => a = f.attributes)
          BY <1>1, <1>2 DEF Checks, E!AtInfo
        <4> HIDE DEF a
        <4>2. E!PatchExec2(f, c) = [c EXCEPT !.attributes = a]
          BY DEF E!PatchExec2, a
        <4>3. CASE d \in {c, [c EXCEPT !.decrypted = TRUE], [c EXCEPT !.elf = "static"]}
          BY <1>1, <4>3 DEF Checks
        <4>4. CASE d = [[c EXCEPT !.attributes = a] EXCEPT !.decrypted = TRUE, !.kernel = TRUE]
          BY <1>1, <4>1, <4>4 DEF Checks
        <4>5. CASE d \in {[c EXCEPT !.attributes = a],
                          [[c EXCEPT !.attributes = a] EXCEPT !.kernel = TRUE]}
          BY <1>1, <4>1, <4>5 DEF Checks
        <4> QED
          BY <3>3, <4>2, <4>3, <4>4, <4>5
      <3>4. r[2] \in {c, [E!PatchExec2(f, c) EXCEPT !.decrypted = TRUE, !.kernel = TRUE],
                      [c EXCEPT !.decrypted = TRUE], [c EXCEPT !.elf = "static"],
                      E!PatchExec2(f, c), [E!PatchExec2(f, c) EXCEPT !.kernel = TRUE]}
        <4>1. CASE r = E!PatchExec1(f, c)
          BY <4>1 DEF E!PatchExec1
        <4>2. CASE r = E!PatchExec3(f, c, res)
          BY <4>2 DEF E!PatchExec3
        <4> QED
          BY <3>2, <4>1, <4>2
      <3>5. /\ r[2] \in Checks /\ (f.static = FALSE => r[2].info = 1)
            /\ f.plain = TRUE /\ r[2].info = 1 => r[2].attributes \in {"user", f.attributes}
        BY <3>3, <3>4
      <3> QED
        BY <3>2, <3>5
    <2> QED
      BY <2>1, <2>2
  <1>4. /\ check'[t] = d /\ xpc'[t] = s /\ file[t] = f
        /\ \A u \in Loaders \ {t} : check'[u] = check[u] /\ xpc'[u] = xpc[u]
    BY <1>3 DEF ExecInv, ExecTypes, f
  <1>5. ExecTypes'
    <2>1. /\ DOMAIN check' = Loaders
          /\ xpc' \in [Loaders -> {"idle", "check", "probe", "header", "elf", "attributes",
                                   "done", "refused"}]
      BY <1>3 DEF ExecInv, ExecTypes
    <2> QED
      BY <1>0, <1>1, <1>3, <1>4, <2>1 DEF ExecInv, ExecTypes
  <1>6. ExecPlaces'
    BY <1>0, <1>1, <1>4 DEF ExecInv, ExecPlaces
  <1>7. ExecAttributes'
    BY <1>0, <1>3, <1>4 DEF ExecInv, ExecAttributes, Inspecting
  <1>8. ExecBuffer'
    BY <1>0, <1>1, <1>4 DEF ExecInv, ExecBuffer, E!Inside
  <1> QED
    BY <1>5, <1>6, <1>7, <1>8 DEF ExecInv

\* PartitionCheckPatched, from the first read to the last
LEMMA ReadsHeader ==
  ASSUME ExecInv, NEW t \in Loaders, E!ReadHeader(t)
  PROVE  ExecInv'
  <1> DEFINE f == file[t]
             magic == IF f.pbp THEN "pbp" ELSE IF f.plain THEN "elf" ELSE "encrypted"
             s == IF ~f.whole \/ magic = "encrypted" THEN "done"
                  ELSE IF magic = "pbp" THEN "elf" ELSE "attributes"
             place == IF f.whole /\ magic = "elf" THEN <<NoFile, check[t].info>>
                      ELSE IF f.whole /\ magic = "pbp" THEN <<t, 0>> ELSE E!Before
  <1>1. /\ xpc[t] = "header" /\ xpc' = [xpc EXCEPT ![t] = s]
        /\ pos' = [pos EXCEPT ![t] = place]
        /\ UNCHANGED <<file, check, unread>>
        /\ buf' = IF ~f.whole THEN buf
                  ELSE [magic |-> magic, static |-> magic = "elf" /\ f.static,
                        base |-> IF f.pbp THEN t ELSE buf.base]
        /\ xoverlapped' \in BOOLEAN
        /\ xoverlapped' = FALSE => /\ xoverlapped = FALSE
                                   /\ \A u \in Loaders \ {t} : ~E!Inside(u)
    BY DEF E!ReadHeader, E!At, E!Back, E!Place, ExecInv, ExecTypes
  <1>2. f \in E!Files
    BY <1>1 DEF ExecInv, ExecTypes
  <1>3. /\ f.pbp \in BOOLEAN /\ f.plain \in BOOLEAN /\ f.static \in BOOLEAN /\ f.whole \in BOOLEAN
        /\ f.static = TRUE => f.plain = TRUE
    BY <1>2, FileKinds
  <1>4. /\ pos'[t] = place /\ xpc'[t] = s /\ DOMAIN pos' = Loaders
        /\ \A u \in Loaders \ {t} : pos'[u] = pos[u] /\ xpc'[u] = xpc[u]
        /\ xpc' \in [Loaders -> {"idle", "check", "probe", "header", "elf", "attributes",
                                 "done", "refused"}]
    BY <1>1 DEF ExecInv, ExecTypes
  <1>5. ExecTypes'
    <2>1. magic \in {"pbp", "elf", "encrypted"} /\ (magic = "elf" /\ f.static) \in BOOLEAN
      BY <1>3
    <2>2. buf' \in [magic : {"pbp", "elf", "encrypted", NoFile}, static : BOOLEAN,
                   base : Loaders \cup {NoFile}]
      BY <1>1, <1>3, <2>1 DEF ExecInv, ExecTypes
    <2> QED
      BY <1>1, <1>4, <2>2 DEF ExecInv, ExecTypes
  <1>6. ExecPlaces'
    BY <1>1, <1>3, <1>4 DEF ExecInv, ExecPlaces
  <1>7. ExecAttributes'
    BY <1>1, <1>4 DEF ExecInv, ExecAttributes, Inspecting
  <1>8. ExecBuffer'
    <2> SUFFICES ASSUME xoverlapped' = FALSE
                 PROVE  ExecBuffer'
      BY DEF ExecBuffer
    <2>1. xoverlapped = FALSE /\ \A u \in Loaders \ {t} : xpc[u] \notin {"elf", "attributes"}
      BY <1>1 DEF E!Inside
    <2>2. /\ s = "elf" => buf'.magic = "pbp" /\ buf'.base = t
          /\ s = "attributes" => /\ f.plain = TRUE /\ buf'.static = f.static
                                 /\ f.pbp = FALSE /\ place = <<NoFile, check[t].info>>
          /\ s = "done" => ~(f.plain = TRUE /\ f.whole = TRUE)
      BY <1>1, <1>3
    <2> HIDE DEF s, place, magic
    <2> QED
      BY <1>1, <1>3, <1>4, <2>1, <2>2 DEF ExecInv, ExecBuffer, E!Inside
  <1> QED
    BY <1>5, <1>6, <1>7, <1>8 DEF ExecInv

LEMMA ReadsElf ==
  ASSUME ExecInv, NEW t \in Loaders, NEW fails \in BOOLEAN, E!ReadElf(t, fails)
  PROVE  ExecInv'
  <1> DEFINE f == file[t]
             read == E!Overlaid(f, fails)
             c == IF read.magic = "elf" /\ ~read.static THEN [check[t] EXCEPT !.size = 1]
                  ELSE check[t]
             s == IF read.magic = "elf" THEN "attributes" ELSE "done"
             place == IF read.magic = "elf" THEN <<read.base, check[t].info>> ELSE E!Before
  <1>1. /\ xpc[t] = "elf" /\ xpc' = [xpc EXCEPT ![t] = s]
        /\ buf' = read /\ pos' = [pos EXCEPT ![t] = place]
        /\ unread' \in BOOLEAN /\ (unread' = TRUE <=> unread = TRUE \/ fails = TRUE)
        /\ UNCHANGED <<file, xoverlapped>>
    BY DEF E!ReadElf, E!At, E!Back, E!Place, ExecInv, ExecTypes
  <1>2. /\ check'[t] = c /\ DOMAIN check' = Loaders
        /\ \A u \in Loaders \ {t} : check'[u] = check[u]
    <2>1. \/ check' = check /\ c = check[t]
          \/ check' = [check EXCEPT ![t] = [check[t] EXCEPT !.size = 1]]
             /\ c = [check[t] EXCEPT !.size = 1]
      BY DEF E!ReadElf
    <2> HIDE DEF c
    <2> QED
      BY <2>1 DEF ExecInv, ExecTypes
  <1>3. f \in E!Files /\ check[t] \in Checks
    BY <1>1 DEF ExecInv, ExecTypes
  <1>4. f.plain \in BOOLEAN /\ f.static \in BOOLEAN
    BY <1>3, FileKinds
  <1>5. /\ read \in [magic : {"pbp", "elf", "encrypted", NoFile}, static : BOOLEAN,
                    base : Loaders \cup {NoFile}]
        /\ read.base = buf.base
        /\ fails = TRUE => read = buf
        /\ fails = FALSE => (read.magic = "elf" <=> f.plain = TRUE) /\ read.static = f.static
    <2> HIDE DEF f
    <2>1. buf \in [magic : {"pbp", "elf", "encrypted", NoFile}, static : BOOLEAN,
                  base : Loaders \cup {NoFile}]
      BY DEF ExecInv, ExecTypes
    <2>2. CASE fails = TRUE
      BY <2>1, <2>2 DEF E!Overlaid
    <2>3. CASE fails = FALSE
      BY <1>4, <2>1, <2>3 DEF E!Overlaid
    <2> QED
      BY <2>2, <2>3
  <1>6. c \in Checks /\ c.info = check[t].info /\ c.attributes = check[t].attributes
    <2> HIDE DEF read
    <2>1. [check[t] EXCEPT !.size = 1] \in Checks
      BY <1>3 DEF Checks
    <2> QED
      BY <1>3, <2>1 DEF Checks
  <1> HIDE DEF read, c
  <1>7. /\ pos'[t] = place /\ xpc'[t] = s /\ check'[t] = c
        /\ \A u \in Loaders \ {t} : pos'[u] = pos[u] /\ xpc'[u] = xpc[u] /\ check'[u] = check[u]
        /\ DOMAIN pos' = Loaders /\ DOMAIN check' = Loaders
        /\ xpc' \in [Loaders -> {"idle", "check", "probe", "header", "elf", "attributes",
                                 "done", "refused"}]
    BY <1>1, <1>2 DEF ExecInv, ExecTypes
  <1>8. ExecTypes'
    BY <1>1, <1>5, <1>6, <1>7 DEF ExecInv, ExecTypes
  <1>9. ExecPlaces'
    BY <1>1, <1>7 DEF ExecInv, ExecPlaces
  <1>10. ExecAttributes'
    BY <1>1, <1>6, <1>7 DEF ExecInv, ExecAttributes, Inspecting
  <1>11. ExecBuffer'
    <2> SUFFICES ASSUME xoverlapped = FALSE
                 PROVE  ExecBuffer'
      BY <1>1 DEF ExecBuffer
    <2>1. /\ \A u \in Loaders \ {t} : xpc[u] \notin {"elf", "attributes"}
          /\ buf.magic = "pbp" /\ buf.base = t
      BY <1>1 DEF ExecInv, ExecBuffer, E!Inside
    <2>2. /\ s = "attributes" => /\ f.plain = TRUE /\ read.static = f.static
                                 /\ place = <<t, c.info>> /\ f.pbp = TRUE
          /\ s = "done" => f.plain = FALSE \/ unread' = TRUE
          /\ s \in {"attributes", "done"}
      BY <1>1, <1>4, <1>5, <1>6, <2>1 DEF ExecInv, ExecPlaces
    <2> HIDE DEF s, place
    <2> QED
      BY <1>1, <1>7, <2>1, <2>2 DEF ExecInv, ExecBuffer, E!Inside
  <1> QED
    BY <1>8, <1>9, <1>10, <1>11 DEF ExecInv

LEMMA ReadsAttributes ==
  ASSUME ExecInv, NEW t \in Loaders, NEW fails \in BOOLEAN, NEW garbage \in {"user", "kernel"},
         E!ReadAttributes(t, fails, garbage)
  PROVE  ExecInv'
  <1> DEFINE f == file[t]
             own == pos[t] = <<IF f.pbp THEN t ELSE NoFile, 1>>
             what == IF fails \/ ~own THEN garbage ELSE f.attributes
             kernel == ~buf.static /\ what = "kernel"
             c == [check[t] EXCEPT !.kernel = kernel]
  <1>1. /\ xpc[t] = "attributes" /\ xpc' = [xpc EXCEPT ![t] = "done"]
        /\ pos' = [pos EXCEPT ![t] = E!Before] /\ check' = [check EXCEPT ![t].kernel = kernel]
        /\ unread' \in BOOLEAN /\ (unread' = TRUE <=> unread = TRUE \/ fails = TRUE)
        /\ UNCHANGED <<file, buf, xoverlapped>>
    BY DEF E!ReadAttributes, E!At, E!Back, E!Place, ExecInv, ExecTypes
  <1>2. check' = [check EXCEPT ![t] = c]
    BY <1>1
  <1>3. f \in E!Files /\ check[t] \in Checks /\ (f.static = FALSE => check[t].info = 1)
    BY <1>1 DEF ExecInv, ExecTypes
  <1>4. /\ f.pbp \in BOOLEAN /\ f.plain \in BOOLEAN /\ f.static \in BOOLEAN
        /\ f.static = TRUE => f.plain = TRUE /\ f.attributes = "user"
    BY <1>3, FileKinds
  <1>5. kernel \in BOOLEAN
    OBVIOUS
  <1>6. /\ c \in Checks /\ c.info = check[t].info
        /\ c.attributes = check[t].attributes /\ c.kernel = kernel
    <2> HIDE DEF kernel
    <2> QED
      BY <1>3, <1>5 DEF Checks
  <1>7. xoverlapped = FALSE /\ unread' = FALSE => (kernel <=> f.attributes = "kernel")
    <2> SUFFICES ASSUME xoverlapped = FALSE, fails = FALSE
                 PROVE  kernel <=> f.attributes = "kernel"
      BY <1>1
    <2>1. buf.static = f.static /\ pos[t] = <<IF f.pbp = TRUE THEN t ELSE NoFile, check[t].info>>
      BY <1>1 DEF ExecInv, ExecBuffer
    <2>2. CASE f.static = TRUE
      BY <1>4, <2>1, <2>2
    <2>3. CASE f.static = FALSE
      <3>1. own
        BY <1>3, <1>4, <2>1, <2>3
      <3> QED
        BY <2>1, <2>3, <3>1
    <2> QED
      BY <1>4, <2>2, <2>3
  <1> HIDE DEF kernel, c
  <1>8. /\ pos'[t] = E!Before /\ xpc'[t] = "done" /\ check'[t] = c
        /\ \A u \in Loaders \ {t} : pos'[u] = pos[u] /\ xpc'[u] = xpc[u] /\ check'[u] = check[u]
        /\ DOMAIN pos' = Loaders /\ DOMAIN check' = Loaders
        /\ xpc' \in [Loaders -> {"idle", "check", "probe", "header", "elf", "attributes",
                                 "done", "refused"}]
    BY <1>1, <1>2 DEF ExecInv, ExecTypes
  <1>9. ExecTypes'
    BY <1>1, <1>6, <1>8 DEF ExecInv, ExecTypes
  <1>10. ExecPlaces'
    BY <1>1, <1>8 DEF ExecInv, ExecPlaces
  <1>11. ExecAttributes'
    BY <1>1, <1>6, <1>8 DEF ExecInv, ExecAttributes, Inspecting
  <1>12. ExecBuffer'
    BY <1>1, <1>6, <1>7, <1>8 DEF ExecInv, ExecBuffer, E!Inside
  <1> QED
    BY <1>9, <1>10, <1>11, <1>12 DEF ExecInv

\* A loader is done with its file
LEMMA Closes ==
  ASSUME ExecInv, NEW t \in Loaders, E!Close(t)
  PROVE  ExecInv'
  <1>1. /\ xpc[t] \in {"done", "refused"} /\ xpc' = [xpc EXCEPT ![t] = "idle"]
        /\ file' = [file EXCEPT ![t] = NoFile] /\ check' = [check EXCEPT ![t] = NoFile]
        /\ UNCHANGED <<pos, buf>>
        /\ xoverlapped' \in BOOLEAN /\ (xoverlapped' = TRUE <=> xoverlapped = TRUE /\ ~E!Alone(t))
        /\ unread' \in BOOLEAN /\ (unread' = TRUE <=> unread = TRUE /\ ~E!Alone(t))
    BY DEF E!Close, E!At
  <1>2. /\ xpc'[t] = "idle" /\ DOMAIN file' = Loaders /\ DOMAIN check' = Loaders
        /\ \A u \in Loaders \ {t} : xpc'[u] = xpc[u] /\ file'[u] = file[u] /\ check'[u] = check[u]
        /\ xpc' \in [Loaders -> {"idle", "check", "probe", "header", "elf", "attributes",
                                 "done", "refused"}]
    BY <1>1 DEF ExecInv, ExecTypes
  <1>3. ExecTypes'
    BY <1>1, <1>2 DEF ExecInv, ExecTypes
  <1>4. ExecPlaces'
    BY <1>1, <1>2 DEF ExecInv, ExecPlaces
  <1>5. ExecAttributes'
    BY <1>1, <1>2 DEF ExecInv, ExecAttributes, Inspecting
  <1>6. ExecBuffer'
    <2>1. CASE E!Alone(t)
      BY <1>2, <2>1 DEF E!Alone, ExecBuffer, E!Inside
    <2>2. CASE ~E!Alone(t)
      BY <1>1, <1>2, <2>2 DEF ExecInv, ExecTypes, ExecBuffer, E!Inside
    <2> QED
      BY <2>1, <2>2
  <1> QED
    BY <1>3, <1>4, <1>5, <1>6 DEF ExecInv

\* Any number of loaders, with executables of every kind, keep the invariant
\* (sceKernelCheckExecFilePatched to PartitionCheckPatched)
THEOREM SpecExecInv == E!Spec => []ExecInv
  <1>1. ExecInv /\ [E!Next]_(E!vars) => ExecInv'
    <2> SUFFICES ASSUME ExecInv, [E!Next]_(E!vars) PROVE ExecInv'
      OBVIOUS
    <2>1. CASE E!Next
      BY <2>1, Loads, Probes, ReadsHeader, ReadsElf, ReadsAttributes, Closes DEF E!Next
    <2>2. CASE UNCHANGED E!vars
      BY <2>2 DEF E!vars, ExecInv, ExecTypes, ExecPlaces, ExecAttributes, ExecBuffer, E!Inside,
                  Inspecting
    <2> QED
      BY <2>1, <2>2
  <1> QED
    BY ExecInit, <1>1, PTL DEF E!Spec

LEMMA ExecServes == ExecInv => E!ExecRight
  <1> SUFFICES ASSUME ExecInv PROVE E!ExecRight
    OBVIOUS
  <1>1. \A t \in Loaders : xpc[t] = "done" =>
           file[t].plain \in BOOLEAN /\ file[t].whole \in BOOLEAN /\ file[t].sections \in BOOLEAN
    BY FileKinds DEF ExecInv, ExecTypes
  <1>2. E!PartitionRight
    BY <1>1 DEF ExecInv, ExecTypes, ExecBuffer, E!PartitionRight
  <1>3. E!PositionLeft
    BY DEF ExecInv, ExecPlaces, E!PositionLeft
  <1>4. E!AttributesRight
    BY <1>1 DEF ExecInv, ExecAttributes, Inspecting, E!AttributesRight
  <1> QED
    BY <1>2, <1>3, <1>4 DEF E!ExecRight

-----------------------------------------------------------------------------
(* The names of functions (NidResolver, the instance N).                   *)

\* What was walked has the new numbers of the names it has now, the rest is as
\* it was loaded.
Imports == [libname : STRING, nids : Seq(Nat)]
LinkTypes ==
    /\ exports \in Seq([libname : STRING, stubs : Seq(Nat), vars : Seq(Nat)])
    /\ imports \in Seq(Imports) /\ asked \in Seq(Imports)
    /\ at \in Nat /\ lle_handler \in BOOLEAN /\ lpc \in {"out", "walk", "linked"}
LinkInv ==
    /\ LinkTypes
    /\ Len(imports) = Len(asked)
    /\ lpc = "linked" => at >= Len(imports)
    /\ \A k \in 1 .. Len(imports) :
          /\ Len(imports[k].nids) = Len(asked[k].nids)
          /\ \A j \in 1 .. Len(imports[k].nids) :
                imports[k].nids[j] = IF k <= at
                                     THEN N!Renumbered(imports[k].libname, asked[k].nids[j])
                                     ELSE asked[k].nids[j]

\* the first place of a loop that finds one
LEMMA FirstFound ==
  ASSUME NEW places, places \subseteq Nat, places # {}
  PROVE  N!First(places) \in places
  <1>1. IsWellFoundedOn(OpToRel(<, Nat), Nat)
    BY NatLessThanWellFounded
  <1>2. PICK x \in places : \A y \in places : <<y, x>> \notin OpToRel(<, Nat)
    BY <1>1, WFMin, places \subseteq Nat
  <1>3. \A y \in places : ~(y < x)
    BY <1>2, places \subseteq Nat DEF OpToRel
  <1>4. \A y \in places : x <= y
    BY <1>3, places \subseteq Nat
  <1> QED
    BY <1>4 DEF N!First

\* A number is replaced by one of the table, and only if it is an old one.
LEMMA Renumbers ==
  ASSUME NEW name, NEW nid \in Nat
  PROVE  /\ N!Renumbered(name, nid) \in Nat
         /\ name = "none" \/ name \notin DOMAIN Libraries \/ nid \notin N!Old(name) =>
              N!Renumbered(name, nid) = nid
  <1> DEFINE rows == {k \in DOMAIN Libraries[name] : Libraries[name][k][1] = nid}
  <1>1. CASE name = "none" \/ name \notin DOMAIN Libraries \/ rows = {}
    BY <1>1 DEF N!Renumbered, N!FindLib, N!FindNewNid, N!None
  <1>2. CASE name # "none" /\ name \in DOMAIN Libraries /\ rows # {}
    <2>1. Libraries[name] \in Seq(Nat \X Nat)
      BY <1>2, TitleAssumption DEF N!NidResolverAssumption
    <2>2. rows \subseteq Nat
      BY <2>1
    <2>3. N!First(rows) \in rows
      BY <1>2, <2>2, FirstFound
    <2> DEFINE row == N!First(rows)
    <2>a. row \in DOMAIN Libraries[name]
      BY <2>3
    <2> HIDE DEF row
    <2>4. Libraries[name][row] \in Nat \X Nat
      BY <2>1, <2>a
    <2>5. Libraries[name][row][2] \in Nat
      BY <2>4
    <2>6. N!FindNewNid(name, nid) \in Nat
      BY <1>2, <2>5 DEF N!FindNewNid, row
    <2>7. nid \in N!Old(name)
      BY <1>2 DEF N!Old
    <2> QED
      BY <1>2, <2>6, <2>7 DEF N!Renumbered
  <1>3. nid \notin N!Old(name) => rows = {}
    BY DEF N!Old
  <1> QED
    BY <1>1, <1>2, <1>3

LEMMA LinkInit == N!Init => LinkInv
  <1> SUFFICES ASSUME N!Init PROVE LinkInv
    OBVIOUS
  <1>1. exports \in Seq([libname : STRING, stubs : Seq(Nat), vars : Seq(Nat)])
    BY TitleAssumption DEF N!Init, N!NidResolverAssumption
  <1>2. /\ imports = <<>> /\ asked = <<>> /\ at = 0 /\ lle_handler = FALSE /\ lpc = "out"
        /\ <<>> \in Seq(Imports) /\ Len(imports) = 0
    BY DEF N!Init
  <1>3. LinkTypes
    BY <1>1, <1>2 DEF LinkTypes
  <1> QED
    BY <1>2, <1>3 DEF LinkInv

\* One turn of aLinkLibEntriesPatched
LEMMA Links ==
  ASSUME LinkInv, N!LinkImport
  PROVE  LinkInv'
  <1> DEFINE k == at + 1
             name == IF lle_handler /\ imports[k].libname = Wrapped[1] THEN Wrapped[2]
                     ELSE imports[k].libname
             old == imports[k].nids
             nids == [j \in DOMAIN old |-> N!Renumbered(name, old[j])]
  <1>1. /\ lpc = "walk" /\ at < Len(imports) /\ at' = k
        /\ imports' = [imports EXCEPT ![k] = [libname |-> name, nids |-> nids]]
        /\ UNCHANGED <<exports, lle_handler, lpc, asked>>
    BY DEF N!LinkImport
  <1>2. k \in 1 .. Len(imports) /\ imports[k] \in Imports /\ imports \in Seq(Imports) /\ at \in Nat
    BY <1>1 DEF LinkInv, LinkTypes
  <1>3. name \in STRING /\ old \in Seq(Nat)
    <2>1. Wrapped[2] \in STRING
      BY TitleAssumption DEF N!NidResolverAssumption
    <2> QED
      BY <1>2, <2>1 DEF Imports
  <1> HIDE DEF name
  <1>4. /\ nids \in Seq(Nat) /\ Len(nids) = Len(old)
        /\ \A j \in 1 .. Len(old) : nids[j] = N!Renumbered(name, old[j])
    <2>1. \A j \in DOMAIN old : N!Renumbered(name, old[j]) \in Nat
      BY <1>3, Renumbers
    <2> QED
      BY <1>3, <2>1
  <1> HIDE DEF nids, old
  <1>6. [libname |-> name, nids |-> nids] \in Imports
    BY <1>3, <1>4 DEF Imports
  <1>7. imports' \in Seq(Imports) /\ Len(imports') = Len(imports)
    BY <1>1, <1>2, <1>6
  <1>8. /\ imports'[k].libname = name /\ imports'[k].nids = nids
        /\ \A m \in 1 .. Len(imports) : m # k => imports'[m] = imports[m]
    BY <1>1, <1>2
  <1>9. LinkTypes'
    BY <1>1, <1>2, <1>7 DEF LinkInv, LinkTypes
  <1>10. Len(old) = Len(asked[k].nids) /\ \A j \in 1 .. Len(old) : old[j] = asked[k].nids[j]
    BY <1>2 DEF LinkInv, old
  <1>11. ASSUME NEW m \in 1 .. Len(imports)
         PROVE  /\ Len(imports'[m].nids) = Len(asked[m].nids)
                /\ \A j \in 1 .. Len(imports'[m].nids) :
                      imports'[m].nids[j] = IF m <= at'
                                            THEN N!Renumbered(imports'[m].libname, asked[m].nids[j])
                                            ELSE asked[m].nids[j]
    <2>1. CASE m = k
      BY <1>1, <1>2, <1>4, <1>8, <1>10, <2>1
    <2>2. CASE m # k
      <3>1. m <= at' <=> m <= at
        BY <1>1, <1>2, <2>2
      <3> QED
        BY <1>8, <2>2, <3>1 DEF LinkInv
    <2> QED
      BY <2>1, <2>2
  <1>12. lpc' = "walk" /\ asked' = asked /\ Len(imports') = Len(asked')
    BY <1>1, <1>7 DEF LinkInv
  <1>13. 1 .. Len(imports') = 1 .. Len(imports)
    BY <1>7
  <1> HIDE DEF k
  <1> QED
    BY <1>9, <1>11, <1>12, <1>13 DEF LinkInv

\* Every module that is loaded, and every change of the handler, keeps the
\* invariant (aLinkLibEntriesPatched, sctrlHENRegisterLLEHandler)
THEOREM SpecLinkInv == N!Spec => []LinkInv
  <1>1. LinkInv /\ [N!Next]_(N!vars) => LinkInv'
    <2> SUFFICES ASSUME LinkInv, [N!Next]_(N!vars) PROVE LinkInv'
      OBVIOUS
    <2>1. CASE N!RegisterLLEHandler
      <3>1. /\ lle_handler' \in BOOLEAN
            /\ exports' = exports /\ imports' = imports /\ at' = at /\ lpc' = lpc /\ asked' = asked
        BY <2>1 DEF N!RegisterLLEHandler, LinkInv, LinkTypes
      <3> QED
        BY <3>1 DEF LinkInv, LinkTypes
    <2>2. CASE N!Load
      <3>1. /\ lpc' = "walk" /\ at' = 0 /\ imports' \in ImportTables /\ asked' = imports'
            /\ exports' = exports /\ lle_handler' = lle_handler
        BY <2>2 DEF N!Load
      <3>2. imports' \in Seq(Imports)
        BY <3>1, TitleAssumption DEF N!NidResolverAssumption, Imports
      <3>3. LinkTypes'
        BY <3>1, <3>2 DEF LinkInv, LinkTypes
      <3>4. \A k \in 1 .. Len(imports') : ~(k <= at')
        BY <3>1, <3>2
      <3> QED
        BY <3>1, <3>3, <3>4 DEF LinkInv
    <2>3. CASE N!LinkImport
      BY <2>3, Links
    <2>4. CASE N!LinkLibEntries
      <3>1. /\ lpc' = "linked" /\ at >= Len(imports) /\ lle_handler' = lle_handler
            /\ exports' = exports /\ imports' = imports /\ at' = at /\ asked' = asked
        BY <2>4 DEF N!LinkLibEntries
      <3> QED
        BY <3>1 DEF LinkInv, LinkTypes
    <2>5. CASE N!Forget
      <3>1. /\ imports' = <<>> /\ asked' = <<>> /\ at' = 0 /\ lpc' = "out"
            /\ exports' = exports /\ lle_handler' = lle_handler
            /\ <<>> \in Seq(Imports) /\ Len(imports') = 0
        BY <2>5 DEF N!Forget
      <3>2. LinkTypes'
        BY <3>1 DEF LinkInv, LinkTypes
      <3> QED
        BY <3>1, <3>2 DEF LinkInv
    <2>6. CASE UNCHANGED N!vars
      <3>1. /\ exports' = exports /\ imports' = imports /\ at' = at /\ asked' = asked
            /\ lpc' = lpc /\ lle_handler' = lle_handler
        BY <2>6 DEF N!vars
      <3> QED
        BY <3>1 DEF LinkInv, LinkTypes
    <2> QED
      BY <2>1, <2>2, <2>3, <2>4, <2>5, <2>6 DEF N!Next
  <1> QED
    BY LinkInit, <1>1, PTL DEF N!Spec

\* The kernel links a name and the new number of an import to what
\* sctrlHENFindFunction finds under the old one.
LEMMA LinkedRight ==
  ASSUME LinkTypes, NEW name, name # "none", NEW nid, NEW n, n = N!Renumbered(name, nid),
         \/ N!FindFunction(name, nid) = <<>>
         \/ ~\E e \in DOMAIN exports :
                exports[e].libname = name
                /\ N!Among(N!FindFunction(name, nid)[2], exports[e].vars)
  PROVE  N!Linked(name, n) = N!FindFunction(name, nid)
  <1> DEFINE entries == {k \in DOMAIN exports :
                            /\ name = "none" \/ exports[k].libname = name
                            /\ exports[k].stubs # <<>>
                            /\ N!Among(n, exports[k].stubs) \/ N!Among(n, exports[k].vars)}
  <1>1. N!FindFunction(name, nid) =
           IF entries = {} THEN <<>> ELSE <<exports[N!First(entries)].libname, n>>
    BY DEF N!FindFunction, N!None
  <1>2. CASE entries = {}
    <2>1. ~\E e \in DOMAIN exports : exports[e].libname = name /\ N!Among(n, exports[e].stubs)
      BY <1>2 DEF N!Among
    <2> QED
      BY <1>1, <1>2, <2>1 DEF N!Linked
  <1>3. CASE entries # {}
    <2>1. entries \subseteq Nat
      BY DEF LinkTypes
    <2>2. N!First(entries) \in entries
      BY <1>3, <2>1, FirstFound
    <2> DEFINE e == N!First(entries)
    <2>3. /\ e \in DOMAIN exports /\ exports[e].libname = name
          /\ N!Among(n, exports[e].stubs) \/ N!Among(n, exports[e].vars)
      BY <2>2
    <2> HIDE DEF e
    <2>4. N!FindFunction(name, nid) = <<name, n>>
      BY <1>1, <1>3, <2>3 DEF e
    <2>5. N!Among(n, exports[e].stubs)
      BY <2>3, <2>4
    <2> QED
      BY <2>3, <2>4, <2>5 DEF N!Linked
  <1> QED
    BY <1>2, <1>3

LEMMA NamesServe == LinkInv => N!NamesKept
  <1> SUFFICES ASSUME LinkInv, lpc = "linked",
                      NEW k \in DOMAIN imports, NEW j \in DOMAIN imports[k].nids
               PROVE  /\ imports[k].nids[j] = N!Renumbered(imports[k].libname, asked[k].nids[j])
                      /\ asked[k].nids[j] \in Nat /\ LinkTypes
    <2>1. ASSUME LinkInv, lpc = "linked",
                 NEW k \in DOMAIN imports, NEW j \in DOMAIN imports[k].nids,
                 imports[k].nids[j] = N!Renumbered(imports[k].libname, asked[k].nids[j]),
                 asked[k].nids[j] \in Nat, LinkTypes
          PROVE  LET name  == imports[k].libname
                     link  == N!Linked(name, imports[k].nids[j])
                     found == N!FindFunction(name, asked[k].nids[j])
                     Variable == /\ found # <<>>
                                 /\ \E e \in DOMAIN exports :
                                       exports[e].libname = name
                                       /\ N!Among(found[2], exports[e].vars)
                 IN  /\ name # N!None /\ ~Variable => link = found
                     /\ name = N!None \/ name \notin DOMAIN Libraries
                           \/ asked[k].nids[j] \notin N!Old(name) =>
                          imports[k].nids[j] = asked[k].nids[j]
      BY <2>1, LinkedRight, Renumbers DEF N!None
    <2> QED
      BY <2>1 DEF N!NamesKept, N!LinkedAsFound, N!NewKept
  <1>1. k \in 1 .. Len(imports) /\ imports[k] \in Imports /\ k \in 1 .. Len(asked)
    BY DEF LinkInv, LinkTypes
  <1>2. j \in 1 .. Len(imports[k].nids) /\ k <= at
    BY <1>1 DEF LinkInv, LinkTypes, Imports
  <1>3. asked[k] \in Imports
    BY <1>1 DEF LinkInv, LinkTypes
  <1>4. asked[k].nids \in Seq(Nat) /\ Len(asked[k].nids) = Len(imports[k].nids)
    BY <1>1, <1>3 DEF LinkInv, Imports
  <1>5. asked[k].nids[j] \in Nat
    BY <1>2, <1>4
  <1> QED
    BY <1>1, <1>2, <1>5 DEF LinkInv

-----------------------------------------------------------------------------

\* A module is started by a thread that is the one the kernel gave it, seen by
\* all the handlers, checked as what its file holds and linked to the functions
\* it names (HandlersCalled, ExecRight, NamesKept).
THEOREM SpecModuleStarted == AllSpec => []ModuleStarted
  <1>1. AllInit => H!Init /\ E!Init /\ (part = "link" => N!Init)
    BY DEF AllInit
  <1>2. [AllNext]_allVars => [H!Next]_(H!vars)
    <2> SUFFICES ASSUME [AllNext]_allVars, ~(UNCHANGED H!vars) PROVE H!Next
      OBVIOUS
    <2>1. ~UNCHANGED hookVars
      BY DEF hookVars, H!vars
    <2>2. ~UNCHANGED allVars
      BY <2>1 DEF allVars
    <2> QED
      BY <2>1, <2>2 DEF AllNext
  <1>3. [AllNext]_allVars => [E!Next]_(E!vars)
    <2> SUFFICES ASSUME [AllNext]_allVars, ~(UNCHANGED E!vars) PROVE E!Next
      OBVIOUS
    <2>1. ~UNCHANGED execVars
      BY DEF execVars, E!vars
    <2>2. ~UNCHANGED allVars
      BY <2>1 DEF allVars
    <2> QED
      BY <2>1, <2>2 DEF AllNext
  <1>4. part = "link" /\ [AllNext]_allVars => (part = "link")' /\ [N!Next]_(N!vars)
    <2> SUFFICES ASSUME part = "link", [AllNext]_allVars
                 PROVE  part' = part /\ [N!Next]_(N!vars)
      OBVIOUS
    <2>1. CASE AllNext
      BY <2>1 DEF AllNext
    <2>2. CASE UNCHANGED allVars
      BY <2>2 DEF allVars, linkVars, N!vars
    <2> QED
      BY <2>1, <2>2
  <1>5. ~(part = "link") /\ [AllNext]_allVars => ~(part = "link")'
    BY DEF AllNext, allVars
  <1>6. HookInv /\ ExecInv /\ (LinkInv \/ ~(part = "link")) => ModuleStarted
    BY HooksServe, ExecServes, NamesServe DEF ModuleStarted
  <1> QED
    BY <1>1, <1>2, <1>3, <1>4, <1>5, <1>6, SpecHookInv, SpecExecInv, SpecLinkInv, PTL
    DEF AllSpec, H!Spec, E!Spec, N!Spec

-----------------------------------------------------------------------------
(* The descriptor behind sceNp9660 (Galaxy, the instance G).               *)

GalaxyTypes ==
    /\ gimage \in {"plain", "cso"}
    /\ fd \in [Fds -> [st : {"closed", "live", "dead"}, pos : {"wanted", "head", "end", "past"}]]
    /\ gumdfd \in Fds \cup {-1} /\ npfd \in Fds \cup {-1}
    /\ cso \in BOOLEAN /\ clash \in BOOLEAN /\ headless \in BOOLEAN
    /\ gpc \in [G!Threads -> {"idle", "lock", "seek", "read", "unlock", "close",
                              "open", "try", "header"}]
    /\ ret \in [G!Threads -> {"idle", "seek", "read"}]
    /\ how \in [Readers -> BOOLEAN] /\ reread \in [Readers -> BOOLEAN]
    /\ out \in [Readers -> {"none", "error", "wanted", "head", "end", "past"}]
    /\ \A t \in G!Threads : gpc[t] \in G!Opening =>
          \/ t = Mount /\ ret[t] = "idle"
          \/ t \in Readers /\ ret[t] \in {"seek", "read"}
    /\ gpc[Mount] \in {"idle"} \cup G!Opening
    /\ \A r \in Readers :
          /\ gpc[r] # "close"
          /\ gpc[r] \in {"lock", "seek", "read"} \cup G!Opening => out[r] = "none"
    /\ gpc[Closer] \notin {"seek", "read"}

\* Who is between LockFdMutex and UnlockFdMutex
Inside(t) == gpc[t] \in {"seek", "read", "unlock", "close"}
             \/ (gpc[t] \in G!Opening /\ t # Mount)
Owned == \A t \in G!Threads : Inside(t) => FdMutex = t

\* While the mount thread has met nobody, one thread at most is at the descriptor,
\* and one is open at most, none while another is looked for.
Single ==
    /\ gpc[Mount] # "idle" => FdMutex = Free
    /\ npfd = gumdfd
    /\ \A f \in Fds : fd[f].st # "closed" => f = gumdfd
    /\ \A t \in G!Threads : gpc[t] = "try" => \A f \in Fds : fd[f].st = "closed"

\* The format is that of the image once a header was read; a request begins with
\* it, and finds the descriptor where it has sought.
Format ==
    headless = FALSE =>
        /\ (\A t \in G!Threads : gpc[t] # "header") =>
              ((gumdfd # -1 \/ \E r \in Readers : gpc[r] # "idle") =>
                 (cso = TRUE <=> gimage = "cso"))
        /\ \A r \in Readers :
              ( \/ gpc[r] \in {"seek", "read", "unlock"} \cup G!Opening
                \/ out[r] \notin {"none", "error"} )
              => (how[r] = TRUE <=> gimage = "cso")
Placed ==
    \A r \in Readers :
        /\ gpc[r] \in G!Opening /\ ret[r] = "read" => reread[r] = TRUE
        /\ gpc[r] = "read" /\ reread[r] = FALSE /\ gumdfd # -1 => fd[gumdfd].pos = "wanted"
        /\ out[r] \notin {"none", "error"} /\ reread[r] = FALSE => out[r] = "wanted"

GalaxyInv ==
    /\ GalaxyTypes /\ Owned
    /\ clash = FALSE => Single /\ Format /\ Placed

LEMMA GalaxyInit == G!Init => GalaxyInv
  <1> SUFFICES ASSUME G!Init PROVE GalaxyInv
    OBVIOUS
  <1>1. Mount \in G!Threads /\ Closer \in G!Threads /\ Readers \subseteq G!Threads
    BY DEF G!Threads
  <1>2. GalaxyTypes
    BY <1>1 DEF G!Init, GalaxyTypes, G!Opening
  <1>3. Owned /\ Single
    BY <1>1 DEF G!Init, Owned, Inside, Single, G!Opening
  <1>4. Format /\ Placed
    BY <1>1 DEF G!Init, Format, Placed, G!Opening
  <1> QED
    BY <1>2, <1>3, <1>4 DEF GalaxyInv

LEMMA LowestFd ==
  ASSUME G!Unused # {}
  PROVE  (CHOOSE f \in G!Unused : \A h \in G!Unused : f <= h) \in G!Unused
  <1>1. G!Unused \subseteq Nat
    BY TitleAssumption DEF G!FdsAssumption, G!Unused
  <1>2. IsWellFoundedOn(OpToRel(<, Nat), Nat)
    BY NatLessThanWellFounded
  <1>3. PICK f \in G!Unused : \A h \in G!Unused : <<h, f>> \notin OpToRel(<, Nat)
    BY <1>1, <1>2, WFMin
  <1>4. \A h \in G!Unused : ~(h < f)
    BY <1>1, <1>3 DEF OpToRel
  <1>5. \A h \in G!Unused : f <= h
    BY <1>1, <1>4
  <1> QED
    BY <1>5

\* Who may be where
LEMMA Alone ==
  ASSUME GalaxyInv
  PROVE  /\ Mount \in G!Threads /\ Closer \in G!Threads /\ Readers \subseteq G!Threads
         /\ Mount \notin Readers /\ Closer \notin Readers /\ Mount # Closer
         /\ Free \notin G!Threads
         /\ \A t, u \in G!Threads : Inside(t) /\ Inside(u) => t = u
         /\ clash = FALSE /\ gpc[Mount] # "idle" => \A t \in G!Threads : ~Inside(t)
  <1>1. /\ Mount \in G!Threads /\ Closer \in G!Threads /\ Readers \subseteq G!Threads
        /\ Mount \notin Readers /\ Closer \notin Readers /\ Mount # Closer
        /\ Free \notin G!Threads
    BY TitleAssumption DEF G!Threads, G!ThreadsAssumption
  <1> QED
    BY <1>1 DEF GalaxyInv, Owned, Single

LEMMA StickMoves ==
  ASSUME GalaxyInv, G!Eject \/ G!Insert
  PROVE  GalaxyInv'
  <1>1. CASE G!Insert
    BY <1>1 DEF G!Insert, G!file, G!hist, GalaxyInv, GalaxyTypes, Owned, Inside, Single, Format,
       Placed
  <1>2. CASE G!Eject
    <2>1. /\ UNCHANGED <<gimage, gumdfd, npfd, cso, FdMutex, gpc, ret, try, how, out,
                         clash, headless, reread>>
          /\ fd' = [f \in Fds |-> IF fd[f].st = "live" THEN [fd[f] EXCEPT !.st = "dead"] ELSE fd[f]]
      BY <1>2 DEF G!Eject, G!hist
    <2>2. \A f \in Fds : /\ fd'[f] \in [st : {"closed", "live", "dead"},
                                        pos : {"wanted", "head", "end", "past"}]
                          /\ fd'[f].pos = fd[f].pos
                          /\ fd'[f].st = "closed" <=> fd[f].st = "closed"
      BY <2>1 DEF GalaxyInv, GalaxyTypes
    <2>3. GalaxyTypes' /\ Owned'
      BY <2>1, <2>2 DEF GalaxyInv, GalaxyTypes, Owned, Inside
    <2>4. clash = FALSE => Single' /\ Format'
      BY <2>1, <2>2 DEF GalaxyInv, Single, Format
    <2>5. clash = FALSE => Placed'
      BY <2>1, <2>2 DEF GalaxyInv, GalaxyTypes, Placed
    <2> QED
      BY <2>1, <2>3, <2>4, <2>5 DEF GalaxyInv
  <1> QED
    BY <1>1, <1>2

LEMMA Shuts ==
  ASSUME GalaxyTypes, NEW g, G!Shut(g)
  PROVE  /\ fd' \in [Fds -> [st : {"closed", "live", "dead"},
                             pos : {"wanted", "head", "end", "past"}]]
         /\ \A f \in Fds : fd'[f].st # "closed" <=> fd[f].st # "closed" /\ f # g
  BY DEF G!Shut, GalaxyTypes

LEMMA Opens ==
  ASSUME GalaxyInv, NEW t \in G!Threads, G!OpenIso(t)
  PROVE  GalaxyInv'
  <1>1. /\ UNCHANGED <<stick, gimage, gumdfd, npfd, cso, FdMutex, ret, try, how, out,
                       clash, headless, reread>>
        /\ gpc[t] = "open" /\ G!Shut(gumdfd) /\ gpc' = [gpc EXCEPT ![t] = "try"]
    BY DEF G!OpenIso, G!Goto, G!hist
  <1>2. GalaxyTypes
    BY DEF GalaxyInv
  <1>3. gpc'[t] = "try" /\ \A u \in G!Threads : u # t => gpc'[u] = gpc[u]
    BY <1>1, <1>2 DEF GalaxyTypes
  <1>4. GalaxyTypes'
    BY <1>1, <1>2, <1>3, Shuts, Alone DEF GalaxyTypes, G!Opening
  <1>5. Owned'
    BY <1>1, <1>3 DEF GalaxyInv, Owned, Inside, G!Opening
  <1>6. ASSUME clash = FALSE PROVE Single' /\ Format' /\ Placed'
    <2>1. Single /\ Format /\ Placed
      BY <1>6 DEF GalaxyInv
    <2>2. Single'
      BY <1>1, <1>2, <1>3, <2>1, Shuts, Alone DEF Single, G!Opening
    <2>3. Format'
      BY <1>1, <1>3, <2>1, Alone DEF Format, G!Opening
    <2>4. \A r \in Readers : gpc'[r] # "read"
      BY <1>1, <1>2, <1>3, <1>6, Alone DEF Inside, G!Opening
    <2>5. Placed'
      BY <1>1, <1>3, <2>1, <2>4, Alone DEF Placed, G!Opening
    <2> QED
      BY <2>2, <2>3, <2>5
  <1> QED
    BY <1>1, <1>4, <1>5, <1>6 DEF GalaxyInv

LEMMA OpensTry ==
  ASSUME GalaxyInv, NEW t \in G!Threads, G!OpenTry(t)
  PROVE  GalaxyInv'
  <1>1. /\ UNCHANGED <<stick, gimage, FdMutex, ret, try, how, out, clash, headless, reread>>
        /\ gpc[t] = "try" /\ gpc' = [gpc EXCEPT ![t] = "header"]
    BY DEF G!OpenTry, G!Goto, G!hist
  <1>2. PICK f \in Fds : /\ fd' = [fd EXCEPT ![f] = [st |-> "live", pos |-> "head"]]
                         /\ gumdfd' = f /\ npfd' = f
    <2>1. (CHOOSE g \in G!Unused : \A h \in G!Unused : g <= h) \in Fds
      BY LowestFd DEF G!OpenTry, G!Unused
    <2> QED
      BY <2>1 DEF G!OpenTry
  <1>3. cso' = FALSE
    BY DEF G!OpenTry
  <1>4. GalaxyTypes
    BY DEF GalaxyInv
  <1>5. gpc'[t] = "header" /\ \A u \in G!Threads : u # t => gpc'[u] = gpc[u]
    BY <1>1, <1>4 DEF GalaxyTypes
  <1>6. GalaxyTypes'
    BY <1>1, <1>2, <1>3, <1>4, <1>5, Alone DEF GalaxyTypes, G!Opening
  <1>7. Owned'
    BY <1>1, <1>5 DEF GalaxyInv, Owned, Inside, G!Opening
  <1>8. ASSUME clash = FALSE PROVE Single' /\ Format' /\ Placed'
    <2>1. Single /\ Format /\ Placed
      BY <1>8 DEF GalaxyInv
    <2>2. \A u \in G!Threads : gpc'[u] # "try"
      <3>1. ASSUME NEW u \in G!Threads, u # t, gpc[u] = "try" PROVE FALSE
        <4>1. t # Mount => Inside(t)
          BY <1>1 DEF Inside, G!Opening
        <4>2. u # Mount => Inside(u)
          BY <3>1 DEF Inside, G!Opening
        <4> QED
          BY <1>1, <1>8, <3>1, <4>1, <4>2, Alone
      <3> QED
        BY <1>5, <3>1
    <2>3. Single'
      BY <1>1, <1>2, <1>4, <1>5, <2>1, <2>2, Alone DEF Single, G!Opening, GalaxyTypes
    <2>4. Format'
      BY <1>1, <1>5, <2>1, Alone DEF Format, G!Opening
    <2>5. \A r \in Readers : gpc'[r] # "read"
      BY <1>1, <1>4, <1>5, <1>8, Alone DEF Inside, G!Opening
    <2>6. Placed'
      BY <1>1, <1>5, <2>1, <2>5, Alone DEF Placed, G!Opening
    <2> QED
      BY <2>3, <2>4, <2>6
  <1> QED
    BY <1>1, <1>6, <1>7, <1>8 DEF GalaxyInv

LEMMA OpensHeader ==
  ASSUME GalaxyInv, NEW t \in G!Threads, G!OpenHeader(t)
  PROVE  GalaxyInv'
  <1>1. /\ UNCHANGED <<stick, gimage, gumdfd, npfd, FdMutex, ret, try, how, out, clash, reread>>
        /\ gpc[t] = "header" /\ gpc' = [gpc EXCEPT ![t] = ret[t]]
    BY DEF G!OpenHeader, G!Goto
  <1>2. GalaxyTypes
    BY DEF GalaxyInv
  <1>3. gpc'[t] = ret[t] /\ \A u \in G!Threads : u # t => gpc'[u] = gpc[u]
    BY <1>1, <1>2 DEF GalaxyTypes
  <1>4. \/ /\ gumdfd # -1 /\ cso' = (gimage = "cso") /\ headless' = headless
           /\ fd' = [fd EXCEPT ![gumdfd].pos = IF cso' THEN "head" ELSE "end"]
        \/ cso' = FALSE /\ headless' = TRUE /\ fd' = fd
    BY DEF G!OpenHeader
  <1>5. /\ fd' \in [Fds -> [st : {"closed", "live", "dead"},
                           pos : {"wanted", "head", "end", "past"}]]
        /\ \A f \in Fds : fd'[f].st = fd[f].st
        /\ cso' \in BOOLEAN /\ headless' \in BOOLEAN
        /\ headless' = FALSE => headless = FALSE /\ (cso' = TRUE <=> gimage = "cso")
    <2>1. CASE fd' = fd /\ cso' = FALSE /\ headless' = TRUE
      BY <1>2, <2>1 DEF GalaxyTypes
    <2>2. CASE /\ gumdfd # -1 /\ cso' = (gimage = "cso") /\ headless' = headless
               /\ fd' = [fd EXCEPT ![gumdfd].pos = IF cso' THEN "head" ELSE "end"]
      <3>1. PICK p \in {"head", "end"} : fd' = [fd EXCEPT ![gumdfd].pos = p]
        BY <2>2
      <3>2. gumdfd \in Fds
        BY <1>2, <2>2 DEF GalaxyTypes
      <3>3. /\ fd' \in [Fds -> [st : {"closed", "live", "dead"},
                               pos : {"wanted", "head", "end", "past"}]]
            /\ \A f \in Fds : fd'[f].st = fd[f].st
        BY <1>2, <3>1, <3>2 DEF GalaxyTypes
      <3> QED
        BY <1>2, <2>2, <3>3 DEF GalaxyTypes
    <2> QED
      BY <1>4, <2>1, <2>2
  <1>6. ret[t] \in {"idle", "seek", "read"} /\ (t \in Readers => ret[t] \in {"seek", "read"})
        /\ (t \notin Readers => t = Mount /\ ret[t] = "idle")
    BY <1>1, <1>2, Alone DEF GalaxyTypes, G!Opening
  <1>7. GalaxyTypes'
    BY <1>1, <1>2, <1>3, <1>5, <1>6, Alone DEF GalaxyTypes, G!Opening
  <1>8. Owned'
    <2>1. t \in Readers => Inside(t)
      BY <1>1, Alone DEF Inside, G!Opening
    <2>2. \A u \in G!Threads : u # t => (Inside(u)' <=> Inside(u))
      BY <1>3 DEF Inside
    <2>3. t = Mount => ~Inside(t)'
      BY <1>3, <1>6, Alone DEF Inside, G!Opening
    <2> QED
      BY <1>1, <1>6, <2>1, <2>2, <2>3 DEF GalaxyInv, Owned
  <1>9. ASSUME clash = FALSE PROVE Single' /\ Format' /\ Placed'
    <2>1. Single /\ Format /\ Placed
      BY <1>9 DEF GalaxyInv
    <2>2. Single'
      BY <1>1, <1>3, <1>5, <1>6, <2>1, Alone DEF Single
    <2>3. Format'
      BY <1>1, <1>3, <1>5, <1>6, <2>1, Alone DEF Format, G!Opening
    <2>4. \A u \in Readers : u # t => gpc'[u] # "read"
      BY <1>1, <1>2, <1>3, <1>9, Alone DEF Inside, G!Opening
    <2>5. Placed'
      BY <1>1, <1>3, <1>6, <2>1, <2>4, Alone DEF Placed, G!Opening
    <2> QED
      BY <2>2, <2>3, <2>5
  <1> QED
    BY <1>1, <1>7, <1>8, <1>9 DEF GalaxyInv

LEMMA OpensFirst ==
  ASSUME GalaxyInv, G!OpenUmdImage
  PROVE  GalaxyInv'
  <1>1. /\ UNCHANGED <<stick, gimage, fd, gumdfd, npfd, cso, FdMutex, try, how, out,
                       headless, reread>>
        /\ gpc[Mount] = "idle" /\ gpc' = [gpc EXCEPT ![Mount] = "open"]
        /\ ret' = [ret EXCEPT ![Mount] = "idle"]
        /\ clash' = (clash \/ FdMutex # Free)
    BY DEF G!OpenUmdImage, G!Call, G!Goto, G!file
  <1>2. GalaxyTypes
    BY DEF GalaxyInv
  <1>3. /\ gpc'[Mount] = "open" /\ ret'[Mount] = "idle"
        /\ \A u \in G!Threads : u # Mount => gpc'[u] = gpc[u] /\ ret'[u] = ret[u]
    BY <1>1, <1>2, Alone DEF GalaxyTypes
  <1>4. GalaxyTypes'
    BY <1>1, <1>2, <1>3, Alone DEF GalaxyTypes, G!Opening
  <1>5. Owned'
    BY <1>1, <1>3 DEF GalaxyInv, Owned, Inside, G!Opening
  <1>6. ASSUME clash' = FALSE PROVE Single' /\ Format' /\ Placed'
    <2>1. FdMutex = Free /\ clash = FALSE
      BY <1>1, <1>2, <1>6 DEF GalaxyTypes
    <2>2. Single /\ Format /\ Placed
      BY <2>1 DEF GalaxyInv
    <2>3. Single'
      BY <1>1, <1>3, <2>1, <2>2 DEF Single
    <2>4. Format'
      BY <1>1, <1>3, <2>2, Alone DEF Format, G!Opening
    <2>5. Placed'
      BY <1>1, <1>3, <2>2, Alone DEF Placed, G!Opening
    <2> QED
      BY <2>3, <2>4, <2>5
  <1> QED
    BY <1>4, <1>5, <1>6 DEF GalaxyInv

LEMMA Begins ==
  ASSUME GalaxyInv, (\E r \in Readers : G!Request(r)) \/ G!CloseRequest
  PROVE  GalaxyInv'
  <1>1. PICK t \in Readers \cup {Closer} :
           /\ gpc[t] = "idle" /\ npfd # -1 /\ gpc' = [gpc EXCEPT ![t] = "lock"]
           /\ UNCHANGED <<stick, gimage, fd, gumdfd, npfd, cso, FdMutex, ret, try, how,
                          clash, headless, reread>>
           /\ out' = out \/ (t \in Readers /\ out' = [out EXCEPT ![t] = "none"])
           /\ t \in Readers => out' = [out EXCEPT ![t] = "none"]
    <2>1. CASE G!CloseRequest
      BY <2>1, Alone DEF G!CloseRequest, G!Goto, G!hist, G!file
    <2>2. ASSUME NEW r \in Readers, G!Request(r)
          PROVE  /\ gpc[r] = "idle" /\ npfd # -1 /\ gpc' = [gpc EXCEPT ![r] = "lock"]
                 /\ UNCHANGED <<stick, gimage, fd, gumdfd, npfd, cso, FdMutex, ret, try, how,
                                clash, headless, reread>>
                 /\ out' = [out EXCEPT ![r] = "none"]
      BY <2>2 DEF G!Request, G!Goto, G!hist, G!file
    <2> QED
      BY <2>1, <2>2
  <1>2. GalaxyTypes
    BY DEF GalaxyInv
  <1>3. t \in G!Threads /\ gpc'[t] = "lock" /\ t # Mount
        /\ \A u \in G!Threads : u # t => gpc'[u] = gpc[u]
    BY <1>1, <1>2, Alone DEF GalaxyTypes
  <1>4. /\ out' \in [Readers -> {"none", "error", "wanted", "head", "end", "past"}]
        /\ \A r \in Readers : out'[r] = IF r = t THEN "none" ELSE out[r]
    BY <1>1, <1>2, Alone DEF GalaxyTypes
  <1>5. GalaxyTypes'
    BY <1>1, <1>2, <1>3, <1>4, Alone DEF GalaxyTypes, G!Opening
  <1>6. Owned'
    BY <1>1, <1>3 DEF GalaxyInv, Owned, Inside, G!Opening
  <1>7. ASSUME clash = FALSE PROVE Single' /\ Format' /\ Placed'
    <2>1. Single /\ Format /\ Placed
      BY <1>7 DEF GalaxyInv
    <2>2. Single'
      BY <1>1, <1>3, <2>1, Alone DEF Single
    <2>3. Format'
      <3>1. gumdfd # -1
        BY <1>1, <2>1 DEF Single
      <3> QED
        BY <1>1, <1>3, <1>4, <2>1, <3>1, Alone DEF Format, G!Opening
    <2>4. Placed'
      BY <1>1, <1>3, <1>4, <2>1, Alone DEF Placed, G!Opening
    <2> QED
      BY <2>2, <2>3, <2>4
  <1> QED
    BY <1>1, <1>5, <1>6, <1>7 DEF GalaxyInv

LEMMA Locks ==
  ASSUME GalaxyInv, NEW t \in G!Threads, G!Lock(t)
  PROVE  GalaxyInv'
  <1> DEFINE next == IF t = Closer THEN "close" ELSE "seek"
  <1>1. /\ UNCHANGED <<stick, gimage, fd, gumdfd, npfd, cso, ret, out, headless>>
        /\ gpc[t] = "lock" /\ FdMutex = Free /\ FdMutex' = t
        /\ gpc' = [gpc EXCEPT ![t] = next]
        /\ how' = [r \in Readers |-> IF r = t THEN cso ELSE how[r]]
        /\ reread' = [r \in Readers |-> r # t /\ reread[r]]
        /\ clash' = (clash \/ gpc[Mount] # "idle")
    BY DEF G!Lock, G!Goto, G!file
  <1>2. GalaxyTypes
    BY DEF GalaxyInv
  <1>3. t \in Readers \cup {Closer}
    BY <1>1, <1>2 DEF GalaxyTypes, G!Threads, G!Opening
  <1>4. gpc'[t] = next /\ \A u \in G!Threads : u # t => gpc'[u] = gpc[u]
    BY <1>1, <1>2 DEF GalaxyTypes
  <1>5. /\ how' \in [Readers -> BOOLEAN] /\ reread' \in [Readers -> BOOLEAN]
        /\ t \in Readers => how'[t] = cso /\ reread'[t] = FALSE
        /\ \A r \in Readers : r # t => how'[r] = how[r] /\ reread'[r] = reread[r]
    BY <1>1, <1>2 DEF GalaxyTypes
  <1>6. GalaxyTypes'
    BY <1>1, <1>2, <1>3, <1>4, <1>5, Alone DEF GalaxyTypes, G!Opening
  <1>7. \A u \in G!Threads : ~Inside(u)
    BY <1>1, Alone DEF GalaxyInv, Owned
  <1>8. Owned'
    BY <1>1, <1>4, <1>7 DEF Owned, Inside
  <1>9. ASSUME clash' = FALSE PROVE Single' /\ Format' /\ Placed'
    <2>1. clash = FALSE /\ gpc[Mount] = "idle"
      BY <1>1, <1>2, <1>9 DEF GalaxyTypes
    <2>2. Single /\ Format /\ Placed
      BY <2>1 DEF GalaxyInv
    <2>3. Single'
      BY <1>1, <1>3, <1>4, <2>1, <2>2, Alone DEF Single
    <2>4. \A u \in G!Threads : gpc[u] \notin G!Opening
      BY <1>7, <2>1 DEF Inside, G!Opening
    <2>5. headless = FALSE /\ t \in Readers => (cso = TRUE <=> gimage = "cso")
      BY <1>1, <2>2, <2>4 DEF Format, G!Opening
    <2>6. t \in Readers => out[t] = "none"
      BY <1>1, <1>2 DEF GalaxyTypes
    <2>7. Format'
      BY <1>1, <1>3, <1>4, <1>5, <2>2, <2>5, Alone DEF Format, G!Opening
    <2>8. Placed'
      BY <1>1, <1>3, <1>4, <1>5, <2>2, <2>6, Alone DEF Placed, G!Opening
    <2> QED
      BY <2>3, <2>7, <2>8
  <1> QED
    BY <1>6, <1>8, <1>9 DEF GalaxyInv

\* A reader at the descriptor: it goes on, gives up, gives what it has read, or
\* opens the image anew.
LEMMA AtDescriptor ==
  ASSUME GalaxyInv, NEW t \in Readers, gpc[t] \in {"seek", "read"},
         UNCHANGED <<stick, gimage, gumdfd, npfd, cso, FdMutex, how, clash, headless>>,
         NEW l \in {"read", "unlock", "open"}, gpc' = [gpc EXCEPT ![t] = l],
         NEW w \in {"none", "error", "wanted", "head", "end", "past"},
         out' = [out EXCEPT ![t] = w], l = "unlock" \/ w = "none",
         NEW b \in {"idle", "seek", "read"}, ret' = [ret EXCEPT ![t] = b],
         l = "open" => b = gpc[t],
         NEW g \in BOOLEAN, reread' = [reread EXCEPT ![t] = g],
         reread[t] = TRUE => g = TRUE, l = "open" /\ b = "read" => g = TRUE,
         \/ fd' = fd
         \/ gumdfd # -1 /\ \E p \in {"wanted", "past"} : fd' = [fd EXCEPT ![gumdfd].pos = p],
         l = "read" => gumdfd # -1 /\ fd' = [fd EXCEPT ![gumdfd].pos = "wanted"],
         w \notin {"none", "error"} => /\ gpc[t] = "read" /\ gumdfd # -1
                                       /\ w = fd[gumdfd].pos
  PROVE  GalaxyInv'
  <1>1. GalaxyTypes /\ t \in G!Threads /\ t # Mount /\ t # Closer
    BY Alone DEF GalaxyInv
  <1>2. /\ gpc'[t] = l /\ \A u \in G!Threads : u # t => gpc'[u] = gpc[u]
        /\ ret'[t] = b /\ \A u \in G!Threads : u # t => ret'[u] = ret[u]
        /\ out'[t] = w /\ \A u \in Readers : u # t => out'[u] = out[u]
        /\ reread'[t] = g /\ \A u \in Readers : u # t => reread'[u] = reread[u]
    BY <1>1 DEF GalaxyTypes
  <1>3. /\ fd' \in [Fds -> [st : {"closed", "live", "dead"},
                           pos : {"wanted", "head", "end", "past"}]]
        /\ \A f \in Fds : fd'[f].st = fd[f].st
    <2>1. CASE fd' = fd
      BY <1>1, <2>1 DEF GalaxyTypes
    <2>2. ASSUME gumdfd # -1, NEW p \in {"wanted", "past"}, fd' = [fd EXCEPT ![gumdfd].pos = p]
          PROVE  /\ fd' \in [Fds -> [st : {"closed", "live", "dead"},
                                    pos : {"wanted", "head", "end", "past"}]]
                 /\ \A f \in Fds : fd'[f].st = fd[f].st
      <3>1. gumdfd \in Fds
        BY <1>1, <2>2 DEF GalaxyTypes
      <3> QED
        BY <1>1, <2>2, <3>1 DEF GalaxyTypes
    <2> QED
      BY <2>1, <2>2
  <1>4. GalaxyTypes'
    BY <1>1, <1>2, <1>3, Alone DEF GalaxyTypes, G!Opening
  <1>5. Inside(t) /\ Inside(t)'
    BY <1>1, <1>2 DEF Inside, G!Opening
  <1>6. Owned'
    BY <1>1, <1>2, <1>5 DEF GalaxyInv, Owned, Inside
  <1>7. ASSUME clash = FALSE PROVE Single' /\ Format' /\ Placed'
    <2>1. Single /\ Format /\ Placed
      BY <1>7 DEF GalaxyInv
    <2>2. Single'
      BY <1>1, <1>2, <1>3, <2>1, Alone DEF Single
    <2>3. Format'
      BY <1>1, <1>2, <2>1, Alone DEF Format, G!Opening
    <2>4. \A u \in Readers : u # t => gpc'[u] # "read"
      BY <1>2, <1>5, Alone DEF Inside
    <2>5. l = "read" => fd'[gumdfd].pos = "wanted"
      BY <1>1 DEF GalaxyTypes
    <2>6. w \notin {"none", "error"} /\ g = FALSE => w = "wanted"
      BY <1>1, <2>1 DEF Placed, GalaxyTypes
    <2>7. Placed'
      BY <1>1, <1>2, <2>1, <2>4, <2>5, <2>6, Alone DEF Placed, G!Opening
    <2> QED
      BY <2>2, <2>3, <2>7
  <1> QED
    BY <1>4, <1>6, <1>7 DEF GalaxyInv

LEMMA SeeksReads ==
  ASSUME GalaxyInv, NEW t \in Readers, G!Seek(t) \/ G!Read(t)
  PROVE  GalaxyInv'
  <1>1. GalaxyTypes /\ t \in G!Threads
    BY Alone DEF GalaxyInv
  <1>2. /\ ret[t] \in {"idle", "seek", "read"} /\ reread[t] \in BOOLEAN
        /\ UNCHANGED ret => ret' = [ret EXCEPT ![t] = ret[t]]
        /\ UNCHANGED out => out' = [out EXCEPT ![t] = "none"]
        /\ UNCHANGED reread => reread' = [reread EXCEPT ![t] = reread[t]]
        /\ gumdfd \in Fds => fd[gumdfd].pos \in {"wanted", "head", "end", "past"}
    <2>1. gpc[t] \in {"seek", "read"}
      BY DEF G!Seek, G!Read
    <2> QED
      BY <1>1, <2>1 DEF GalaxyTypes
  <1>3. ASSUME G!Seek(t)
        PROVE  \E l \in {"read", "unlock", "open"}, w \in {"none", "error"},
                  b \in {"idle", "seek", "read"} :
                  /\ gpc[t] = "seek" /\ gpc' = [gpc EXCEPT ![t] = l]
                  /\ out' = [out EXCEPT ![t] = w] /\ (l = "unlock" \/ w = "none")
                  /\ ret' = [ret EXCEPT ![t] = b] /\ (l = "open" => b = "seek")
                  /\ reread' = [reread EXCEPT ![t] = reread[t]]
                  /\ UNCHANGED <<stick, gimage, gumdfd, npfd, cso, FdMutex, how, clash, headless>>
                  /\ \/ l # "read" /\ fd' = fd
                     \/ gumdfd # -1 /\ fd' = [fd EXCEPT ![gumdfd].pos = "wanted"]
    <2>1. /\ gpc[t] = "seek" /\ UNCHANGED reread
          /\ UNCHANGED <<stick, gimage, gumdfd, npfd, cso, FdMutex, how, clash, headless>>
      BY <1>3 DEF G!Seek, G!hist
    <2>2. CASE G!Give(t, "error") /\ UNCHANGED <<fd, ret, try>>
      BY <1>2, <2>1, <2>2 DEF G!Give, G!Goto
    <2>3. CASE /\ G!Live /\ fd' = [fd EXCEPT ![gumdfd].pos = "wanted"]
               /\ G!Goto(t, "read") /\ UNCHANGED <<ret, out>>
      BY <1>2, <2>1, <2>3 DEF G!Live, G!Goto
    <2>4. CASE G!Call(t, "open", "seek") /\ UNCHANGED <<fd, out>>
      BY <1>2, <2>1, <2>4 DEF G!Call, G!Goto
    <2> QED
      BY <1>3, <2>2, <2>3, <2>4 DEF G!Seek
  <1>4. ASSUME G!Read(t)
        PROVE  \E l \in {"unlock", "open"}, b \in {"idle", "seek", "read"}, g \in BOOLEAN,
                  w \in {"none", "error", "wanted", "head", "end", "past"} :
                  /\ gpc[t] = "read" /\ gpc' = [gpc EXCEPT ![t] = l]
                  /\ out' = [out EXCEPT ![t] = w] /\ (l = "unlock" \/ w = "none")
                  /\ w \notin {"none", "error"} => gumdfd # -1 /\ w = fd[gumdfd].pos
                  /\ ret' = [ret EXCEPT ![t] = b] /\ (l = "open" => b = "read" /\ g = TRUE)
                  /\ reread' = [reread EXCEPT ![t] = g] /\ (reread[t] = TRUE => g = TRUE)
                  /\ UNCHANGED <<stick, gimage, gumdfd, npfd, cso, FdMutex, how, clash, headless>>
                  /\ \/ fd' = fd
                     \/ gumdfd # -1 /\ fd' = [fd EXCEPT ![gumdfd].pos = "past"]
    <2>1. /\ gpc[t] = "read"
          /\ UNCHANGED <<stick, gimage, gumdfd, npfd, cso, FdMutex, how, clash, headless>>
      BY <1>4 DEF G!Read
    <2>2. CASE G!Give(t, "error") /\ UNCHANGED <<fd, ret, try, reread>>
      BY <1>2, <2>1, <2>2 DEF G!Give, G!Goto
    <2>3. CASE /\ G!Live /\ G!Give(t, fd[gumdfd].pos)
               /\ fd' = [fd EXCEPT ![gumdfd].pos = "past"]
               /\ UNCHANGED <<ret, try, reread>>
      <3>1. gumdfd \in Fds /\ gumdfd # -1
        BY <1>1, <2>3 DEF G!Live, GalaxyTypes
      <3> QED
        BY <1>2, <2>1, <2>3, <3>1 DEF G!Give, G!Goto
    <2>4. CASE /\ G!Call(t, "open", "read") /\ UNCHANGED <<fd, out>>
               /\ reread' = [reread EXCEPT ![t] = TRUE]
      BY <1>2, <2>1, <2>4 DEF G!Call, G!Goto
    <2> QED
      BY <1>4, <2>2, <2>3, <2>4 DEF G!Read
  <1>5. CASE G!Seek(t)
    <2>1. PICK l \in {"read", "unlock", "open"}, w \in {"none", "error"},
               b \in {"idle", "seek", "read"} :
                  /\ gpc[t] = "seek" /\ gpc' = [gpc EXCEPT ![t] = l]
                  /\ out' = [out EXCEPT ![t] = w] /\ (l = "unlock" \/ w = "none")
                  /\ ret' = [ret EXCEPT ![t] = b] /\ (l = "open" => b = "seek")
                  /\ reread' = [reread EXCEPT ![t] = reread[t]]
                  /\ UNCHANGED <<stick, gimage, gumdfd, npfd, cso, FdMutex, how, clash, headless>>
                  /\ \/ l # "read" /\ fd' = fd
                     \/ gumdfd # -1 /\ fd' = [fd EXCEPT ![gumdfd].pos = "wanted"]
      BY <1>3, <1>5
    <2>2. PICK g \in BOOLEAN : g = reread[t]
      BY <1>2
    <2> QED
      BY <2>1, <2>2, AtDescriptor
  <1>6. CASE G!Read(t)
    <2>1. PICK l \in {"unlock", "open"}, b \in {"idle", "seek", "read"}, g \in BOOLEAN,
               w \in {"none", "error", "wanted", "head", "end", "past"} :
                  /\ gpc[t] = "read" /\ gpc' = [gpc EXCEPT ![t] = l]
                  /\ out' = [out EXCEPT ![t] = w] /\ (l = "unlock" \/ w = "none")
                  /\ w \notin {"none", "error"} => gumdfd # -1 /\ w = fd[gumdfd].pos
                  /\ ret' = [ret EXCEPT ![t] = b] /\ (l = "open" => b = "read" /\ g = TRUE)
                  /\ reread' = [reread EXCEPT ![t] = g] /\ (reread[t] = TRUE => g = TRUE)
                  /\ UNCHANGED <<stick, gimage, gumdfd, npfd, cso, FdMutex, how, clash, headless>>
                  /\ \/ fd' = fd
                     \/ gumdfd # -1 /\ fd' = [fd EXCEPT ![gumdfd].pos = "past"]
      BY <1>4, <1>6
    <2> QED
      BY <2>1, AtDescriptor
  <1> QED
    BY <1>5, <1>6

LEMMA Unlocks ==
  ASSUME GalaxyInv, NEW t \in G!Threads, G!Unlock(t)
  PROVE  GalaxyInv'
  <1>1. /\ UNCHANGED <<stick, gimage, fd, gumdfd, npfd, cso, ret, try, how, out,
                       clash, headless, reread>>
        /\ gpc[t] = "unlock" /\ FdMutex' = Free /\ gpc' = [gpc EXCEPT ![t] = "idle"]
    BY DEF G!Unlock, G!Goto, G!file, G!hist
  <1>2. GalaxyTypes
    BY DEF GalaxyInv
  <1>3. gpc'[t] = "idle" /\ \A u \in G!Threads : u # t => gpc'[u] = gpc[u]
    BY <1>1, <1>2 DEF GalaxyTypes
  <1>4. t # Mount
    BY <1>1, <1>2 DEF GalaxyTypes, G!Opening
  <1>5. GalaxyTypes'
    BY <1>1, <1>2, <1>3, Alone DEF GalaxyTypes, G!Opening
  <1>6. Owned'
    <2>1. \A u \in G!Threads : u # t => ~Inside(u)
      BY <1>1, Alone DEF Inside
    <2> QED
      BY <1>3, <2>1 DEF Owned, Inside, G!Opening
  <1>7. ASSUME clash = FALSE PROVE Single' /\ Format' /\ Placed'
    <2>1. Single /\ Format /\ Placed
      BY <1>7 DEF GalaxyInv
    <2>2. Single'
      BY <1>1, <1>3, <1>4, <2>1, Alone DEF Single
    <2>3. Format'
      BY <1>1, <1>3, <2>1, Alone DEF Format, G!Opening
    <2>4. Placed'
      BY <1>1, <1>3, <2>1, Alone DEF Placed, G!Opening
    <2> QED
      BY <2>2, <2>3, <2>4
  <1> QED
    BY <1>1, <1>5, <1>6, <1>7 DEF GalaxyInv

LEMMA ClosesIso ==
  ASSUME GalaxyInv, G!Close
  PROVE  GalaxyInv'
  <1>1. /\ UNCHANGED <<stick, gimage, cso, FdMutex, ret, try, how, out, clash, headless, reread>>
        /\ gpc[Closer] = "close" /\ gpc' = [gpc EXCEPT ![Closer] = "unlock"]
        /\ G!Shut(npfd)
        /\ IF npfd = gumdfd THEN gumdfd' = -1 /\ npfd' = -1
           ELSE gumdfd' = gumdfd /\ npfd' = npfd
    BY DEF G!Close, G!Goto, G!hist
  <1>2. GalaxyTypes
    BY DEF GalaxyInv
  <1>3. gpc'[Closer] = "unlock" /\ \A u \in G!Threads : u # Closer => gpc'[u] = gpc[u]
    BY <1>1, <1>2, Alone DEF GalaxyTypes
  <1>4. /\ fd' \in [Fds -> [st : {"closed", "live", "dead"},
                           pos : {"wanted", "head", "end", "past"}]]
        /\ \A f \in Fds : fd'[f].st # "closed" <=> fd[f].st # "closed" /\ f # npfd
    BY <1>1, <1>2, Shuts
  <1>5. GalaxyTypes'
    BY <1>1, <1>2, <1>3, <1>4, Alone DEF GalaxyTypes, G!Opening
  <1>6. Owned'
    BY <1>1, <1>3, Alone DEF GalaxyInv, Owned, Inside, G!Opening
  <1>7. ASSUME clash = FALSE PROVE Single' /\ Format' /\ Placed'
    <2>1. Single /\ Format /\ Placed
      BY <1>7 DEF GalaxyInv
    <2>2. npfd = gumdfd /\ gumdfd' = -1 /\ npfd' = -1
      BY <1>1, <2>1 DEF Single
    <2>3. \A f \in Fds : fd'[f].st = "closed"
      BY <1>4, <2>1, <2>2 DEF Single
    <2>4. gpc[Mount] = "idle"
      BY <1>1, <1>7, Alone DEF Inside
    <2>5. Single'
      BY <1>3, <2>2, <2>3, <2>4, Alone DEF Single
    <2>6. Format'
      BY <1>1, <1>3, <2>1, <2>2, Alone DEF Format, G!Opening
    <2>7. Placed'
      BY <1>1, <1>3, <2>1, <2>2, Alone DEF Placed, G!Opening
    <2> QED
      BY <2>5, <2>6, <2>7
  <1> QED
    BY <1>1, <1>5, <1>6, <1>7 DEF GalaxyInv

LEMMA GalaxySteps ==
  ASSUME GalaxyInv, [G!Next]_(G!vars)
  PROVE  GalaxyInv'
  <1>1. CASE G!Eject \/ G!Insert
    BY <1>1, StickMoves
  <1>2. CASE G!OpenUmdImage
    BY <1>2, OpensFirst
  <1>3. CASE (\E r \in Readers : G!Request(r)) \/ G!CloseRequest
    BY <1>3, Begins
  <1>4. ASSUME NEW t \in G!Threads, G!Step(t)
        PROVE  GalaxyInv'
    BY <1>4, Opens, OpensTry, OpensHeader, Locks, Unlocks, SeeksReads, ClosesIso DEF G!Step
  <1>5. CASE UNCHANGED G!vars
    BY <1>5 DEF G!vars, G!file, G!hist, GalaxyInv, GalaxyTypes, Owned, Inside, Single, Format,
       Placed
  <1> QED
    BY <1>1, <1>2, <1>3, <1>4, <1>5 DEF G!Next

\* Readers, the mount thread and a close that have met nobody use one descriptor,
\* which is the one the closed module has, in the format of the image.
THEOREM SpecGalaxyInv == G!Spec => []GalaxyInv
  <1>1. GalaxyInv /\ [G!Next]_(G!vars) => GalaxyInv'
    BY GalaxySteps
  <1> QED
    BY GalaxyInit, <1>1, PTL DEF G!Spec

LEMMA GalaxyServes ==
  ASSUME GalaxyInv
  PROVE  G!OneDescriptor /\ G!ModuleKnows /\ G!BytesWanted
  <1>1. CASE clash = TRUE
    BY <1>1 DEF G!OneDescriptor, G!ModuleKnows, G!BytesWanted
  <1>2. CASE clash = FALSE
    <2>1. GalaxyTypes /\ Single /\ Format /\ Placed
      BY <1>2 DEF GalaxyInv
    <2>2. G!OpenSet \subseteq {gumdfd} /\ npfd = gumdfd
      BY <2>1 DEF Single, G!OpenSet
    <2>3. \A f, g \in G!OpenSet : f = g
      BY <2>2
    <2>4. npfd = -1 => G!OpenSet = {}
      <3>1. -1 \notin G!OpenSet
        BY TitleAssumption DEF G!FdsAssumption, G!OpenSet
      <3> QED
        BY <2>2, <3>1
    <2>5. G!BytesWanted
      <3>1. ASSUME NEW r \in Readers, out[r] \notin {"none", "error"},
                   reread[r] = FALSE, headless = FALSE
            PROVE  out[r] = "wanted" /\ how[r] = (gimage = "cso")
        <4>1. out[r] = "wanted"
          BY <2>1, <3>1 DEF Placed
        <4>2. how[r] = TRUE <=> gimage = "cso"
          BY <2>1, <3>1 DEF Format
        <4>3. how[r] \in BOOLEAN
          BY <2>1 DEF GalaxyTypes
        <4> QED
          BY <4>1, <4>2, <4>3
      <3>2. headless \in BOOLEAN /\ \A r \in Readers : reread[r] \in BOOLEAN
        BY <2>1 DEF GalaxyTypes
      <3>3. ASSUME NEW r \in Readers, out[r] \notin {"none", "error"}, ~reread[r], ~headless
            PROVE  out[r] = "wanted" /\ how[r] = (gimage = "cso")
        <4>1. reread[r] = FALSE /\ headless = FALSE
          BY <3>2, <3>3
        <4> QED
          BY <3>1, <3>3, <4>1
      <3> QED
        BY <3>3 DEF G!BytesWanted
    <2>6. G!OneDescriptor
      BY <2>2, <2>3 DEF G!OneDescriptor
    <2>7. G!ModuleKnows
      BY <2>2, <2>4 DEF G!ModuleKnows
    <2> QED
      BY <2>5, <2>6, <2>7
  <1> QED
    BY <1>1, <1>2 DEF GalaxyInv, GalaxyTypes

-----------------------------------------------------------------------------
(* The reader of compressed images (CisoFile, the instance C).             *)

\* The window and the buffer hold what their positions say, and a request has
\* got the bytes up to the sector it is at.
Cached == [cur : Nat \cup {Never}, words : Nat \cup {Never}, pos : Nat \cup {Never},
           bytes : Nat \cup {Never}]
Truly(c) ==
    /\ c \in Cached
    /\ c.cur # Never => c.words = c.cur
    /\ c.pos # Never => c.bytes = c.pos
Filled(n) == data = [k \in 1 .. n |-> request.offset + k - 1]
Asked ==
    /\ request.offset + request.size <= Sectors * SectorBytes
    /\ \E n \in 0 .. request.size :
          /\ Filled(n)
          /\ n = 0 => request.lba = request.offset \div SectorBytes
          /\ n # 0 /\ n # request.size => request.lba * SectorBytes = request.offset + n
Indexed == \E l \in Layouts : start = l.start /\ length = l.length
CsoInv ==
    /\ Indexed
    /\ request \in [offset : Nat, size : Nat, lba : Nat]
    /\ Truly(C!Caches)
    /\ Asked

LEMMA CsoInit == C!Init => CsoInv
  <1> SUFFICES ASSUME C!Init PROVE CsoInv
    OBVIOUS
  <1>1. Sectors \in Nat /\ SectorBytes \in Nat /\ SectorBytes > 0
    BY TitleAssumption DEF C!SizesAssumption
  <1>2. /\ request = [offset |-> 0, size |-> 0, lba |-> 0] /\ data = <<>>
        /\ Indexed
    BY DEF C!Init, C!Idle, Indexed
  <1>3. Truly(C!Caches)
    BY DEF C!Init, C!Caches, Truly, Cached
  <1>4. Filled(0)
    BY <1>2 DEF Filled
  <1>5. 0 <= Sectors * SectorBytes /\ 0 \div SectorBytes = 0
    BY <1>1
  <1> QED
    BY <1>2, <1>3, <1>4, <1>5 DEF CsoInv, Asked

\* what the operators of one sector give
LEMMA Opened ==
  ASSUME NEW c, Truly(c), NEW d \in C!ReadUmdFileRetry(c)
  PROVE  Truly(d)
  BY DEF C!ReadUmdFileRetry, C!CisoOpen, Truly, Cached

LEMMA WordFound ==
  ASSUME NEW c, Truly(c), NEW s \in Nat, NEW d \in C!GetIndex(c, s)
  PROVE  Truly(d) /\ C!Found(d, s) = s
  <1>1. CASE C!Shows(c, s)
    BY <1>1 DEF C!GetIndex, C!Shows, C!Found, Truly, Cached
  <1>2. CASE ~C!Shows(c, s)
    <2>1. PICK e \in C!ReadUmdFileRetry(c) : d = [e EXCEPT !.cur = s, !.words = s]
      BY <1>2 DEF C!GetIndex
    <2>2. Truly(e)
      BY Opened
    <2>3. d \in Cached /\ d.cur = s /\ d.words = s /\ d.pos = e.pos /\ d.bytes = e.bytes
      BY <2>1, <2>2 DEF Truly, Cached
    <2> QED
      BY <2>2, <2>3 DEF C!Found, Truly
  <1> QED
    BY <1>1, <1>2

\* how much of the buffer the code takes a block to need
Need(s) ==
    LET n == start[s + 1] - start[s] IN IF n <= 0 \/ n > SectorBytes THEN SectorBytes ELSE n

LEMMA Layout ==
  ASSUME CsoInv, NEW s \in 0 .. Sectors - 1
  PROVE  /\ start[s] \in Nat /\ start[s + 1] \in Nat /\ length[s] \in 0 .. SectorBytes
         /\ length[s] <= Need(s) /\ Need(s) \in 1 .. SectorBytes
  <1>0. SectorBytes \in Nat \ {0} /\ s \in 0 .. Sectors /\ s + 1 \in 0 .. Sectors
    BY TitleAssumption DEF C!SizesAssumption
  <1>1. PICK l \in Layouts : start = l.start /\ length = l.length
    BY DEF CsoInv, Indexed
  <1>2. l.start \in [0 .. Sectors -> Nat] /\ l.length \in [0 .. Sectors - 1 -> 0 .. SectorBytes]
    BY TitleAssumption DEF C!LayoutsAssumption, C!Blocks
  <1>3. l.start[s + 1] - l.start[s] \in 1 .. SectorBytes
           => l.length[s] <= l.start[s + 1] - l.start[s]
    BY TitleAssumption DEF C!LayoutsAssumption, C!Blocks
  <1>4. start[s] \in Nat /\ start[s + 1] \in Nat /\ length[s] \in 0 .. SectorBytes
    BY <1>0, <1>1, <1>2
  <1>5. start[s + 1] - start[s] \in 1 .. SectorBytes => length[s] <= start[s + 1] - start[s]
    BY <1>1, <1>3
  <1> QED
    BY <1>0, <1>4, <1>5 DEF Need

LEMMA BlockThere ==
  ASSUME CsoInv, NEW c, Truly(c), NEW s \in 0 .. Sectors - 1, NEW d \in C!Loaded(c, s, s + 1)
  PROVE  Truly(d) /\ C!There(d, s)
  <1>1. /\ start[s] \in Nat /\ length[s] \in 0 .. SectorBytes
        /\ length[s] <= Need(s) /\ Need(s) \in 1 .. SectorBytes
    BY Layout
  <1>2. SectorBytes \in Nat /\ BufSize \in Nat /\ BufSize >= SectorBytes
    BY TitleAssumption DEF C!SizesAssumption, C!BufferAssumption
  <1>3. d \in IF C!Held(c, start[s], Need(s)) THEN {c}
              ELSE {[e EXCEPT !.pos = start[s], !.bytes = start[s]] : e \in C!ReadUmdFileRetry(c)}
    BY DEF C!Loaded, Need
  <1>4. CASE C!Held(c, start[s], Need(s))
    <2>1. d = c /\ c.pos # Never /\ c.bytes = c.pos /\ c.pos \in Nat
      BY <1>3, <1>4 DEF C!Held, Truly, Cached
    <2>2. c.pos <= start[s] /\ start[s] + Need(s) <= c.pos + BufSize
      BY <1>1, <1>4, <2>1 DEF C!Held
    <2>3. start[s] + length[s] <= c.bytes + BufSize
      BY <1>1, <1>2, <2>1, <2>2
    <2> QED
      BY <2>1, <2>2, <2>3 DEF C!There
  <1>5. CASE ~C!Held(c, start[s], Need(s))
    <2>1. PICK e \in C!ReadUmdFileRetry(c) : d = [e EXCEPT !.pos = start[s], !.bytes = start[s]]
      BY <1>3, <1>5
    <2>2. Truly(e)
      BY Opened
    <2>3. /\ d \in Cached /\ d.cur = e.cur /\ d.words = e.words
          /\ d.pos = start[s] /\ d.bytes = start[s]
      BY <1>1, <2>1, <2>2 DEF Truly, Cached
    <2>4. C!There(d, s)
      BY <1>1, <1>2, <2>3 DEF C!There
    <2> QED
      BY <2>2, <2>3, <2>4 DEF Truly
  <1> QED
    BY <1>4, <1>5

LEMMA SectorRead ==
  ASSUME CsoInv, NEW s \in 0 .. Sectors - 1, NEW r \in C!ReadOne(s)
  PROVE  Truly(r[1]) /\ r[2] = s
  <1>1. s \in Nat /\ s + 1 \in 0 .. Sectors /\ s \in C!Blocks
    BY TitleAssumption DEF C!SizesAssumption, C!Blocks
  <1>2. Truly(C!Caches)
    BY DEF CsoInv
  <1>3. \A c1 \in C!GetIndex(C!Caches, s) : Truly(c1) /\ C!Found(c1, s) = s
    BY <1>1, <1>2, WordFound
  <1>4. PICK c1 \in C!GetIndex(C!Caches, s) :
           r \in IF length[s] = 0 THEN {<<c, s>> : c \in C!ReadUmdFileRetry(c1)}
                 ELSE UNION {LET z == C!Found(c2, s + 1) IN
                       IF z \notin 0 .. Sectors THEN {<<c2, Never>>}
                       ELSE {<<c, IF C!There(c, s) THEN s ELSE Never>> : c \in C!Loaded(c2, s, z)} :
                       c2 \in C!GetIndex(c1, s + 1)}
    BY <1>1, <1>3 DEF C!ReadOne
  <1>5. CASE length[s] = 0
    <2>1. PICK c \in C!ReadUmdFileRetry(c1) : r = <<c, s>>
      BY <1>4, <1>5
    <2> QED
      BY <1>3, <2>1, Opened
  <1>6. CASE length[s] # 0
    <2>1. \A c2 \in C!GetIndex(c1, s + 1) : Truly(c2) /\ C!Found(c2, s + 1) = s + 1
      BY <1>1, <1>3, WordFound
    <2>2. PICK c2 \in C!GetIndex(c1, s + 1) :
             r \in {<<c, IF C!There(c, s) THEN s ELSE Never>> : c \in C!Loaded(c2, s, s + 1)}
      BY <1>1, <1>4, <1>6, <2>1
    <2>3. PICK c \in C!Loaded(c2, s, s + 1) : r = <<c, IF C!There(c, s) THEN s ELSE Never>>
      BY <2>2
    <2>4. Truly(c) /\ C!There(c, s)
      BY <2>1, BlockThere
    <2> QED
      BY <2>3, <2>4
  <1> QED
    BY <1>5, <1>6

LEMMA Product ==
  ASSUME NEW a \in Nat, NEW b \in Nat, NEW n \in Nat, a * n < b * n
  PROVE  a < b
  <1>1. CASE b <= a
    <2>1. PICK d \in Nat : a = b + d
      <3>1. a - b \in Nat /\ a = b + (a - b)
        BY <1>1
      <3> QED
        BY <3>1
    <2>2. a * n = b * n + d * n /\ d * n \in Nat /\ b * n \in Nat
      BY <2>1
    <2> QED
      BY <2>2
  <1> QED
    BY <1>1

\* A sector gives the next n bytes: those from offset o on, to its end or to that
\* of the request.
LEMMA Taken ==
  ASSUME CsoInv, NEW m \in 0 .. request.size, Filled(m),
         NEW o \in Nat, NEW n \in Nat, n > 0, m + n <= request.size,
         request.lba * SectorBytes + o = request.offset + m,
         m + n = request.size \/ o + n = SectorBytes,
         C!Take(o, n)
  PROVE  CsoInv'
  <1>1. request \in [offset : Nat, size : Nat, lba : Nat] /\ Indexed
    BY DEF CsoInv
  <1>0. PICK s \in Nat : s = request.lba
    BY <1>1
  <1>2. Sectors \in Nat /\ SectorBytes \in Nat /\ SectorBytes > 0 /\ Never \notin Int
    BY TitleAssumption DEF C!SizesAssumption, C!LayoutsAssumption
  <1>3. request.offset + request.size <= Sectors * SectorBytes
    BY DEF CsoInv, Asked
  <1>4. s * SectorBytes < Sectors * SectorBytes
    BY <1>0, <1>1, <1>2, <1>3
  <1>5. s \in 0 .. Sectors - 1
    BY <1>2, <1>4, Product
  <1>6. PICK r \in C!ReadOne(s) :
           /\ C!Become(r[1])
           /\ data' = data \o C!Piece(r[2], o, n)
           /\ request' = [request EXCEPT !.lba = s + 1]
           /\ UNCHANGED C!index
    BY <1>0 DEF C!Take
  <1>7. Truly(r[1]) /\ r[2] = s
    BY <1>5, SectorRead
  <1>8. C!Piece(s, o, n) = [k \in 1 .. n |-> (request.offset + m) + k - 1]
    <2>1. s # Never
      BY <1>1, <1>2
    <2>2. \A k \in 1 .. n : s * SectorBytes + o + k - 1 = (request.offset + m) + k - 1
      BY <1>0, <1>1, <1>2
    <2> QED
      BY <2>1, <2>2 DEF C!Piece
  <1>9. data' = [k \in 1 .. m + n |-> request.offset + k - 1]
    <2>1. data' = [k \in 1 .. m |-> request.offset + k - 1]
                  \o [k \in 1 .. n |-> (request.offset + m) + k - 1]
      BY <1>6, <1>7, <1>8 DEF Filled
    <2>2. request.offset \in Int
      BY <1>1
    <2> QED
      BY <2>1, <2>2, PartsJoin
  <1>10. /\ request' \in [offset : Nat, size : Nat, lba : Nat]
         /\ request'.offset = request.offset /\ request'.size = request.size
         /\ request'.lba = s + 1
    BY <1>1, <1>6
  <1>11. Truly(C!Caches)'
    <2>1. C!Caches' = [cur |-> r[1].cur, words |-> r[1].words, pos |-> r[1].pos,
                       bytes |-> r[1].bytes]
      BY <1>6 DEF C!Become, C!Caches
    <2>2. C!Caches' = r[1]
      BY <2>1, <1>7 DEF Truly, Cached
    <2> QED
      BY <2>2, <1>7 DEF Truly
  <1>12. (s + 1) * SectorBytes = s * SectorBytes + SectorBytes
    BY <1>1, <1>2
  <1>13. m + n # request.size => (s + 1) * SectorBytes = request.offset + (m + n)
    <2>1. PICK a \in Nat, b \in Nat, f \in Nat :
             a = s * SectorBytes /\ b = (s + 1) * SectorBytes /\ f = request.offset
      <3>1. s * SectorBytes \in Nat /\ (s + 1) * SectorBytes \in Nat /\ request.offset \in Nat
        BY <1>1, <1>2
      <3> QED
        BY <3>1
    <2>2. a + o = f + m /\ b = a + SectorBytes
      BY <1>0, <1>12, <2>1
    <2> QED
      <3>1. m \in Nat
        BY <1>1
      <3>2. o + n = SectorBytes => b = f + (m + n)
        BY <1>2, <2>2, <3>1
      <3> QED
        BY <2>1, <3>2
  <1>14. Asked'
    <2>1. PICK j \in Nat : j = m + n
      OBVIOUS
    <2>2. Filled(j)'
      BY <1>9, <1>10, <2>1 DEF Filled
    <2>3. j # 0 /\ j \in 0 .. request'.size
      BY <1>10, <1>1, <2>1
    <2>4. j # request'.size => request'.lba * SectorBytes = request'.offset + j
      BY <1>10, <1>13, <2>1
    <2>5. request'.offset + request'.size <= Sectors * SectorBytes
      BY <1>3, <1>10
    <2> QED
      BY <2>2, <2>3, <2>4, <2>5 DEF Asked
  <1> QED
    BY <1>1, <1>6, <1>10, <1>11, <1>14 DEF CsoInv, Indexed, C!index

LEMMA CsoSteps ==
  ASSUME CsoInv, [C!Next]_(C!vars)
  PROVE  CsoInv'
  <1>1. request \in [offset : Nat, size : Nat, lba : Nat] /\ Indexed
        /\ Truly(C!Caches)
    BY DEF CsoInv
  <1>2. Sectors \in Nat /\ SectorBytes \in Nat /\ SectorBytes > 0 /\ Never \notin Int
    BY TitleAssumption DEF C!SizesAssumption, C!LayoutsAssumption
  <1>3. Sectors * SectorBytes \in Nat
    BY <1>2
  <1>4. PICK m \in 0 .. request.size :
           /\ Filled(m)
           /\ m = 0 => request.lba = request.offset \div SectorBytes
           /\ m # 0 /\ m # request.size => request.lba * SectorBytes = request.offset + m
    BY DEF CsoInv, Asked
  <1>5. m \in Nat /\ Len(data) = m /\ C!remaining = request.size - m
    BY <1>1, <1>4 DEF Filled, C!remaining
  <1>6. data = <<>> <=> m = 0
    <2>1. data = <<>> => m = 0
      BY <1>5
    <2>2. CASE m = 0
      <3>1. data = [k \in 1 .. 0 |-> request.offset + k - 1]
        BY <1>4, <2>2 DEF Filled
      <3> QED
        BY <3>1, <2>2
    <2> QED
      BY <2>1, <2>2
  <1>7. C!InSector <=> m = 0 /\ request.offset % SectorBytes # 0
    BY <1>6 DEF C!InSector
  <1>8. PICK x \in 0 .. SectorBytes - 1 :
           /\ x = request.offset % SectorBytes
           /\ request.offset = (request.offset \div SectorBytes) * SectorBytes + x
    <2>1. request.offset \in Nat
      BY <1>1
    <2> QED
      BY <2>1, <1>2
  <1>9. ASSUME request' = C!Idle, data' = <<>>, UNCHANGED C!index, Truly(C!Caches)' PROVE CsoInv'
    <2>1. /\ request' = [offset |-> 0, size |-> 0, lba |-> 0] /\ Filled(0)'
          /\ 0 \div SectorBytes = 0
      BY <1>2, <1>9 DEF C!Idle, Filled
    <2> QED
      BY <1>1, <1>3, <1>9, <2>1 DEF CsoInv, Asked, Indexed, C!index
  <1>10. ASSUME NEW offset \in 0 .. Sectors * SectorBytes - 1,
                NEW size \in 1 .. Sectors * SectorBytes - offset, C!CisoReadFile(offset, size)
         PROVE  CsoInv'
    <2>1. request' = [offset |-> offset, size |-> size, lba |-> offset \div SectorBytes]
      BY <1>10 DEF C!CisoReadFile
    <2>2. m = 0 /\ data' = <<>>
      BY <1>5, <1>6, <1>10, <1>1 DEF C!CisoReadFile
    <2>3. offset \in Nat /\ size \in Nat /\ offset + size <= Sectors * SectorBytes
          /\ offset \div SectorBytes \in Nat
      BY <1>2, <1>3
    <2>4. Filled(0)'
      BY <2>2 DEF Filled
    <2>5. Truly(C!Caches)' /\ UNCHANGED C!index
      BY <1>1, <1>10 DEF C!CisoReadFile, C!index, C!caches, C!Caches, Truly
    <2> QED
      BY <1>1, <2>1, <2>3, <2>4, <2>5 DEF CsoInv, Asked, Indexed, C!index
  <1>11. CASE C!First
    <2>1. m = 0 /\ request.lba * SectorBytes + x = request.offset + m
      BY <1>1, <1>2, <1>4, <1>7, <1>8, <1>11 DEF C!First
    <2> DEFINE n == IF SectorBytes - x > C!remaining THEN C!remaining ELSE SectorBytes - x
    <2>2. C!Take(x, n)
      BY <1>8, <1>11 DEF C!First
    <2>3. request.size \in Nat /\ request.size > 0
      BY <1>1, <1>11 DEF C!First
    <2>4. /\ n \in Nat /\ n > 0 /\ m + n <= request.size
          /\ m + n = request.size \/ x + n = SectorBytes
      BY <1>2, <1>5, <1>8, <2>1, <2>3
    <2> HIDE DEF n
    <2> QED
      BY <1>4, <2>1, <2>2, <2>4, Taken
  <1>12. ASSUME ~C!InSector, C!remaining > 0
         PROVE  request.lba * SectorBytes + 0 = request.offset + m
    <2>1. m # request.size
      BY <1>1, <1>5, <1>12
    <2>2. CASE m # 0
      BY <1>1, <1>2, <1>4, <2>1, <2>2
    <2>3. CASE m = 0
      BY <1>1, <1>2, <1>4, <1>7, <1>8, <1>12, <2>3
    <2> QED
      BY <2>2, <2>3
  <1>13. CASE C!Sector
    <2>1. ~C!InSector /\ C!remaining >= SectorBytes /\ C!Take(0, SectorBytes)
      BY <1>13 DEF C!Sector
    <2>2. /\ C!remaining > 0 /\ m + SectorBytes <= request.size
          /\ 0 + SectorBytes = SectorBytes
      BY <1>1, <1>2, <1>5, <2>1
    <2> QED
      BY <1>2, <1>4, <1>12, <2>1, <2>2, Taken
  <1>14. CASE C!Rest
    <2>1. ~C!InSector /\ 0 < C!remaining /\ C!Take(0, C!remaining)
      BY <1>14 DEF C!Rest
    <2>2. PICK n \in Nat : n = C!remaining
      BY <1>1, <1>5, <2>1
    <2>3. n > 0 /\ m + n = request.size /\ C!Take(0, n)
      BY <1>1, <1>5, <2>1, <2>2
    <2>4. request.lba * SectorBytes + 0 = request.offset + m
      BY <1>12, <2>1, <2>2, <2>3
    <2>5. m + n <= request.size
      BY <1>1, <2>3
    <2> QED
      BY <1>4, <2>3, <2>4, <2>5, Taken
  <1>15. CASE C!Return
    BY <1>1, <1>9, <1>15 DEF C!Return, C!caches, C!Caches, Truly
  <1>16. CASE C!Fail
    <2>1. PICK s \in Nat : s = request.lba
      BY <1>1
    <2>2. \A c \in C!GetIndex(C!Caches, s) : Truly(c)
      BY <1>1, WordFound
    <2>3. s + 1 \in Nat
      OBVIOUS
    <2>4. \A c \in C!GetIndex(C!Caches, s) : \A d \in C!GetIndex(c, s + 1) : Truly(d)
      BY <2>2, <2>3, WordFound
    <2>5. PICK c \in {C!Caches} \cup C!GetIndex(C!Caches, s)
                     \cup UNION {C!GetIndex(d, s + 1) : d \in C!GetIndex(C!Caches, s)} :
             \E d \in C!CisoOpen(c) : C!Become(d)
      BY <1>16, <2>1 DEF C!Fail
    <2>6. Truly(c)
      BY <1>1, <2>2, <2>4
    <2>7. PICK d \in C!CisoOpen(c) : C!Become(d)
      BY <2>5
    <2>8. Truly(d)
      BY <2>6, Opened DEF C!ReadUmdFileRetry
    <2>9. C!Caches' = [cur |-> d.cur, words |-> d.words, pos |-> d.pos, bytes |-> d.bytes]
      BY <2>7 DEF C!Become, C!Caches
    <2>10. C!Caches' = d
      BY <2>8, <2>9 DEF Truly, Cached
    <2>11. Truly(C!Caches)'
      BY <2>8, <2>10 DEF Truly
    <2> QED
      BY <1>9, <1>16, <2>11 DEF C!Fail
  <1>17. CASE UNCHANGED C!vars
    BY <1>1, <1>17 DEF C!vars, C!index, C!caches, C!Caches, CsoInv, Indexed, Truly, Asked, Filled
  <1> QED
    BY <1>10, <1>11, <1>13, <1>14, <1>15, <1>16, <1>17 DEF C!Next

\* The window and the buffer hold what they say and a request is at the sector its
\* bytes have come to.
THEOREM SpecCsoInv == C!Spec => []CsoInv
  <1>1. CsoInv /\ [C!Next]_(C!vars) => CsoInv'
    BY CsoSteps
  <1> QED
    BY CsoInit, <1>1, PTL DEF C!Spec

LEMMA CsoServes == CsoInv => C!BytesRight
  <1> SUFFICES ASSUME CsoInv PROVE C!BytesRight
    OBVIOUS
  <1>1. request.size \in Nat
    BY DEF CsoInv
  <1>2. PICK m \in 0 .. request.size : Filled(m)
    BY DEF CsoInv, Asked
  <1>3. Len(data) = m
    BY <1>1, <1>2 DEF Filled
  <1> QED
    BY <1>1, <1>2, <1>3 DEF Filled, C!BytesRight, C!remaining

-----------------------------------------------------------------------------

\* Every request for a part of an image gets its bytes through the one descriptor
\* that all agree on, compressed or not (OneDescriptor, ModuleKnows, BytesWanted,
\* BytesRight).
THEOREM SpecImageServes == AllSpec => []ImageServes
  <1>1. AllInit => G!Init /\ C!Init
    BY DEF AllInit
  <1>2. [AllNext]_allVars => [G!Next]_(G!vars)
    <2> SUFFICES ASSUME [AllNext]_allVars, ~(UNCHANGED G!vars) PROVE G!Next
      OBVIOUS
    <2>1. ~UNCHANGED galaxyVars
      BY DEF galaxyVars, G!vars, G!file, G!hist
    <2>2. ~UNCHANGED allVars
      BY <2>1 DEF allVars
    <2> QED
      BY <2>1, <2>2 DEF AllNext
  <1>3. [AllNext]_allVars => [C!Next]_(C!vars)
    <2> SUFFICES ASSUME [AllNext]_allVars, ~(UNCHANGED C!vars) PROVE C!Next
      OBVIOUS
    <2>1. ~UNCHANGED csoVars
      BY DEF csoVars, C!vars, C!index, C!caches
    <2>2. ~UNCHANGED allVars
      BY <2>1 DEF allVars
    <2> QED
      BY <2>1, <2>2 DEF AllNext
  <1>4. GalaxyInv /\ CsoInv => ImageServes
    BY GalaxyServes, CsoServes DEF ImageServes
  <1> QED
    BY <1>1, <1>2, <1>3, <1>4, SpecGalaxyInv, SpecCsoInv, PTL DEF AllSpec, G!Spec, C!Spec
=============================================================================
