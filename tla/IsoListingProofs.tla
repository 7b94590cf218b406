---------------------------- MODULE IsoListingProofs ---------------------------
(***************************************************************************)
(* What the listing of the game directory promises, for any images in any  *)
(* order, any size of the cache and of the table of the manager, and any   *)
(* number of listings: names refer to slots, a whole listing shows every   *)
(* good image, what the cache serves is true and saves the work, and a     *)
(* video image stays mounted.  At the end, what the manager of the virtual *)
(* files promises those who read and list them.                            *)
(***************************************************************************)
EXTENDS MCIsoListing, FiniteSetTheorems, WellFoundedInduction, TLAPS

\* A slot of the manager, and a cell of the cache: it holds a good image or
\* none, and its second date is the first (IsCached, virtualpbp_fastadd)
SlotRecord == [iso : Isos, mtime : {0} \cup Versions,
               header : {Offsets(Sizes[i]) : i \in Isos}, pos : Nat]
Entry == {e \in [iso : (Isos \ Broken) \cup {NoIso}, mtime : {0} \cup Versions,
                 content : {0} \cup Versions] : e.content = e.mtime}
ListedRecord == [iso : Isos, name : {Raw} \cup 0..MaxFiles, mtime : Versions]

TypeInv ==
    /\ slots \in Seq(SlotRecord) /\ Len(slots) <= MaxFiles
    /\ stick \in [Isos -> {0} \cup Versions]
    /\ gamedfd \in BOOLEAN /\ overiso \in BOOLEAN /\ whole \in BOOLEAN
    /\ cachechanged \in BOOLEAN /\ warm \in BOOLEAN /\ short \in BOOLEAN
    /\ mounted \in BOOLEAN /\ swapped \in BOOLEAN
    /\ isodfd \in {Closed} \cup DOMAIN Order
    /\ isoindex \in 0..Len(slots)
    /\ cache \in [Cells -> Entry] /\ disk \in [Cells -> Entry] /\ referenced \subseteq Cells
    /\ umdfile \in Isos \cup {NoIso, Video}
    /\ listed \in Seq(ListedRecord) /\ scanned \subseteq Isos
    /\ \A h \in handles : "slot" \in DOMAIN h /\ h.slot \in Indices

\* No image has two slots
Distinct(table) == \A j, k \in DOMAIN table : table[j].iso = table[k].iso => j = k

\* The images that have slots are among the first entries of the directory
Among(table, at) ==
    \A s \in DOMAIN table : \E k \in DOMAIN Order : k <= at /\ Order[k] = table[s].iso

\* The number of the next name is that of the next slot, without dotted images
DriftedIn(table) == \E s \in DOMAIN table : ~Named(table[s].iso)
Counted(table, number) == DriftedIn(table) \/ number = Len(table)

\* An image that was shown has a slot, of its date; its name is that slot's
Holds(table, entry, s) ==
    /\ table[s].iso = entry.iso /\ table[s].mtime = entry.mtime
    /\ DriftedIn(table) \/ entry.name + 1 = s
Shown(table) ==
    \A k \in DOMAIN listed : \E s \in DOMAIN table : Holds(table, listed[k], s)

\* What was read of the directory from its beginning: every slot is that of a
\* good image that was shown, and a good image without a slot found no room
Every(table, at) ==
    /\ \A s \in DOMAIN table :
          table[s].iso \in Good /\ \E k \in DOMAIN listed : listed[k].iso = table[s].iso
    /\ \A j \in DOMAIN Order : j <= at /\ Order[j] \in Good =>
          \/ \E k \in DOMAIN listed : listed[k].iso = Order[j]
          \/ Len(table) = MaxFiles

\* What this listing has referred to is true now
Referred(cells, refs) ==
    \A c \in refs : cells[c].iso \in Isos /\ cells[c].mtime = stick[cells[c].iso]

\* What came through of the cache file: of each of its cells all, a part or nothing
FromDisk(cells) == \A c \in Cells : cells[c] \in {disk[c], Torn(disk[c]), NoEntry}

\* The cells hold every good image as it is now
Serves(cells) ==
    \A iso \in Good : \E c \in Cells : cells[c].iso = iso /\ cells[c].mtime = stick[iso]

\* How far ms0:/ISO was read
Reached == IF isodfd = Closed THEN Len(Order) ELSE isodfd

SlotsInv ==
    /\ Distinct(slots)
    /\ isodfd # Closed => Among(slots, isodfd) /\ Counted(slots, isoindex)
ListedInv ==
    /\ Shown(slots)
    /\ \A j, k \in DOMAIN listed : listed[j].iso = listed[k].iso => j = k
\* Before the first image of a listing
FreshInv ==
    /\ overiso => gamedfd /\ isodfd = Closed
    /\ ~gamedfd \/ (isodfd = Closed /\ ~overiso) => listed = <<>> /\ scanned = {} /\ ~cachechanged
WholeInv ==
    gamedfd /\ whole /\ (isodfd # Closed \/ overiso) =>
        /\ Every(slots, Reached)
        /\ Referred(cache, referenced)
        /\ ~cachechanged => FromDisk(cache)
WarmInv ==
    warm =>
        /\ Serves(disk) /\ Referred(cache, referenced)
        /\ ~short => (isodfd # Closed => Serves(cache)) /\ scanned = {}

IInv == TypeInv /\ SlotsInv /\ ListedInv /\ FreshInv /\ WholeInv /\ WarmInv /\ MountKept

USE DEF VirtualPbpAssumption, ListingAssumption
-----------------------------------------------------------------------------
(* The next image, the cell that hits and the cell that is free.           *)

\* A set of naturals has a least element, and Min finds it
LEMMA LeastOf ==
  ASSUME NEW S \in SUBSET Nat, S # {}
  PROVE  Min(S) \in S /\ \A g \in S : Min(S) <= g
  <1>1. IsWellFoundedOn(OpToRel(<, Nat), Nat)
    BY NatLessThanWellFounded
  <1>2. PICK x \in S : \A y \in S : <<y, x>> \notin OpToRel(<, Nat)
    BY <1>1, WFMin, S \subseteq Nat
  <1>3. \A y \in S : ~(y < x)
    BY <1>2 DEF OpToRel
  <1>4. \E h \in S : \A g \in S : h <= g
    BY <1>3
  <1> QED
    BY <1>4 DEF Min

LEMMA OrderTypes == Len(Order) \in Nat /\ DOMAIN Order = 1..Len(Order)
  BY ListingAssumption

\* The next image is the first that is there behind what was read
LEMMA NextImage ==
  ASSUME NEW w, w.at \in Nat, Ahead(w) # {}
  PROVE  /\ Min(Ahead(w)) \in DOMAIN Order /\ Min(Ahead(w)) > w.at
         /\ Order[Min(Ahead(w))] \in Isos /\ stick[Order[Min(Ahead(w))]] # 0
         /\ \A j \in DOMAIN Order :
               j > w.at /\ j < Min(Ahead(w)) => Order[j] \notin Isos \/ stick[Order[j]] = 0
  <1>1. Ahead(w) \in SUBSET Nat
    BY OrderTypes DEF Ahead
  <1>2. Min(Ahead(w)) \in Ahead(w) /\ \A g \in Ahead(w) : Min(Ahead(w)) <= g
    BY <1>1, LeastOf
  <1>3. \A j \in DOMAIN Order : j \in Nat
    BY OrderTypes
  <1>4. Min(Ahead(w)) \in Nat
    BY <1>1, <1>2
  <1>5. ASSUME NEW j \in DOMAIN Order, j > w.at, j < Min(Ahead(w))
        PROVE  Order[j] \notin Isos \/ stick[Order[j]] = 0
    <2>1. j \notin Ahead(w)
      BY <1>2, <1>3, <1>4, <1>5
    <2> QED
      BY <1>5, <2>1 DEF Ahead
  <1> QED
    BY <1>2, <1>5 DEF Ahead

LEMMA HitCell ==
  ASSUME NEW w, NEW iso, Hits(w, iso) # {}
  PROVE  /\ Min(Hits(w, iso)) \in Cells
         /\ w.cache[Min(Hits(w, iso))].iso = iso
         /\ w.cache[Min(Hits(w, iso))].mtime = stick[iso]
  <1>1. Hits(w, iso) \in SUBSET Nat
    BY DEF Hits, Cells
  <1>2. Min(Hits(w, iso)) \in Hits(w, iso)
    BY <1>1, LeastOf
  <1> QED
    BY <1>2 DEF Hits

LEMMA FreeCell ==
  ASSUME NEW w, Free(w) # {}
  PROVE  Min(Free(w)) \in Cells /\ w.cache[Min(Free(w))].iso = NoIso
  <1>1. Free(w) \in SUBSET Nat
    BY DEF Free, Cells
  <1>2. Min(Free(w)) \in Free(w)
    BY <1>1, LeastOf
  <1> QED
    BY <1>2 DEF Free

\* An image is made a slot of its own
LEMMA PbpTypes ==
  ASSUME NEW iso \in Isos, NEW v \in {0} \cup Versions
  PROVE  /\ PbpOf(iso, v) \in SlotRecord
         /\ PbpOf(iso, v).iso = iso /\ PbpOf(iso, v).mtime = v
  BY DEF PbpOf, SlotRecord

-----------------------------------------------------------------------------
(* The state a Dread works on: that of the listing, or an empty table and  *)
(* the cells of the cache file when it enters ms0:/ISO.                    *)

\* What is known of it
Known(w) ==
    /\ w.slots \in Seq(SlotRecord) /\ Len(w.slots) <= MaxFiles
    /\ w.cache \in [Cells -> Entry] /\ w.referenced \subseteq Cells
    /\ w.isoindex \in 0..Len(w.slots) /\ w.at \in Nat
    /\ Distinct(w.slots) /\ Among(w.slots, w.at) /\ Counted(w.slots, w.isoindex)
    /\ Shown(w.slots)
    /\ whole =>
          /\ Every(w.slots, w.at) /\ Referred(w.cache, w.referenced)
          /\ ~cachechanged => FromDisk(w.cache)
    /\ w.short \in BOOLEAN
    /\ warm => Referred(w.cache, w.referenced) /\ (~w.short => Serves(w.cache) /\ scanned = {})

\* What comes through of true cells is true, or no image's
LEMMA ThroughCells ==
  ASSUME NEW cells \in [Cells -> Entry], NEW d \in Through(cells)
  PROVE  /\ d \in [Cells -> Entry]
         /\ \A c \in Cells : d[c] \in {cells[c], Torn(cells[c]), NoEntry}
  <1>1. NoEntry \in Entry
    BY DEF NoEntry, Entry
  <1>2. \A e \in Entry : Torn(e) \in Entry
    BY DEF Torn, Entry
  <1>3. PICK n \in 1..(CacheSize + 1), torn \in BOOLEAN :
           d = [c \in Cells |-> IF c < n THEN cells[c]
                                ELSE IF c = n /\ torn THEN Torn(cells[c]) ELSE NoEntry]
    BY DEF Through
  <1>4. \A c \in Cells : cells[c] \in Entry /\ Torn(cells[c]) \in Entry
    BY <1>2
  <1> QED
    BY <1>1, <1>3, <1>4

LEMMA EnteringKnown ==
  ASSUME IInv, Reading, Entering, NEW w \in Working
  PROVE  Known(w)
  <1>1. PICK cells \in Through(disk) :
           /\ w.slots = <<>> /\ w.cache = cells /\ w.referenced = {} /\ w.isoindex = 0 /\ w.at = 0
           /\ w.short = (cells # disk)
    BY DEF Working
  <1>2. listed = <<>> /\ scanned = {}
    BY DEF IInv, FreshInv, Entering
  <1>3. DOMAIN listed = {} /\ DOMAIN w.slots = {} /\ Len(w.slots) = 0
    BY <1>1, <1>2
  <1>4. w.slots \in Seq(SlotRecord)
    BY <1>1
  <1>5. Len(w.slots) <= MaxFiles /\ w.isoindex \in 0..Len(w.slots) /\ w.at \in Nat
    BY <1>1, <1>3, VirtualPbpAssumption
  <1>6. Distinct(w.slots) /\ Among(w.slots, w.at) /\ Counted(w.slots, w.isoindex)
    BY <1>1, <1>3 DEF Distinct, Among, Counted
  <1>7. Shown(w.slots)
    BY <1>3 DEF Shown
  <1>8. Every(w.slots, w.at) /\ Referred(w.cache, w.referenced)
    BY <1>1, <1>3, OrderTypes DEF Every, Referred
  <1>9. warm /\ ~w.short => Serves(w.cache)
    BY <1>1 DEF IInv, WarmInv
  <1>10. /\ w.cache \in [Cells -> Entry] /\ w.referenced \subseteq Cells
         /\ FromDisk(w.cache) /\ w.short \in BOOLEAN
    BY <1>1, ThroughCells DEF IInv, TypeInv, FromDisk
  <1> QED
    BY <1>2, <1>4, <1>5, <1>6, <1>7, <1>8, <1>9, <1>10 DEF Known

LEMMA GoingOnKnown ==
  ASSUME IInv, Reading, ~Entering, NEW w \in Working
  PROVE  Known(w)
  <1>1. /\ w.slots = slots /\ w.cache = cache /\ w.referenced = referenced
        /\ w.isoindex = isoindex /\ w.at = isodfd /\ w.short = short
    BY DEF Working
  <1>2. isodfd # Closed /\ gamedfd
    BY DEF Reading
  <1>3. Reached = w.at
    BY <1>1, <1>2 DEF Reached
  <1>4. w.at \in Nat
    BY <1>1, <1>2, OrderTypes DEF IInv, TypeInv
  <1>5. Distinct(w.slots) /\ Among(w.slots, w.at) /\ Counted(w.slots, w.isoindex)
    BY <1>1, <1>2 DEF IInv, SlotsInv
  <1>6. Shown(w.slots)
    BY <1>1 DEF IInv, ListedInv
  <1>7. whole => /\ Every(w.slots, w.at) /\ Referred(w.cache, w.referenced)
                 /\ ~cachechanged => FromDisk(w.cache)
    BY <1>1, <1>2, <1>3 DEF IInv, WholeInv
  <1>8. warm => Referred(w.cache, w.referenced) /\ (~w.short => Serves(w.cache) /\ scanned = {})
    BY <1>1, <1>2 DEF IInv, WarmInv
  <1>9. /\ w.slots \in Seq(SlotRecord) /\ Len(w.slots) <= MaxFiles
        /\ w.cache \in [Cells -> Entry] /\ w.referenced \subseteq Cells
        /\ w.isoindex \in 0..Len(w.slots) /\ w.short \in BOOLEAN
    BY <1>1 DEF IInv, TypeInv
  <1> QED
    BY <1>4, <1>5, <1>6, <1>7, <1>8, <1>9 DEF Known

LEMMA WorkingKnown ==
  ASSUME IInv, Reading, NEW w \in Working
  PROVE  Known(w)
  BY EnteringKnown, GoingOnKnown

-----------------------------------------------------------------------------
(* A Dread that shows an image.                                            *)

LEMMA AppendAt ==
  ASSUME NEW S, NEW q \in Seq(S), NEW x \in S
  PROVE  /\ Append(q, x) \in Seq(S) /\ Len(Append(q, x)) = Len(q) + 1 /\ Len(q) \in Nat
         /\ DOMAIN Append(q, x) = 1..Len(q) + 1 /\ DOMAIN q = 1..Len(q)
         /\ \A k \in 1..Len(q) : Append(q, x)[k] = q[k]
         /\ Append(q, x)[Len(q) + 1] = x
  OBVIOUS

\* The image has no slot yet: those that have one come before it
LEMMA NextIsNew ==
  ASSUME NEW w, Known(w), Ahead(w) # {}, NEW s \in DOMAIN w.slots
  PROVE  w.slots[s].iso # Order[Min(Ahead(w))]
  <1>1. w.at \in Nat /\ Among(w.slots, w.at)
    BY DEF Known
  <1>2. PICK k \in DOMAIN Order : k <= w.at /\ Order[k] = w.slots[s].iso
    BY <1>1 DEF Among
  <1>3. Min(Ahead(w)) \in DOMAIN Order /\ Min(Ahead(w)) > w.at /\ Order[Min(Ahead(w))] \in Isos
    BY <1>1, NextImage
  <1>4. k # Min(Ahead(w))
    BY <1>1, <1>2, <1>3, OrderTypes
  <1> QED
    BY <1>2, <1>3, <1>4, ListingAssumption

\* What a Dread that shows the image in slot r does to the table and the names
Shows(w, r) ==
    /\ Ahead(w) # {} /\ Len(w.slots) < MaxFiles
    /\ r \in SlotRecord /\ r.iso = Order[Min(Ahead(w))] /\ r.mtime = stick[r.iso]
    /\ slots' = Append(w.slots, r) /\ isodfd' = Min(Ahead(w))
    /\ Show(w, r.iso)
    /\ UNCHANGED stick

\* The entry it shows
ShownEntry(w, r) == [iso |-> r.iso, name |-> NameOf(w, r.iso), mtime |-> r.mtime]

LEMMA ShowsEffect ==
  ASSUME IInv, NEW w, Known(w), NEW r, Shows(w, r)
  PROVE  /\ slots' \in Seq(SlotRecord) /\ Len(slots') = Len(w.slots) + 1 /\ Len(w.slots) \in Nat
         /\ DOMAIN slots' = 1..Len(w.slots) + 1 /\ DOMAIN w.slots = 1..Len(w.slots)
         /\ \A s \in 1..Len(w.slots) : slots'[s] = w.slots[s]
         /\ slots'[Len(w.slots) + 1] = r
         /\ listed' \in Seq(ListedRecord) /\ Len(listed') = Len(listed) + 1 /\ Len(listed) \in Nat
         /\ DOMAIN listed' = 1..Len(listed) + 1 /\ DOMAIN listed = 1..Len(listed)
         /\ \A k \in 1..Len(listed) : listed'[k] = listed[k]
         /\ listed'[Len(listed) + 1] = ShownEntry(w, r)
         /\ r.iso \in Isos /\ stick[r.iso] # 0 /\ isodfd' \in DOMAIN Order /\ isodfd' > w.at
         /\ isoindex' \in 0..Len(slots')
  <1>1. /\ w.slots \in Seq(SlotRecord) /\ w.at \in Nat /\ w.isoindex \in 0..Len(w.slots)
        /\ Len(w.slots) \in Nat
    BY DEF Known
  <1>2. /\ r \in SlotRecord /\ slots' = Append(w.slots, r)
        /\ listed' = Append(listed, ShownEntry(w, r))
        /\ isoindex' = w.isoindex + (IF Named(r.iso) THEN 1 ELSE 0)
        /\ isodfd' = Min(Ahead(w)) /\ Ahead(w) # {} /\ r.iso = Order[Min(Ahead(w))]
        /\ Len(w.slots) < MaxFiles /\ r.mtime = stick[r.iso]
    BY DEF Shows, Show, ShownEntry
  <1>3. r.iso \in Isos /\ stick[r.iso] # 0 /\ isodfd' \in DOMAIN Order /\ isodfd' > w.at
    BY <1>1, <1>2, NextImage
  <1>4. ShownEntry(w, r) \in ListedRecord
    <2>1. stick[r.iso] \in Versions
      BY <1>3 DEF IInv, TypeInv
    <2>2. NameOf(w, r.iso) \in {Raw} \cup 0..MaxFiles
      BY <1>1, <1>2, VirtualPbpAssumption DEF NameOf, Raw
    <2> QED
      BY <1>2, <1>3, <2>1, <2>2 DEF ShownEntry, ListedRecord
  <1>5. listed \in Seq(ListedRecord)
    BY DEF IInv, TypeInv
  <1>6. /\ slots' \in Seq(SlotRecord) /\ Len(slots') = Len(w.slots) + 1
        /\ DOMAIN slots' = 1..Len(w.slots) + 1 /\ DOMAIN w.slots = 1..Len(w.slots)
        /\ \A s \in 1..Len(w.slots) : slots'[s] = w.slots[s]
        /\ slots'[Len(w.slots) + 1] = r
    BY <1>1, <1>2, AppendAt
  <1>7. /\ listed' \in Seq(ListedRecord) /\ Len(listed') = Len(listed) + 1 /\ Len(listed) \in Nat
        /\ DOMAIN listed' = 1..Len(listed) + 1 /\ DOMAIN listed = 1..Len(listed)
        /\ \A k \in 1..Len(listed) : listed'[k] = listed[k]
        /\ listed'[Len(listed) + 1] = ShownEntry(w, r)
    BY <1>2, <1>4, <1>5, AppendAt
  <1>8. isoindex' \in 0..Len(slots')
    BY <1>1, <1>2, <1>6
  <1> QED
    BY <1>1, <1>3, <1>6, <1>7, <1>8

LEMMA ShowsSlots ==
  ASSUME IInv, NEW w, Known(w), NEW r, Shows(w, r)
  PROVE  SlotsInv'
  <1> DEFINE n == Len(w.slots)
  <1>1. /\ DOMAIN slots' = 1..n + 1 /\ DOMAIN w.slots = 1..n /\ n \in Nat /\ Len(slots') = n + 1
        /\ \A s \in 1..n : slots'[s] = w.slots[s]
        /\ slots'[n + 1] = r
    BY ShowsEffect
  <1>2. \A s \in 1..n : w.slots[s].iso # r.iso
    BY <1>1, NextIsNew DEF Shows
  <1>3. \A s \in 1..n + 1 : s \in 1..n \/ s = n + 1
    BY <1>1
  <1>4. Distinct(slots')
    BY <1>1, <1>2, <1>3 DEF Distinct, Known
  <1>5. Among(slots', isodfd')
    <2>1. /\ isodfd' \in DOMAIN Order /\ isodfd' > w.at /\ Order[isodfd'] = r.iso /\ w.at \in Nat
          /\ isodfd' \in Nat
      BY ShowsEffect, OrderTypes DEF Shows, Known
    <2>2. ASSUME NEW s \in 1..n
          PROVE  \E k \in DOMAIN Order : k <= isodfd' /\ Order[k] = slots'[s].iso
      <3>1. PICK k \in DOMAIN Order : k <= w.at /\ Order[k] = w.slots[s].iso
        BY <1>1 DEF Known, Among
      <3>2. k <= isodfd'
        BY <2>1, <3>1, OrderTypes
      <3> QED
        BY <1>1, <3>1, <3>2
    <2>3. \E k \in DOMAIN Order : k <= isodfd' /\ Order[k] = slots'[n + 1].iso
      BY <1>1, <2>1
    <2> QED
      BY <1>1, <1>3, <2>2, <2>3 DEF Among
  <1>6. Counted(slots', isoindex')
    <2>1. ASSUME ~DriftedIn(slots')
          PROVE  isoindex' = Len(slots')
      <3>1. Named(r.iso) /\ ~DriftedIn(w.slots)
        BY <1>1, <1>3, <2>1 DEF DriftedIn
      <3>2. w.isoindex = n
        BY <3>1 DEF Known, Counted
      <3> QED
        BY <1>1, <3>1, <3>2 DEF Shows, Show
    <2> QED
      BY <2>1 DEF Counted
  <1> QED
    BY <1>4, <1>5, <1>6 DEF SlotsInv

LEMMA ShowsListed ==
  ASSUME IInv, NEW w, Known(w), NEW r, Shows(w, r)
  PROVE  ListedInv'
  <1> DEFINE n == Len(w.slots)
             m == Len(listed)
  <1>1. /\ DOMAIN slots' = 1..n + 1 /\ DOMAIN w.slots = 1..n /\ n \in Nat
        /\ \A s \in 1..n : slots'[s] = w.slots[s]
        /\ slots'[n + 1] = r
        /\ DOMAIN listed' = 1..m + 1 /\ DOMAIN listed = 1..m /\ m \in Nat
        /\ \A k \in 1..m : listed'[k] = listed[k]
        /\ listed'[m + 1] = ShownEntry(w, r)
    BY ShowsEffect
  <1>2. \A s \in 1..n : w.slots[s].iso # r.iso
    BY <1>1, NextIsNew DEF Shows
  <1>3. \A k \in 1..m + 1 : k \in 1..m \/ k = m + 1
    BY <1>1
  <1>4. DriftedIn(w.slots) => DriftedIn(slots')
    BY <1>1 DEF DriftedIn
  <1>5. ASSUME NEW k \in 1..m
        PROVE  (\E s \in DOMAIN slots' : Holds(slots', listed'[k], s)) /\ listed[k].iso # r.iso
    <2>1. PICK s \in 1..n : Holds(w.slots, listed[k], s)
      BY <1>1 DEF Known, Shown
    <2>2. Holds(slots', listed'[k], s)
      BY <1>1, <1>4, <2>1 DEF Holds
    <2>3. s \in DOMAIN slots'
      BY <1>1
    <2>4. listed[k].iso # r.iso
      BY <1>2, <2>1 DEF Holds
    <2> QED
      BY <2>2, <2>3, <2>4
  <1>6. Holds(slots', listed'[m + 1], n + 1)
    <2>1. /\ listed'[m + 1].iso = r.iso /\ listed'[m + 1].mtime = r.mtime
          /\ listed'[m + 1].name = NameOf(w, r.iso)
      BY <1>1 DEF ShownEntry
    <2>2. ASSUME ~DriftedIn(slots')
          PROVE  NameOf(w, r.iso) + 1 = n + 1
      <3>1. n + 1 \in DOMAIN slots'
        BY <1>1
      <3>2. Named(r.iso) /\ ~DriftedIn(w.slots)
        BY <1>1, <1>4, <2>2, <3>1 DEF DriftedIn
      <3>3. w.isoindex = n
        BY <3>2 DEF Known, Counted
      <3> QED
        BY <3>2, <3>3 DEF NameOf
    <2> QED
      BY <1>1, <2>1, <2>2 DEF Holds
  <1>7. Shown(slots)'
    <2>1. ASSUME NEW k \in DOMAIN listed'
          PROVE  \E s \in DOMAIN slots' : Holds(slots', listed'[k], s)
      <3>1. CASE k \in 1..m
        BY <1>5, <3>1
      <3>2. CASE k = m + 1
        BY <1>1, <1>6, <3>2
      <3> QED
        BY <1>1, <1>3, <3>1, <3>2
    <2> QED
      BY <2>1 DEF Shown
  <1>8. listed'[m + 1].iso = r.iso
    BY <1>1 DEF ShownEntry
  <1>9. \A j, k \in DOMAIN listed' : listed'[j].iso = listed'[k].iso => j = k
    <2> SUFFICES ASSUME NEW j \in 1..m + 1, NEW k \in 1..m + 1, listed'[j].iso = listed'[k].iso
                 PROVE  j = k
      BY <1>1
    <2>1. CASE j \in 1..m /\ k \in 1..m
      BY <1>1, <2>1 DEF IInv, ListedInv
    <2>2. CASE j = m + 1 \/ k = m + 1
      BY <1>1, <1>3, <1>5, <1>8, <2>2
    <2> QED
      BY <1>3, <2>1, <2>2
  <1> QED
    BY <1>7, <1>9 DEF ListedInv

\* When the listing began at the beginning, it has shown every good image so far
LEMMA ShowsEvery ==
  ASSUME IInv, NEW w, Known(w), NEW r, Shows(w, r), whole, r.iso \notin Broken
  PROVE  Every(slots, isodfd)'
  <1> DEFINE n == Len(w.slots)
             m == Len(listed)
  <1>1. /\ DOMAIN slots' = 1..n + 1 /\ DOMAIN w.slots = 1..n /\ n \in Nat
        /\ \A s \in 1..n : slots'[s] = w.slots[s]
        /\ slots'[n + 1] = r
        /\ DOMAIN listed' = 1..m + 1 /\ DOMAIN listed = 1..m /\ m \in Nat
        /\ \A k \in 1..m : listed'[k] = listed[k]
        /\ listed'[m + 1] = ShownEntry(w, r)
        /\ r.iso \in Isos /\ stick[r.iso] # 0 /\ isodfd' \in DOMAIN Order /\ isodfd' > w.at
    BY ShowsEffect
  <1>2. Every(w.slots, w.at) /\ w.at \in Nat /\ n < MaxFiles /\ Good' = Good
    BY DEF Known, Shows, Good
  <1>3. listed'[m + 1].iso = r.iso /\ m + 1 \in DOMAIN listed' /\ r.iso \in Good
    BY <1>1 DEF ShownEntry, Good
  <1>4. \A k \in DOMAIN listed : k \in DOMAIN listed' /\ listed'[k] = listed[k]
    BY <1>1
  <1>5. ASSUME NEW s \in DOMAIN slots'
        PROVE  slots'[s].iso \in Good /\ \E k \in DOMAIN listed' : listed'[k].iso = slots'[s].iso
    <2>1. CASE s = n + 1
      BY <1>1, <1>3, <2>1
    <2>2. CASE s \in 1..n
      BY <1>1, <1>2, <1>4, <2>2 DEF Every
    <2> QED
      BY <1>1, <2>1, <2>2
  <1>6. ASSUME NEW j \in DOMAIN Order, j <= isodfd', Order[j] \in Good
        PROVE  \E k \in DOMAIN listed' : listed'[k].iso = Order[j]
    <2>1. isodfd' = Min(Ahead(w)) /\ Order[isodfd'] = r.iso /\ Ahead(w) # {}
      BY DEF Shows
    <2>2. CASE j <= w.at
      <3>1. MaxFiles \in Nat /\ n # MaxFiles
        BY <1>1, <1>2, VirtualPbpAssumption
      <3> QED
        BY <1>2, <1>4, <1>6, <2>2, <3>1 DEF Every
    <2>3. CASE j > w.at /\ j < isodfd'
      BY <1>2, <1>6, <2>1, <2>3, NextImage DEF Good
    <2>4. CASE j = isodfd'
      BY <1>3, <2>1, <2>4
    <2> QED
      BY <1>1, <1>2, <1>6, <2>2, <2>3, <2>4, OrderTypes
  <1> QED
    BY <1>2, <1>5, <1>6 DEF Every

-----------------------------------------------------------------------------
(* The steps of a Dread.                                                   *)

LEMMA ReadingIs ==
  ASSUME IInv, Reading
  PROVE  gamedfd = TRUE /\ overiso = FALSE
  BY DEF IInv, FreshInv, TypeInv, Reading, Entering

LEMMA HandlesStep ==
  ASSUME IInv, ManagerState
  PROVE  \A h \in handles' : "slot" \in DOMAIN h /\ h.slot \in Indices
  <1>1. \A h \in handles : "slot" \in DOMAIN h /\ h.slot \in Indices
    BY DEF IInv, TypeInv
  <1>2. CASE handles' = handles
    BY <1>1, <1>2
  <1>3. CASE handles' = {[h EXCEPT !.lost = TRUE] : h \in handles}
    <2>1. ASSUME NEW h \in handles
          PROVE  /\ "slot" \in DOMAIN [h EXCEPT !.lost = TRUE]
                 /\ [h EXCEPT !.lost = TRUE].slot = h.slot
      BY <1>1
    <2> QED
      BY <1>1, <1>3, <2>1
  <1> QED
    BY <1>2, <1>3 DEF ManagerState

\* What a Dread of an image leaves alone
Steady(w) ==
    /\ Reading /\ ManagerState /\ Common(w)
    /\ Ahead(w) # {} /\ isodfd' = Min(Ahead(w))

LEMMA SteadyEffect ==
  ASSUME IInv, NEW w, Known(w), Steady(w)
  PROVE  /\ isodfd' \in DOMAIN Order /\ isodfd' # Closed /\ Reached' = isodfd'
         /\ gamedfd' = TRUE /\ overiso' = FALSE /\ FreshInv'
         /\ stick' = stick /\ disk' = disk /\ whole' = whole /\ warm' = warm /\ Good' = Good
         /\ short' = w.short /\ short' \in BOOLEAN
         /\ \A h \in handles' : "slot" \in DOMAIN h /\ h.slot \in Indices
  <1>1. isodfd' \in DOMAIN Order /\ isodfd' # Closed
    BY NextImage, OrderTypes DEF Steady, Known, Closed
  <1>2. gamedfd' = TRUE /\ overiso' = FALSE
    BY ReadingIs DEF Steady, Common
  <1>3. /\ stick' = stick /\ disk' = disk /\ whole' = whole /\ warm' = warm
        /\ short' = w.short /\ short' \in BOOLEAN
    BY DEF Steady, Common, Known
  <1>4. Reached' = isodfd'
    BY <1>1 DEF Reached
  <1>5. FreshInv'
    BY <1>1, <1>2 DEF FreshInv
  <1>6. Good' = Good
    BY <1>3 DEF Good
  <1> QED
    BY <1>1, <1>2, <1>3, <1>4, <1>5, <1>6, HandlesStep DEF Steady

LEMMA CachedStep ==
  ASSUME IInv, DreadCached
  PROVE  IInv'
  <1>1. PICK w \in Working :
           /\ Ahead(w) # {}
           /\ LET iso == Order[Min(Ahead(w))]
                  c == Min(Hits(w, iso))
              IN /\ Hits(w, iso) # {} /\ Len(w.slots) < MaxFiles
                 /\ slots' = Append(w.slots, Fastadd(w, c))
                 /\ referenced' = w.referenced \cup {c}
                 /\ Show(w, iso)
           /\ cache' = w.cache /\ isodfd' = Min(Ahead(w)) /\ Common(w)
    BY DEF DreadCached
  <1>2. Known(w) /\ Steady(w)
    BY <1>1, WorkingKnown DEF DreadCached, Steady
  <1> DEFINE iso == Order[Min(Ahead(w))]
             c == Min(Hits(w, iso))
             r == Fastadd(w, c)
  <1>3. /\ Hits(w, iso) # {} /\ Len(w.slots) < MaxFiles
        /\ slots' = Append(w.slots, r) /\ referenced' = w.referenced \cup {c}
        /\ Show(w, iso) /\ cache' = w.cache /\ mounted' = FALSE
        /\ cachechanged' = cachechanged /\ umdfile' = umdfile /\ scanned' = scanned
        /\ swapped' = swapped
    BY <1>1 DEF DreadCached, ReturnToDisc
  <1>4. c \in Cells /\ w.cache[c].iso = iso /\ w.cache[c].mtime = stick[iso]
    BY <1>3, HitCell
  <1>5. iso \in Isos /\ stick[iso] # 0
    BY <1>2, NextImage DEF Steady, Known
  <1>6. w.cache[c] \in Entry
    BY <1>2, <1>4 DEF Known
  <1>7. iso \notin Broken /\ w.cache[c].content = stick[iso] /\ stick[iso] \in {0} \cup Versions
    BY <1>4, <1>5, <1>6, VirtualPbpAssumption DEF Entry
  <1>8. r \in SlotRecord /\ r.iso = iso /\ r.mtime = stick[iso]
    <2>1. r = [PbpOf(iso, stick[iso]) EXCEPT !.mtime = stick[iso]]
      BY <1>4, <1>7 DEF Fastadd
    <2> QED
      BY <1>5, <1>7, <2>1, PbpTypes DEF SlotRecord
  <1> HIDE DEF r, c, iso
  <1>9. Shows(w, r)
    BY <1>2, <1>3, <1>8 DEF Shows, Steady, Common, iso
  <1>10. /\ isodfd' # Closed /\ Reached' = isodfd' /\ FreshInv' /\ gamedfd' = TRUE
         /\ isodfd' \in DOMAIN Order /\ overiso' = FALSE
         /\ stick' = stick /\ disk' = disk /\ whole' = whole /\ warm' = warm /\ Good' = Good
         /\ short' = w.short /\ short' \in BOOLEAN
         /\ \A h \in handles' : "slot" \in DOMAIN h /\ h.slot \in Indices
    BY <1>2, SteadyEffect
  <1>11. TypeInv'
    <2>1. /\ slots' \in Seq(SlotRecord) /\ Len(slots') <= MaxFiles
          /\ listed' \in Seq(ListedRecord) /\ isoindex' \in 0..Len(slots')
      BY <1>2, <1>3, <1>9, ShowsEffect, VirtualPbpAssumption
    <2>2. cache' \in [Cells -> Entry] /\ referenced' \subseteq Cells
      BY <1>2, <1>3, <1>4 DEF Known
    <2> QED
      BY <1>3, <1>10, <2>1, <2>2 DEF TypeInv, IInv
  <1>12. WholeInv'
    <2>1. ASSUME whole PROVE Every(slots, Reached)' /\ Referred(cache, referenced)'
                             /\ (~cachechanged => FromDisk(cache))'
      <3>1. Every(slots, Reached)'
        BY <1>2, <1>7, <1>8, <1>9, <1>10, <2>1, ShowsEvery
      <3>2. Referred(cache, referenced)'
        BY <1>2, <1>3, <1>4, <1>5, <1>10, <2>1 DEF Known, Referred
      <3> QED
        BY <1>2, <1>3, <1>10, <2>1, <3>1, <3>2 DEF Known, FromDisk
    <2> QED
      BY <1>10, <2>1 DEF WholeInv
  <1>13. WarmInv'
    <2>1. warm => Referred(cache, referenced)'
      BY <1>2, <1>3, <1>4, <1>5, <1>10 DEF Known, Referred
    <2> QED
      BY <1>2, <1>3, <1>10, <2>1 DEF WarmInv, IInv, Known, Serves
  <1>14. MountKept'
    BY <1>3 DEF MountKept
  <1> QED
    BY <1>2, <1>9, <1>10, <1>11, <1>12, <1>13, <1>14, ShowsSlots, ShowsListed DEF IInv

LEMMA AddedStep ==
  ASSUME IInv, DreadAdded
  PROVE  IInv'
  <1>1. PICK w \in Working :
           /\ Ahead(w) # {}
           /\ LET iso == Order[Min(Ahead(w))]
                  c == Min(Free(w))
                  entry == [iso |-> iso, mtime |-> stick[iso],
                            content |-> stick[iso]]
              IN /\ Hits(w, iso) = {} /\ AddAccepts(w.slots, iso)
                 /\ slots' = Append(w.slots, PbpOf(iso, stick[iso]))
                 /\ Show(w, iso)
                 /\ umdfile' = iso /\ scanned' = scanned \cup {iso}
                 /\ IF Free(w) # {}
                    THEN /\ cache' = [w.cache EXCEPT ![c] = entry]
                         /\ referenced' = w.referenced \cup {c}
                         /\ cachechanged' = TRUE
                    ELSE /\ cache' = w.cache /\ referenced' = w.referenced
                         /\ UNCHANGED cachechanged
           /\ isodfd' = Min(Ahead(w)) /\ Common(w)
    BY DEF DreadAdded
  <1>2. Known(w) /\ Steady(w)
    BY <1>1, WorkingKnown DEF DreadAdded, Steady
  <1> DEFINE iso == Order[Min(Ahead(w))]
             c == Min(Free(w))
             entry == [iso |-> iso, mtime |-> stick[iso], content |-> stick[iso]]
             r == PbpOf(iso, stick[iso])
  <1>3. /\ Hits(w, iso) = {} /\ Len(w.slots) < MaxFiles /\ iso \notin Broken
        /\ slots' = Append(w.slots, r)
        /\ Show(w, iso) /\ mounted' = FALSE
        /\ umdfile' = iso /\ scanned' = scanned \cup {iso}
        /\ swapped' = swapped
        /\ IF Free(w) # {}
           THEN /\ cache' = [w.cache EXCEPT ![c] = entry]
                /\ referenced' = w.referenced \cup {c}
                /\ cachechanged' = TRUE
           ELSE cache' = w.cache /\ referenced' = w.referenced /\ UNCHANGED cachechanged
    BY <1>1 DEF DreadAdded, ReturnToDisc, AddAccepts
  <1>4. iso \in Isos /\ stick[iso] # 0
    BY <1>2, NextImage DEF Steady, Known
  <1>5. stick[iso] \in {0} \cup Versions
    BY <1>4 DEF IInv, TypeInv
  <1>6. r \in SlotRecord /\ r.iso = iso /\ r.mtime = stick[iso]
    BY <1>4, <1>5, PbpTypes
  <1>7. entry \in Entry
    BY <1>3, <1>4, <1>5 DEF Entry
  <1>8. entry.iso = iso /\ entry.mtime = stick[iso]
    OBVIOUS
  <1> HIDE DEF r, iso, c, entry
  <1>9. Shows(w, r)
    BY <1>2, <1>3, <1>6 DEF Shows, Steady, Common, iso
  <1>10. /\ isodfd' # Closed /\ Reached' = isodfd' /\ FreshInv' /\ gamedfd' = TRUE
         /\ isodfd' \in DOMAIN Order /\ overiso' = FALSE
         /\ stick' = stick /\ disk' = disk /\ whole' = whole /\ warm' = warm /\ Good' = Good
         /\ short' = w.short /\ short' \in BOOLEAN
         /\ \A h \in handles' : "slot" \in DOMAIN h /\ h.slot \in Indices
    BY <1>2, SteadyEffect
  <1>11. Free(w) # {} => c \in Cells
    BY FreeCell DEF c
  <1>12. cache' \in [Cells -> Entry] /\ referenced' \subseteq Cells /\ cachechanged' \in BOOLEAN
    BY <1>2, <1>3, <1>7, <1>11 DEF Known, IInv, TypeInv
  <1>13. TypeInv'
    <2>1. /\ slots' \in Seq(SlotRecord) /\ Len(slots') <= MaxFiles
          /\ listed' \in Seq(ListedRecord) /\ isoindex' \in 0..Len(slots')
      BY <1>2, <1>3, <1>9, ShowsEffect, VirtualPbpAssumption
    <2> QED
      BY <1>3, <1>4, <1>10, <1>12, <2>1 DEF TypeInv, IInv
  <1>14. ASSUME Referred(w.cache, w.referenced)
         PROVE  Referred(cache, referenced)'
    <2>1. CASE Free(w) = {}
      BY <1>2, <1>3, <1>10, <1>14, <2>1 DEF Referred
    <2>2. CASE Free(w) # {}
      <3>1. w.cache \in [Cells -> Entry] /\ w.referenced \subseteq Cells
        BY <1>2 DEF Known
      <3>2. cache'[c] = entry /\ \A d \in Cells : d # c => cache'[d] = w.cache[d]
        BY <1>3, <1>11, <2>2, <3>1
      <3> QED
        BY <1>3, <1>4, <1>8, <1>10, <1>14, <2>2, <3>1, <3>2 DEF Referred
    <2> QED
      BY <2>1, <2>2
  <1>15. WholeInv'
    <2>1. ASSUME whole PROVE Every(slots, Reached)' /\ Referred(cache, referenced)'
                             /\ (~cachechanged => FromDisk(cache))'
      <3>1. Every(slots, Reached)'
        BY <1>2, <1>3, <1>6, <1>9, <1>10, <2>1, ShowsEvery
      <3>2. Referred(cache, referenced)'
        BY <1>2, <2>1, <1>14 DEF Known
      <3>3. (~cachechanged => FromDisk(cache))'
        BY <1>2, <1>3, <1>10, <2>1 DEF Known, FromDisk
      <3> QED
        BY <3>1, <3>2, <3>3
    <2> QED
      BY <1>10, <2>1 DEF WholeInv
  <1>16. ~(warm /\ ~w.short)
    <2> SUFFICES ASSUME warm, ~w.short PROVE FALSE
      OBVIOUS
    <2>1. iso \in Good /\ Serves(w.cache)
      BY <1>2, <1>3, <1>4 DEF Good, Known
    <2>2. PICK d \in Cells : w.cache[d].iso = iso /\ w.cache[d].mtime = stick[iso]
      BY <2>1 DEF Serves
    <2> QED
      BY <1>3, <2>2 DEF Hits
  <1>17. WarmInv' /\ MountKept'
    <2>1. warm => Serves(disk') /\ Referred(cache, referenced)'
      BY <1>2, <1>10, <1>14 DEF Known, IInv, WarmInv, Serves
    <2> QED
      BY <1>3, <1>10, <1>16, <2>1 DEF WarmInv, MountKept, Serves
  <1> QED
    BY <1>2, <1>9, <1>10, <1>13, <1>15, <1>17, ShowsSlots, ShowsListed DEF IInv

\* An image that cannot be added has found no room, or is broken
LEMMA RefusedStep ==
  ASSUME IInv, DreadRefused
  PROVE  IInv'
  <1>1. PICK w \in Working :
           /\ Ahead(w) # {}
           /\ LET iso == Order[Min(Ahead(w))]
                  opened == Hits(w, iso) = {} /\ Len(w.slots) < MaxFiles
              IN /\ IF Hits(w, iso) # {} THEN Len(w.slots) = MaxFiles
                    ELSE ~AddAccepts(w.slots, iso)
                 /\ umdfile' = IF opened THEN iso ELSE umdfile
                 /\ swapped' = (swapped \/ (mounted /\ opened))
                 /\ referenced' =
                     w.referenced \cup (IF Hits(w, iso) = {} THEN {}
                                        ELSE {Min(Hits(w, iso))})
           /\ slots' = w.slots /\ cache' = w.cache
           /\ isoindex' = w.isoindex /\ isodfd' = Min(Ahead(w)) /\ Common(w)
    BY DEF DreadRefused
  <1>2. Known(w) /\ Steady(w)
    BY <1>1, WorkingKnown DEF DreadRefused, Steady
  <1> DEFINE iso == Order[Min(Ahead(w))]
             opened == Hits(w, iso) = {} /\ Len(w.slots) < MaxFiles
  <1>3. /\ IF Hits(w, iso) # {} THEN Len(w.slots) = MaxFiles ELSE ~AddAccepts(w.slots, iso)
        /\ umdfile' = IF opened THEN iso ELSE umdfile
        /\ swapped' = (swapped \/ (mounted /\ opened))
        /\ referenced' = w.referenced \cup (IF Hits(w, iso) = {} THEN {} ELSE {Min(Hits(w, iso))})
        /\ slots' = w.slots /\ cache' = w.cache /\ isoindex' = w.isoindex
        /\ cachechanged' = cachechanged /\ mounted' = mounted /\ listed' = listed
        /\ scanned' = scanned
    BY <1>1 DEF DreadRefused
  <1>4. iso \in Isos /\ stick[iso] # 0 /\ isodfd' = Min(Ahead(w)) /\ isodfd' > w.at
    BY <1>2, NextImage DEF Steady, Known
  <1>5. iso \notin Broken => Len(w.slots) = MaxFiles
    BY <1>2, <1>3, VirtualPbpAssumption DEF Known, AddAccepts
  <1>6. \A d \in referenced' \ w.referenced :
           d \in Cells /\ w.cache[d].iso = iso /\ w.cache[d].mtime = stick[iso]
    BY <1>3, HitCell
  <1> HIDE DEF iso, opened
  <1>7. /\ isodfd' # Closed /\ Reached' = isodfd' /\ FreshInv' /\ gamedfd' = TRUE
        /\ isodfd' \in DOMAIN Order /\ overiso' = FALSE
        /\ stick' = stick /\ disk' = disk /\ whole' = whole /\ warm' = warm /\ Good' = Good
        /\ short' = w.short /\ short' \in BOOLEAN
        /\ \A h \in handles' : "slot" \in DOMAIN h /\ h.slot \in Indices
    BY <1>2, SteadyEffect
  <1>8. TypeInv'
    <2>1. swapped' \in BOOLEAN
      BY <1>3 DEF IInv, TypeInv
    <2>2. umdfile' \in Isos \cup {NoIso, Video}
      BY <1>3, <1>4 DEF IInv, TypeInv
    <2>3. referenced' \subseteq Cells
      BY <1>2, <1>6 DEF Known
    <2> QED
      BY <1>2, <1>3, <1>7, <2>1, <2>2, <2>3 DEF TypeInv, IInv, Known
  <1>9. SlotsInv'
    <2>1. Among(slots', isodfd')
      <3>1. ASSUME NEW s \in DOMAIN w.slots
            PROVE  \E k \in DOMAIN Order : k <= isodfd' /\ Order[k] = w.slots[s].iso
        <4>1. PICK k \in DOMAIN Order : k <= w.at /\ Order[k] = w.slots[s].iso
          BY <1>2 DEF Known, Among
        <4>2. k <= isodfd'
          BY <1>2, <1>4, <1>7, <4>1, OrderTypes DEF Known
        <4> QED
          BY <4>1, <4>2
      <3> QED
        BY <1>3, <3>1 DEF Among
    <2> QED
      BY <1>2, <1>3, <2>1 DEF SlotsInv, Known
  <1>10. ListedInv'
    BY <1>2, <1>3 DEF ListedInv, IInv, Known, Shown, Holds
  <1>11. WholeInv'
    <2>1. ASSUME whole PROVE Every(slots, Reached)' /\ Referred(cache, referenced)'
                             /\ (~cachechanged => FromDisk(cache))'
      <3>1. Every(w.slots, w.at) /\ Referred(w.cache, w.referenced) /\ w.at \in Nat
        BY <1>2, <2>1 DEF Known
      <3>2. ASSUME NEW j \in DOMAIN Order, j <= isodfd', Order[j] \in Good
            PROVE  (\E k \in DOMAIN listed : listed[k].iso = Order[j]) \/ Len(w.slots) = MaxFiles
        <4>1. CASE j <= w.at
          BY <3>1, <3>2, <4>1 DEF Every
        <4>2. CASE j > w.at /\ j < isodfd'
          BY <1>2, <1>4, <3>1, <3>2, <4>2, NextImage DEF Good, Steady
        <4>3. CASE j = isodfd'
          BY <1>4, <1>5, <3>2, <4>3 DEF Good, iso
        <4> QED
          BY <1>7, <3>1, <3>2, <4>1, <4>2, <4>3, OrderTypes
      <3>3. Every(slots, Reached)'
        BY <1>3, <1>7, <3>1, <3>2 DEF Every
      <3>4. Referred(cache, referenced)'
        BY <1>3, <1>4, <1>6, <1>7, <3>1 DEF Referred
      <3>5. (~cachechanged => FromDisk(cache))'
        BY <1>2, <1>3, <1>7, <2>1 DEF Known, FromDisk
      <3> QED
        BY <3>3, <3>4, <3>5
    <2> QED
      BY <1>7, <2>1 DEF WholeInv
  <1>12. WarmInv'
    <2>1. warm => Referred(cache, referenced)'
      BY <1>2, <1>3, <1>4, <1>6, <1>7 DEF Known, Referred
    <2> QED
      BY <1>2, <1>3, <1>7, <2>1 DEF WarmInv, IInv, Known, Serves
  <1>13. MountKept'
    BY <1>3 DEF MountKept, IInv
  <1> QED
    BY <1>7, <1>8, <1>9, <1>10, <1>11, <1>12, <1>13 DEF IInv

LEMMA EndStep ==
  ASSUME IInv, DreadEnd
  PROVE  IInv'
  <1>1. PICK w \in Working :
           /\ Ahead(w) = {}
           /\ slots' = w.slots /\ cache' = w.cache /\ short' = w.short
           /\ referenced' = w.referenced /\ isoindex' = w.isoindex
    BY DEF DreadEnd
  <1>2. Known(w)
    BY <1>1, WorkingKnown DEF DreadEnd
  <1>3. /\ Ahead(w) = {} /\ short' = w.short
        /\ slots' = w.slots /\ cache' = w.cache /\ referenced' = w.referenced
        /\ isoindex' = w.isoindex /\ isodfd' = Closed /\ overiso' = TRUE
        /\ stick' = stick /\ gamedfd' = gamedfd /\ cachechanged' = cachechanged /\ disk' = disk
        /\ mounted' = mounted /\ umdfile' = umdfile /\ listed' = listed /\ whole' = whole
        /\ scanned' = scanned /\ warm' = warm /\ swapped' = swapped
    BY <1>1 DEF DreadEnd
  <1>4. gamedfd = TRUE
    BY ReadingIs DEF DreadEnd
  <1>5. /\ Reached' = Len(Order) /\ Good' = Good
        /\ \A h \in handles' : "slot" \in DOMAIN h /\ h.slot \in Indices
    BY <1>3, HandlesStep DEF Reached, Good, DreadEnd
  <1>6. TypeInv'
    BY <1>2, <1>3, <1>5 DEF TypeInv, IInv, Known
  <1>7. SlotsInv' /\ FreshInv'
    BY <1>2, <1>3, <1>4 DEF SlotsInv, FreshInv, Known
  <1>8. ListedInv'
    BY <1>2, <1>3 DEF ListedInv, IInv, Known, Shown, Holds
  <1>9. WholeInv'
    <2>1. ASSUME whole PROVE Every(slots, Reached)' /\ Referred(cache, referenced)'
                             /\ (~cachechanged => FromDisk(cache))'
      <3>1. Every(w.slots, w.at) /\ Referred(w.cache, w.referenced) /\ w.at \in Nat
        BY <1>2, <2>1 DEF Known
      <3>2. \A j \in DOMAIN Order : Order[j] \in Good => j <= w.at
        BY <1>3, <3>1, OrderTypes DEF Ahead, Good
      <3>3. Every(slots, Reached)'
        BY <1>3, <1>5, <3>1, <3>2 DEF Every
      <3>4. Referred(cache, referenced)'
        BY <1>3, <3>1 DEF Referred
      <3>5. (~cachechanged => FromDisk(cache))'
        BY <1>2, <1>3, <2>1 DEF Known, FromDisk
      <3> QED
        BY <3>3, <3>4, <3>5
    <2> QED
      BY <1>3, <2>1 DEF WholeInv
  <1>10. WarmInv' /\ MountKept'
    <2>1. warm => Referred(cache, referenced)' /\ (~w.short => scanned = {})
      BY <1>2, <1>3 DEF Known, Referred
    <2> QED
      BY <1>3, <1>5, <2>1 DEF WarmInv, MountKept, IInv, Serves
  <1> QED
    BY <1>6, <1>7, <1>8, <1>9, <1>10 DEF IInv

LEMMA NoIsoStep ==
  ASSUME IInv, DreadNoIso
  PROVE  IInv'
  <1>1. /\ overiso' = TRUE /\ whole' = FALSE /\ gamedfd /\ isodfd = Closed
        /\ UNCHANGED <<slots, handles, stick, gamedfd, isodfd, isoindex, cache, referenced,
                       cachechanged, disk, mounted, umdfile, listed, scanned, warm, short, swapped>>
    BY DEF DreadNoIso, pbpVars, Entering
  <1>2. Good' = Good
    BY <1>1 DEF Good
  <1>3. TypeInv'
    BY <1>1 DEF IInv, TypeInv
  <1>4. SlotsInv' /\ ListedInv'
    BY <1>1 DEF IInv, SlotsInv, ListedInv, Shown, Holds
  <1>5. FreshInv' /\ WholeInv' /\ MountKept'
    BY <1>1 DEF IInv, FreshInv, WholeInv, MountKept
  <1>6. WarmInv'
    BY <1>1, <1>2 DEF IInv, WarmInv, Serves, Referred
  <1> QED
    BY <1>3, <1>4, <1>5, <1>6 DEF IInv

-----------------------------------------------------------------------------
(* The beginning and the end of a listing.                                 *)

LEMMA DopenStep ==
  ASSUME IInv, DopenGame
  PROVE  IInv'
  <1>1. /\ gamedfd = FALSE /\ gamedfd' = TRUE /\ overiso' = FALSE /\ listed' = <<>> /\ scanned' = {}
        /\ whole' = (isodfd = Closed)
        /\ UNCHANGED <<slots, handles, stick, isodfd, isoindex, cache, referenced,
                       cachechanged, disk, mounted, umdfile, warm, short, swapped>>
    BY DEF DopenGame, pbpVars, IInv, TypeInv
  <1>2. Good' = Good /\ DOMAIN listed' = {} /\ listed' \in Seq(ListedRecord) /\ ~cachechanged
    BY <1>1 DEF Good, IInv, FreshInv
  <1>3. TypeInv'
    BY <1>1, <1>2 DEF IInv, TypeInv
  <1>4. SlotsInv'
    BY <1>1 DEF IInv, SlotsInv
  <1>5. ListedInv'
    BY <1>2 DEF ListedInv, Shown
  <1>6. FreshInv' /\ MountKept'
    BY <1>1, <1>2 DEF FreshInv, MountKept, IInv
  <1>7. WholeInv'
    BY <1>1 DEF WholeInv
  <1>8. WarmInv'
    BY <1>1, <1>2 DEF IInv, WarmInv, Serves, Referred
  <1> QED
    BY <1>3, <1>4, <1>5, <1>6, <1>7, <1>8 DEF IInv

\* A purge leaves what was referred to, and a torn save leaves true entries
LEMMA PurgedTypes ==
  ASSUME IInv
  PROVE  /\ Purged \in [Cells -> Entry]
         /\ \A d \in Outcomes : d \in [Cells -> Entry]
  <1>1. cache \in [Cells -> Entry] /\ disk \in [Cells -> Entry]
    BY DEF IInv, TypeInv
  <1>2. NoEntry \in Entry
    BY DEF NoEntry, Entry
  <1>3. Purged \in [Cells -> Entry]
    BY <1>1, <1>2 DEF Purged
  <1>4. \A d \in Through(Purged) : d \in [Cells -> Entry]
    BY <1>3, ThroughCells
  <1> QED
    BY <1>1, <1>3, <1>4 DEF Outcomes

\* What was referred to is true, so that the cells left by a purge serve every
\* good image when they hold them all
LEMMA HeldServes ==
  ASSUME IInv, Held, Referred(cache, referenced)
  PROVE  /\ Serves(Purged)
         /\ \A g \in Good : \E c \in referenced :
               /\ Purged[c] = cache[c] /\ cache[c].iso = g /\ cache[c].mtime = stick[g]
  <1>1. ASSUME NEW g \in Good
        PROVE  \E c \in referenced :
                  /\ Purged[c] = cache[c] /\ cache[c].iso = g /\ cache[c].mtime = stick[g]
    <2>1. g \in {Purged[c].iso : c \in Cells} /\ g # NoIso
      BY <1>1, VirtualPbpAssumption DEF Held, Good
    <2>2. PICK c \in Cells : Purged[c].iso = g
      BY <2>1
    <2>3. Purged[c] = IF c \in referenced THEN cache[c] ELSE NoEntry
      BY DEF Purged
    <2>4. c \in referenced /\ Purged[c] = cache[c]
      BY <2>1, <2>2, <2>3 DEF NoEntry
    <2>5. cache[c].mtime = stick[g]
      BY <2>2, <2>4 DEF Referred
    <2> QED
      BY <2>2, <2>4, <2>5
  <1>2. referenced \subseteq Cells
    BY DEF IInv, TypeInv
  <1> QED
    BY <1>1, <1>2 DEF Serves

LEMMA DcloseStep ==
  ASSUME IInv, DcloseGame
  PROVE  IInv'
  <1>1. /\ gamedfd /\ gamedfd' = FALSE /\ overiso' = FALSE
        /\ cache' = Purged /\ cachechanged' = FALSE /\ disk' \in Outcomes
        /\ warm' = ((Dirty => disk' = Purged) /\ Held /\ (Finished \/ (warm /\ Purged = cache)))
        /\ listed' = <<>> /\ scanned' = {}
        /\ UNCHANGED <<slots, handles, stick, isodfd, isoindex, referenced, mounted, umdfile,
                       whole, short, swapped>>
    BY DEF DcloseGame, pbpVars
  <1>2. Good' = Good /\ DOMAIN listed' = {} /\ listed' \in Seq(ListedRecord)
    BY <1>1 DEF Good
  <1>3. TypeInv'
    <2>1. warm' \in BOOLEAN
      BY <1>1
    <2>2. cache' \in [Cells -> Entry] /\ disk' \in [Cells -> Entry]
      BY <1>1, PurgedTypes
    <2> QED
      BY <1>1, <1>2, <2>1, <2>2 DEF IInv, TypeInv
  <1>4. SlotsInv'
    BY <1>1 DEF IInv, SlotsInv
  <1>5. ListedInv'
    BY <1>2 DEF ListedInv, Shown
  <1>6. FreshInv' /\ WholeInv' /\ MountKept'
    BY <1>1 DEF FreshInv, WholeInv, MountKept, IInv
  <1>7. ASSUME warm'
        PROVE  Serves(disk') /\ Serves(Purged) /\ Referred(Purged, referenced)
    <2>1. Held /\ (Dirty => disk' = Purged) /\ (Finished \/ warm)
      BY <1>1, <1>7
    <2>2. ~Dirty => disk' = disk /\ Purged = cache /\ ~cachechanged
      BY <1>1 DEF Dirty, Outcomes
    <2>3. Finished => whole /\ overiso /\ isodfd = Closed
      BY DEF Finished, IInv, FreshInv
    <2>4. Referred(cache, referenced)
      BY <1>1, <2>1, <2>3 DEF IInv, WholeInv, WarmInv
    <2>5. Serves(Purged)
      BY <2>1, <2>4, HeldServes
    <2>6. \A c \in referenced : Purged[c] = cache[c]
      BY DEF Purged, IInv, TypeInv
    <2>7. Referred(Purged, referenced)
      BY <2>4, <2>6 DEF Referred
    <2>8. Serves(disk')
      <3>1. CASE Dirty
        BY <2>1, <2>5, <3>1
      <3>2. CASE ~Dirty /\ warm
        BY <2>2, <3>2 DEF IInv, WarmInv
      <3>3. CASE ~Dirty /\ Finished
        <4>1. FromDisk(cache)
          BY <1>1, <2>2, <2>3, <3>3 DEF IInv, WholeInv
        <4>2. ASSUME NEW g \in Good
              PROVE  \E c \in Cells : disk[c].iso = g /\ disk[c].mtime = stick[g]
          <5>1. PICK c \in referenced : cache[c].iso = g /\ cache[c].mtime = stick[g]
            BY <2>1, <2>4, HeldServes
          <5>2. c \in Cells /\ disk[c] \in Entry
            BY DEF IInv, TypeInv
          <5>3. stick[g] # 0
            BY DEF Good
          <5>4. Torn(disk[c]).mtime = 0 /\ NoEntry.mtime = 0
            BY <5>2 DEF Torn, NoEntry, Entry
          <5>5. cache[c] = disk[c]
            BY <4>1, <5>1, <5>2, <5>3, <5>4 DEF FromDisk
          <5> QED
            BY <5>1, <5>2, <5>5
        <4> QED
          BY <2>2, <3>3, <4>2 DEF Serves
      <3> QED
        BY <2>1, <3>1, <3>2, <3>3
    <2> QED
      BY <2>5, <2>7, <2>8
  <1>8. WarmInv'
    BY <1>1, <1>2, <1>7 DEF WarmInv, Serves, Referred
  <1> QED
    BY <1>3, <1>4, <1>5, <1>6, <1>8 DEF IInv

-----------------------------------------------------------------------------
(* What goes on beside the listings.                                       *)

\* Steps that change neither the listing nor the table
LEMMA BesideStep ==
  ASSUME IInv,
         UNCHANGED <<slots, stick, gamedfd, isodfd, overiso, isoindex, cache, referenced,
                     cachechanged, disk, listed, whole, scanned, warm, short>>,
         umdfile' \in Isos \cup {NoIso, Video}, mounted' \in BOOLEAN, swapped' \in BOOLEAN,
         \A h \in handles' : "slot" \in DOMAIN h /\ h.slot \in Indices,
         MountKept'
  PROVE  IInv'
  <1>1. Good' = Good /\ Reached' = Reached
    BY DEF Good, Reached
  <1>2. TypeInv'
    BY DEF IInv, TypeInv
  <1>3. SlotsInv' /\ ListedInv' /\ FreshInv'
    BY DEF IInv, SlotsInv, ListedInv, FreshInv, Shown, Holds
  <1>4. WholeInv'
    BY <1>1 DEF IInv, WholeInv, Every, Referred, FromDisk
  <1>5. WarmInv'
    BY <1>1 DEF IInv, WarmInv, Serves, Referred
  <1> QED
    BY <1>2, <1>3, <1>4, <1>5 DEF IInv

\* A name without a file only unmounts the video image
LEMMA NotThereStep ==
  ASSUME IInv, NEW i \in Indices, OpenFile(i), UNCHANGED pbpVars
  PROVE  IInv'
  <1>1. /\ mounted' = FALSE
        /\ UNCHANGED <<slots, handles, stick, gamedfd, isodfd, overiso, isoindex, cache, referenced,
                       cachechanged, disk, umdfile, listed, whole, scanned, warm, short, swapped>>
    BY DEF OpenFile, ReturnToDisc, pbpVars
  <1>2. /\ umdfile' \in Isos \cup {NoIso, Video} /\ mounted' \in BOOLEAN /\ swapped' \in BOOLEAN
        /\ \A h \in handles' : "slot" \in DOMAIN h /\ h.slot \in Indices
    BY <1>1 DEF IInv, TypeInv
  <1>3. MountKept'
    BY <1>1 DEF MountKept
  <1> QED
    BY <1>1, <1>2, <1>3, BesideStep

LEMMA OpenStep ==
  ASSUME IInv, NEW i \in Indices, OpenFile(i), Open(i, "file")
  PROVE  IInv'
  <1>1. /\ i \in 1..Len(slots) /\ slots' = [slots EXCEPT ![i].pos = 0] /\ mounted' = FALSE
        /\ UNCHANGED <<stick, gamedfd, isodfd, overiso, isoindex, cache, referenced, cachechanged,
                       disk, umdfile, listed, whole, scanned, warm, short, swapped>>
    BY DEF OpenFile, Open, ReturnToDisc
  <1>2. slots \in Seq(SlotRecord) /\ Len(slots) \in Nat /\ DOMAIN slots = 1..Len(slots)
    BY DEF IInv, TypeInv
  <1>3. slots[i] \in SlotRecord /\ [slots[i] EXCEPT !.pos = 0] \in SlotRecord
        /\ [slots[i] EXCEPT !.pos = 0].iso = slots[i].iso
        /\ [slots[i] EXCEPT !.pos = 0].mtime = slots[i].mtime
    <2>1. slots[i] \in SlotRecord
      BY <1>1, <1>2
    <2>2. ASSUME NEW r \in SlotRecord
          PROVE  /\ [r EXCEPT !.pos = 0] \in SlotRecord
                 /\ [r EXCEPT !.pos = 0].iso = r.iso /\ [r EXCEPT !.pos = 0].mtime = r.mtime
      BY DEF SlotRecord
    <2> QED
      BY <2>1, <2>2
  <1>4. /\ slots' \in Seq(SlotRecord) /\ Len(slots') = Len(slots) /\ DOMAIN slots' = DOMAIN slots
        /\ \A s \in DOMAIN slots : slots'[s].iso = slots[s].iso /\ slots'[s].mtime = slots[s].mtime
    <2>1. slots' = [slots EXCEPT ![i] = [slots[i] EXCEPT !.pos = 0]]
      BY <1>1
    <2> QED
      BY <1>1, <1>2, <1>3, <2>1
  <1>5. \A h \in handles' : "slot" \in DOMAIN h /\ h.slot \in Indices
    <2>1. \A h \in handles : "slot" \in DOMAIN h /\ h.slot \in Indices
      BY DEF IInv, TypeInv
    <2>2. ASSUME NEW o \in handles
          PROVE  LET p == [o EXCEPT !.shared = TRUE, !.pos = 0, !.names = <<>>]
                 IN "slot" \in DOMAIN p /\ p.slot = o.slot
      BY <2>1
    <2> DEFINE h == [id |-> Min((0..MaxHandles - 1) \ {o.id : o \in handles}), slot |-> i,
                     kind |-> "file", iso |-> slots[i].iso, pos |-> 0, names |-> <<>>,
                     lost |-> FALSE,
                     shared |-> (\E o \in Others(i) : o.kind = "file")
                                \/ ("file" = "dir" /\ states[i].dread # 0)]
    <2>3. "slot" \in DOMAIN h /\ h.slot = i
      OBVIOUS
    <2>4. handles' = (handles \ Others(i))
              \cup {[o EXCEPT !.shared = TRUE, !.pos = 0, !.names = <<>>] : o \in Others(i)}
              \cup {h}
      BY DEF OpenFile, Open
    <2>5. Others(i) \subseteq handles
      BY DEF Others
    <2> HIDE DEF h
    <2> QED
      BY <2>1, <2>2, <2>3, <2>4, <2>5
  <1>6. Good' = Good /\ Reached' = Reached
    BY <1>1 DEF Good, Reached
  <1>7. TypeInv'
    BY <1>1, <1>4, <1>5 DEF IInv, TypeInv
  <1>8. DriftedIn(slots') <=> DriftedIn(slots)
    BY <1>4 DEF DriftedIn
  <1>9. SlotsInv'
    <2>1. Distinct(slots')
      BY <1>4 DEF Distinct, IInv, SlotsInv
    <2>2. isodfd # Closed => Among(slots', isodfd)
      BY <1>4 DEF Among, IInv, SlotsInv
    <2>3. isodfd # Closed => Counted(slots', isoindex)
      BY <1>4, <1>8 DEF Counted, IInv, SlotsInv
    <2> QED
      BY <1>1, <2>1, <2>2, <2>3 DEF SlotsInv
  <1>10. ListedInv'
    <2>1. ASSUME NEW k \in DOMAIN listed
          PROVE  \E s \in DOMAIN slots' : Holds(slots', listed[k], s)
      <3>1. PICK s \in DOMAIN slots : Holds(slots, listed[k], s)
        BY DEF IInv, ListedInv, Shown
      <3> QED
        BY <1>4, <1>8, <3>1 DEF Holds
    <2> QED
      BY <1>1, <2>1 DEF ListedInv, Shown, IInv
  <1>11. WholeInv'
    <2>1. Every(slots, Reached) => Every(slots, Reached)'
      BY <1>1, <1>4, <1>6 DEF Every
    <2>2. Referred(cache, referenced)' <=> Referred(cache, referenced)
      BY <1>1 DEF Referred
    <2>3. FromDisk(cache)' <=> FromDisk(cache)
      BY <1>1 DEF FromDisk
    <2> QED
      BY <1>1, <2>1, <2>2, <2>3 DEF WholeInv, IInv
  <1>12. FreshInv' /\ WarmInv' /\ MountKept'
    BY <1>1, <1>6 DEF FreshInv, WarmInv, MountKept, IInv, Serves, Referred
  <1> QED
    BY <1>7, <1>9, <1>10, <1>11, <1>12 DEF IInv

LEMMA FilesStep ==
  ASSUME IInv, NEW h \in handles, ReadFile(h) \/ CloseFile(h)
  PROVE  IInv'
  <1>1. slots \in Seq(SlotRecord) /\ h.slot \in Indices /\ MaxFiles \in Nat
    BY VirtualPbpAssumption DEF IInv, TypeInv
  <1>2. CASE ReadFile(h)
    <2>1. /\ h.slot <= Len(slots) /\ umdfile' = slots[h.slot].iso
          /\ swapped' = (swapped \/ mounted) /\ mounted' = mounted
          /\ UNCHANGED <<slots, handles, stick, gamedfd, isodfd, overiso, isoindex, cache,
                         referenced, cachechanged, disk, listed, whole, scanned, warm, short>>
      BY <1>2 DEF ReadFile, pbpVars
    <2>2. umdfile' \in Isos
      <3>1. slots[h.slot] \in SlotRecord
        BY <1>1, <2>1 DEF Indices
      <3> QED
        BY <2>1, <3>1 DEF SlotRecord
    <2>3. swapped' \in BOOLEAN /\ mounted' \in BOOLEAN
      BY <2>1 DEF IInv, TypeInv
    <2>4. MountKept'
      BY <2>1 DEF MountKept
    <2>5. \A g \in handles' : "slot" \in DOMAIN g /\ g.slot \in Indices
      BY <2>1 DEF IInv, TypeInv
    <2> QED
      BY <2>1, <2>2, <2>3, <2>4, <2>5, BesideStep
  <1>3. CASE CloseFile(h)
    <2>1. /\ slots' = slots /\ handles' = handles \ {h}
          /\ UNCHANGED <<stick, gamedfd, isodfd, overiso, isoindex, cache, referenced,
                         cachechanged, disk, listed, whole, scanned, warm, short, mounted,
                         swapped, umdfile>>
      BY <1>3 DEF CloseFile, Close, listVars
    <2>2. umdfile' \in Isos \cup {NoIso, Video} /\ mounted' \in BOOLEAN /\ swapped' \in BOOLEAN
      BY <2>1 DEF IInv, TypeInv
    <2>3. MountKept'
      BY <2>1 DEF MountKept, IInv
    <2>4. \A g \in handles' : "slot" \in DOMAIN g /\ g.slot \in Indices
      BY <2>1 DEF IInv, TypeInv
    <2> QED
      BY <2>1, <2>2, <2>3, <2>4, BesideStep
  <1> QED
    BY <1>2, <1>3

LEMMA MountStep ==
  ASSUME IInv, Mount
  PROVE  IInv'
  <1>1. /\ umdfile' = Video /\ mounted' = TRUE /\ swapped' = FALSE
        /\ UNCHANGED <<slots, handles, stick, gamedfd, isodfd, overiso, isoindex, cache, referenced,
                       cachechanged, disk, listed, whole, scanned, warm, short>>
    BY DEF Mount, pbpVars
  <1>2. swapped' \in BOOLEAN /\ \A g \in handles' : "slot" \in DOMAIN g /\ g.slot \in Indices
    BY <1>1 DEF IInv, TypeInv
  <1>3. MountKept'
    BY <1>1 DEF MountKept
  <1> QED
    BY <1>1, <1>2, <1>3, BesideStep

\* An image that is deleted keeps its slot, and what was shown of it
LEMMA RemoveStep ==
  ASSUME IInv, NEW i \in Indices, RemoveImage(i)
  PROVE  IInv'
  <1>1. /\ i \in 1..Len(slots) /\ umdfile' = NoIso /\ swapped' = (swapped \/ mounted)
        /\ UNCHANGED <<slots, handles, gamedfd, isodfd, overiso, isoindex, cache, referenced,
                       cachechanged, disk, mounted, listed, scanned, short>>
    BY DEF RemoveImage, RemoveFile, pbpVars, Indices
  <1>2. /\ swapped' \in BOOLEAN /\ mounted' \in BOOLEAN /\ umdfile' \in Isos \cup {NoIso, Video}
        /\ \A h \in handles' : "slot" \in DOMAIN h /\ h.slot \in Indices
    BY <1>1 DEF IInv, TypeInv
  <1>3. MountKept'
    BY <1>1 DEF MountKept
  <1>4. CASE UNCHANGED <<pbpVars, stick, whole, warm>>
    <2>1. UNCHANGED <<slots, stick, gamedfd, isodfd, overiso, isoindex, cache, referenced,
                      cachechanged, disk, listed, whole, scanned, warm, short>>
      BY <1>1, <1>4
    <2> QED
      BY <1>2, <1>3, <2>1, BesideStep
  <1>5. CASE /\ stick' = [stick EXCEPT ![slots[i].iso] = 0]
             /\ whole' = FALSE /\ warm' = FALSE
    <2>1. stick' \in [Isos -> {0} \cup Versions]
      BY <1>5 DEF IInv, TypeInv
    <2>2. TypeInv'
      BY <1>1, <1>2, <1>5, <2>1 DEF IInv, TypeInv
    <2>3. SlotsInv' /\ ListedInv' /\ FreshInv'
      BY <1>1 DEF IInv, SlotsInv, ListedInv, FreshInv, Shown, Holds
    <2>4. WholeInv' /\ WarmInv'
      BY <1>5 DEF WholeInv, WarmInv
    <2> QED
      BY <1>3, <2>2, <2>3, <2>4 DEF IInv
  <1> QED
    BY <1>4, <1>5 DEF RemoveImage

LEMMA ChangeStep ==
  ASSUME IInv, ChangeStick
  PROVE  IInv'
  <1>1. /\ ~gamedfd /\ warm' = FALSE
        /\ UNCHANGED <<slots, handles, gamedfd, isodfd, overiso, isoindex, cache, referenced,
                       cachechanged, disk, mounted, umdfile, listed, whole, scanned, short,
                       swapped>>
    BY DEF ChangeStick, pbpVars
  <1>2. stick' \in [Isos -> {0} \cup Versions]
    BY DEF ChangeStick, IInv, TypeInv
  <1>3. TypeInv'
    BY <1>1, <1>2 DEF IInv, TypeInv
  <1>4. SlotsInv' /\ ListedInv' /\ FreshInv' /\ MountKept'
    BY <1>1 DEF IInv, SlotsInv, ListedInv, FreshInv, Shown, Holds, MountKept
  <1>5. WholeInv' /\ WarmInv'
    BY <1>1 DEF WholeInv, WarmInv
  <1> QED
    BY <1>3, <1>4, <1>5 DEF IInv

LEMMA EmptyTypes ==
  /\ Empty \in [Cells -> Entry]
  /\ <<>> \in Seq(SlotRecord) /\ Len(<<>>) = 0 /\ DOMAIN <<>> = {} /\ 0 <= MaxFiles
  /\ <<>> \in Seq(ListedRecord)
  <1>1. NoEntry \in Entry
    BY DEF NoEntry, Entry
  <1> QED
    BY <1>1, VirtualPbpAssumption DEF Empty

LEMMA PowerStep ==
  ASSUME IInv, PowerCut
  PROVE  IInv'
  <1>1. /\ slots' = <<>> /\ handles' = {} /\ gamedfd' = FALSE /\ isodfd' = Closed
        /\ overiso' = FALSE /\ isoindex' = 0 /\ cache' = Empty /\ referenced' = {}
        /\ cachechanged' = FALSE /\ mounted' = FALSE /\ umdfile' = NoIso /\ listed' = <<>>
        /\ whole' = FALSE /\ scanned' = {} /\ short' = FALSE /\ swapped' = FALSE
        /\ stick' = stick /\ disk' = disk /\ warm' = warm
    BY DEF PowerCut
  <1>2. Good' = Good
    BY <1>1 DEF Good
  <1>3. TypeInv'
    <2>1. slots' \in Seq(SlotRecord) /\ Len(slots') <= MaxFiles /\ isoindex' \in 0..Len(slots')
      BY <1>1, EmptyTypes
    <2>2. cache' \in [Cells -> Entry] /\ disk' \in [Cells -> Entry] /\ listed' \in Seq(ListedRecord)
      BY <1>1, EmptyTypes DEF IInv, TypeInv
    <2> QED
      BY <1>1, <2>1, <2>2 DEF IInv, TypeInv
  <1>4. SlotsInv' /\ ListedInv'
    BY <1>1, EmptyTypes DEF SlotsInv, ListedInv, Distinct, Shown
  <1>5. FreshInv' /\ WholeInv' /\ MountKept'
    BY <1>1 DEF FreshInv, WholeInv, MountKept
  <1>6. WarmInv'
    BY <1>1, <1>2 DEF WarmInv, IInv, Serves, Referred
  <1> QED
    BY <1>3, <1>4, <1>5, <1>6 DEF IInv

-----------------------------------------------------------------------------
(* The theorems.                                                           *)

LEMMA InitIInv == ListInit => IInv
  <1> SUFFICES ASSUME ListInit PROVE IInv
    OBVIOUS
  <1>1. TypeInv
    <2>1. slots \in Seq(SlotRecord) /\ Len(slots) <= MaxFiles /\ isoindex \in 0..Len(slots)
      BY EmptyTypes DEF ListInit, Init
    <2>2. cache \in [Cells -> Entry] /\ disk \in [Cells -> Entry] /\ listed \in Seq(ListedRecord)
      BY EmptyTypes DEF ListInit
    <2>3. stick \in [Isos -> {0} \cup Versions]
      BY ListingAssumption DEF ListInit
    <2>4. handles = {}
      BY DEF ListInit, Init
    <2> QED
      BY <2>1, <2>2, <2>3, <2>4 DEF ListInit, TypeInv
  <1>2. SlotsInv /\ ListedInv
    BY EmptyTypes DEF ListInit, Init, SlotsInv, ListedInv, Distinct, Shown
  <1>3. FreshInv /\ WholeInv /\ MountKept /\ WarmInv
    BY DEF ListInit, FreshInv, WholeInv, MountKept, WarmInv
  <1> QED
    BY <1>1, <1>2, <1>3 DEF IInv

LEMMA NextIInv ==
  IInv /\ [ListNext]_vars => IInv'
  <1> SUFFICES ASSUME IInv, [ListNext]_vars PROVE IInv'
    OBVIOUS
  <1>1. CASE DreadCached \/ DreadAdded \/ DreadRefused
    BY <1>1, CachedStep, AddedStep, RefusedStep
  <1>2. CASE DreadEnd \/ DreadNoIso
    BY <1>2, EndStep, NoIsoStep
  <1>3. CASE DopenGame \/ DcloseGame
    BY <1>3, DopenStep, DcloseStep
  <1>4. CASE \E i \in Indices : OpenFile(i) \/ RemoveImage(i)
    BY <1>4, OpenStep, NotThereStep, RemoveStep DEF OpenFile
  <1>5. CASE \E h \in handles : ReadFile(h) \/ CloseFile(h)
    BY <1>5, FilesStep
  <1>6. CASE Mount \/ ChangeStick \/ PowerCut
    BY <1>6, MountStep, ChangeStep, PowerStep
  <1>7. CASE UNCHANGED vars
    <2>1. UNCHANGED <<slots, handles, stick, gamedfd, isodfd, overiso, isoindex, cache, referenced,
                      cachechanged, disk, listed, whole, scanned, warm, short, umdfile,
                      mounted, swapped>>
      BY <1>7 DEF vars, pbpVars, listVars
    <2>2. umdfile' \in Isos \cup {NoIso, Video} /\ mounted' \in BOOLEAN /\ swapped' \in BOOLEAN
      BY <2>1 DEF IInv, TypeInv
    <2>3. MountKept'
      BY <2>1 DEF MountKept, IInv
    <2>4. \A g \in handles' : "slot" \in DOMAIN g /\ g.slot \in Indices
      BY <2>1 DEF IInv, TypeInv
    <2> QED
      BY <2>1, <2>2, <2>3, <2>4, BesideStep
  <1> QED
    BY <1>1, <1>2, <1>3, <1>4, <1>5, <1>6, <1>7 DEF ListNext

THEOREM SpecIInv == ListSpec => []IInv
  BY InitIInv, NextIInv, PTL DEF ListSpec

\* The variables of the listing keep their types: no cell, slot or entry of
\* the directory is referred to that is not there, and no number is given
\* beyond the table (iopatches.c:65-72, 250-330).
THEOREM SpecListTypeOK == ListSpec => []ListTypeOK
  <1>1. IInv => ListTypeOK
    <2> SUFFICES ASSUME IInv PROVE ListTypeOK
      OBVIOUS
    <2>1. isoindex \in 0..MaxFiles
      BY VirtualPbpAssumption DEF IInv, TypeInv
    <2>2. cache \in [Cells -> [iso : Isos \cup {NoIso}, mtime : {0} \cup Versions,
                               content : {0} \cup Versions]]
      BY DEF IInv, TypeInv, Entry
    <2> QED
      BY <2>1, <2>2 DEF IInv, TypeInv, ListTypeOK
  <1> QED
    BY <1>1, SpecIInv, PTL

\* The name an image is shown under is the number of the slot that holds it,
\* as long as no image of the table has a name with a dot in front
\* (iopatches.c:65-72, virtualpbpmgr.c:270-288).
THEOREM SpecNamesRefer == ListSpec => []NamesRefer
  <1>1. IInv => NamesRefer
    <2> SUFFICES ASSUME IInv, ~Drifted, NEW k \in DOMAIN listed
                 PROVE  /\ listed[k].name + 1 \in DOMAIN slots
                        /\ slots[listed[k].name + 1].iso = listed[k].iso
      BY DEF NamesRefer
    <2>1. PICK s \in DOMAIN slots : Holds(slots, listed[k], s)
      BY DEF IInv, ListedInv, Shown
    <2>2. ~DriftedIn(slots)
      BY DEF Drifted, DriftedIn
    <2> QED
      BY <2>1, <2>2 DEF Holds
  <1> QED
    BY <1>1, SpecIInv, PTL

\* While a video image is mounted the UMD file is that image, unless an image
\* that cannot be added was met, an older file read or an image deleted
\* (iopatches.c:303, 371, virtualpbpmgr.c:198, 338, 633).
THEOREM SpecMountKept == ListSpec => []MountKept
  <1>1. IInv => MountKept
    BY DEF IInv
  <1> QED
    BY <1>1, SpecIInv, PTL

\* The images of the stick are finitely many: each is an entry of ms0:/ISO
LEMMA GoodFinite == IsFiniteSet(Good)
  <1> DEFINE f == [g \in Good |-> CHOOSE j \in DOMAIN Order : Order[j] = g]
  <1>1. \A g \in Good : \E j \in DOMAIN Order : Order[j] = g
    BY ListingAssumption DEF Good, Range
  <1>2. \A g \in Good : f[g] \in DOMAIN Order /\ Order[f[g]] = g
    BY <1>1
  <1>3. f \in Injection(Good, 1..Len(Order))
    <2>1. f \in [Good -> 1..Len(Order)]
      BY <1>2, OrderTypes
    <2>2. \A g, h \in Good : f[g] = f[h] => g = h
      BY <1>2
    <2> HIDE DEF f
    <2> QED
      BY <2>1, <2>2 DEF Injection, IsInjective
  <1>4. IsFiniteSet(1..Len(Order))
    BY OrderTypes, FS_Interval
  <1> QED
    BY <1>3, <1>4, FS_Injection

\* A full table of different good images leaves no room for one more only when
\* there are more good images than slots
LEMMA FullTable ==
  ASSUME IInv, Len(slots) = MaxFiles, NEW g \in Good,
         \A s \in DOMAIN slots : slots[s].iso \in Good \ {g}
  PROVE  ~(Cardinality(Good) <= MaxFiles)
  <1> DEFINE f == [s \in 1..MaxFiles |-> slots[s].iso]
  <1>1. DOMAIN slots = 1..MaxFiles /\ MaxFiles \in Nat \ {0}
    BY VirtualPbpAssumption DEF IInv, TypeInv
  <1>2. f \in Injection(1..MaxFiles, Good \ {g})
    <2>1. f \in [1..MaxFiles -> Good \ {g}]
      BY <1>1
    <2>2. \A s, t \in 1..MaxFiles : f[s] = f[t] => s = t
      BY <1>1 DEF IInv, SlotsInv, Distinct
    <2> HIDE DEF f
    <2> QED
      BY <2>1, <2>2 DEF Injection, IsInjective
  <1>3. /\ IsFiniteSet(Good \ {g}) /\ Cardinality(Good \ {g}) = Cardinality(Good) - 1
        /\ Cardinality(Good) \in Nat
    BY GoodFinite, FS_RemoveElement, FS_CardinalityType
  <1>4. Cardinality(1..MaxFiles) = MaxFiles
    BY <1>1, FS_Interval
  <1>5. Cardinality(1..MaxFiles) <= Cardinality(Good \ {g})
    BY <1>2, <1>3, FS_Injection
  <1> QED
    BY <1>1, <1>3, <1>4, <1>5

\* A listing that ran from the beginning of ms0:/ISO to its end shows each
\* good image once and no other, if the table has room for them
\* (iopatches.c:250-330).
THEOREM SpecListsEvery == ListSpec => []ListsEvery
  <1>1. IInv => ListsEvery
    <2> SUFFICES ASSUME IInv, gamedfd, overiso, whole
                 PROVE  /\ \A j, k \in DOMAIN listed : listed[j].iso = listed[k].iso => j = k
                        /\ {listed[k].iso : k \in DOMAIN listed} \subseteq Good
                        /\ Cardinality(Good) <= MaxFiles =>
                             {listed[k].iso : k \in DOMAIN listed} = Good
      BY DEF ListsEvery
    <2>1. \A j, k \in DOMAIN listed : listed[j].iso = listed[k].iso => j = k
      BY DEF IInv, ListedInv
    <2>2. Every(slots, Len(Order))
      BY DEF IInv, FreshInv, WholeInv, Reached
    <2>3. {listed[k].iso : k \in DOMAIN listed} \subseteq Good
      <3> SUFFICES ASSUME NEW k \in DOMAIN listed PROVE listed[k].iso \in Good
        OBVIOUS
      <3>1. PICK s \in DOMAIN slots : slots[s].iso = listed[k].iso
        BY DEF IInv, ListedInv, Shown, Holds
      <3> QED
        BY <2>2, <3>1 DEF Every
    <2>4. ASSUME Cardinality(Good) <= MaxFiles, NEW g \in Good
          PROVE  \E k \in DOMAIN listed : listed[k].iso = g
      <3> SUFFICES ASSUME ~(\E k \in DOMAIN listed : listed[k].iso = g)
                   PROVE  FALSE
        OBVIOUS
      <3>1. PICK j \in DOMAIN Order : Order[j] = g
        BY ListingAssumption DEF Good, Range
      <3>2. j <= Len(Order)
        BY OrderTypes
      <3>3. Len(slots) = MaxFiles
        BY <2>2, <3>1, <3>2 DEF Every
      <3>4. \A s \in DOMAIN slots : slots[s].iso \in Good \ {g}
        BY <2>2 DEF Every
      <3> QED
        BY <2>4, <3>3, <3>4, FullTable
    <2> QED
      BY <2>1, <2>3, <2>4
  <1> QED
    BY <1>1, SpecIInv, PTL

\* What the manager has of a shown image is what the image holds now, whatever
\* the cache file is; and once a whole listing was saved later ones that read
\* the cache file as a whole work no image out (iopatches.c:74-182).
THEOREM SpecCacheTrue == ListSpec => []CacheTrue
  <1>1. IInv => CacheTrue
    <2> SUFFICES ASSUME IInv PROVE SlotsTrue /\ CacheServes
      BY DEF CacheTrue
    <2>1. SlotsTrue
      <3> SUFFICES ASSUME NEW k \in DOMAIN listed, NEW s \in DOMAIN slots,
                          slots[s].iso = listed[k].iso
                   PROVE  slots[s].mtime = listed[k].mtime
        BY DEF SlotsTrue
      <3>1. PICK t \in DOMAIN slots : Holds(slots, listed[k], t)
        BY DEF IInv, ListedInv, Shown
      <3>2. s = t
        BY <3>1 DEF Holds, IInv, SlotsInv, Distinct
      <3> QED
        BY <3>1, <3>2 DEF Holds
    <2> QED
      BY <2>1 DEF IInv, WarmInv, CacheServes
  <1> QED
    BY <1>1, SpecIInv, PTL

HIDE DEF VirtualPbpAssumption, ListingAssumption
USE DEF V!VirtualPbpAssumption

-----------------------------------------------------------------------------
(***************************************************************************)
(* The virtual files (virtualpbpmgr.c): the parts read and list of         *)
(* MCIsoListing.  The layout of an assembled file, and its parts in order. *)
(***************************************************************************)

LEMMA VirtualConstants ==
    /\ Header \in Nat /\ Sfo \in Nat /\ Slots \in Nat \ {0}
    /\ Seeks \subseteq Nat /\ Lengths \subseteq Nat
    /\ Unreadable \subseteq Images /\ Unnamed \subseteq Images /\ NoIso \notin Images
  BY VirtualAssumption

LEMMA VirtualSizes == Header \in Nat /\ Sfo \in Nat
  BY VirtualConstants

LEMMA FilesAre == \A iso \in Images : Files[iso] \in Seq(Nat) /\ Len(Files[iso]) = 5
  BY VirtualAssumption

LEMMA Element == ASSUME NEW S, NEW s \in Seq(S), NEW k \in 1..Len(s) PROVE s[k] \in S
  OBVIOUS

\* The length of a part of the assembled file, and where it begins
PartLength(iso, p) ==
    IF p = 1 THEN Header ELSE IF p = 2 THEN Sfo ELSE Files[iso][p - 2]
Laid(slot) ==
    /\ slot.iso \in Images /\ slot.pos \in Nat
    /\ slot.header = V!Offsets(Files[slot.iso])

\* What concatenation yields
LEMMA Joined ==
  ASSUME NEW S, NEW s \in Seq(S), NEW t \in Seq(S)
  PROVE  /\ s \o t \in Seq(S) /\ Len(s \o t) = Len(s) + Len(t)
         /\ \A k \in 1..Len(s) : (s \o t)[k] = s[k]
         /\ \A k \in 1..Len(t) : (s \o t)[Len(s) + k] = t[k]
  OBVIOUS

LEMMA OffsetsAre ==
  ASSUME NEW sizes, \A k \in 1..5 : sizes[k] \in Nat, NEW o, o = V!Offsets(sizes)
  PROVE  /\ o \in Seq(Nat) /\ Len(o) = 6
         /\ \A k \in 1..5 : sizes[k] \in Nat /\ o[k] \in Nat /\ o[k + 1] = o[k] + sizes[k]
         /\ o[1] = Header + Sfo /\ o[6] \in Nat
  <1>1. /\ sizes[1] \in Nat /\ sizes[2] \in Nat /\ sizes[3] \in Nat
        /\ sizes[4] \in Nat /\ sizes[5] \in Nat
    OBVIOUS
  <1> DEFINE c == Header + Sfo
             d == c + sizes[1]
             e == d + sizes[2]
             f == e + sizes[3]
             g == f + sizes[4]
             h == g + sizes[5]
  <1>2. o = <<c, d, e, f, g, h>>
    BY DEF V!Offsets
  <1>4. /\ c = Header + Sfo
        /\ d = c + sizes[1] /\ e = d + sizes[2] /\ f = e + sizes[3]
        /\ g = f + sizes[4] /\ h = g + sizes[5]
    OBVIOUS
  <1> HIDE DEF c, d, e, f, g, h
  <1>3. c \in Nat /\ d \in Nat /\ e \in Nat /\ f \in Nat /\ g \in Nat /\ h \in Nat
    BY <1>1, <1>4, VirtualSizes
  <1>5. o \in Seq(Nat) /\ Len(o) = 6
    BY <1>2, <1>3
  <1>6. o[1] = c /\ o[2] = d /\ o[3] = e /\ o[4] = f /\ o[5] = g /\ o[6] = h
    BY <1>2
  <1>7. ASSUME NEW k \in 1..5
        PROVE  sizes[k] \in Nat /\ o[k] \in Nat /\ o[k + 1] = o[k] + sizes[k]
    <2>1. CASE k = 1
      BY <1>1, <1>3, <1>4, <1>6, <2>1
    <2>2. CASE k = 2
      BY <1>1, <1>3, <1>4, <1>6, <2>2
    <2>3. CASE k = 3
      BY <1>1, <1>3, <1>4, <1>6, <2>3
    <2>4. CASE k = 4
      BY <1>1, <1>3, <1>4, <1>6, <2>4
    <2>5. CASE k = 5
      BY <1>1, <1>3, <1>4, <1>6, <2>5
    <2> QED
      BY <2>1, <2>2, <2>3, <2>4, <2>5
  <1> QED
    BY <1>3, <1>4, <1>5, <1>6, <1>7

\* The parts follow one another from the beginning of the file
LEMMA PartsFollow ==
  ASSUME NEW slot, Laid(slot)
  PROVE  /\ V!Bounds(slot)[1] = 0 /\ V!Bounds(slot)[8] = V!Filesize(slot)
         /\ \A p \in 1..8 : V!Bounds(slot)[p] \in Nat
         /\ \A p \in 1..7 : /\ PartLength(slot.iso, p) \in Nat
                            /\ V!Bounds(slot)[p + 1] = V!Bounds(slot)[p] + PartLength(slot.iso, p)
  <1> DEFINE sizes == Files[slot.iso]
             b == V!Bounds(slot)
             o == slot.header
  <1>1. \A k \in 1..5 : sizes[k] \in Nat
    BY FilesAre, Element DEF Laid
  <1>2. o = V!Offsets(sizes)
    BY DEF Laid
  <1>3. b = <<0, Header>> \o o /\ V!Filesize(slot) = o[6]
    BY DEF V!Bounds, V!Filesize
  <1>4. ASSUME NEW p \in 3..7 PROVE PartLength(slot.iso, p) = sizes[p - 2]
    BY DEF PartLength
  <1>5. PartLength(slot.iso, 1) = Header /\ PartLength(slot.iso, 2) = Sfo
    BY DEF PartLength
  <1> HIDE DEF sizes, b, o
  <1>12. o \in Seq(Nat) /\ Len(o) = 6
    BY <1>1, <1>2, OffsetsAre
  <1>6. /\ \A k \in 1..5 : sizes[k] \in Nat /\ o[k] \in Nat /\ o[k + 1] = o[k] + sizes[k]
        /\ o[1] = Header + Sfo /\ o[6] \in Nat
    BY <1>1, <1>2, OffsetsAre
  <1>7. b[1] = 0 /\ b[2] = Header /\ \A k \in 1..6 : b[2 + k] = o[k]
    <2> DEFINE two == <<0, Header>>
    <2>1. two[1] = 0 /\ two[2] = Header
      OBVIOUS
    <2>4. two \in Seq(Nat) /\ Len(two) = 2
      BY VirtualSizes
    <2> HIDE DEF two
    <2>2. b = two \o o
      BY <1>3 DEF two
    <2>3. /\ \A k \in 1..2 : b[k] = two[k]
          /\ \A k \in 1..6 : b[2 + k] = o[k]
      <3>1. /\ \A k \in 1..Len(two) : (two \o o)[k] = two[k]
            /\ \A k \in 1..Len(o) : (two \o o)[Len(two) + k] = o[k]
        <4>1. two \in Seq(Nat) /\ o \in Seq(Nat)
          BY <1>12, <2>4
        <4> QED
          BY <4>1, Joined
      <3>2. 1..Len(two) = 1..2 /\ 1..Len(o) = 1..6 /\ Len(two) = 2
        BY <1>12, <2>4
      <3> QED
        BY <2>2, <3>1, <3>2
    <2> QED
      BY <2>1, <2>3
  <1>8. ASSUME NEW p \in 3..7
        PROVE  /\ b[p] \in Nat /\ PartLength(slot.iso, p) \in Nat
               /\ b[p + 1] = b[p] + PartLength(slot.iso, p)
    <2>1. p - 2 \in 1..5 /\ p - 1 \in 1..6 /\ (p - 2) + 1 = p - 1
      OBVIOUS
    <2>2. b[2 + (p - 2)] = o[p - 2] /\ b[2 + (p - 1)] = o[(p - 2) + 1]
      BY <1>7, <2>1
    <2> QED
      BY <1>4, <1>6, <2>1, <2>2
  <1>9. b[8] = o[6] /\ b[3] = o[1]
    <2>1. b[2 + 6] = o[6] /\ b[2 + 1] = o[1]
      BY <1>7
    <2> QED
      BY <2>1
  <1>10. ASSUME NEW p \in 1..7
         PROVE  /\ PartLength(slot.iso, p) \in Nat
                /\ b[p + 1] = b[p] + PartLength(slot.iso, p)
    <2>1. p = 1 \/ p = 2 \/ p \in 3..7
      OBVIOUS
    <2> QED
      BY <1>5, <1>6, <1>7, <1>8, <1>9, <2>1, VirtualSizes
  <1>11. ASSUME NEW p \in 1..8 PROVE b[p] \in Nat
    <2>1. p = 1 \/ p = 2 \/ p \in 3..7 \/ p = 8
      OBVIOUS
    <2> QED
      BY <1>6, <1>7, <1>8, <1>9, <2>1, VirtualSizes
  <1> QED
    BY <1>3, <1>7, <1>9, <1>10, <1>11 DEF b

LEMMA PartsOrdered ==
  ASSUME NEW slot, Laid(slot), NEW p \in 1..8, NEW q \in 1..p
  PROVE  V!Bounds(slot)[q] <= V!Bounds(slot)[p]
  <1> DEFINE b == V!Bounds(slot)
  <1>1. \A n \in 1..8 : b[n] \in Nat
    BY PartsFollow
  <1>2. \A n \in 1..7 : b[n] <= b[n + 1]
    BY PartsFollow, <1>1
  <1> HIDE DEF b
  <1>3. /\ b[1] <= b[2] /\ b[2] <= b[3] /\ b[3] <= b[4] /\ b[4] <= b[5] /\ b[5] <= b[6]
        /\ b[6] <= b[7] /\ b[7] <= b[8]
    BY <1>2
  <1>4. b[q] <= b[p]
    BY <1>1, <1>3
  <1> QED
    BY <1>4 DEF b

\* The units a file is made of
Units == (Images \cup {NoIso}) \X Nat \X Nat

\* A sequence is the assembled file up to the end of a part
UpTo(w, slot, p) ==
    /\ w \in Seq(Units) /\ Len(w) = V!Bounds(slot)[p + 1]
    /\ \A q \in 1..p : \A k \in 1..PartLength(slot.iso, q) :
          w[V!Bounds(slot)[q] + k] = V!Unit(slot.iso, q, k - 1)

LEMMA PartIs ==
  ASSUME NEW iso \in Images, NEW p \in Nat, NEW n \in Nat
  PROVE  /\ V!Part(iso, p, n) \in Seq(Units) /\ Len(V!Part(iso, p, n)) = n
         /\ \A k \in 1..n : V!Part(iso, p, n)[k] = V!Unit(iso, p, k - 1)
  <1>1. \A k \in 1..n : V!Unit(iso, p, k - 1) \in Units
    BY DEF V!Unit, Units
  <1> QED
    BY <1>1 DEF V!Part

LEMMA PartAdded ==
  ASSUME NEW slot, Laid(slot), NEW p \in 2..7, NEW w, UpTo(w, slot, p - 1),
         NEW n, n = PartLength(slot.iso, p)
  PROVE  UpTo(w \o V!Part(slot.iso, p, n), slot, p)
  <1> DEFINE b == V!Bounds(slot)
             t == V!Part(slot.iso, p, n)
             iso == slot.iso
  <1>1. /\ \A q \in 1..8 : b[q] \in Nat
        /\ \A q \in 1..7 : PartLength(iso, q) \in Nat /\ b[q + 1] = b[q] + PartLength(iso, q)
        /\ \A q \in 1..p : b[q] <= b[p]
        /\ n \in Nat /\ b[p + 1] = b[p] + n
    <2>1. p \in 1..7 /\ p \in 1..8
      OBVIOUS
    <2> QED
      BY <2>1, PartsFollow, PartsOrdered
  <1>2. t \in Seq(Units) /\ Len(t) = n /\ \A k \in 1..n : t[k] = V!Unit(iso, p, k - 1)
    <2>1. iso \in Images /\ p \in Nat
      BY DEF Laid
    <2> QED
      BY <1>1, <2>1, PartIs
  <1>3. /\ w \in Seq(Units) /\ Len(w) = b[(p - 1) + 1]
        /\ \A q \in 1..p - 1 : \A k \in 1..PartLength(iso, q) : w[b[q] + k] = V!Unit(iso, q, k - 1)
    BY DEF UpTo
  <1>4. Len(w) = b[p]
    BY <1>3
  <1> HIDE DEF b, t, iso
  <1>5. /\ w \o t \in Seq(Units) /\ Len(w \o t) = Len(w) + Len(t)
        /\ \A k \in 1..Len(w) : (w \o t)[k] = w[k]
        /\ \A k \in 1..Len(t) : (w \o t)[Len(w) + k] = t[k]
    <2>1. w \in Seq(Units) /\ t \in Seq(Units)
      BY <1>2, <1>3
    <2> QED
      BY <2>1, Joined
  <1>6. Len(w \o t) = b[p + 1]
    BY <1>1, <1>2, <1>4, <1>5
  <1>7. ASSUME NEW q \in 1..p, NEW k \in 1..PartLength(iso, q)
        PROVE  (w \o t)[b[q] + k] = V!Unit(iso, q, k - 1)
    <2>1. CASE q = p
      <3>1. k \in 1..n
        BY <2>1 DEF iso
      <3> QED
        BY <1>2, <1>4, <1>5, <2>1, <3>1
    <2>2. CASE q # p
      <3>1. q \in 1..p - 1 /\ q + 1 \in 1..p /\ q \in 1..7 /\ k \in Nat /\ k >= 1
        BY <1>1, <2>2
      <3>2. b[q] + k <= b[q + 1] /\ b[q + 1] <= b[p] /\ b[q] + k \in Nat /\ b[q] + k >= 1
            /\ b[q + 1] \in Nat /\ b[p] \in Nat
        BY <1>1, <3>1
      <3>3. b[q] + k \in 1..Len(w)
        BY <1>4, <3>2
      <3> QED
        BY <1>3, <1>5, <3>1, <3>3
    <2> QED
      BY <2>1, <2>2
  <1> QED
    BY <1>5, <1>6, <1>7 DEF UpTo, b, t, iso

LEMMA WholeIs ==
  ASSUME NEW slot, Laid(slot)
  PROVE  UpTo(V!Whole(slot.iso), slot, 7)
  <1> DEFINE iso == slot.iso
             sizes == Files[iso]
             P(p, n) == V!Part(iso, p, n)
             w1 == P(1, Header)
             w2 == w1 \o P(2, Sfo)
             w3 == w2 \o P(3, sizes[1])
             w4 == w3 \o P(4, sizes[2])
             w5 == w4 \o P(5, sizes[3])
             w6 == w5 \o P(6, sizes[4])
             w7 == w6 \o P(7, sizes[5])
  <1>1. V!Whole(iso) = w7
    BY DEF V!Whole
  <1>2. /\ PartLength(iso, 1) = Header /\ PartLength(iso, 2) = Sfo
        /\ PartLength(iso, 3) = sizes[1] /\ PartLength(iso, 4) = sizes[2]
        /\ PartLength(iso, 5) = sizes[3] /\ PartLength(iso, 6) = sizes[4]
        /\ PartLength(iso, 7) = sizes[5]
    BY DEF PartLength
  <1>3. UpTo(w1, slot, 1)
    <2>1. V!Bounds(slot)[1] = 0 /\ V!Bounds(slot)[1 + 1] = V!Bounds(slot)[1] + PartLength(iso, 1)
      BY PartsFollow
    <2>2. /\ w1 \in Seq(Units) /\ Len(w1) = Header
          /\ \A k \in 1..Header : w1[k] = V!Unit(iso, 1, k - 1)
      BY PartIs, VirtualSizes DEF Laid
    <2>3. \A k \in 1..Header : 0 + k = k
      BY VirtualSizes
    <2> HIDE DEF w1
    <2> QED
      BY <1>2, <2>1, <2>2, <2>3, VirtualSizes DEF UpTo
  <1> HIDE DEF w1, sizes
  <1>4. UpTo(w2, slot, 2)
    BY <1>2, <1>3, PartAdded
  <1> HIDE DEF w2
  <1>5. UpTo(w3, slot, 3)
    BY <1>2, <1>4, PartAdded
  <1> HIDE DEF w3
  <1>6. UpTo(w4, slot, 4)
    BY <1>2, <1>5, PartAdded
  <1> HIDE DEF w4
  <1>7. UpTo(w5, slot, 5)
    BY <1>2, <1>6, PartAdded
  <1> HIDE DEF w5
  <1>8. UpTo(w6, slot, 6)
    BY <1>2, <1>7, PartAdded
  <1> HIDE DEF w6
  <1>9. UpTo(w7, slot, 7)
    BY <1>2, <1>8, PartAdded
  <1> QED
    BY <1>1, <1>9

LEMMA LeastOfTwo ==
  ASSUME NEW x \in Nat, NEW y \in Nat
  PROVE  /\ V!Min({x, y}) \in Nat /\ V!Min({x, y}) <= x /\ V!Min({x, y}) <= y
         /\ V!Min({x, y}) = x \/ V!Min({x, y}) = y
  <1>1. \E m \in {x, y} : \A n \in {x, y} : m <= n
    <2>1. CASE x <= y
      BY <2>1
    <2>2. CASE y <= x
      BY <2>2
    <2> QED
      BY <2>1, <2>2
  <1>2. V!Min({x, y}) \in {x, y} /\ \A n \in {x, y} : V!Min({x, y}) <= n
    BY <1>1 DEF V!Min
  <1> QED
    BY <1>2

\* What has been read so far, of how much was asked: it lies in the file; and
\* it is what it should be, but for a disc id that an image has not got
Tallied(acc, slot, size) ==
    /\ acc.pos \in Nat /\ acc.left \in Nat /\ acc.id \in Images \cup {NoIso}
    /\ acc.bytes \in Seq(Units)
    /\ Len(acc.bytes) + acc.left = size
    /\ acc.pos = slot.pos + Len(acc.bytes)
    /\ Len(acc.bytes) # 0 => acc.pos <= V!Bounds(slot)[8]
Fits(unit, iso, wanted) ==
    unit = wanted \/ (iso \in Unnamed /\ wanted = V!Unit(iso, 2, 1))
Right(acc, slot) ==
    \A k \in 1..Len(acc.bytes) :
        Fits(acc.bytes[k], slot.iso, V!Whole(slot.iso)[slot.pos + k])
Spent(acc, end) == acc.left = 0 \/ acc.pos >= end

Copied(s, slot, id, p, base, n, ok) ==
    /\ s \in Seq(Units) /\ Len(s) = n
    /\ ok => \A k \in 1..n : s[k] = IF p = 2 /\ base + k - 1 = 1 THEN V!Unit(id, p, 1)
                                    ELSE V!Unit(slot.iso, p, base + k - 1)

LEMMA PieceIs ==
  ASSUME NEW slot, Laid(slot), NEW ok \in BOOLEAN, NEW p \in 1..7, NEW base \in Nat, NEW n \in Nat,
         NEW id \in Images \cup {NoIso}
  PROVE  Copied(V!Piece(slot, id, p, base, n, ok), slot, id, p, base, n, ok)
  <1> DEFINE s == V!Piece(slot, id, p, base, n, ok)
  <1> DEFINE F(k) == IF p = 2 /\ base + k - 1 = 1 THEN V!Unit(id, p, 1)
                     ELSE IF p > 2 /\ ~ok THEN V!Unit(NoIso, 0, 0)
                     ELSE V!Unit(slot.iso, p, base + k - 1)
  <1>1. s = [k \in 1..n |-> F(k)]
    BY DEF V!Piece
  <1>2. \A k \in 1..n : F(k) \in Units
    BY DEF V!Unit, Units, Laid
  <1>3. ok => \A k \in 1..n : F(k) = IF p = 2 /\ base + k - 1 = 1 THEN V!Unit(id, p, 1)
                                     ELSE V!Unit(slot.iso, p, base + k - 1)
    OBVIOUS
  <1> HIDE DEF F, s
  <1>4. s \in Seq(Units) /\ Len(s) = n
    BY <1>1, <1>2
  <1>5. \A k \in 1..n : s[k] = F(k)
    BY <1>1
  <1>6. Copied(s, slot, id, p, base, n, ok)
    BY <1>3, <1>4, <1>5 DEF Copied
  <1> QED
    BY <1>6 DEF s

\* The counts of one part: n units from where the position is, inside the part
LEMMA CountsAre ==
  ASSUME NEW start \in Nat, NEW len \in Nat, NEW left \in Nat, NEW size \in Nat, NEW pos \in Nat,
         NEW from \in Nat, NEW to \in Nat, NEW end \in Nat, NEW n \in Nat, NEW base \in Nat,
         pos = start + len, len + left = size, base = pos - from, pos < to, to <= end,
         n <= to - from - base, n <= left, n = to - from - base \/ n = left
  PROVE  /\ pos + n \in Nat /\ left - n \in Nat /\ (len + n) + (left - n) = size
         /\ pos + n = start + (len + n) /\ pos + n <= end
         /\ left - n = 0 \/ pos + n >= to
         /\ \A j \in 1..n : /\ base + j \in 1..(to - from)
                            /\ start + (len + j) = from + (base + j)
  OBVIOUS

LEMMA TakeCounts ==
  ASSUME NEW slot, Laid(slot), NEW ok \in BOOLEAN, NEW size \in Nat, NEW acc, NEW p \in 1..7,
         Tallied(acc, slot, size), Spent(acc, V!Bounds(slot)[p]),
         vsfo \in Images \cup {NoIso},
         NEW c, c = V!Take(slot, ok, acc, p)
  PROVE  /\ Tallied(c, slot, size) /\ Spent(c, V!Bounds(slot)[p + 1])
         /\ ok /\ Right(acc, slot) => Right(c, slot)
  <1> DEFINE from == V!Bounds(slot)[p]
             to == V!Bounds(slot)[p + 1]
             end == V!Bounds(slot)[8]
             iso == slot.iso
             len == Len(acc.bytes)
             base == acc.pos - from
             n == V!Min({to - from - base, acc.left})
             id == IF p = 2 THEN V!IdAfter(slot) ELSE acc.id
             s == V!Piece(slot, id, p, base, n, ok)
  <1>1. /\ from \in Nat /\ to \in Nat /\ PartLength(iso, p) \in Nat
        /\ to = from + PartLength(iso, p)
        /\ to <= end /\ end \in Nat
    <2>1. p + 1 \in 1..8 /\ 8 \in 1..8 /\ p + 1 \in 1..8 /\ p \in 1..8
      OBVIOUS
    <2> QED
      BY <2>1, PartsFollow, PartsOrdered
  <1>2. /\ acc.pos \in Nat /\ acc.left \in Nat /\ acc.id \in Images \cup {NoIso}
        /\ len + acc.left = size /\ acc.pos = slot.pos + len /\ slot.pos \in Nat /\ len \in Nat
    BY DEF Tallied, Laid
  <1>3. acc.bytes \in Seq(Units) /\ iso \in Images
    BY DEF Tallied, Laid
  <1>4. id \in Images \cup {NoIso} /\ (p = 2 /\ iso \notin Unnamed => id = iso)
    BY <1>2, <1>3 DEF V!IdAfter
  <1>5. CASE ~(acc.pos >= from /\ acc.pos < to)
    <2>1. c = acc
      BY <1>5 DEF V!Take
    <2>2. Spent(acc, to)
      BY <1>1, <1>2, <1>5 DEF Spent
    <2> QED
      BY <2>1, <2>2
  <1>6. CASE acc.pos >= from /\ acc.pos < to
    <2>1. c = [pos |-> acc.pos + n, left |-> acc.left - n, id |-> id, bytes |-> acc.bytes \o s]
      BY <1>6 DEF V!Take
    <2>2. base \in Nat /\ to - from - base \in Nat
      <3> HIDE DEF from, to
      <3>1. acc.pos \in Nat /\ from \in Nat /\ to \in Nat /\ from <= acc.pos /\ acc.pos < to
        BY <1>1, <1>2, <1>6
      <3>2. base = acc.pos - from
        OBVIOUS
      <3> HIDE DEF base
      <3>3. base \in Nat /\ base <= to - from
        BY <3>1, <3>2
      <3> QED
        BY <3>1, <3>3
    <2>3. /\ n \in Nat /\ n <= to - from - base /\ n <= acc.left
          /\ n = to - from - base \/ n = acc.left
      BY <1>2, <2>2, LeastOfTwo
    <2>4. base = acc.pos - from /\ s = V!Piece(slot, id, p, base, n, ok)
      OBVIOUS
    <2> HIDE DEF n, base, id, s, from, to, end, iso, len
    <2>5. /\ acc.pos + n \in Nat /\ acc.left - n \in Nat /\ (len + n) + (acc.left - n) = size
          /\ acc.pos + n = slot.pos + (len + n) /\ acc.pos + n <= end
          /\ acc.left - n = 0 \/ acc.pos + n >= to
          /\ \A j \in 1..n : /\ base + j \in 1..(to - from)
                             /\ slot.pos + (len + j) = from + (base + j)
      BY <1>1, <1>2, <1>6, <2>2, <2>3, <2>4, CountsAre
    <2>6. /\ s \in Seq(Units) /\ Len(s) = n
          /\ ok => \A k \in 1..n : s[k] = IF p = 2 /\ base + k - 1 = 1 THEN V!Unit(id, p, 1)
                                          ELSE V!Unit(iso, p, base + k - 1)
      <3>1. n \in Nat /\ base \in Nat /\ id \in Images \cup {NoIso}
        BY <1>4, <2>2, <2>3
      <3>2. Copied(V!Piece(slot, id, p, base, n, ok), slot, id, p, base, n, ok)
        BY <3>1, PieceIs
      <3>3. Copied(s, slot, id, p, base, n, ok)
        BY <2>4, <3>2
      <3> QED
        BY <3>3 DEF Copied, iso
    <2>7. /\ acc.bytes \o s \in Seq(Units) /\ Len(acc.bytes \o s) = len + Len(s)
          /\ \A k \in 1..len : (acc.bytes \o s)[k] = acc.bytes[k]
          /\ \A k \in 1..Len(s) : (acc.bytes \o s)[len + k] = s[k]
      <3>1. s \in Seq(Units)
        BY <2>6
      <3> QED
        BY <1>3, <3>1, Joined DEF len
    <2>8. /\ c.pos = acc.pos + n /\ c.left = acc.left - n /\ c.id = id
          /\ c.bytes = acc.bytes \o s
      BY <2>1
    <2>9. Len(c.bytes) = len + n
      BY <2>6, <2>7, <2>8
    <2>10. Tallied(c, slot, size)
      <3>1. /\ c.pos \in Nat /\ c.left \in Nat /\ c.id \in Images \cup {NoIso}
            /\ c.bytes \in Seq(Units)
        BY <1>4, <2>5, <2>7, <2>8
      <3>2. Len(c.bytes) + c.left = size
        BY <2>5, <2>8, <2>9
      <3>3. c.pos = slot.pos + Len(c.bytes) /\ c.pos <= end
        BY <2>5, <2>8, <2>9
      <3> QED
        BY <3>1, <3>2, <3>3 DEF Tallied, end
    <2>11. Spent(c, to)
      BY <2>5, <2>8 DEF Spent
    <2>12. ASSUME ok, Right(acc, slot), NEW k \in 1..len + n
           PROVE  Fits(c.bytes[k], iso, V!Whole(iso)[slot.pos + k])
      <3>1. CASE k \in 1..len
        <4>1. c.bytes[k] = acc.bytes[k]
          BY <2>7, <2>8, <3>1
        <4> QED
          BY <2>12, <3>1, <4>1 DEF Right, iso, len
      <3>2. ASSUME NEW j \in 1..n, k = len + j
            PROVE  Fits(c.bytes[k], iso, V!Whole(iso)[slot.pos + k])
        <4>1. PartLength(iso, p) = to - from
          BY <1>1
        <4>2. base + j \in 1..PartLength(iso, p) /\ slot.pos + k = from + (base + j)
          BY <2>5, <3>2, <4>1
        <4>3. V!Whole(iso)[from + (base + j)] = V!Unit(iso, p, (base + j) - 1)
          <5>1. \A q \in 1..7 : \A i \in 1..PartLength(slot.iso, q) :
                   V!Whole(slot.iso)[V!Bounds(slot)[q] + i] = V!Unit(slot.iso, q, i - 1)
            BY WholeIs DEF UpTo
          <5>2. base + j \in 1..PartLength(iso, p)
            BY <4>2
          <5> QED
            BY <5>1, <5>2 DEF from, iso
        <4>4. c.bytes[k] = s[j]
          BY <2>6, <2>7, <2>8, <3>2
        <4>5. s[j] = IF p = 2 /\ base + j - 1 = 1 THEN V!Unit(id, p, 1)
                     ELSE V!Unit(iso, p, base + j - 1)
          BY <2>6, <2>12
        <4>6. Fits(s[j], iso, V!Unit(iso, p, base + j - 1))
          BY <1>4, <4>5 DEF Fits
        <4> QED
          <5>1. V!Whole(iso)[slot.pos + k] = V!Unit(iso, p, base + j - 1)
            <6> DEFINE x == slot.pos + k
                       y == from + (base + j)
            <6>1. x = y
              BY <4>2
            <6>2. V!Whole(iso)[y] = V!Unit(iso, p, (base + j) - 1)
              BY <4>3
            <6>3. (base + j) - 1 = base + j - 1
              BY <2>2
            <6> HIDE DEF x, y
            <6>4. V!Whole(iso)[x] = V!Unit(iso, p, base + j - 1)
              BY <6>1, <6>2, <6>3
            <6> QED
              BY <6>4 DEF x
          <5> QED
            BY <4>4, <4>6, <5>1
      <3>3. k \in 1..len \/ \E j \in 1..n : k = len + j
        <4>1. CASE k > len
          <5>1. k - len \in 1..n /\ k = len + (k - len)
            BY <1>2, <2>3, <4>1
          <5> QED
            BY <5>1
        <4>2. CASE ~(k > len)
          BY <1>2, <2>3, <4>2
        <4> QED
          BY <4>1, <4>2
      <3> QED
        BY <3>1, <3>2, <3>3
    <2>13. ok /\ Right(acc, slot) => Right(c, slot)
      BY <2>9, <2>12 DEF Right, iso
    <2> QED
      BY <2>10, <2>11, <2>13 DEF to
  <1> QED
    BY <1>5, <1>6

LEMMA AssembleIs ==
  ASSUME NEW slot, Laid(slot), NEW ok \in BOOLEAN, NEW size \in Nat,
         vsfo \in Images \cup {NoIso}, NEW done, done = V!Assemble(slot, size, ok)
  PROVE  /\ Tallied(done, slot, size) /\ Spent(done, V!Bounds(slot)[8])
         /\ ok => Right(done, slot)
  <1> DEFINE b == V!Bounds(slot)
             a0 == V!Begun(slot, size)
             a1 == V!Take(slot, ok, a0, 1)
             a2 == V!Title(slot, ok, a0)
             a3 == V!Take(slot, ok, a2, 3)
             a4 == V!Icons(slot, ok, a2)
             a5 == V!Take(slot, ok, a4, 5)
             a6 == V!Pics(slot, ok, a4)
  <1> DEFINE Sofar(acc, p) == /\ Tallied(acc, slot, size) /\ Spent(acc, b[p])
                              /\ ok => Right(acc, slot)
  <1>1. a2 = V!Take(slot, ok, a1, 2)
    BY DEF V!Title
  <1>2. a4 = V!Take(slot, ok, a3, 4)
    BY DEF V!Icons
  <1>3. a6 = V!Take(slot, ok, a5, 6)
    BY DEF V!Pics
  <1>4. done = V!Take(slot, ok, a6, 7)
    BY DEF V!Assemble, V!Sound
  <1>5. Sofar(a0, 1)
    <2>1. a0 = [pos |-> slot.pos, left |-> size, id |-> vsfo, bytes |-> <<>>]
      BY DEF V!Begun
    <2>2. b[1] = 0 /\ slot.pos \in Nat
      BY PartsFollow DEF Laid
    <2> HIDE DEF a0, b
    <2>3. a0.pos = slot.pos /\ a0.left = size /\ a0.id = vsfo /\ a0.bytes = <<>>
      BY <2>1
    <2>4. a0.bytes \in Seq(Units) /\ Len(a0.bytes) = 0
      BY <2>3
    <2>5. Tallied(a0, slot, size)
      BY <2>2, <2>3, <2>4 DEF Tallied
    <2>6. Right(a0, slot)
      BY <2>4 DEF Right
    <2>7. Spent(a0, b[1])
      BY <2>2, <2>3 DEF Spent
    <2> QED
      BY <2>5, <2>6, <2>7
  <1>6. ASSUME NEW acc, NEW p \in 1..7, Sofar(acc, p), NEW c, c = V!Take(slot, ok, acc, p)
        PROVE  Sofar(c, p + 1)
    <2>1. /\ Tallied(acc, slot, size) /\ Spent(acc, V!Bounds(slot)[p])
          /\ ok => Right(acc, slot)
      BY <1>6
    <2>2. /\ Tallied(c, slot, size) /\ Spent(c, V!Bounds(slot)[p + 1])
          /\ ok /\ Right(acc, slot) => Right(c, slot)
      <3> HIDE DEF Sofar
      <3> QED
        BY <1>6, <2>1, TakeCounts
    <2> QED
      BY <2>1, <2>2
  <1>7. a1 = V!Take(slot, ok, a0, 1) /\ a3 = V!Take(slot, ok, a2, 3) /\ a5 = V!Take(slot, ok, a4, 5)
    OBVIOUS
  <1> HIDE DEF a0, a1, a2, a3, a4, a5, a6, Sofar
  <1>8. Sofar(a1, 1 + 1)
    BY <1>5, <1>6, <1>7
  <1>9. Sofar(a2, 2 + 1)
    BY <1>1, <1>6, <1>8
  <1>10. Sofar(a3, 3 + 1)
    BY <1>6, <1>7, <1>9
  <1>11. Sofar(a4, 4 + 1)
    BY <1>2, <1>6, <1>10
  <1>12. Sofar(a5, 5 + 1)
    BY <1>6, <1>7, <1>11
  <1>13. Sofar(a6, 6 + 1)
    BY <1>3, <1>6, <1>12
  <1>14. Sofar(done, 7 + 1)
    BY <1>4, <1>6, <1>13
  <1>15. 7 + 1 = 8
    OBVIOUS
  <1>16. Sofar(done, 8)
    BY <1>14, <1>15
  <1> QED
    BY <1>16 DEF Sofar

\* The read of a slot is the part of its file that was asked for
ReadRight(bytes, iso, from, size) ==
    LET all == V!Whole(iso)
        want == SubSeq(all, from + 1, V!Min({from + size, Len(all)}))
    IN /\ Len(bytes) = Len(want)
       /\ \A k \in DOMAIN want : Fits(bytes[k], iso, want[k])

LEMMA SubSeqIs ==
  ASSUME NEW S, NEW s \in Seq(S), NEW m \in Nat, NEW n \in Nat, n <= Len(s)
  PROVE  /\ DOMAIN SubSeq(s, m + 1, n) = 1..Len(SubSeq(s, m + 1, n))
         /\ Len(SubSeq(s, m + 1, n)) = IF m < n THEN n - m ELSE 0
         /\ \A k \in 1..Len(SubSeq(s, m + 1, n)) : SubSeq(s, m + 1, n)[k] = s[m + k]
  <1>1. m < n => SubSeq(s, m + 1, n) \in Seq(S)
    OBVIOUS
  <1>2. Len(SubSeq(s, m + 1, n)) = IF m < n THEN n - m ELSE 0
    OBVIOUS
  <1> QED
    BY <1>1, <1>2

LEMMA AssembleRight ==
  ASSUME NEW slot, Laid(slot), NEW size \in Nat,
         vsfo \in Images \cup {NoIso}, NEW done, done = V!Assemble(slot, size, TRUE)
  PROVE  ReadRight(done.bytes, slot.iso, slot.pos, size)
  <1> DEFINE iso == slot.iso
             all == V!Whole(iso)
             from == slot.pos
             end == V!Bounds(slot)[8]
             upto == V!Min({from + size, end})
             want == SubSeq(all, from + 1, upto)
             bytes == done.bytes
  <1>1. Tallied(done, slot, size) /\ Spent(done, end) /\ Right(done, slot)
    BY AssembleIs
  <1>2. all \in Seq(Units) /\ Len(all) = end
    BY WholeIs DEF UpTo
  <1>3. end \in Nat /\ from \in Nat
    <2>1. 8 \in 1..8
      OBVIOUS
    <2> QED
      BY <2>1, PartsFollow DEF Laid
  <1>4. /\ upto \in Nat /\ upto <= from + size /\ upto <= end
        /\ upto = from + size \/ upto = end
    <2>1. from + size \in Nat
      BY <1>3
    <2> QED
      BY <1>3, <2>1, LeastOfTwo
  <1>5. /\ DOMAIN want = 1..Len(want) /\ Len(want) = IF from < upto THEN upto - from ELSE 0
        /\ \A k \in 1..Len(want) : want[k] = all[from + k]
    <2>1. want = SubSeq(all, from + 1, upto)
      OBVIOUS
    <2> HIDE DEF all, from, upto, want, end
    <2> QED
      BY <1>2, <1>3, <1>4, <2>1, SubSeqIs
  <1>6. /\ done.left \in Nat /\ Len(bytes) + done.left = size /\ Len(bytes) \in Nat
        /\ done.pos = from + Len(bytes) /\ (Len(bytes) # 0 => done.pos <= end)
        /\ done.left = 0 \/ done.pos >= end
    <2>1. bytes \in Seq(Units)
      BY <1>1 DEF Tallied
    <2>2. Len(bytes) \in Nat
      <3> HIDE DEF bytes
      <3> QED
        BY <2>1
    <2> QED
      BY <1>1, <2>2 DEF Tallied, Spent
  <1> DEFINE n == Len(bytes)
             m == Len(want)
             left == done.left
             pos == done.pos
  <1>9. m = IF from < upto THEN upto - from ELSE 0
    BY <1>5
  <1> HIDE DEF upto, want, end
  <1>7. n = m
    <2>1. /\ left \in Nat /\ n + left = size /\ n \in Nat
          /\ pos = from + n /\ (n # 0 => pos <= end)
          /\ left = 0 \/ pos >= end
      BY <1>6
    <2> HIDE DEF bytes, from, n, m, left, pos
    <2>2. CASE n = 0
      BY <1>3, <1>4, <1>9, <2>1, <2>2
    <2>3. CASE n # 0
      BY <1>3, <1>4, <1>9, <2>1, <2>3
    <2> QED
      BY <2>2, <2>3
  <1>8. \A k \in DOMAIN want : Fits(bytes[k], iso, want[k])
    BY <1>1, <1>5, <1>7 DEF Right
  <1> QED
    BY <1>2, <1>7, <1>8 DEF ReadRight, want, upto

-----------------------------------------------------------------------------
(***************************************************************************)
(* The state of the manager: the table, what each handle believes, and     *)
(* which handles know that they are shared.                                *)
(***************************************************************************)

\* The names a listing has given when the directory state of its slot is at
Upto(at) ==
    IF at = 0 THEN <<>> ELSE IF at = 1 THEN <<"IMAGE.ISO">> ELSE <<"IMAGE.ISO", "EBOOT.PBP">>

Table(t) ==
    /\ t \in Seq(V!Slot) /\ Len(t) <= Slots
    /\ \A i \in 1..Len(t) : Laid(t[i])

\* What the menu believes of a handle that nobody else has moved is so; and of
\* two handles of one slot, open for the same, each knows that it is shared
Listed == Seq({"IMAGE.ISO", "EBOOT.PBP"})
Handle(id) == [id : {id}, slot : Nat \ {0}, kind : {"file", "dir"}, iso : Images, pos : Nat,
               names : Listed, lost : BOOLEAN, shared : BOOLEAN]
Shaped(h) == h \in Handle(h.id)
Follows(h, t, st) ==
    ~h.lost =>
        /\ h.slot <= Len(t) /\ t[h.slot].iso = h.iso
        /\ h.kind = "file" /\ ~h.shared => h.pos = t[h.slot].pos
        /\ h.kind = "dir" /\ ~h.shared => h.names = Upto(st[h.slot].dread)
Believed(hs, t, st) == \A h \in hs : Shaped(h) /\ Follows(h, t, st)
Sharing(hs) ==
    \A h, o \in hs : h # o /\ h.slot = o.slot /\ h.kind = o.kind => h.shared /\ o.shared

VirtualInv ==
    /\ Table(vslots)
    /\ vstates \in [V!Indices -> V!InternalState]
    /\ vsfo \in Images \cup {NoIso}
    /\ Believed(vhandles, vslots, vstates)
    /\ Sharing(vhandles)
    /\ V!BytesRight /\ V!ListsBoth

LEMMA NothingRight ==
  ASSUME vanswer' = V!Nothing PROVE V!BytesRight' /\ V!ListsBoth'
  BY DEF V!Nothing, V!BytesRight, V!ListsBoth

\* A position is set in the table
Reposed(t, i, pos, u) ==
    /\ Table(u) /\ Len(u) = Len(t) /\ u[i].pos = pos
    /\ \A j \in 1..Len(t) : u[j].iso = t[j].iso /\ (j # i => u[j] = t[j])

LEMMA TableMoved ==
  ASSUME NEW t, Table(t), NEW i \in 1..Len(t), NEW pos \in Nat
  PROVE  Reposed(t, i, pos, [t EXCEPT ![i].pos = pos])
  <1>1. t \in Seq(V!Slot) /\ Len(t) <= Slots /\ \A j \in 1..Len(t) : Laid(t[j])
    BY DEF Table
  <1>2. t[i] \in V!Slot
    BY <1>1, Element
  <1> DEFINE v == [t[i] EXCEPT !.pos = pos]
             u == [t EXCEPT ![i].pos = pos]
  <1>3. v \in V!Slot /\ v.iso = t[i].iso /\ v.header = t[i].header /\ v.pos = pos
    BY <1>2 DEF V!Slot
  <1>4. Laid(v)
    BY <1>1, <1>3 DEF Laid
  <1>5. u = [t EXCEPT ![i] = v]
    OBVIOUS
  <1> HIDE DEF v, u
  <1>6. /\ u \in Seq(V!Slot) /\ Len(u) = Len(t) /\ u[i] = v
        /\ \A j \in 1..Len(t) : j # i => u[j] = t[j]
    BY <1>1, <1>3, <1>5
  <1>7. \A j \in 1..Len(u) : Laid(u[j])
    BY <1>1, <1>4, <1>6
  <1>8. Table(u)
    BY <1>1, <1>6, <1>7 DEF Table
  <1>9. Reposed(t, i, pos, u)
    BY <1>3, <1>6, <1>8 DEF Reposed
  <1> QED
    BY <1>9 DEF u

\* A handle is given another position, other names, or is told that it is shared
\* or lost
LEMMA HandleMoved ==
  ASSUME NEW h, Shaped(h), NEW pos \in Nat, NEW g, g = [h EXCEPT !.pos = pos]
  PROVE  /\ Shaped(g) /\ g.slot = h.slot /\ g.kind = h.kind /\ g.iso = h.iso
         /\ g.lost = h.lost /\ g.shared = h.shared /\ g.pos = pos /\ g.names = h.names
  BY DEF Shaped, Handle

LEMMA HandleNamed ==
  ASSUME NEW h, Shaped(h), NEW names \in Listed, NEW g, g = [h EXCEPT !.names = names]
  PROVE  /\ Shaped(g) /\ g.slot = h.slot /\ g.kind = h.kind /\ g.iso = h.iso
         /\ g.lost = h.lost /\ g.shared = h.shared /\ g.pos = h.pos /\ g.names = names
  BY DEF Shaped, Handle

LEMMA HandleLost ==
  ASSUME NEW h, Shaped(h), NEW names \in Listed,
         NEW g, g = [h EXCEPT !.lost = TRUE, !.pos = 0, !.names = names]
  PROVE  /\ Shaped(g) /\ g.slot = h.slot /\ g.kind = h.kind /\ g.lost /\ g.shared = h.shared
  BY DEF Shaped, Handle

LEMMA HandleTold ==
  ASSUME NEW h, Shaped(h), NEW names \in Listed,
         NEW g, g = [h EXCEPT !.shared = TRUE, !.pos = 0, !.names = names]
  PROVE  /\ Shaped(g) /\ g.slot = h.slot /\ g.kind = h.kind /\ g.iso = h.iso
         /\ g.lost = h.lost /\ g.shared
  BY DEF Shaped, Handle

LEMMA HandleIs ==
  ASSUME NEW h, Shaped(h)
  PROVE  /\ h.slot \in Nat \ {0} /\ h.pos \in Nat /\ h.lost \in BOOLEAN /\ h.shared \in BOOLEAN
         /\ h.iso \in Images /\ h.names \in Listed
  BY DEF Shaped, Handle

\* One handle is replaced by another of the same slot and kind
LEMMA SharingReplaced ==
  ASSUME NEW hs, Sharing(hs), NEW h \in hs, NEW g,
         g.slot = h.slot, g.kind = h.kind, g.shared = h.shared
  PROVE  Sharing((hs \ {h}) \cup {g})
  BY DEF Sharing

\* The position of a slot moves, and with it that of the handle that moves it
LEMMA MoveRight ==
  ASSUME VirtualInv, NEW h \in vhandles, h.kind = "file", h.slot <= Len(vslots),
         NEW at \in Nat, NEW pos \in Nat, V!Alone(h) => pos = at,
         vslots' = [vslots EXCEPT ![h.slot].pos = at], V!Move(h, pos), vstates' = vstates
  PROVE  Table(vslots)' /\ Believed(vhandles, vslots, vstates)' /\ Sharing(vhandles)'
  <1>1. /\ Table(vslots) /\ Believed(vhandles, vslots, vstates) /\ Sharing(vhandles)
        /\ Shaped(h) /\ Follows(h, vslots, vstates)
    BY DEF VirtualInv, Believed
  <1>2. h.slot \in 1..Len(vslots) /\ h.lost \in BOOLEAN /\ h.shared \in BOOLEAN
    <2>1. Len(vslots) \in Nat /\ h.slot \in Nat \ {0}
      BY <1>1, HandleIs DEF Table
    <2> QED
      BY <1>1, <2>1, HandleIs
  <1>3. /\ Table(vslots') /\ Len(vslots') = Len(vslots) /\ vslots'[h.slot].pos = at
        /\ \A j \in 1..Len(vslots) : /\ vslots'[j].iso = vslots[j].iso
                                     /\ j # h.slot => vslots'[j] = vslots[j]
    <2>1. Reposed(vslots, h.slot, at, [vslots EXCEPT ![h.slot].pos = at])
      BY <1>1, <1>2, TableMoved
    <2>2. Reposed(vslots, h.slot, at, vslots')
      BY <2>1
    <2> QED
      BY <2>2 DEF Reposed
  <1> DEFINE w == IF V!Alone(h) THEN pos ELSE 0
             g == [h EXCEPT !.pos = w]
  <1>4. vhandles' = (vhandles \ {h}) \cup {g}
    BY DEF V!Move
  <1>5. /\ Shaped(g) /\ g.slot = h.slot /\ g.kind = h.kind /\ g.iso = h.iso
        /\ g.lost = h.lost /\ g.shared = h.shared /\ g.pos = w
    <2>1. w \in Nat
      OBVIOUS
    <2> HIDE DEF w
    <2> QED
      BY <1>1, <2>1, HandleMoved
  <1>6. V!Alone(h) => w = at
    OBVIOUS
  <1> HIDE DEF g, w
  <1>7. Follows(g, vslots', vstates')
    <2> SUFFICES ASSUME ~g.lost PROVE /\ g.slot <= Len(vslots') /\ vslots'[g.slot].iso = g.iso
                                      /\ ~g.shared => g.pos = vslots'[g.slot].pos
      BY <1>5 DEF Follows
    <2> QED
      BY <1>1, <1>2, <1>3, <1>5, <1>6 DEF Follows, V!Alone
  <1>8. ASSUME NEW o \in vhandles, o # h PROVE Shaped(o) /\ Follows(o, vslots', vstates')
    <2>1. Shaped(o) /\ Follows(o, vslots, vstates)
      BY <1>1 DEF Believed
    <2>2. o.slot = h.slot /\ o.kind = "file" => o.shared
      BY <1>1, <1>8 DEF Sharing
    <2> SUFFICES ASSUME ~o.lost
                 PROVE  /\ o.slot <= Len(vslots') /\ vslots'[o.slot].iso = o.iso
                        /\ o.kind = "file" /\ ~o.shared => o.pos = vslots'[o.slot].pos
                        /\ o.kind = "dir" /\ ~o.shared => o.names = Upto(vstates'[o.slot].dread)
      BY <2>1 DEF Follows
    <2>3. /\ o.slot <= Len(vslots) /\ vslots[o.slot].iso = o.iso
          /\ o.kind = "file" /\ ~o.shared => o.pos = vslots[o.slot].pos
          /\ o.kind = "dir" /\ ~o.shared => o.names = Upto(vstates[o.slot].dread)
      BY <2>1 DEF Follows
    <2>4. o.slot \in 1..Len(vslots)
      <3>1. Len(vslots) \in Nat /\ o.slot \in Nat \ {0}
        BY <1>1, <2>1, HandleIs DEF Table
      <3> QED
        BY <2>3, <3>1
    <2> QED
      BY <1>3, <2>2, <2>3, <2>4
  <1>9. Believed(vhandles', vslots', vstates')
    BY <1>4, <1>5, <1>7, <1>8 DEF Believed
  <1>10. Sharing(vhandles')
    BY <1>1, <1>4, <1>5, SharingReplaced
  <1> QED
    BY <1>3, <1>9, <1>10

-----------------------------------------------------------------------------
(* The operations of the manager keep it. *)

\* What a step keeps of the handles it does not touch
LEMMA FollowsKept ==
  ASSUME NEW t, NEW st, NEW u, NEW sv, NEW h, Shaped(h), Follows(h, t, st),
         Len(t) \in Nat, Len(u) \in Nat, Len(t) <= Len(u),
         \A i \in 1..Len(t) : u[i].iso = t[i].iso,
         h.kind = "file" /\ ~h.shared => \A i \in 1..Len(t) : i = h.slot => u[i].pos = t[i].pos,
         h.kind = "dir" /\ ~h.shared =>
            \A i \in 1..Len(t) : i = h.slot => sv[i].dread = st[i].dread
  PROVE  Follows(h, u, sv)
  <1> SUFFICES ASSUME ~h.lost
               PROVE  /\ h.slot <= Len(u) /\ u[h.slot].iso = h.iso
                      /\ h.kind = "file" /\ ~h.shared => h.pos = u[h.slot].pos
                      /\ h.kind = "dir" /\ ~h.shared => h.names = Upto(sv[h.slot].dread)
    BY DEF Follows
  <1>1. /\ h.slot <= Len(t) /\ t[h.slot].iso = h.iso
        /\ h.kind = "file" /\ ~h.shared => h.pos = t[h.slot].pos
        /\ h.kind = "dir" /\ ~h.shared => h.names = Upto(st[h.slot].dread)
    BY DEF Follows
  <1>2. h.slot \in 1..Len(t)
    BY <1>1, HandleIs
  <1> QED
    BY <1>1, <1>2

LEMMA VirtualAdd ==
  ASSUME VirtualInv, NEW iso \in Images, NEW date \in Dates, V!Add(iso, date)
  PROVE  VirtualInv'
  <1> DEFINE s == V!PbpOf(iso, date)
  <1>1. Table(vslots) /\ Believed(vhandles, vslots, vstates)
    BY DEF VirtualInv
  <1>2. /\ vslots' = Append(vslots, s) /\ Len(vslots) < Slots
        /\ UNCHANGED <<vstates, vsfo, vhandles>> /\ vanswer' = V!Nothing
    BY DEF V!Add, V!AddAccepts
  <1>3. s \in V!Slot /\ Laid(s)
    <2>1. \A k \in 1..5 : Files[iso][k] \in Nat
      BY FilesAre, Element
    <2>2. V!Offsets(Files[iso]) \in Seq(Nat)
      BY <2>1, OffsetsAre
    <2> DEFINE o == V!Offsets(Files[iso])
    <2>3. s = [iso |-> iso, mtime |-> date, header |-> o, pos |-> 0]
      BY DEF V!PbpOf
    <2>4. o \in Seq(Nat)
      BY <2>2
    <2> HIDE DEF o, s
    <2>5. s \in V!Slot
      BY <2>3, <2>4 DEF V!Slot
    <2>6. s.iso = iso /\ s.header = o /\ s.pos = 0
      BY <2>3
    <2> QED
      BY <2>5, <2>6 DEF Laid, o
  <1>4. vslots \in Seq(V!Slot) /\ Len(vslots) <= Slots /\ \A i \in 1..Len(vslots) : Laid(vslots[i])
    BY <1>1 DEF Table
  <1> HIDE DEF s
  <1>5. /\ vslots' \in Seq(V!Slot) /\ Len(vslots') = Len(vslots) + 1
        /\ \A i \in 1..Len(vslots) : vslots'[i] = vslots[i]
        /\ vslots'[Len(vslots) + 1] = s
    BY <1>2, <1>3, <1>4
  <1>6. Len(vslots) \in Nat /\ Len(vslots') \in Nat /\ Len(vslots) <= Len(vslots')
    BY <1>4, <1>5
  <1>7. Table(vslots')
    <2>1. Len(vslots') <= Slots
      BY <1>2, <1>5, <1>6, VirtualConstants
    <2>2. ASSUME NEW i \in 1..Len(vslots') PROVE Laid(vslots'[i])
      <3>1. i \in 1..Len(vslots) \/ i = Len(vslots) + 1
        BY <1>5, <1>6
      <3> QED
        BY <1>3, <1>4, <1>5, <3>1
    <2> QED
      BY <1>5, <2>1, <2>2 DEF Table
  <1>8. Believed(vhandles', vslots', vstates')
    <2>1. ASSUME NEW h \in vhandles PROVE Shaped(h) /\ Follows(h, vslots', vstates')
      <3>1. Shaped(h) /\ Follows(h, vslots, vstates)
        BY <1>1 DEF Believed
      <3>2. \A i \in 1..Len(vslots) : /\ vslots'[i].iso = vslots[i].iso
                                      /\ vslots'[i].pos = vslots[i].pos
        BY <1>5
      <3> QED
        BY <1>2, <1>6, <3>1, <3>2, FollowsKept
    <2> QED
      BY <1>2, <2>1 DEF Believed
  <1>9. V!BytesRight' /\ V!ListsBoth'
    BY <1>2, NothingRight
  <1> QED
    BY <1>2, <1>7, <1>8, <1>9 DEF VirtualInv

LEMMA VirtualReset ==
  ASSUME VirtualInv, V!Reset PROVE VirtualInv'
  <1> DEFINE Gone(h) == [h EXCEPT !.lost = TRUE, !.pos = 0, !.names = <<>>]
  <1>1. /\ vslots' = <<>> /\ vstates' = [i \in V!Indices |-> V!Fresh]
        /\ vhandles' = {Gone(h) : h \in vhandles}
        /\ vanswer' = V!Nothing /\ vsfo' = vsfo
    BY DEF V!Reset
  <1>2. ASSUME NEW h \in vhandles
        PROVE  /\ Shaped(Gone(h)) /\ Gone(h).lost
               /\ Gone(h).slot = h.slot /\ Gone(h).kind = h.kind /\ Gone(h).shared = h.shared
    <2>1. Shaped(h)
      BY DEF VirtualInv, Believed
    <2>2. <<>> \in Listed
      BY DEF Listed
    <2> DEFINE names == <<>>
               g == Gone(h)
    <2>3. g = [h EXCEPT !.lost = TRUE, !.pos = 0, !.names = names]
      OBVIOUS
    <2>4. names \in Listed
      BY <2>2
    <2> HIDE DEF names, g, Gone
    <2>5. /\ Shaped(g) /\ g.slot = h.slot /\ g.kind = h.kind /\ g.lost /\ g.shared = h.shared
      BY <2>1, <2>3, <2>4, HandleLost
    <2> QED
      BY <2>5 DEF g
  <1> HIDE DEF Gone
  <1>3. Table(vslots')
    <2>1. vslots' \in Seq(V!Slot) /\ Len(vslots') = 0
      BY <1>1
    <2> QED
      BY <2>1, VirtualConstants DEF Table
  <1>4. vstates' \in [V!Indices -> V!InternalState]
    BY <1>1 DEF V!Fresh, V!InternalState
  <1>5. Believed(vhandles', vslots', vstates')
    BY <1>1, <1>2 DEF Believed, Follows
  <1>6. Sharing(vhandles')
    <2>1. Sharing(vhandles)
      BY DEF VirtualInv
    <2> QED
      BY <1>1, <1>2, <2>1 DEF Sharing
  <1>7. V!BytesRight' /\ V!ListsBoth'
    BY <1>1, NothingRight
  <1>8. vsfo' \in Images \cup {NoIso}
    BY <1>1 DEF VirtualInv
  <1> QED
    BY <1>3, <1>4, <1>5, <1>6, <1>7, <1>8 DEF VirtualInv

LEMMA VirtualClose ==
  ASSUME VirtualInv, NEW h \in vhandles, V!Close(h) PROVE VirtualInv'
  <1>1. vhandles' = vhandles \ {h} /\ UNCHANGED <<vslots, vstates, vsfo>> /\ vanswer' = V!Nothing
    BY DEF V!Close
  <1>2. Believed(vhandles', vslots', vstates') /\ Sharing(vhandles')
    BY <1>1 DEF VirtualInv, Believed, Sharing
  <1>3. V!BytesRight' /\ V!ListsBoth'
    BY <1>1, NothingRight
  <1> QED
    BY <1>1, <1>2, <1>3 DEF VirtualInv

LEMMA VirtualLseek ==
  ASSUME VirtualInv, NEW h \in vhandles, NEW pos \in Seeks, V!Lseek(h, pos) PROVE VirtualInv'
  <1>1. /\ h.kind = "file" /\ h.slot <= Len(vslots)
        /\ vslots' = [vslots EXCEPT ![h.slot].pos = pos] /\ V!Move(h, pos)
        /\ UNCHANGED <<vstates, vsfo>> /\ vanswer' = V!Nothing
    BY DEF V!Lseek
  <1>2. pos \in Nat
    BY VirtualConstants
  <1>3. Table(vslots)' /\ Believed(vhandles, vslots, vstates)' /\ Sharing(vhandles)'
    BY <1>1, <1>2, MoveRight
  <1>4. V!BytesRight' /\ V!ListsBoth'
    BY <1>1, NothingRight
  <1> QED
    BY <1>1, <1>3, <1>4 DEF VirtualInv

LEMMA SlotOf ==
  ASSUME VirtualInv, NEW h \in vhandles, h.slot <= Len(vslots)
  PROVE  /\ h.slot \in 1..Len(vslots) /\ h.slot \in V!Indices
         /\ Laid(vslots[h.slot])
  <1>1. Table(vslots) /\ Shaped(h)
    BY DEF VirtualInv, Believed
  <1>2. /\ Len(vslots) \in Nat /\ h.slot \in Nat \ {0} /\ Len(vslots) <= Slots
        /\ \A i \in 1..Len(vslots) : Laid(vslots[i])
    BY <1>1, HandleIs DEF Table
  <1> QED
    BY <1>2, VirtualConstants DEF V!Indices

LEMMA VirtualLseekEnd ==
  ASSUME VirtualInv, NEW h \in vhandles, NEW back \in Seeks, V!LseekEnd(h, back) PROVE VirtualInv'
  <1> DEFINE end == V!Filesize(vslots[h.slot])
             pos == end - back
  <1>1. /\ h.kind = "file" /\ h.slot <= Len(vslots) /\ back <= end
        /\ vslots' = [vslots EXCEPT ![h.slot].pos = pos] /\ V!Move(h, pos)
        /\ UNCHANGED <<vstates, vsfo>> /\ vanswer' = V!Nothing
    BY DEF V!LseekEnd
  <1>2. pos \in Nat
    <2>1. V!Bounds(vslots[h.slot])[8] = end /\ V!Bounds(vslots[h.slot])[8] \in Nat
      <3>1. Laid(vslots[h.slot]) /\ 8 \in 1..8
        BY <1>1, SlotOf
      <3> QED
        BY <3>1, PartsFollow
    <2>2. back \in Nat
      BY VirtualConstants
    <2> HIDE DEF end
    <2> QED
      BY <1>1, <2>1, <2>2
  <1> HIDE DEF pos, end
  <1>3. Table(vslots)' /\ Believed(vhandles, vslots, vstates)' /\ Sharing(vhandles)'
    BY <1>1, <1>2, MoveRight
  <1>4. V!BytesRight' /\ V!ListsBoth'
    BY <1>1, NothingRight
  <1> QED
    BY <1>1, <1>3, <1>4 DEF VirtualInv

LEMMA VirtualRead ==
  ASSUME VirtualInv, NEW h \in vhandles, NEW size \in Lengths, NEW ok \in BOOLEAN,
         V!Read(h, size, ok)
  PROVE  VirtualInv'
  <1> DEFINE slot == vslots[h.slot]
             done == V!Assemble(slot, size, ok)
             n == Len(done.bytes)
             a == [kind |-> "read", iso |-> h.iso, from |-> h.pos, size |-> size,
                   bytes |-> done.bytes, ok |-> ok /\ V!Alone(h)]
  <1>1. /\ h.kind = "file" /\ h.slot <= Len(vslots)
        /\ vslots' = [vslots EXCEPT ![h.slot].pos = done.pos] /\ vsfo' = done.id
        /\ V!Move(h, h.pos + n) /\ vanswer' = a /\ vstates' = vstates
    BY DEF V!Read
  <1>2. Laid(slot) /\ size \in Nat /\ vsfo \in Images \cup {NoIso}
    BY <1>1, SlotOf, VirtualConstants DEF VirtualInv
  <1>3. Tallied(done, slot, size)
    BY <1>2, AssembleIs
  <1>4. done.bytes \in Seq(Units) /\ done.pos \in Nat /\ done.id \in Images \cup {NoIso}
    BY <1>3 DEF Tallied
  <1>5. n \in Nat /\ done.pos = slot.pos + n
    <2> DEFINE bytes == done.bytes
    <2>1. bytes \in Seq(Units)
      BY <1>4
    <2> HIDE DEF bytes
    <2>2. Len(bytes) \in Nat
      BY <2>1
    <2> QED
      BY <1>3, <2>2 DEF Tallied, bytes
  <1>6. V!Alone(h) => slot.pos = h.pos /\ slot.iso = h.iso
    BY <1>1 DEF VirtualInv, Believed, Follows, V!Alone
  <1>7. h.pos \in Nat
    BY HandleIs DEF VirtualInv, Believed
  <1>8. V!Alone(h) /\ ok => ReadRight(done.bytes, h.iso, h.pos, size)
    <2> HIDE DEF done
    <2>1. SUFFICES ASSUME V!Alone(h), ok PROVE ReadRight(done.bytes, h.iso, h.pos, size)
      OBVIOUS
    <2>2. done = V!Assemble(slot, size, TRUE)
      BY <2>1 DEF done
    <2>3. ReadRight(done.bytes, slot.iso, slot.pos, size)
      BY <1>2, <2>2, AssembleRight
    <2> QED
      BY <1>6, <2>1, <2>3
  <1> HIDE DEF done, slot, n
  <1>9. Table(vslots)' /\ Believed(vhandles, vslots, vstates)' /\ Sharing(vhandles)'
    <2> DEFINE pos == h.pos + n
               at == done.pos
    <2>1. pos \in Nat /\ at \in Nat
      BY <1>4, <1>5, <1>7
    <2>2. V!Alone(h) => pos = at
      BY <1>5, <1>6
    <2>3. vslots' = [vslots EXCEPT ![h.slot].pos = at] /\ V!Move(h, pos)
      BY <1>1
    <2> HIDE DEF pos, at
    <2> QED
      BY <1>1, <2>1, <2>2, <2>3, MoveRight
  <1>10. V!BytesRight'
    <2>1. /\ vanswer'.iso = h.iso /\ vanswer'.from = h.pos /\ vanswer'.size = size
          /\ vanswer'.bytes = done.bytes /\ vanswer'.ok = (ok /\ V!Alone(h))
      BY <1>1
    <2> HIDE DEF a
    <2>2. vanswer'.ok => ReadRight(vanswer'.bytes, vanswer'.iso, vanswer'.from, vanswer'.size)
      BY <1>8, <2>1
    <2> QED
      BY <2>2 DEF V!BytesRight, ReadRight, Fits
  <1>11. V!ListsBoth'
    BY <1>1 DEF V!ListsBoth
  <1> QED
    BY <1>1, <1>4, <1>9, <1>10, <1>11 DEF VirtualInv

LEMMA Second ==
  ASSUME NEW S, NEW x \in S, NEW y \in S PROVE Append(<<x>>, y) = <<x, y>>
  <1> DEFINE s == <<x>>
             a == Append(s, y)
             b == <<x, y>>
  <1>1. s \in Seq(S) /\ Len(s) = 1 /\ s[1] = x
    OBVIOUS
  <1> HIDE DEF s
  <1>2. a \in Seq(S) /\ Len(a) = 2 /\ a[1] = x /\ a[2] = y
    BY <1>1 DEF s
  <1>3. b \in Seq(S) /\ Len(b) = 2 /\ b[1] = x /\ b[2] = y
    OBVIOUS
  <1> HIDE DEF a, b
  <1>4. a = [k \in 1..2 |-> a[k]] /\ b = [k \in 1..2 |-> b[k]]
    BY <1>2, <1>3
  <1>5. a = b
    BY <1>2, <1>3, <1>4
  <1> QED
    BY <1>5 DEF a, b, s

\* A slot is opened: its position returns to 0, and who had it open is told
LEMMA VirtualOpen ==
  ASSUME VirtualInv, NEW i \in V!Indices, NEW kind \in {"file", "dir"}, V!Open(i, kind)
  PROVE  VirtualInv'
  <1> DEFINE shared == \E o \in V!Others(i) : o.kind = kind
             id == V!Min((0..Descriptors - 1) \ {o.id : o \in vhandles})
             new == [id |-> id, slot |-> i, kind |-> kind, iso |-> vslots[i].iso, pos |-> 0,
                     names |-> <<>>, lost |-> FALSE,
                     shared |-> shared \/ (kind = "dir" /\ vstates[i].dread # 0)]
             Told(o) == [o EXCEPT !.shared = TRUE, !.pos = 0, !.names = <<>>]
  <1>1. /\ i \in 1..Len(vslots) /\ vslots' = [vslots EXCEPT ![i].pos = 0]
        /\ vhandles' = (vhandles \ V!Others(i)) \cup {Told(o) : o \in V!Others(i)} \cup {new}
        /\ vanswer' = V!Nothing /\ UNCHANGED <<vstates, vsfo>>
    BY DEF V!Open
  <1>2. /\ Table(vslots) /\ Believed(vhandles, vslots, vstates) /\ Sharing(vhandles)
        /\ vstates \in [V!Indices -> V!InternalState] /\ vsfo \in Images \cup {NoIso}
    BY DEF VirtualInv
  <1>3. Reposed(vslots, i, 0, vslots')
    <2>1. 0 \in Nat
      OBVIOUS
    <2>2. Reposed(vslots, i, 0, [vslots EXCEPT ![i].pos = 0])
      BY <1>1, <1>2, <2>1, TableMoved
    <2> QED
      BY <1>1, <2>2
  <1>4. /\ Table(vslots') /\ Len(vslots') = Len(vslots) /\ vslots'[i].pos = 0
        /\ \A j \in 1..Len(vslots) : /\ vslots'[j].iso = vslots[j].iso
                                     /\ j # i => vslots'[j] = vslots[j]
    BY <1>3 DEF Reposed
  <1>5. Len(vslots) \in Nat
    BY <1>2 DEF Table
  <1>6. /\ Shaped(new) /\ new.slot = i /\ new.kind = kind
        /\ \A o \in V!Others(i) : o.kind = kind => new.shared
        /\ Follows(new, vslots', vstates')
    <2>1. /\ new.id = id /\ new.slot = i /\ new.kind = kind /\ new.iso = vslots[i].iso
          /\ new.pos = 0 /\ new.names = <<>> /\ new.lost = FALSE
          /\ new.shared = (shared \/ (kind = "dir" /\ vstates[i].dread # 0))
      OBVIOUS
    <2>3. new.shared \in BOOLEAN
      BY <2>1
    <2>4. i \in Nat \ {0}
      BY DEF V!Indices
    <2>5. \A o \in V!Others(i) : o.kind = kind => new.shared
      BY <2>1
    <2>6. ~new.shared /\ kind = "dir" => vstates[i].dread = 0
      BY <2>1
    <2>9. vslots[i].iso \in Images
      BY <1>1, <1>2 DEF Table, Laid
    <2>7. Shaped(new)
      <3> HIDE DEF id, shared
      <3>1. <<>> \in Listed
        BY DEF Listed
      <3> QED
        BY <2>4, <2>9, <3>1 DEF Shaped, Handle
    <2> HIDE DEF new, id, shared
    <2>8. Follows(new, vslots', vstates')
      <3>1. new.slot <= Len(vslots') /\ vslots'[new.slot].iso = new.iso
        <4>1. i \in 1..Len(vslots)
          BY <1>1
        <4>2. vslots'[i].iso = vslots[i].iso /\ Len(vslots') = Len(vslots)
          BY <1>4, <4>1
        <4>3. i <= Len(vslots)
          BY <1>5, <4>1
        <4> QED
          BY <2>1, <4>2, <4>3
      <3>2. new.kind = "file" => new.pos = vslots'[new.slot].pos
        BY <1>4, <2>1
      <3>3. new.kind = "dir" /\ ~new.shared => new.names = Upto(vstates'[new.slot].dread)
        BY <1>1, <2>1, <2>6 DEF Upto
      <3> QED
        BY <3>1, <3>2, <3>3 DEF Follows
    <2> QED
      BY <2>1, <2>5, <2>7, <2>8
  <1>7. ASSUME NEW o \in V!Others(i)
        PROVE  /\ Shaped(Told(o)) /\ Told(o).slot = i /\ Told(o).kind = o.kind /\ Told(o).shared
               /\ Told(o).lost = o.lost /\ Told(o).iso = o.iso
               /\ Follows(Told(o), vslots', vstates')
    <2>1. o \in vhandles /\ o.slot = i /\ Shaped(o) /\ Follows(o, vslots, vstates)
      BY <1>2 DEF V!Others, Believed
    <2> DEFINE names == <<>>
               g == Told(o)
    <2>2. names \in Listed
      BY DEF Listed
    <2>3. g = [o EXCEPT !.shared = TRUE, !.pos = 0, !.names = names]
      OBVIOUS
    <2> HIDE DEF names, g, Told
    <2>4. /\ Shaped(g) /\ g.slot = i /\ g.kind = o.kind /\ g.iso = o.iso
          /\ g.lost = o.lost /\ g.shared
      BY <2>1, <2>2, <2>3, HandleTold
    <2>5. Follows(g, vslots', vstates')
      <3>1. g.lost \/ (g.slot <= Len(vslots') /\ vslots'[g.slot].iso = g.iso)
        BY <1>1, <1>4, <1>5, <2>1, <2>4 DEF Follows
      <3> QED
        BY <2>4, <3>1 DEF Follows
    <2> QED
      BY <2>4, <2>5 DEF g
  <1>8. ASSUME NEW o \in vhandles, o \notin V!Others(i)
        PROVE  Shaped(o) /\ o.slot # i /\ Follows(o, vslots', vstates')
    <2>1. Shaped(o) /\ Follows(o, vslots, vstates) /\ o.slot # i
      BY <1>2, <1>8 DEF Believed, V!Others
    <2>2. /\ Len(vslots') \in Nat /\ Len(vslots) <= Len(vslots')
          /\ \A j \in 1..Len(vslots) : vslots'[j].iso = vslots[j].iso
          /\ \A j \in 1..Len(vslots) : j = o.slot => vslots'[j].pos = vslots[j].pos
          /\ \A j \in 1..Len(vslots) : j = o.slot => vstates'[j].dread = vstates[j].dread
      <3>1. vstates' = vstates /\ Len(vslots') = Len(vslots)
        BY <1>1, <1>4
      <3>2. \A j \in 1..Len(vslots) : vslots'[j].iso = vslots[j].iso
        BY <1>4
      <3>3. \A j \in 1..Len(vslots) : j = o.slot => vslots'[j].pos = vslots[j].pos
        BY <1>4, <2>1
      <3> QED
        BY <1>5, <3>1, <3>2, <3>3
    <2> QED
      BY <1>5, <2>1, <2>2, FollowsKept
  <1> HIDE DEF new, Told
  <1>9. Believed(vhandles', vslots', vstates')
    BY <1>1, <1>6, <1>7, <1>8 DEF Believed
  <1>10. Sharing(vhandles')
    <2> SUFFICES ASSUME NEW g \in vhandles', NEW h \in vhandles',
                        g # h, g.slot = h.slot, g.kind = h.kind
                 PROVE  g.shared
      BY DEF Sharing
    <2>1. CASE g \in vhandles \ V!Others(i)
      <3>1. g.slot # i
        BY <1>8, <2>1
      <3>2. h \in vhandles \ V!Others(i)
        BY <1>1, <1>6, <1>7, <3>1
      <3> QED
        BY <1>2, <2>1, <3>2 DEF Sharing
    <2>2. CASE g \in {Told(o) : o \in V!Others(i)}
      BY <1>7, <2>2
    <2>3. CASE g = new
      <3>1. h.slot = i /\ h.kind = kind /\ h # new
        BY <1>6, <2>3
      <3>2. h \in {Told(o) : o \in V!Others(i)}
        BY <1>1, <1>8, <3>1
      <3>3. PICK o \in V!Others(i) : h = Told(o)
        BY <3>2
      <3> QED
        BY <1>6, <1>7, <2>3, <3>1, <3>3
    <2> QED
      BY <1>1, <2>1, <2>2, <2>3
  <1>11. V!BytesRight' /\ V!ListsBoth'
    BY <1>1, NothingRight
  <1> QED
    BY <1>1, <1>2, <1>4, <1>9, <1>10, <1>11 DEF VirtualInv

LEMMA VirtualDread ==
  ASSUME VirtualInv, NEW h \in vhandles, V!Dread(h) PROVE VirtualInv'
  <1> DEFINE at == vstates[h.slot].dread
             name == IF at = 0 THEN "IMAGE.ISO" ELSE "EBOOT.PBP"
             names == IF V!Alone(h) THEN Append(h.names, name) ELSE <<>>
             g == [h EXCEPT !.names = names]
  <1>1. /\ h.kind = "dir" /\ h.slot <= Len(vslots) /\ UNCHANGED <<vslots, vsfo>>
        /\ at = 2 => /\ vstates' = [vstates EXCEPT ![h.slot].dread = 0]
                     /\ vanswer' = [kind |-> "dir", names |-> h.names, ok |-> V!Alone(h)]
                     /\ vhandles' = vhandles \ {h}
        /\ at # 2 => /\ vstates' = [vstates EXCEPT ![h.slot].dread = at + 1]
                     /\ vhandles' = (vhandles \ {h}) \cup {g}
                     /\ vanswer' = V!Nothing
    BY DEF V!Dread
  <1>2. /\ Table(vslots) /\ Believed(vhandles, vslots, vstates) /\ Sharing(vhandles)
        /\ vstates \in [V!Indices -> V!InternalState] /\ vsfo \in Images \cup {NoIso}
        /\ Shaped(h) /\ Follows(h, vslots, vstates)
    BY DEF VirtualInv, Believed
  <1>3. h.slot \in V!Indices /\ h.slot \in 1..Len(vslots) /\ Len(vslots) \in Nat
    BY <1>1, <1>2, SlotOf DEF Table
  <1>4. at \in 0..2 /\ vstates[h.slot] \in V!InternalState
    BY <1>2, <1>3 DEF V!InternalState
  <1>5. /\ vstates' \in [V!Indices -> V!InternalState]
        /\ vstates'[h.slot].dread = IF at = 2 THEN 0 ELSE at + 1
        /\ \A j \in V!Indices : j # h.slot => vstates'[j] = vstates[j]
    <2> DEFINE to == IF at = 2 THEN 0 ELSE at + 1
               v == [vstates[h.slot] EXCEPT !.dread = to]
    <2>1. to \in 0..2
      BY <1>4
    <2>2. vstates' = [vstates EXCEPT ![h.slot] = v]
      BY <1>1
    <2> HIDE DEF to
    <2>3. v \in V!InternalState /\ v.dread = to
      BY <1>4, <2>1 DEF V!InternalState
    <2> HIDE DEF v
    <2>4. /\ vstates' \in [V!Indices -> V!InternalState] /\ vstates'[h.slot] = v
          /\ \A j \in V!Indices : j # h.slot => vstates'[j] = vstates[j]
      BY <1>2, <1>3, <2>2, <2>3
    <2> QED
      BY <2>3, <2>4 DEF to
  <1>6. V!Alone(h) => h.names = Upto(at)
    BY <1>1, <1>2 DEF Follows, V!Alone
  <1>7. ASSUME NEW o \in vhandles, o # h PROVE Shaped(o) /\ Follows(o, vslots', vstates')
    <2>1. Shaped(o) /\ Follows(o, vslots, vstates)
      BY <1>2 DEF Believed
    <2>2. o.kind = "dir" /\ ~o.shared => o.slot # h.slot
      BY <1>1, <1>2, <1>7 DEF Sharing
    <2>3. \A j \in 1..Len(vslots) : j \in V!Indices
      BY <1>2, VirtualConstants DEF Table, V!Indices
    <2>4. /\ \A j \in 1..Len(vslots) : vslots'[j].iso = vslots[j].iso
          /\ o.kind = "file" /\ ~o.shared =>
                \A j \in 1..Len(vslots) : j = o.slot => vslots'[j].pos = vslots[j].pos
          /\ o.kind = "dir" /\ ~o.shared =>
                \A j \in 1..Len(vslots) : j = o.slot => vstates'[j].dread = vstates[j].dread
      BY <1>1, <1>5, <2>2, <2>3
    <2>5. Len(vslots') = Len(vslots)
      BY <1>1
    <2> QED
      BY <1>3, <2>1, <2>4, <2>5, FollowsKept
  <1>8. /\ Shaped(g) /\ g.slot = h.slot /\ g.kind = h.kind /\ g.iso = h.iso
        /\ g.lost = h.lost /\ g.shared = h.shared /\ g.names = names
    <2>1. h.names \in Listed /\ name \in {"IMAGE.ISO", "EBOOT.PBP"}
      BY <1>2, HandleIs
    <2>2. names \in Listed
      <3> HIDE DEF name
      <3> QED
        BY <2>1 DEF Listed
    <2> HIDE DEF names
    <2> QED
      BY <1>2, <2>2, HandleNamed
  <1>9. at # 2 /\ V!Alone(h) => names = Upto(at + 1)
    <2>1. SUFFICES ASSUME at # 2, V!Alone(h) PROVE Append(Upto(at), name) = Upto(at + 1)
      BY <1>6
    <2>2. CASE at = 0
      BY <2>2 DEF Upto
    <2>3. CASE at = 1
      <3> HIDE DEF at
      <3>1. Upto(at) = <<"IMAGE.ISO">> /\ Upto(at + 1) = <<"IMAGE.ISO", "EBOOT.PBP">>
        BY <2>3 DEF Upto
      <3>2. name = "EBOOT.PBP"
        BY <2>3
      <3>3. Append(<<"IMAGE.ISO">>, "EBOOT.PBP") = <<"IMAGE.ISO", "EBOOT.PBP">>
        <4>1. /\ "IMAGE.ISO" \in {"IMAGE.ISO", "EBOOT.PBP"}
              /\ "EBOOT.PBP" \in {"IMAGE.ISO", "EBOOT.PBP"}
          OBVIOUS
        <4> QED
          BY <4>1, Second
      <3> QED
        BY <3>1, <3>2, <3>3
    <2> QED
      BY <1>4, <2>1, <2>2, <2>3
  <1>10. at # 2 => Follows(g, vslots', vstates')
    <2> HIDE DEF g, names, at
    <2>1. SUFFICES ASSUME at # 2, ~g.lost
                   PROVE  /\ g.slot <= Len(vslots') /\ vslots'[g.slot].iso = g.iso
                          /\ ~g.shared => g.names = Upto(vstates'[g.slot].dread)
      BY <1>1, <1>8 DEF Follows
    <2>2. g.slot <= Len(vslots') /\ vslots'[g.slot].iso = g.iso
      BY <1>1, <1>2, <1>8, <2>1 DEF Follows
    <2>3. ~g.shared => V!Alone(h)
      BY <1>8, <2>1 DEF V!Alone
    <2>4. vstates'[g.slot].dread = at + 1
      BY <1>5, <1>8, <2>1
    <2> QED
      BY <1>8, <1>9, <2>1, <2>2, <2>3, <2>4
  <1> HIDE DEF g, names, name
  <1>11. Believed(vhandles', vslots', vstates') /\ Sharing(vhandles')
    <2>1. CASE at = 2
      BY <1>1, <1>2, <1>7, <2>1 DEF Believed, Sharing
    <2>2. CASE at # 2
      <3>1. Believed(vhandles', vslots', vstates')
        BY <1>1, <1>7, <1>8, <1>10, <2>2 DEF Believed
      <3>2. Sharing(vhandles')
        BY <1>1, <1>2, <1>8, <2>2, SharingReplaced
      <3> QED
        BY <3>1, <3>2
    <2> QED
      BY <2>1, <2>2
  <1>12. V!BytesRight' /\ V!ListsBoth'
    <2>1. CASE at # 2
      BY <1>1, <2>1, NothingRight
    <2>2. CASE at = 2
      <3>1. vanswer'.kind = "dir" /\ vanswer'.names = h.names /\ vanswer'.ok = V!Alone(h)
        BY <1>1, <2>2
      <3>2. V!Alone(h) => h.names = <<"IMAGE.ISO", "EBOOT.PBP">>
        BY <1>6, <2>2 DEF Upto
      <3> QED
        BY <3>1, <3>2 DEF V!BytesRight, V!ListsBoth
    <2> QED
      BY <2>1, <2>2
  <1> QED
    BY <1>1, <1>2, <1>5, <1>11, <1>12 DEF VirtualInv

\* A slot or its directory is marked as deleted
LEMMA VirtualMarked ==
  ASSUME VirtualInv, NEW i \in 1..Len(vslots),
         \/ vstates' = [vstates EXCEPT ![i].deleted = TRUE]
         \/ vstates' = [vstates EXCEPT ![i].psdirdeleted = TRUE],
         UNCHANGED <<vslots, vsfo, vhandles>>, vanswer' = V!Nothing
  PROVE  VirtualInv'
  <1>1. /\ Table(vslots) /\ Believed(vhandles, vslots, vstates) /\ Sharing(vhandles)
        /\ vstates \in [V!Indices -> V!InternalState] /\ vsfo \in Images \cup {NoIso}
    BY DEF VirtualInv
  <1>2. Len(vslots) \in Nat /\ \A j \in 1..Len(vslots) : j \in V!Indices
    BY <1>1, VirtualConstants DEF Table, V!Indices
  <1>3. /\ vstates' \in [V!Indices -> V!InternalState]
        /\ \A j \in V!Indices : vstates'[j].dread = vstates[j].dread
    <2>1. vstates[i] \in V!InternalState
      BY <1>1, <1>2
    <2> DEFINE v == [vstates[i] EXCEPT !.deleted = TRUE]
               w == [vstates[i] EXCEPT !.psdirdeleted = TRUE]
    <2>2. /\ v \in V!InternalState /\ v.dread = vstates[i].dread
          /\ w \in V!InternalState /\ w.dread = vstates[i].dread
      BY <2>1 DEF V!InternalState
    <2>3. vstates' = [vstates EXCEPT ![i] = v] \/ vstates' = [vstates EXCEPT ![i] = w]
      OBVIOUS
    <2> HIDE DEF v, w
    <2>4. ASSUME NEW x, x \in V!InternalState, x.dread = vstates[i].dread,
                 vstates' = [vstates EXCEPT ![i] = x]
          PROVE  /\ vstates' \in [V!Indices -> V!InternalState]
                 /\ \A j \in V!Indices : vstates'[j].dread = vstates[j].dread
      BY <1>1, <1>2, <2>4
    <2> QED
      BY <2>2, <2>3, <2>4
  <1>4. ASSUME NEW h \in vhandles PROVE Shaped(h) /\ Follows(h, vslots', vstates')
    <2>1. Shaped(h) /\ Follows(h, vslots, vstates)
      BY <1>1 DEF Believed
    <2>2. \A j \in 1..Len(vslots) : vstates'[j].dread = vstates[j].dread
      BY <1>2, <1>3
    <2> QED
      BY <1>2, <2>1, <2>2, FollowsKept
  <1>5. Believed(vhandles', vslots', vstates')
    BY <1>4 DEF Believed
  <1>6. V!BytesRight' /\ V!ListsBoth'
    BY NothingRight
  <1> QED
    BY <1>1, <1>3, <1>5, <1>6 DEF VirtualInv

LEMMA VirtualStart ==
  ASSUME V!Init PROVE VirtualInv
  <1>1. /\ vslots = <<>> /\ vstates = [i \in V!Indices |-> V!Fresh]
        /\ vsfo = NoIso /\ vhandles = {} /\ vanswer = V!Nothing
    BY DEF V!Init
  <1>2. vslots \in Seq(V!Slot) /\ Len(vslots) = 0
    BY <1>1
  <1>3. Table(vslots)
    BY <1>2, VirtualConstants DEF Table
  <1>4. vstates \in [V!Indices -> V!InternalState]
    BY <1>1 DEF V!Fresh, V!InternalState
  <1>5. V!BytesRight /\ V!ListsBoth
    BY <1>1 DEF V!Nothing, V!BytesRight, V!ListsBoth
  <1>6. Believed(vhandles, vslots, vstates) /\ Sharing(vhandles)
    BY <1>1 DEF Believed, Sharing
  <1> QED
    BY <1>1, <1>3, <1>4, <1>5, <1>6 DEF VirtualInv

LEMMA VirtualNext ==
  ASSUME VirtualInv, V!Next PROVE VirtualInv'
  <1>1. ASSUME NEW i \in Deletable, V!RemoveFile(i) \/ V!Rmdir(i) PROVE VirtualInv'
    BY <1>1, VirtualMarked DEF V!RemoveFile, V!Rmdir
  <1>2. ASSUME NEW h \in vhandles, NEW pos \in Seeks, V!Lseek(h, pos) \/ V!LseekEnd(h, pos)
        PROVE  VirtualInv'
    BY <1>2, VirtualLseek, VirtualLseekEnd
  <1> QED
    BY <1>1, <1>2, VirtualAdd, VirtualReset, VirtualOpen, VirtualClose, VirtualRead, VirtualDread
       DEF V!Next

\* The inductive invariant of the manager: the parts read and list take its
\* steps, the others none
THEOREM SpecVirtualInv == AllSpec => []VirtualInv
  <1>1. AllInit => VirtualInv
    BY VirtualStart DEF AllInit
  <1>2. VirtualInv /\ [AllNext]_<<part, vars, virtualVars>> => VirtualInv'
    <2> SUFFICES ASSUME VirtualInv, [AllNext]_<<part, vars, virtualVars>> PROVE VirtualInv'
      OBVIOUS
    <2>1. CASE V!Next
      BY <2>1, VirtualNext
    <2>2. CASE UNCHANGED virtualVars
      BY <2>2 DEF virtualVars, VirtualInv, V!BytesRight, V!ListsBoth
    <2> QED
      BY <2>1, <2>2 DEF AllNext
  <1> QED
    BY <1>1, <1>2, PTL DEF AllSpec

\* Whoever alone has an assembled file open reads the bytes of its image
\* wherever the read begins and ends, and a virtual directory lists its two
\* names each time (virtualpbp_read, virtualpbp_dread)
THEOREM SpecVirtualFilesRight == AllSpec => []VirtualFilesRight
  <1>1. VirtualInv => VirtualFilesRight
    BY DEF VirtualInv, VirtualFilesRight
  <1> QED
    BY <1>1, SpecVirtualInv, PTL
=============================================================================
