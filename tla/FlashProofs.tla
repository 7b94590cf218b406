------------------------------ MODULE FlashProofs ------------------------------
(***************************************************************************)
(* What is proved of the writers of the flash.                             *)
(*                                                                         *)
(* The boot blocks (IplUpdate), for any loaders, any area, any blocks that *)
(* cannot be written and a power cut at any step: the boot processor finds *)
(* a whole loader or no table, and a loader that was set is the one it     *)
(* finds.                                                                  *)
(*                                                                         *)
(* A dump of the flash and its return (NandCopy, the instance N), for any  *)
(* number of blocks, chunks of any size and any bad blocks: a dump is the  *)
(* flash and a restore puts it back, until a failed call goes unseen.      *)
(*                                                                         *)
(* A firmware (Install, the instance W), for any models, lists of files    *)
(* and drivers, any call that fails and a power cut at any step: what is   *)
(* shown as installed is whole, and a loader that was set has the files of *)
(* its firmware, and those of M33 once they are copied.                    *)
(*                                                                         *)
(* dcman (Dcman, the instance D), for any callers: each is answered for    *)
(* its own formatting, and a block is read as it is.                       *)
(*                                                                         *)
(* The identification storage (IdsTools, the instance S), for any boards,  *)
(* regions and any number of keys in a step: a storage that is shown holds *)
(* what belongs into it, and the pages say what is so.                     *)
(***************************************************************************)
EXTENDS MCFlash, WellFoundedInduction, TLAPS

\* No table of an earlier loader survived, and the area had room
Sound == ~wrapped /\ ~stale

\* The first n entries of a table are blocks behind the mirrors that hold the
\* first n blocks of loader l
Begun(t, l, n) ==
    \A k \in 1..n : t[k] \in FirstData..(Area - 1) /\ nand[t[k]] = <<"data", l, k>>
Points(t, l) == t \in Seq(Nat) /\ Len(t) = Blocks[l] /\ Begun(t, l, Blocks[l])

TypeInv ==
    /\ nand = [b \in 0..(Area - 1) |-> nand[b]]
    /\ pc \in {"idle", "clear", "data", "mirrors"} /\ ipl \in Ipls /\ block \in Nat
    /\ table \in Seq(Nat) /\ written \in BOOLEAN /\ stale \in BOOLEAN /\ wrapped \in BOOLEAN
    /\ pc # "idle" => res = "none"

\* Every table that a mirror holds is that of a whole loader
TablesInv == \A b \in Tables : \E l \in Ipls : Points(nand[b][2], l)
\* The blocks are cleared from the first: the tables go before the data
ClearInv == pc = "clear" => block <= Area /\ \A b \in Tables : b >= block
\* While the data is written there is no table, and what was entered stays
DataInv ==
    pc = "data" =>
        /\ Tables = {} /\ FirstData <= block /\ block < Wrap /\ Len(table) <= Blocks[ipl]
        /\ Begun(table, ipl, Len(table)) /\ \A k \in DOMAIN table : table[k] < block
\* The mirrors are written when the data is there, and all with this table
MirrorsInv ==
    pc = "mirrors" =>
        /\ Points(table, ipl) /\ \A b \in Tables : nand[b][2] = table
        /\ written => \E b \in Tables : b < block
SetInv ==
    pc = "idle" /\ res = "set" =>
        Points(table, ipl) /\ Tables # {} /\ \A b \in Tables : nand[b][2] = table

IInv ==
    TypeInv /\ (Sound => TablesInv /\ ClearInv /\ DataInv /\ MirrorsInv /\ SetInv)

-----------------------------------------------------------------------------
(* What the boot processor finds at the end of a table.                    *)

\* A set of naturals has a least element, and Min finds it
LEMMA LeastOf ==
  ASSUME NEW E \in SUBSET Nat, E # {}
  PROVE  Min(E) \in E
  <1>1. IsWellFoundedOn(OpToRel(<, Nat), Nat)
    BY NatLessThanWellFounded
  <1>2. PICK x \in E : \A y \in E : <<y, x>> \notin OpToRel(<, Nat)
    BY <1>1, WFMin, E \subseteq Nat
  <1>3. \A y \in E : ~(y < x)
    BY <1>2 DEF OpToRel
  <1>4. \E h \in E : \A g \in E : h <= g
    BY <1>3
  <1> QED
    BY <1>4 DEF Min

\* The mirrors are blocks before those of the data
LEMMA MirrorTypes ==
  ASSUME IplUpdateAssumption
  PROVE  /\ \A b \in Mirrors : b \in Nat /\ b > 0 /\ b < FirstData /\ b \in 0..(Area - 1)
         /\ FirstData > 0 /\ FirstData \in Nat /\ Area \in Nat /\ Wrap \in Nat
         /\ FirstData <= Area /\ Area <= Wrap
  <1>1. FirstData \in Nat /\ Area \in Nat /\ FirstData <= Area /\ Wrap \in Nat /\ Area <= Wrap
    BY DEF IplUpdateAssumption
  <1>2. \A b \in Mirrors : b \in 1..(FirstData - 1)
    BY DEF IplUpdateAssumption
  <1>3. PICK b : b \in Mirrors
    BY DEF IplUpdateAssumption
  <1>4. b \in 1..(FirstData - 1)
    BY <1>2, <1>3
  <1> QED
    BY <1>1, <1>2, <1>4

LEMMA TablesNat ==
  ASSUME IplUpdateAssumption
  PROVE  Tables \in SUBSET Nat
  BY MirrorTypes DEF Tables

\* A table of a whole loader has no zero, and its blocks are the loader
LEMMA PointsReads ==
  ASSUME IplUpdateAssumption, NEW t, NEW l \in Ipls, Points(t, l)
  PROVE  Named(t) = t /\ [k \in DOMAIN t |-> nand[t[k]]] = Whole(l)
  <1>1. DOMAIN t = 1..Blocks[l] /\ FirstData \in Nat /\ FirstData > 0
    BY MirrorTypes DEF Points
  <1>2. \A k \in DOMAIN t : t[k] >= FirstData /\ nand[t[k]] = <<"data", l, k>>
    BY <1>1 DEF Points, Begun, IplUpdateAssumption
  <1>3. {k \in DOMAIN t : t[k] = 0} = {}
    BY <1>1, <1>2
  <1>4. Named(t) = t
    BY <1>3 DEF Named
  <1>5. [k \in DOMAIN t |-> nand[t[k]]] = Whole(l)
    BY <1>1, <1>2 DEF Whole
  <1> QED
    BY <1>4, <1>5

LEMMA Reads ==
  ASSUME IplUpdateAssumption, IInv
  PROVE  NeverTorn /\ SetReadsBack
  <1>1. Tables = {} => GetIpl = <<>>
    BY DEF GetIpl
  <1>2. ASSUME Tables # {} PROVE Min(Tables) \in Tables
    BY <1>2, TablesNat, LeastOf
  <1>3. ASSUME Tables # {}, NEW l \in Ipls, Points(nand[Min(Tables)][2], l)
        PROVE  GetIpl = Whole(l)
    BY <1>3, PointsReads DEF GetIpl
  <1>4. NeverTorn
    <2> SUFFICES ASSUME Sound, Tables # {} PROVE \E l \in Ipls : GetIpl = Whole(l)
      BY <1>1 DEF NeverTorn, Sound
    <2>1. PICK l \in Ipls : Points(nand[Min(Tables)][2], l)
      BY <1>2 DEF IInv, TablesInv
    <2> QED
      BY <1>3, <2>1
  <1>5. SetReadsBack
    <2> SUFFICES ASSUME pc = "idle", res = "set", Sound PROVE GetIpl = Whole(ipl)
      BY DEF SetReadsBack, Sound
    <2>1. Tables # {} /\ Points(nand[Min(Tables)][2], ipl) /\ ipl \in Ipls
      BY <1>2 DEF IInv, SetInv, TypeInv
    <2> QED
      BY <1>3, <2>1
  <1> QED
    BY <1>4, <1>5

-----------------------------------------------------------------------------
(* One block changes at a time.                                            *)

\* A block that does not change, and is no block of a loader, spoils no loader
LEMMA PointsKept ==
  ASSUME IplUpdateAssumption, NEW t, NEW l,
         \A b \in FirstData..(Area - 1) : nand'[b] = nand[b]
  PROVE  /\ \A n \in Nat : Begun(t, l, n) => Begun(t, l, n)'
         /\ Points(t, l) => Points(t, l)'
  BY DEF Points, Begun

\* The power goes, or a call ends, and no block changes
LEMMA StillStep ==
  ASSUME nand' = nand
  PROVE  Tables' = Tables /\ (TablesInv => TablesInv')
  BY DEF Tables, TablesInv, Points, Begun

LEMMA InitIInv ==
  ASSUME IplUpdateAssumption, Init
  PROVE  IInv
  <1>1. TypeInv
    <2>1. \A l \in Ipls : Loaded(l) = [b \in 0..(Area - 1) |-> Loaded(l)[b]]
      BY DEF Loaded
    <2>2. Cleared = [b \in 0..(Area - 1) |-> Cleared[b]]
      BY DEF Cleared
    <2>3. nand = [b \in 0..(Area - 1) |-> nand[b]]
      BY <2>1, <2>2 DEF Init
    <2>4. /\ pc = "idle" /\ ipl \in Ipls /\ block = 0 /\ table = <<>> /\ written = FALSE
          /\ stale = FALSE /\ wrapped = FALSE
      BY DEF Init
    <2>5. <<>> \in Seq(Nat)
      OBVIOUS
    <2> QED
      BY <2>3, <2>4, <2>5 DEF TypeInv
  <1>2. TablesInv
    <2>1. CASE nand = Cleared
      <3>1. Tables = {}
        <4>1. \A b \in 0..(Area - 1) : nand[b] \in {<<"torn">>, <<"blank">>}
          BY <2>1 DEF Cleared
        <4>2. \A x \in {<<"torn">>, <<"blank">>} : x[1] # "table"
          OBVIOUS
        <4> QED
          BY <4>1, <4>2, MirrorTypes DEF Tables
      <3> QED
        BY <3>1 DEF TablesInv
    <2>2. ASSUME NEW l \in Ipls, nand = Loaded(l), NEW b \in Tables
          PROVE  Points(nand[b][2], l)
      <3> DEFINE t == [k \in 1..Blocks[l] |-> FirstData + k - 1]
      <3>1. b \in Mirrors /\ b \in 0..(Area - 1) /\ Blocks[l] \in Nat /\ FirstData \in Nat /\ Area \in Nat
            /\ FirstData + Blocks[l] <= Area /\ Mirrors \subseteq 1..(FirstData - 1)
        BY <2>2 DEF Tables, IplUpdateAssumption
      <3>2. nand[b] = <<"table", t>>
        BY <2>2, <3>1 DEF Loaded
      <3>3. t \in Seq(Nat) /\ Len(t) = Blocks[l]
        BY <3>1
      <3>4. ASSUME NEW k \in 1..Blocks[l]
            PROVE  t[k] \in FirstData..(Area - 1) /\ nand[t[k]] = <<"data", l, k>>
        <4>1. t[k] = FirstData + k - 1 /\ t[k] \in FirstData..(Area - 1) /\ t[k] - FirstData + 1 = k
          BY <3>1
        <4>2. t[k] \notin Mirrors /\ t[k] \in 0..(Area - 1)
          BY <3>1, <4>1
        <4> HIDE DEF t
        <4> QED
          BY <2>2, <4>1, <4>2 DEF Loaded
      <3> HIDE DEF t
      <3>5. nand[b][2] = t
        BY <3>2
      <3> QED
        BY <3>3, <3>4, <3>5 DEF Points, Begun
    <2> QED
      BY <2>1, <2>2 DEF Init, TablesInv
  <1>3. ClearInv /\ DataInv /\ MirrorsInv /\ SetInv
    BY DEF Init, ClearInv, DataInv, MirrorsInv, SetInv
  <1> QED
    BY <1>1, <1>2, <1>3 DEF IInv

LEMMA EraseStep ==
  ASSUME IplUpdateAssumption, IInv, EraseBlock
  PROVE  IInv'
  <1>1. /\ pc = "clear" /\ pc' = "clear" /\ block < Area /\ block' = block + 1 /\ block \in Nat
        /\ nand' = Erased(block) /\ stale' = (stale \/ (block \in bad /\ nand[block][1] = "table"))
        /\ UNCHANGED <<ipl, table, written, res, wrapped>>
    BY DEF EraseBlock, IInv, TypeInv
  <1>2. Area \in Nat /\ FirstData \in Nat /\ Mirrors \subseteq 1..(FirstData - 1)
    BY DEF IplUpdateAssumption
  <1>3. nand' = [b \in 0..(Area - 1) |-> nand'[b]]
    BY <1>1 DEF Erased, IInv, TypeInv
  <1>4. stale' \in BOOLEAN
    BY <1>1
  <1>5. TypeInv'
    BY <1>1, <1>3, <1>4 DEF IInv, TypeInv
  <1>6. ASSUME Sound' PROVE TablesInv' /\ ClearInv'
    <2>1. Sound /\ ~(block \in bad /\ nand[block][1] = "table")
      BY <1>1, <1>6 DEF Sound
    <2>2. TablesInv /\ \A b \in Tables : b >= block
      BY <1>1, <2>1 DEF IInv, ClearInv
    <2>3. ASSUME NEW b \in Tables'
          PROVE  b \in Tables /\ b # block /\ nand'[b] = nand[b]
      <3>1. b \in Mirrors /\ nand'[b][1] = "table" /\ b \in Nat
        BY <1>2, <2>3 DEF Tables
      <3>2. block \in 0..(Area - 1)
        BY <1>1, <1>2
      <3>3. CASE block \in bad
        BY <1>1, <2>1, <3>1, <3>3 DEF Erased, Tables
      <3>4. CASE block \notin bad
        <4>1. nand' = [nand EXCEPT ![block] = <<"blank">>]
          BY <1>1, <3>4 DEF Erased
        <4>2. nand'[block] = <<"blank">> /\ \A c \in 0..(Area - 1) : c # block => nand'[c] = nand[c]
          BY <3>2, <4>1 DEF IInv, TypeInv
        <4>3. b \in 0..(Area - 1)
          BY <1>2, <3>1 DEF IplUpdateAssumption
        <4>4. b # block
          BY <3>1, <4>2
        <4> QED
          BY <3>1, <4>2, <4>3, <4>4 DEF Tables
      <3> QED
        BY <3>3, <3>4
    <2>4. ClearInv'
      <3>1. \A b \in Tables : b \in Nat
        BY TablesNat
      <3>2. \A b \in Tables' : b >= block'
        BY <1>1, <2>2, <2>3, <3>1
      <3> QED
        BY <1>1, <1>2, <3>2 DEF ClearInv
    <2>5. TablesInv'
      <3> SUFFICES ASSUME NEW b \in Tables' PROVE (\E l \in Ipls : Points(nand[b][2], l))'
        BY DEF TablesInv
      <3>1. PICK l \in Ipls : Points(nand[b][2], l)
        BY <2>2, <2>3 DEF TablesInv
      <3>2. b < FirstData /\ b > block
        BY <1>1, <1>2, <2>2, <2>3, TablesNat DEF Tables
      <3>3. \A c \in FirstData..(Area - 1) : nand'[c] = nand[c]
        <4>1. \A c \in FirstData..(Area - 1) : c # block /\ c \in 0..(Area - 1)
          BY <1>1, <1>2, <3>2, TablesNat, <2>3
        <4> QED
          BY <1>1, <4>1 DEF Erased, IInv, TypeInv
      <3>4. PICK t : t = nand[b][2]
        OBVIOUS
      <3>5. Points(t, l)'
        BY <3>1, <3>3, <3>4, PointsKept
      <3>6. t = nand'[b][2]
        BY <2>3, <3>4
      <3> QED
        BY <3>5, <3>6
    <2> QED
      BY <2>4, <2>5
  <1>7. DataInv' /\ MirrorsInv' /\ SetInv'
    BY <1>1 DEF DataInv, MirrorsInv, SetInv
  <1> QED
    BY <1>5, <1>6, <1>7 DEF IInv, Sound

LEMMA ModSmall ==
  ASSUME NEW a \in Nat, NEW w \in Nat, a < w
  PROVE  a % w = a
  OBVIOUS

\* What a block written in the area, or not written, leaves alone
LEMMA WriteEffect ==
  ASSUME IplUpdateAssumption, TypeInv, block < Wrap, NEW x, x # <<"table">>,
         IF Writable(block) THEN nand' = [nand EXCEPT ![block % Wrap] = x]
                            ELSE nand' \in Spoilt(block)
  PROVE  /\ block % Wrap = block /\ nand' = [b \in 0..(Area - 1) |-> nand'[b]]
         /\ \A b \in 0..(Area - 1) : b # block => nand'[b] = nand[b]
         /\ Writable(block) => block < Area /\ nand'[block] = x
         /\ block < Area /\ ~Writable(block) => nand'[block] \in {nand[block], <<"torn">>}
  <1>1. block \in Nat /\ Wrap \in Nat /\ Area \in Nat /\ block % Wrap = block
    BY ModSmall, MirrorTypes DEF TypeInv
  <1>2. nand = [b \in 0..(Area - 1) |-> nand[b]]
    BY DEF TypeInv
  <1>3. CASE Writable(block)
    <2>1. nand' = [nand EXCEPT ![block] = x] /\ block \in 0..(Area - 1)
      BY <1>1, <1>3 DEF Writable
    <2>2. nand' = [b \in 0..(Area - 1) |-> IF b = block THEN x ELSE nand[b]]
      BY <1>2, <2>1
    <2>3. nand'[block] = x /\ \A b \in 0..(Area - 1) : b # block => nand'[b] = nand[b]
      BY <2>1, <2>2
    <2>4. nand' = [b \in 0..(Area - 1) |-> nand'[b]]
      BY <2>2
    <2>5. block < Area
      BY <1>1, <2>1
    <2> QED
      BY <1>1, <1>3, <2>3, <2>4, <2>5
  <1>4. CASE ~Writable(block)
    <2>1. nand' = nand \/ (block < Area /\ nand' = [nand EXCEPT ![block] = <<"torn">>])
      BY <1>1, <1>4 DEF Spoilt
    <2>2. nand' = nand
          \/ (block \in 0..(Area - 1) /\ nand' = [nand EXCEPT ![block] = <<"torn">>])
      BY <1>1, <2>1
    <2> QED
      BY <1>1, <1>2, <1>4, <2>2
  <1> QED
    BY <1>3, <1>4

LEMMA SetIplStep ==
  ASSUME IplUpdateAssumption, IInv, NEW l \in Ipls, SetIpl(l)
  PROVE  IInv'
  <1>1. /\ pc = "clear" /\ block = Area /\ pc' = "data" /\ ipl' = l /\ block' = FirstData
        /\ table' = <<>> /\ UNCHANGED <<nand, written, res, stale, wrapped>>
    BY DEF SetIpl
  <1>2. <<>> \in Seq(Nat) /\ Len(<<>>) = 0 /\ DOMAIN <<>> = {}
    OBVIOUS
  <1>3. FirstData < Wrap /\ Blocks[l] \in Nat
    BY MirrorTypes DEF IplUpdateAssumption
  <1>4. TypeInv'
    BY <1>1, <1>2, MirrorTypes DEF IInv, TypeInv
  <1>5. ASSUME Sound' PROVE TablesInv' /\ DataInv'
    <2>1. Tables = {}
      <3>1. \A b \in Tables : b >= Area
        BY <1>1, <1>5 DEF IInv, ClearInv, Sound
      <3> QED
        BY <3>1, MirrorTypes DEF Tables
    <2>2. Tables' = {}
      BY <1>1, <2>1, StillStep
    <2>3. Begun(table, ipl, Len(table))'
      BY <1>1, <1>2 DEF Begun
    <2>4. FirstData <= block' /\ block' < Wrap /\ Len(table') <= Blocks[ipl']
      BY <1>1, <1>2, <1>3, MirrorTypes
    <2>5. \A k \in DOMAIN table' : table'[k] < block'
      BY <1>1, <1>2
    <2> QED
      BY <2>2, <2>3, <2>4, <2>5 DEF TablesInv, DataInv
  <1>6. ClearInv' /\ MirrorsInv' /\ SetInv'
    BY <1>1 DEF ClearInv, MirrorsInv, SetInv
  <1> QED
    BY <1>4, <1>5, <1>6 DEF IInv

LEMMA DataStep ==
  ASSUME IplUpdateAssumption, IInv, WriteData
  PROVE  IInv'
  <1> DEFINE x == <<"data", ipl, Len(table) + 1>>
  <1>1. /\ pc = "data" /\ pc' = "data" /\ Len(table) < Blocks[ipl] /\ block' = block + 1
        /\ wrapped' = (wrapped \/ block' >= Wrap)
        /\ UNCHANGED <<ipl, written, res, stale>>
        /\ IF Writable(block)
           THEN nand' = [nand EXCEPT ![block % Wrap] = x] /\ table' = Append(table, block % Wrap)
           ELSE nand' \in Spoilt(block) /\ table' = table
    BY DEF WriteData
  <1>2. block \in Nat /\ Wrap \in Nat /\ Blocks[ipl] \in Nat /\ table \in Seq(Nat)
    BY MirrorTypes DEF IInv, TypeInv, IplUpdateAssumption
  <1>3. TypeInv'
    <2>1. nand' = [b \in 0..(Area - 1) |-> nand'[b]]
      BY <1>1 DEF IInv, TypeInv, Spoilt
    <2>2. Wrap # 0 /\ Wrap > 0
      BY MirrorTypes
    <2>3. block % Wrap \in Nat
      BY <1>2, <2>2
    <2>4. table' \in Seq(Nat)
      <3>1. table' \in {table, Append(table, block % Wrap)}
        BY <1>1
      <3> QED
        BY <1>2, <2>3, <3>1
    <2>5. wrapped' \in BOOLEAN
      BY <1>1
    <2> QED
      BY <1>1, <1>2, <2>1, <2>4, <2>5 DEF IInv, TypeInv
  <1>4. ASSUME Sound' PROVE TablesInv' /\ DataInv'
    <2>1. Sound /\ block' < Wrap /\ block < Wrap
      <3>1. ~wrapped /\ ~(block' >= Wrap) /\ ~stale
        BY <1>1, <1>4 DEF Sound
      <3>2. block + 1 < Wrap
        BY <1>1, <1>2, <3>1
      <3> QED
        BY <1>1, <1>2, <3>1, <3>2 DEF Sound
    <2>2. /\ Tables = {} /\ FirstData <= block
          /\ Begun(table, ipl, Len(table)) /\ \A k \in DOMAIN table : table[k] < block
      BY <1>1, <2>1 DEF IInv, DataInv
    <2>3. /\ block % Wrap = block
          /\ \A b \in 0..(Area - 1) : b # block => nand'[b] = nand[b]
          /\ Writable(block) => block < Area /\ nand'[block] = x
      <3>1. x # <<"table">>
        OBVIOUS
      <3> HIDE DEF x
      <3> QED
        BY <1>1, <2>1, <3>1, WriteEffect DEF IInv
    <2>4. Tables' = {}
      <3>1. \A b \in Mirrors : nand'[b] = nand[b]
        BY <2>2, <2>3, <1>2, MirrorTypes
      <3> QED
        BY <2>2, <3>1 DEF Tables
    <2>5. ASSUME NEW k \in 1..Len(table)
          PROVE  table[k] \in FirstData..(Area - 1) /\ table[k] < block /\ nand'[table[k]] = <<"data", ipl, k>>
      <3>1. table[k] \in FirstData..(Area - 1) /\ nand[table[k]] = <<"data", ipl, k>>
        BY <2>2 DEF Begun
      <3>2. table[k] < block
        BY <1>2, <2>2
      <3>3. table[k] \in 0..(Area - 1) /\ table[k] # block
        BY <1>2, <3>1, <3>2, MirrorTypes
      <3> QED
        BY <2>3, <3>1, <3>2, <3>3
    <2>6. CASE Writable(block)
      <3>1. /\ table' = Append(table, block) /\ Len(table') = Len(table) + 1 /\ Len(table) \in Nat
            /\ DOMAIN table' = 1..Len(table) + 1 /\ table'[Len(table) + 1] = block
            /\ \A k \in 1..Len(table) : table'[k] = table[k]
        <4>1. table' = Append(table, block)
          BY <1>1, <2>3, <2>6
        <4> QED
          BY <1>2, <4>1
      <3>2. block \in FirstData..(Area - 1) /\ nand'[block] = <<"data", ipl, Len(table) + 1>>
        BY <1>2, <2>2, <2>3, <2>6, MirrorTypes
      <3>3. ASSUME NEW k \in 1..Len(table')
            PROVE  /\ table'[k] \in FirstData..(Area - 1) /\ nand'[table'[k]] = <<"data", ipl', k>>
                   /\ table'[k] < block'
        <4>1. CASE k = Len(table) + 1
          BY <1>1, <1>2, <3>1, <3>2, <4>1
        <4>2. CASE k \in 1..Len(table)
          <5>1. table[k] < block'
            <6>1. table[k] \in FirstData..(Area - 1) /\ table[k] < block
              BY <2>5, <4>2
            <6>2. table[k] \in Nat
              BY <6>1, MirrorTypes
            <6>3. block' = block + 1
              BY <1>1
            <6> QED
              BY <1>2, <6>1, <6>2, <6>3
          <5> QED
            BY <1>1, <2>5, <3>1, <4>2, <5>1
        <4>3. k = Len(table) + 1 \/ k \in 1..Len(table)
          BY <3>1
        <4> QED
          BY <4>1, <4>2, <4>3
      <3>4. Begun(table, ipl, Len(table))' /\ \A k \in DOMAIN table' : table'[k] < block'
        BY <3>1, <3>3 DEF Begun
      <3>5. FirstData <= block' /\ Len(table') <= Blocks[ipl']
        BY <1>1, <1>2, <2>2, <3>1, MirrorTypes
      <3> QED
        BY <2>1, <2>4, <3>4, <3>5 DEF TablesInv, DataInv
    <2>7. CASE ~Writable(block)
      <3>1. table' = table
        BY <1>1, <2>7
      <3>2. Begun(table, ipl, Len(table))'
        BY <1>1, <2>5, <3>1 DEF Begun
      <3>3. \A k \in DOMAIN table' : table'[k] < block'
        BY <1>1, <1>2, <2>5, <3>1, MirrorTypes
      <3>4. FirstData <= block' /\ Len(table') <= Blocks[ipl']
        BY <1>1, <1>2, <2>2, <3>1, MirrorTypes
      <3> QED
        BY <2>1, <2>4, <3>2, <3>3, <3>4 DEF TablesInv, DataInv
    <2> QED
      BY <2>6, <2>7
  <1>5. ClearInv' /\ MirrorsInv' /\ SetInv'
    BY <1>1 DEF ClearInv, MirrorsInv, SetInv
  <1> QED
    BY <1>3, <1>4, <1>5 DEF IInv

LEMMA BeginStep ==
  ASSUME IplUpdateAssumption, IInv, BeginMirrors
  PROVE  IInv'
  <1>1. /\ pc = "data" /\ Len(table) = Blocks[ipl] /\ pc' = "mirrors" /\ block' = Min(Mirrors)
        /\ written' = FALSE /\ UNCHANGED <<nand, ipl, table, res, stale, wrapped>>
    BY DEF BeginMirrors
  <1>2. block' \in Nat
    <2>1. Mirrors \in SUBSET Nat /\ Mirrors # {}
      BY MirrorTypes DEF IplUpdateAssumption
    <2>2. Min(Mirrors) \in Mirrors
      BY <2>1, LeastOf
    <2> QED
      BY <1>1, <2>1, <2>2
  <1>3. TypeInv'
    BY <1>1, <1>2 DEF IInv, TypeInv
  <1>4. ASSUME Sound' PROVE TablesInv' /\ MirrorsInv'
    <2>1. Tables = {} /\ Begun(table, ipl, Blocks[ipl]) /\ table \in Seq(Nat)
      BY <1>1, <1>4 DEF IInv, DataInv, Sound, TypeInv
    <2>2. Tables' = {}
      BY <1>1, <2>1, StillStep
    <2>3. Points(table, ipl)'
      BY <1>1, <2>1 DEF Points, Begun
    <2> QED
      BY <1>1, <2>2, <2>3 DEF TablesInv, MirrorsInv
  <1>5. ClearInv' /\ DataInv' /\ SetInv'
    BY <1>1 DEF ClearInv, DataInv, SetInv
  <1> QED
    BY <1>3, <1>4, <1>5 DEF IInv

LEMMA MirrorStep ==
  ASSUME IplUpdateAssumption, IInv, WriteMirror
  PROVE  IInv'
  <1> DEFINE x == <<"table", table>>
  <1>1. /\ pc = "mirrors" /\ pc' = "mirrors" /\ block \in Mirrors /\ block' = block + 1
        /\ UNCHANGED <<ipl, table, res, stale, wrapped>>
        /\ IF Writable(block) THEN nand' = [nand EXCEPT ![block] = x] /\ written' = TRUE
           ELSE nand' \in Spoilt(block) /\ written' = written
    BY DEF WriteMirror
  <1>2. /\ block \in Nat /\ block < FirstData /\ block < Wrap /\ block \in 0..(Area - 1)
        /\ Wrap \in Nat /\ Area \in Nat /\ FirstData \in Nat
    BY <1>1, MirrorTypes
  <1>3. /\ block % Wrap = block /\ nand' = [b \in 0..(Area - 1) |-> nand'[b]]
        /\ \A b \in 0..(Area - 1) : b # block => nand'[b] = nand[b]
        /\ Writable(block) => nand'[block] = x
        /\ ~Writable(block) => nand'[block] \in {nand[block], <<"torn">>}
    <2>1. x # <<"table">> /\ block % Wrap = block
      BY <1>2, ModSmall
    <2> HIDE DEF x
    <2>2. IF Writable(block) THEN nand' = [nand EXCEPT ![block % Wrap] = x]
          ELSE nand' \in Spoilt(block)
      BY <1>1, <2>1
    <2>3. TypeInv /\ block < Area
      BY <1>2 DEF IInv
    <2> QED
      BY <1>2, <2>1, <2>2, <2>3, WriteEffect
  <1>4. TypeInv'
    <2>1. written' \in BOOLEAN
      BY <1>1 DEF IInv, TypeInv
    <2>2. block' \in Nat
      BY <1>1, <1>2
    <2> QED
      BY <1>1, <1>3, <2>1, <2>2 DEF IInv, TypeInv
  <1>5. ASSUME Sound' PROVE TablesInv' /\ MirrorsInv'
    <2>1. /\ Points(table, ipl) /\ \A b \in Tables : nand[b][2] = table
          /\ written => \E b \in Tables : b < block
      BY <1>1, <1>5 DEF IInv, MirrorsInv, Sound
    <2>2. Points(table, ipl)'
      <3>1. \A b \in FirstData..(Area - 1) : b # block /\ b \in 0..(Area - 1)
        BY <1>2
      <3>2. Points(table, ipl) => Points(table, ipl)'
        BY <1>1, <1>3, <3>1 DEF Points, Begun
      <3> QED
        BY <2>1, <3>2
    <2>3. \A b \in Tables' : nand'[b][2] = table
      <3> SUFFICES ASSUME NEW b \in Tables' PROVE nand'[b][2] = table
        OBVIOUS
      <3>1. b \in Mirrors /\ b \in 0..(Area - 1) /\ nand'[b][1] = "table"
        BY MirrorTypes DEF Tables
      <3>2. CASE b # block
        BY <1>3, <2>1, <3>1, <3>2 DEF Tables
      <3>3. CASE b = block /\ Writable(block)
        BY <1>3, <3>3
      <3>4. CASE b = block /\ ~Writable(block)
        <4>1. <<"torn">>[1] # "table"
          OBVIOUS
        <4>2. nand'[b] = nand[b]
          BY <1>3, <3>1, <3>4, <4>1
        <4> QED
          BY <2>1, <3>1, <4>2 DEF Tables
      <3> QED
        BY <3>2, <3>3, <3>4
    <2>4. ASSUME written' PROVE \E b \in Tables' : b < block'
      <3>1. CASE Writable(block)
        <4>1. nand'[block][1] = "table"
          BY <1>3, <3>1
        <4>2. block \in Tables' /\ block < block'
          BY <1>1, <1>2, <4>1 DEF Tables
        <4> QED
          BY <4>2
      <3>2. CASE ~Writable(block)
        <4>1. PICK b \in Tables : b < block
          BY <1>1, <2>1, <2>4, <3>2
        <4>2. b \in Mirrors /\ b \in Nat /\ b \in 0..(Area - 1) /\ b # block
          BY <1>2, <4>1, MirrorTypes DEF Tables
        <4>3. b \in Tables'
          BY <1>3, <4>1, <4>2 DEF Tables
        <4>4. b < block'
          BY <1>1, <1>2, <4>1, <4>2
        <4> QED
          BY <4>3, <4>4
      <3> QED
        BY <3>1, <3>2
    <2>5. TablesInv'
      BY <1>1, <2>2, <2>3, <1>4 DEF TablesInv, TypeInv
    <2> QED
      BY <1>1, <2>2, <2>3, <2>4, <2>5 DEF MirrorsInv
  <1>6. ClearInv' /\ DataInv' /\ SetInv'
    BY <1>1 DEF ClearInv, DataInv, SetInv
  <1> QED
    BY <1>4, <1>5, <1>6 DEF IInv

\* A call ends or begins, or the power goes: no block changes
LEMMA RestStep ==
  ASSUME IplUpdateAssumption, IInv, ClearIpl \/ Return \/ PowerOff \/ UNCHANGED vars
  PROVE  IInv'
  <1>1. nand' = nand /\ UNCHANGED <<ipl, table, written, stale, wrapped>>
    BY DEF ClearIpl, Return, PowerOff, vars
  <1>2. Tables' = Tables /\ (TablesInv => TablesInv') /\ Sound' = Sound
    BY <1>1, StillStep DEF Sound
  <1>3. Points(table, ipl) => Points(table, ipl)'
    BY <1>1 DEF Points, Begun
  <1>4. CASE ClearIpl
    <2>1. pc' = "clear" /\ block' = 0 /\ res' = "none"
      BY <1>4 DEF ClearIpl
    <2>2. ClearInv' /\ DataInv' /\ MirrorsInv' /\ SetInv'
      BY <1>2, <2>1, TablesNat, MirrorTypes DEF ClearInv, DataInv, MirrorsInv, SetInv
    <2> QED
      BY <1>1, <1>2, <2>1, <2>2 DEF IInv, TypeInv
  <1>5. CASE Return
    <2>1. pc = "mirrors" /\ pc' = "idle" /\ res' = (IF written THEN "set" ELSE "error")
          /\ block' = block
      BY <1>5 DEF Return
    <2>2. Sound => SetInv'
      BY <1>1, <1>2, <1>3, <2>1 DEF IInv, MirrorsInv, SetInv
    <2>3. ClearInv' /\ DataInv' /\ MirrorsInv'
      BY <2>1 DEF ClearInv, DataInv, MirrorsInv
    <2> QED
      BY <1>1, <1>2, <2>1, <2>2, <2>3 DEF IInv, TypeInv
  <1>6. CASE PowerOff
    <2>1. pc' = "idle" /\ res' = "none" /\ block' = block
      BY <1>6 DEF PowerOff
    <2>2. ClearInv' /\ DataInv' /\ MirrorsInv' /\ SetInv'
      BY <2>1 DEF ClearInv, DataInv, MirrorsInv, SetInv
    <2> QED
      BY <1>1, <1>2, <2>1, <2>2 DEF IInv, TypeInv
  <1>7. CASE UNCHANGED vars
    <2>1. pc' = pc /\ block' = block /\ res' = res
      BY <1>7 DEF vars
    <2>2. ClearInv' = ClearInv /\ DataInv' = DataInv
      BY <1>1, <1>2, <2>1 DEF ClearInv, DataInv, Begun
    <2>3. MirrorsInv' = MirrorsInv /\ SetInv' = SetInv
      BY <1>1, <1>2, <2>1 DEF MirrorsInv, SetInv, Points, Begun
    <2>4. TypeInv'
      BY <1>1, <2>1 DEF IInv, TypeInv
    <2> QED
      BY <1>2, <2>2, <2>3, <2>4 DEF IInv
  <1> QED
    BY <1>4, <1>5, <1>6, <1>7

-----------------------------------------------------------------------------
(* The theorems.                                                           *)

\* The inductive invariant: until a table outlives its blocks or the area is
\* full, the tables go before the data they name, no table is there while data
\* is written, and every mirror written afterwards names blocks that hold the
\* loader (ipl_update/main.c:113-233).
THEOREM SpecIInv ==
  ASSUME IplUpdateAssumption
  PROVE  Spec => []IInv
  <1>1. Init => IInv
    BY InitIInv
  <1>2. IInv /\ [Next]_vars => IInv'
    <2> SUFFICES ASSUME IInv, [Next]_vars PROVE IInv'
      OBVIOUS
    <2>1. CASE ClearIpl \/ Return \/ PowerOff \/ UNCHANGED vars
      BY <2>1, RestStep
    <2>2. CASE EraseBlock
      BY <2>2, EraseStep
    <2>3. CASE \E l \in Ipls : SetIpl(l)
      BY <2>3, SetIplStep
    <2>4. CASE WriteData
      BY <2>4, DataStep
    <2>5. CASE BeginMirrors
      BY <2>5, BeginStep
    <2>6. CASE WriteMirror
      BY <2>6, MirrorStep
    <2> QED
      BY <2>1, <2>2, <2>3, <2>4, <2>5, <2>6 DEF Next
  <1> QED
    BY <1>1, <1>2, PTL DEF Spec

\* Whenever the power goes the boot processor finds a whole loader or no table
\* at all, and a loader that was set is the one it finds, unless the page
\* number wrapped or an old table outlived the clearing (ipl_update/main.c:113-233).
THEOREM SpecLoaderRight ==
  AllSpec => []LoaderRight
  <1>1. AllInit /\ part = "ipl" => Init
    BY DEF AllInit
  <1>2. AllInit /\ ~(part = "ipl") => wrapped
    BY DEF AllInit, NoIpl
  <1>3. part = "ipl" /\ [AllNext]_allVars => (part = "ipl")' /\ [Next]_vars
    BY DEF AllNext, allVars, iplOwn, vars
  <1>4. ~(part = "ipl") /\ wrapped /\ [AllNext]_allVars => ~(part = "ipl")' /\ wrapped'
    <2>1. part # "ipl" /\ [AllNext]_allVars => part' = part /\ UNCHANGED wrapped
      BY DEF AllNext, allVars, iplOwn
    <2> QED
      BY <2>1, Zenon
  <1>5. IInv \/ wrapped => LoaderRight
    <2>1. IInv => LoaderRight
      BY FlashAssumption, Reads DEF LoaderRight
    <2> QED
      BY <2>1 DEF LoaderRight, SetReadsBack, NeverTorn
  <1>6. Spec => []IInv
    BY FlashAssumption, SpecIInv
  <1> QED
    BY <1>1, <1>2, <1>3, <1>4, <1>5, <1>6, PTL DEF AllSpec, Spec

-----------------------------------------------------------------------------
(* A dump of the flash and its return (NandCopy).                          *)

\* What a dump has to hold for the block, what blocks hold at all, and how far
\* a block is in its chunk
Wanted(b) == IF b \in bad THEN N!Blank ELSE nand[b]
Contents ==
    {N!Blank} \cup {<<"kept", b>> : b \in N!Block} \cup {<<"now", b>> : b \in N!Block}
Chunk(b) == (b - 1) % Fit

CopyTypes ==
    /\ nand \in [N!Block -> Contents] /\ file \subseteq Seq(Contents) /\ buf \in Seq(Contents)
    /\ at \in 1..(Total + 1) /\ errors \in Nat /\ \A f, g \in file : f = g
\* Who runs: the pages wait for a thread, and only theirs
Pages ==
    /\ page \in {"menu", "dumping", "done", "restoring", "restored"}
    /\ page \in {"menu", "done", "restored"} => step = "none"
    /\ page = "dumping" => step \in {"none", "create", "dump", "dumped", "cancelled", "failed"}
    /\ page = "restoring" => step \in {"none", "open", "read", "write", "restored", "failed"}
Locks ==
    /\ step \in {"read", "write"} => held = TRUE
    /\ step \notin {"read", "write"} => held = FALSE
    /\ page = "restoring" /\ step # "none" => cancelmode = TRUE
    /\ page \in {"menu", "dumping", "done"} /\ trapped = FALSE => cancelmode = FALSE
\* Only a dump that goes on is shorter than the flash
Sizes ==
    page = "restoring" \/ (lost = FALSE /\ step # "dump") => \A f \in file : Len(f) = Total
\* The file and the buffer behind it are what was read so far
Dumping ==
    step = "dump" =>
        /\ file # {} /\ Len(buf) <= Fit
        /\ lost = FALSE => \A f \in file :
             /\ Len(f) + Len(buf) = at - 1
             /\ \A b \in 1..Len(f) : f[b] = Wanted(b)
             /\ \A k \in 1..Len(buf) : buf[k] = Wanted(Len(f) + k)
DumpDone ==
    (step = "dumped" \/ page = "done") /\ lost = FALSE =>
        file # {} /\ \A f \in file : \A b \in N!Block : f[b] = Wanted(b)
\* The buffer is the chunk of the block that is written
Chunks ==
    /\ step = "read" /\ at <= Total => Chunk(at) = 0
    /\ step = "write" =>
        /\ at <= Total
        /\ lost = FALSE =>
             /\ Chunk(at) < Len(buf)
             /\ Len(buf) = Fit \/ Len(buf) = Total - at + Chunk(at) + 1
             /\ \A f \in file : \A k \in 1..Len(buf) : buf[k] = f[at - Chunk(at) + k - 1]
\* The blocks before it are those of the file
Back(n) == \A f \in file : \A b \in 1..n : b \in bad \/ nand[b] = f[b]
Restoring ==
    /\ step \in {"read", "write"} /\ lost = FALSE => Back(at - 1)
    /\ (step = "restored" \/ page = "restored") /\ lost = FALSE => Back(Total)

CopyInv == CopyTypes /\ Pages /\ Locks /\ Sizes /\ Dumping /\ DumpDone /\ Chunks /\ Restoring

LEMMA CopyConstants ==
  ASSUME N!NandCopyAssumption
  PROVE  Total \in Nat /\ Total > 0 /\ Fit \in Nat /\ Fit > 0 /\ MaxErrors \in Nat
         /\ N!Block = 1..Total
  BY DEF N!NandCopyAssumption, N!Block

LEMMA ChunkDivision ==
  ASSUME N!NandCopyAssumption, NEW a \in Nat
  PROVE  a = (a \div Fit) * Fit + (a % Fit) /\ a \div Fit \in Nat /\ a % Fit \in 0..(Fit - 1)
  BY CopyConstants

\* Where a block is in its chunk, and the next one
LEMMA ChunkNext ==
  ASSUME N!NandCopyAssumption, NEW b \in Nat, b > 0
  PROVE  /\ Chunk(b) \in 0..(Fit - 1) /\ Chunk(b) < b
         /\ b % Fit = 0 => Chunk(b + 1) = 0
         /\ b % Fit # 0 => Chunk(b + 1) = Chunk(b) + 1
  <1> DEFINE q == (b - 1) \div Fit  r == (b - 1) % Fit
  <1>1. /\ b - 1 = q * Fit + r /\ q \in Nat /\ r \in 0..(Fit - 1) /\ Fit \in Nat /\ Fit > 0
    <2>1. b - 1 \in Nat
      OBVIOUS
    <2> QED
      BY <2>1, ChunkDivision, CopyConstants
  <1>2. Chunk(b) = r /\ Chunk(b + 1) = b % Fit
    BY DEF Chunk
  <1> HIDE DEF q, r
  <1>3. CASE r = Fit - 1
    <2>1. b = (q + 1) * Fit
      BY <1>1, <1>3
    <2>2. b % Fit = 0
      BY <1>1, <2>1
    <2> QED
      BY <1>1, <1>2, <1>3, <2>2
  <1>4. CASE r < Fit - 1
    <2>1. b = q * Fit + (r + 1)
      BY <1>1
    <2>2. b % Fit = r + 1
      BY <1>1, <1>4, <2>1
    <2> QED
      BY <1>1, <1>2, <2>2
  <1> QED
    BY <1>1, <1>3, <1>4

LEMMA CopyInit ==
  ASSUME N!NandCopyAssumption, N!Init
  PROVE  CopyInv
  <1>1. /\ page = "menu" /\ step = "none" /\ buf = <<>> /\ at = 1 /\ errors = 0
        /\ held = FALSE /\ cancelmode = FALSE /\ lost = FALSE /\ trapped = FALSE
    BY DEF N!Init
  <1>2. nand = [b \in N!Block |-> <<"now", b>>] /\ file \in {{}, {N!Dumped}}
    BY DEF N!Init
  <1>3. nand \in [N!Block -> Contents]
    BY <1>2 DEF Contents
  <1>4. N!Dumped \in Seq(Contents) /\ Len(N!Dumped) = Total
    BY CopyConstants DEF N!Dumped, Contents
  <1>5. file \subseteq Seq(Contents) /\ (\A f, g \in file : f = g) /\ \A f \in file : Len(f) = Total
    BY <1>2, <1>4
  <1>6. <<>> \in Seq(Contents)
    OBVIOUS
  <1>7. CopyTypes
    BY <1>1, <1>3, <1>5, <1>6, CopyConstants DEF CopyTypes
  <1>8. Pages /\ Locks /\ Sizes
    BY <1>1, <1>5 DEF Pages, Locks, Sizes
  <1>9. Dumping /\ DumpDone /\ Chunks /\ Restoring
    BY <1>1 DEF Dumping, DumpDone, Chunks, Restoring
  <1> QED
    BY <1>7, <1>8, <1>9 DEF CopyInv

\* The pages and the ends of a thread touch neither the flash nor the file
LEMMA CopyPages ==
  ASSUME N!NandCopyAssumption, CopyInv,
         \/ N!DumpNand \/ N!OnCancelDump \/ N!DumpEnds \/ N!OnBackFromDump \/ N!RestoreNand
         \/ N!RestoreEnds \/ UNCHANGED N!vars
  PROVE  CopyInv'
  <1>1. UNCHANGED <<nand, bad, file, buf, at, held, lost>> /\ (errors' = errors \/ errors' = 0)
    BY DEF N!DumpNand, N!OnCancelDump, N!DumpEnds, N!OnBackFromDump, N!RestoreNand,
           N!RestoreEnds, N!vars, N!copy
  <1>2. CopyTypes'
    BY <1>1 DEF CopyInv, CopyTypes
  <1>3. Pages' /\ Locks'
    BY <1>1 DEF CopyInv, Pages, Locks, N!DumpNand, N!OnCancelDump, N!DumpEnds, N!OnBackFromDump,
        N!RestoreNand, N!RestoreEnds, N!vars, N!copy
  <1>4. Sizes'
    BY <1>1 DEF CopyInv, CopyTypes, Pages, Sizes, N!DumpNand, N!OnCancelDump, N!DumpEnds,
        N!OnBackFromDump, N!RestoreNand, N!RestoreEnds, N!vars, N!copy
  <1>5. /\ \A b : Wanted(b)' = Wanted(b) /\ \A n : Back(n)' = Back(n)
    BY <1>1 DEF Wanted, Back
  <1>6. Dumping'
    BY <1>1, <1>5 DEF CopyInv, Dumping, N!DumpNand, N!OnCancelDump, N!DumpEnds,
        N!OnBackFromDump, N!RestoreNand, N!RestoreEnds, N!vars, N!copy
  <1>7. DumpDone'
    BY <1>1, <1>5 DEF CopyInv, DumpDone, N!DumpNand, N!OnCancelDump, N!DumpEnds,
        N!OnBackFromDump, N!RestoreNand, N!RestoreEnds, N!vars, N!copy, N!Block
  <1>8. Chunks'
    BY <1>1 DEF CopyInv, Chunks, Chunk, N!DumpNand, N!OnCancelDump, N!DumpEnds,
        N!OnBackFromDump, N!RestoreNand, N!RestoreEnds, N!vars, N!copy
  <1>9. Restoring'
    BY <1>1, <1>5 DEF CopyInv, Restoring, N!DumpNand, N!OnCancelDump, N!DumpEnds,
        N!OnBackFromDump, N!RestoreNand, N!RestoreEnds, N!vars, N!copy
  <1> QED
    BY <1>2, <1>3, <1>4, <1>6, <1>7, <1>8, <1>9 DEF CopyInv

\* A new file is as empty as the buffer
LEMMA CopyCreate ==
  ASSUME N!NandCopyAssumption, CopyInv, N!DumpCreate
  PROVE  CopyInv'
  <1>1. step = "create" /\ UNCHANGED <<page, nand, bad, held, errors, cancelmode, trapped>>
    BY DEF N!DumpCreate
  <1>2. CASE step' = "dump" /\ file' = {<<>>} /\ at' = 1 /\ buf' = <<>> /\ lost' = FALSE
    <2>1. <<>> \in Seq(Contents) /\ Contents' = Contents /\ Len(<<>>) = 0
      BY DEF Contents
    <2>2. CopyTypes'
      BY <1>1, <1>2, <2>1, CopyConstants DEF CopyInv, CopyTypes
    <2>3. Pages' /\ Locks'
      BY <1>1, <1>2 DEF CopyInv, Pages, Locks
    <2>4. page # "restoring" /\ page \notin {"done", "restored"}
      BY <1>1 DEF CopyInv, Pages
    <2>5. Sizes' /\ DumpDone' /\ Chunks' /\ Restoring'
      BY <1>1, <1>2, <2>4 DEF Sizes, DumpDone, Chunks, Restoring
    <2>6. Dumping'
      BY <1>2, CopyConstants DEF Dumping
    <2> QED
      BY <2>2, <2>3, <2>5, <2>6 DEF CopyInv
  <1>3. CASE step' = "failed" /\ UNCHANGED <<file, at, buf, lost>>
    <2>1. CopyTypes' /\ Pages' /\ Locks' /\ Sizes'
      BY <1>1, <1>3 DEF CopyInv, CopyTypes, Pages, Locks, Sizes, Contents
    <2>2. Dumping' /\ Chunks'
      BY <1>3 DEF Dumping, Chunks
    <2>3. DumpDone' /\ Restoring'
      BY <1>1, <1>3 DEF CopyInv, Pages, DumpDone, Restoring
    <2> QED
      BY <2>1, <2>2, <2>3 DEF CopyInv
  <1> QED
    BY <1>2, <1>3 DEF N!DumpCreate

LEMMA CopyBlock ==
  ASSUME N!NandCopyAssumption, CopyInv, N!DumpBlock
  PROVE  CopyInv'
  <1>1. /\ step = "dump" /\ Len(buf) < Fit /\ at <= Total
        /\ UNCHANGED <<page, nand, bad, held, errors, cancelmode, lost, trapped>>
    BY DEF N!DumpBlock
  <1>2. page = "dumping"
    BY <1>1 DEF CopyInv, Pages
  <1>3. CASE step' = "cancelled" /\ file' = {} /\ UNCHANGED <<buf, at>>
    <2>1. CopyTypes' /\ Pages' /\ Locks' /\ Sizes'
      BY <1>1, <1>3 DEF CopyInv, CopyTypes, Pages, Locks, Sizes, Contents
    <2>2. Dumping' /\ DumpDone' /\ Chunks' /\ Restoring'
      BY <1>1, <1>2, <1>3 DEF Dumping, DumpDone, Chunks, Restoring
    <2> QED
      BY <2>1, <2>2 DEF CopyInv
  <1>4. CASE /\ buf' = Append(buf, IF at \in bad THEN N!Blank ELSE nand[at])
             /\ at' = at + 1 /\ UNCHANGED <<step, file>>
    <2>1. at \in N!Block /\ Wanted(at) \in Contents /\ Contents' = Contents
      BY <1>1, CopyConstants DEF CopyInv, CopyTypes, Wanted, Contents
    <2>2. buf' = Append(buf, Wanted(at)) /\ buf \in Seq(Contents) /\ at \in Nat
      BY <1>4, CopyConstants DEF Wanted, CopyInv, CopyTypes
    <2>3. /\ buf' \in Seq(Contents) /\ Len(buf') = Len(buf) + 1 /\ Len(buf) \in Nat
          /\ \A k \in 1..Len(buf) : buf'[k] = buf[k]
          /\ buf'[Len(buf) + 1] = Wanted(at)
      BY <2>1, <2>2
    <2>4. CopyTypes'
      BY <1>1, <1>4, <2>1, <2>3, CopyConstants DEF CopyInv, CopyTypes
    <2>5. Pages' /\ Locks' /\ Sizes'
      BY <1>1, <1>4 DEF CopyInv, Pages, Locks, Sizes
    <2>6. DumpDone' /\ Chunks' /\ Restoring'
      BY <1>1, <1>2, <1>4 DEF DumpDone, Chunks, Restoring
    <2>7. \A b : Wanted(b)' = Wanted(b)
      BY <1>1 DEF Wanted
    <2>8. Dumping'
      <3>1. at' - 1 = at /\ Len(buf') <= Fit /\ file' # {}
        BY <1>1, <1>4, <2>2, <2>3, CopyConstants DEF CopyInv, Dumping
      <3>2. ASSUME lost = FALSE, NEW f \in file
            PROVE  /\ Len(f) + Len(buf') = at' - 1
                   /\ \A b \in 1..Len(f) : f[b] = Wanted(b)'
                   /\ \A k \in 1..Len(buf') : buf'[k] = Wanted(Len(f) + k)'
        <4>1. /\ Len(f) + Len(buf) = at - 1 /\ \A b \in 1..Len(f) : f[b] = Wanted(b)
              /\ \A k \in 1..Len(buf) : buf[k] = Wanted(Len(f) + k)
          BY <1>1, <3>2 DEF CopyInv, Dumping
        <4>2. Len(f) \in Nat /\ Len(buf) \in Nat /\ at \in Nat
          BY DEF CopyInv, CopyTypes
        <4>3. Len(f) + (Len(buf) + 1) = at
          <5>1. Len(f) + Len(buf) = at - 1
            BY <4>1
          <5> QED
            BY <4>2, <5>1
        <4>4. ASSUME NEW k \in 1..Len(buf') PROVE buf'[k] = Wanted(Len(f) + k)
          <5>1. CASE k = Len(buf) + 1
            BY <2>3, <4>3, <5>1
          <5>2. CASE k # Len(buf) + 1
            BY <2>3, <4>1, <5>2
          <5> QED
            BY <5>1, <5>2
        <4> QED
          BY <2>3, <2>7, <3>1, <4>1, <4>3, <4>4
      <3> QED
        BY <1>1, <1>4, <3>1, <3>2 DEF Dumping
    <2> QED
      BY <2>4, <2>5, <2>6, <2>8 DEF CopyInv
  <1> QED
    BY <1>3, <1>4 DEF N!DumpBlock

\* The buffer goes to the end of the file, or the stick loses it
LEMMA CopyWrite ==
  ASSUME N!NandCopyAssumption, CopyInv, N!DumpWrite
  PROVE  CopyInv'
  <1>1. /\ step = "dump" /\ buf' = <<>> /\ step' = IF at > Total THEN "dumped" ELSE "dump"
        /\ UNCHANGED <<page, nand, bad, at, held, errors, cancelmode, trapped>>
    BY DEF N!DumpWrite
  <1>2. \/ file' = {f \o buf : f \in file} /\ lost' = lost
        \/ lost' = TRUE /\ file' = file
    BY DEF N!DumpWrite
  <1>3. page = "dumping" /\ buf \in Seq(Contents) /\ Contents' = Contents /\ at \in 1..(Total + 1)
        /\ file # {} /\ <<>> \in Seq(Contents) /\ Len(<<>>) = 0 /\ file \subseteq Seq(Contents)
    BY <1>1 DEF CopyInv, CopyTypes, Pages, Contents, Dumping
  <1>4. ASSUME NEW f \in file
        PROVE  /\ f \o buf \in Seq(Contents) /\ Len(f \o buf) = Len(f) + Len(buf)
               /\ \A k \in 1..Len(f) : (f \o buf)[k] = f[k]
               /\ \A k \in 1..Len(buf) : (f \o buf)[Len(f) + k] = buf[k]
               /\ Len(f) \in Nat /\ Len(buf) \in Nat
    BY <1>3
  <1>5. CopyTypes'
    BY <1>1, <1>2, <1>3, <1>4 DEF CopyInv, CopyTypes
  <1>6. \A b : Wanted(b)' = Wanted(b)
    BY <1>1 DEF Wanted
  <1>7. ASSUME lost' = FALSE, NEW g \in file'
        PROVE  Len(g) = at - 1 /\ \A b \in 1..Len(g) : g[b] = Wanted(b)
    <2>1. PICK f \in file : g = f \o buf
      BY <1>2, <1>7
    <2>2. /\ Len(f) + Len(buf) = at - 1 /\ \A b \in 1..Len(f) : f[b] = Wanted(b)
          /\ \A k \in 1..Len(buf) : buf[k] = Wanted(Len(f) + k)
      BY <1>1, <1>2, <1>7 DEF CopyInv, Dumping
    <2>3. Len(g) = at - 1
      BY <1>4, <2>1, <2>2
    <2>4. ASSUME NEW b \in 1..Len(g) PROVE g[b] = Wanted(b)
      <3>1. CASE b <= Len(f)
        BY <1>4, <2>1, <2>2, <3>1
      <3>2. CASE b > Len(f)
        <4>1. b - Len(f) \in 1..Len(buf) /\ Len(f) + (b - Len(f)) = b
          BY <1>4, <2>1, <3>2
        <4> QED
          BY <1>4, <2>1, <2>2, <4>1
      <3> QED
        BY <1>4, <3>1, <3>2
    <2> QED
      BY <2>3, <2>4
  <1>8. file' # {}
    BY <1>2, <1>3
  <1>9. Pages' /\ Locks'
    BY <1>1, <1>3 DEF CopyInv, Pages, Locks
  <1>10. Dumping' /\ Sizes' /\ DumpDone'
    <2>1. CASE at > Total
      <3>1. at - 1 = Total
        BY <1>3, <2>1, CopyConstants
      <3> QED
        BY <1>1, <1>3, <1>6, <1>7, <1>8, <2>1, <3>1, CopyConstants DEF Dumping, Sizes, DumpDone
    <2>2. CASE ~(at > Total)
      <3>1. Dumping'
        <4>1. Len(buf') = 0 /\ 0 <= Fit
          BY <1>1, <1>3, CopyConstants
        <4>2. ASSUME lost' = FALSE, NEW g \in file'
              PROVE  /\ Len(g) + Len(buf') = at' - 1
                     /\ \A b \in 1..Len(g) : g[b] = Wanted(b)'
                     /\ \A k \in 1..Len(buf') : buf'[k] = Wanted(Len(g) + k)'
          <5>1. Len(g) = at - 1 /\ \A b \in 1..Len(g) : g[b] = Wanted(b)
            BY <1>7, <4>2
          <5>2. Len(g) + Len(buf') = at' - 1
            BY <1>1, <1>3, <4>1, <5>1, CopyConstants
          <5> QED
            BY <1>6, <4>1, <5>1, <5>2
        <4> QED
          BY <1>8, <4>1, <4>2 DEF Dumping
      <3> QED
        BY <1>1, <1>3, <2>2, <3>1 DEF Sizes, DumpDone
    <2> QED
      BY <2>1, <2>2
  <1>11. Chunks' /\ Restoring'
    BY <1>1, <1>3 DEF Chunks, Restoring
  <1> QED
    BY <1>5, <1>9, <1>10, <1>11 DEF CopyInv

\* The lock is taken and the first chunk is next, or the page goes back
LEMMA CopyOpen ==
  ASSUME N!NandCopyAssumption, CopyInv, N!RestoreOpen
  PROVE  CopyInv'
  <1>1. step = "open" /\ UNCHANGED <<nand, bad, file, buf, errors, cancelmode, lost>>
    BY DEF N!RestoreOpen
  <1>2. page = "restoring" /\ \A f \in file : Len(f) = Total
    BY <1>1 DEF CopyInv, Pages, Sizes
  <1>3. CASE step' = "read" /\ at' = 1 /\ held' = TRUE /\ UNCHANGED <<page, trapped>>
    <2>1. CopyTypes' /\ Pages' /\ Locks' /\ Sizes'
      BY <1>1, <1>2, <1>3, CopyConstants
        DEF CopyInv, CopyTypes, Pages, Locks, Sizes, Contents
    <2>2. Chunk(1) = 0 /\ \A b \in 1..(1 - 1) : FALSE
      BY ChunkNext, CopyConstants
    <2>3. Dumping' /\ DumpDone' /\ Chunks' /\ Restoring'
      BY <1>1, <1>2, <1>3, <2>2 DEF Dumping, DumpDone, Chunks, Chunk, Restoring, Back
    <2> QED
      BY <2>1, <2>3 DEF CopyInv
  <1>4. CASE step' = "none" /\ page' = "menu" /\ trapped' = TRUE /\ UNCHANGED <<at, held>>
    <2>1. CopyTypes' /\ Pages' /\ Locks' /\ Sizes'
      BY <1>1, <1>2, <1>4 DEF CopyInv, CopyTypes, Pages, Locks, Sizes, Contents
    <2>2. Dumping' /\ DumpDone' /\ Chunks' /\ Restoring'
      BY <1>4 DEF Dumping, DumpDone, Chunks, Restoring
    <2> QED
      BY <2>1, <2>2 DEF CopyInv
  <1> QED
    BY <1>3, <1>4 DEF N!RestoreOpen

\* The buffer is the chunk that begins at the block, unless the read failed
LEMMA CopyRead ==
  ASSUME N!NandCopyAssumption, CopyInv, N!RestoreRead
  PROVE  CopyInv'
  <1> DEFINE end == IF at + Fit > Total THEN Total ELSE at + Fit - 1
  <1>1. /\ step = "read" /\ at <= Total /\ step' = "write"
        /\ UNCHANGED <<page, nand, bad, file, at, held, errors, cancelmode, trapped>>
    BY DEF N!RestoreRead
  <1>2. \/ (\E f \in file : buf' = SubSeq(f, at, end)) /\ lost' = lost
        \/ lost' = TRUE /\ buf' = buf
    BY DEF N!RestoreRead
  <1>3. /\ page = "restoring" /\ file \subseteq Seq(Contents) /\ buf \in Seq(Contents)
        /\ at \in Nat /\ at > 0 /\ Chunk(at) = 0 /\ Contents' = Contents
        /\ \A f \in file : Len(f) = Total /\ \A g \in file : g = f
    BY <1>1, CopyConstants DEF CopyInv, CopyTypes, Pages, Sizes, Chunks, Contents
  <1>4. end \in Nat /\ end >= at /\ end <= Total /\ (end - at + 1 = Fit \/ end = Total)
    BY <1>1, <1>3, CopyConstants
  <1> HIDE DEF end
  <1>5. ASSUME NEW f \in file
        PROVE  /\ SubSeq(f, at, end) \in Seq(Contents) /\ Len(SubSeq(f, at, end)) = end - at + 1
               /\ \A k \in 1..(end - at + 1) : SubSeq(f, at, end)[k] = f[at + k - 1]
    BY <1>3, <1>4, CopyConstants
  <1>6. CopyTypes'
    BY <1>1, <1>2, <1>3, <1>5 DEF CopyInv, CopyTypes
  <1>7. Pages' /\ Locks' /\ Sizes'
    BY <1>1, <1>3 DEF CopyInv, Pages, Locks, Sizes
  <1>8. Dumping' /\ DumpDone'
    BY <1>1, <1>3 DEF Dumping, DumpDone
  <1>9. Restoring'
    BY <1>1, <1>2, <1>3 DEF CopyInv, Restoring, Back
  <1>10. ASSUME lost' = FALSE
         PROVE  /\ 0 < Len(buf') /\ (Len(buf') = Fit \/ Len(buf') = Total - at + 0 + 1)
                /\ \A f \in file : \A k \in 1..Len(buf') : buf'[k] = f[at - 0 + k - 1]
    <2>1. PICK f \in file : buf' = SubSeq(f, at, end)
      BY <1>2, <1>10
    <2>2. Len(buf') = end - at + 1
      BY <1>5, <2>1
    <2>3. 0 < Len(buf') /\ (Len(buf') = Fit \/ Len(buf') = Total - at + 0 + 1)
      BY <1>3, <1>4, <2>2, CopyConstants
    <2>4. \A k \in 1..Len(buf') : buf'[k] = f[at - 0 + k - 1]
      BY <1>3, <1>4, <1>5, <2>1, <2>2
    <2> QED
      BY <1>3, <2>3, <2>4
  <1>11. Chunk(at)' = 0
    BY <1>1, <1>3 DEF Chunk
  <1>12. Chunks'
    BY <1>1, <1>10, <1>11 DEF Chunks
  <1> QED
    BY <1>6, <1>7, <1>8, <1>9, <1>12 DEF CopyInv

\* The block is that of the file, or it is bad
LEMMA CopyBack ==
  ASSUME N!NandCopyAssumption, CopyInv, N!RestoreBlock
  PROVE  CopyInv'
  <1>1. /\ step = "write" /\ at' = at + 1
        /\ UNCHANGED <<page, bad, file, buf, cancelmode, trapped>>
        /\ lost' = lost \/ lost' = TRUE
    BY DEF N!RestoreBlock
  <1>2. IF errors' > MaxErrors THEN step' = "failed" /\ held' = FALSE
        ELSE step' = (IF at % Fit = 0 \/ at = Total THEN "read" ELSE "write") /\ held' = held
    BY DEF N!RestoreBlock
  <1>3. \/ at \in bad /\ errors' = errors + 1 /\ nand' = nand
        \/ at \notin bad /\ nand' = [nand EXCEPT ![at] = N!Restored(at)] /\ errors' = errors
        \/ /\ at \notin bad /\ nand' = [nand EXCEPT ![at] = N!Blank] /\ errors' = errors
           /\ lost' = TRUE
    BY DEF N!RestoreBlock
  <1>4. /\ page = "restoring" /\ file \subseteq Seq(Contents) /\ buf \in Seq(Contents)
        /\ at \in N!Block /\ at \in Nat /\ at > 0 /\ at <= Total /\ errors \in Nat
        /\ nand \in [N!Block -> Contents] /\ Contents' = Contents /\ cancelmode = TRUE
        /\ \A f \in file : Len(f) = Total
    BY <1>1, CopyConstants
      DEF CopyInv, CopyTypes, Pages, Locks, Sizes, Chunks, Contents
  <1>5. N!Restored(at) \in Contents /\ N!Blank \in Contents
    <2>1. \A k \in DOMAIN buf : buf[k] \in Contents
      BY <1>4
    <2>2. N!Blank \in Contents
      BY DEF Contents
    <2> QED
      BY <2>1, <2>2 DEF N!Restored
  <1>6. errors' \in Nat /\ nand' \in [N!Block -> Contents]
    BY <1>3, <1>4, <1>5
  <1>7. CopyTypes'
    BY <1>1, <1>4, <1>6, CopyConstants DEF CopyInv, CopyTypes
  <1>8. \/ step' = "failed" /\ held' = FALSE
        \/ /\ step' = (IF at % Fit = 0 \/ at = Total THEN "read" ELSE "write")
           /\ held' = TRUE
    BY <1>1, <1>2 DEF CopyInv, Locks
  <1>9. step' \in {"failed", "read", "write"}
    BY <1>8
  <1>10. Pages' /\ Sizes' /\ Dumping' /\ DumpDone'
    BY <1>1, <1>4, <1>9 DEF Pages, Sizes, Dumping, DumpDone
  <1>11. Locks'
    BY <1>1, <1>4, <1>8 DEF Locks
  <1>12. PICK c \in 0..(Fit - 1) :
              /\ c = Chunk(at) /\ c < at
              /\ at % Fit = 0 => Chunk(at)' = 0
              /\ at % Fit # 0 => Chunk(at)' = c + 1
    <2>1. Chunk(at)' = Chunk(at + 1)
      BY <1>1 DEF Chunk
    <2> QED
      BY <1>4, <2>1, ChunkNext
  <1> c \in Nat /\ c < at /\ c < Fit
    BY <1>12, CopyConstants
  <1>13. ASSUME lost = FALSE
         PROVE  /\ c < Len(buf) /\ Len(buf) \in Nat
                /\ Len(buf) = Fit \/ Len(buf) = Total - at + c + 1
                /\ \A f \in file : \A k \in 1..Len(buf) : buf[k] = f[at - c + k - 1]
    BY <1>1, <1>4, <1>12, <1>13 DEF CopyInv, Chunks
  <1>14. Chunks'
    <2>1. step' = "read" /\ at' <= Total => at % Fit = 0
      BY <1>1, <1>4, <1>8, CopyConstants
    <2>2. step' = "read" /\ at' <= Total => Chunk(at)' = 0
      BY <1>12, <2>1
    <2>3. ASSUME step' = "write"
          PROVE  /\ at' <= Total
                 /\ lost' = FALSE =>
                      /\ Chunk(at)' < Len(buf')
                      /\ Len(buf') = Fit \/ Len(buf') = Total - at' + Chunk(at)' + 1
                      /\ \A f \in file' : \A k \in 1..Len(buf') :
                            buf'[k] = f[at' - Chunk(at)' + k - 1]
      <3>1. at % Fit # 0 /\ at # Total
        BY <1>8, <2>3
      <3>5. Chunk(at)' = c + 1
        BY <1>12, <3>1
      <3>6. at' = at + 1
        BY <1>1
      <3>2. at' - (c + 1) = at - c /\ at' <= Total /\ Total - at' + (c + 1) = Total - at + c
        BY <1>4, <3>1, <3>6, CopyConstants
      <3>3. c + 1 < Fit
        <4>1. Chunk(at + 1) \in 0..(Fit - 1)
          BY <1>4, ChunkNext
        <4>2. Chunk(at + 1) = c + 1
          BY <1>4, <1>12, <3>1, ChunkNext
        <4> QED
          BY <4>1, <4>2, CopyConstants
      <3>4. ASSUME lost = FALSE
            PROVE  /\ c + 1 < Len(buf)
                   /\ Len(buf) = Fit \/ Len(buf) = Total - at' + (c + 1) + 1
        <4>1. c < Len(buf) /\ Len(buf) \in Nat /\ (Len(buf) = Fit \/ Len(buf) = Total - at + c + 1)
          BY <1>13, <3>4
        <4>2. CASE Len(buf) = Fit
          BY <3>3, <4>2
        <4>3. CASE Len(buf) = Total - at + c + 1
          <5>1. at < Total
            BY <1>4, <3>1, CopyConstants
          <5>2. Total - at' + (c + 1) + 1 = Total - at + c + 1
            BY <3>2
          <5> QED
            BY <1>4, <4>3, <5>1, <5>2, CopyConstants
        <4> QED
          BY <4>1, <4>2, <4>3
      <3> QED
        BY <1>1, <1>13, <3>5, <3>2, <3>4
    <2> QED
      BY <2>2, <2>3 DEF Chunks
  <1>15. ASSUME lost = FALSE, lost' = FALSE, Back(at - 1), NEW f \in file, NEW b \in 1..at
         PROVE  b \in bad \/ nand'[b] = f[b]
    <2>1. CASE b = at
      <3>1. c + 1 \in 1..Len(buf) /\ at - c + (c + 1) - 1 = at
        <4>1. c < Len(buf) /\ Len(buf) \in Nat
          BY <1>13, <1>15
        <4> QED
          BY <1>4, <4>1
      <3>2. buf[c + 1] = f[at]
        BY <1>13, <1>15, <3>1
      <3>3. N!Restored(at) = f[at]
        BY <1>4, <1>12, <3>1, <3>2 DEF N!Restored, Chunk
      <3> QED
        BY <1>3, <1>4, <1>15, <2>1, <3>3
    <2>2. CASE b # at
      <3>1. b \in 1..(at - 1) /\ b \in N!Block
        BY <1>4, <2>2, CopyConstants
      <3> QED
        BY <1>3, <1>4, <1>15, <2>2, <3>1 DEF Back
    <2> QED
      BY <2>1, <2>2
  <1>16. Restoring'
    <2>1. at' - 1 = at
      BY <1>1, <1>4
    <2>2. lost = FALSE => Back(at - 1)
      BY <1>1 DEF CopyInv, Restoring
    <2>3. ASSUME lost' = FALSE, NEW f \in file', NEW b \in 1..(at' - 1)
          PROVE  b \in bad' \/ nand'[b] = f[b]
      BY <1>1, <1>15, <2>1, <2>2, <2>3
    <2> QED
      BY <1>1, <1>4, <1>9, <2>3 DEF Restoring, Back
  <1> QED
    BY <1>7, <1>10, <1>11, <1>14, <1>16 DEF CopyInv

LEMMA CopyRestored ==
  ASSUME N!NandCopyAssumption, CopyInv, N!RestoreEnd
  PROVE  CopyInv'
  <1>1. /\ step = "read" /\ at > Total /\ step' = "restored" /\ held' = FALSE
        /\ UNCHANGED <<page, nand, bad, file, buf, at, errors, cancelmode, lost, trapped>>
    BY DEF N!RestoreEnd
  <1>2. page = "restoring" /\ at - 1 = Total
    BY <1>1, CopyConstants DEF CopyInv, CopyTypes, Pages
  <1>3. CopyTypes' /\ Pages' /\ Locks' /\ Sizes'
    BY <1>1, <1>2 DEF CopyInv, CopyTypes, Pages, Locks, Sizes, Contents
  <1>4. Dumping' /\ DumpDone' /\ Chunks'
    BY <1>1, <1>2 DEF Dumping, DumpDone, Chunks
  <1>5. Restoring'
    BY <1>1, <1>2 DEF CopyInv, Restoring, Back
  <1> QED
    BY <1>3, <1>4, <1>5 DEF CopyInv

LEMMA CopyPromises ==
  ASSUME N!NandCopyAssumption, CopyInv
  PROVE  N!NandCopied
  <1>1. N!DumpWhole
    <2> SUFFICES ASSUME page = "done", ~lost
                 PROVE  file = {[b \in N!Block |-> IF b \in bad THEN N!Blank ELSE nand[b]]}
      BY DEF N!DumpWhole
    <2> DEFINE read == [b \in N!Block |-> IF b \in bad THEN N!Blank ELSE nand[b]]
    <2>1. step = "none" /\ lost = FALSE
      BY DEF CopyInv, Pages
    <2>2. file # {} /\ file \subseteq Seq(Contents)
          /\ \A f \in file : Len(f) = Total /\ \A b \in N!Block : f[b] = Wanted(b)
      BY <2>1 DEF CopyInv, CopyTypes, Sizes, DumpDone
    <2>3. ASSUME NEW f \in file PROVE f = read
      <3>1. f = [b \in 1..Total |-> f[b]]
        BY <2>2
      <3> QED
        BY <2>2, <3>1, CopyConstants DEF Wanted
    <2> QED
      BY <2>2, <2>3
  <1>2. N!RestoreWhole
    BY CopyConstants DEF CopyInv, Restoring, Back, N!RestoreWhole
  <1>3. N!CancelledGone
    BY DEF CopyInv, Pages, Sizes, N!CancelledGone
  <1>4. N!LetGo
    <2>1. step \in {"read", "write"} => page = "restoring"
      BY DEF CopyInv, Pages
    <2> QED
      BY <2>1 DEF CopyInv, Locks, N!LetGo
  <1> QED
    BY <1>1, <1>2, <1>3, <1>4 DEF N!NandCopied

\* The inductive invariant of the copies: who runs, what is locked, and, until
\* the stick loses a read or a write unseen, that the file and the buffer behind
\* it are the blocks read so far and the flash before the block that is written
\* is the file (vunbricker/nandoperations.c).
THEOREM SpecCopyInv ==
  ASSUME N!NandCopyAssumption
  PROVE  N!Spec => []CopyInv
  <1>1. N!Init => CopyInv
    BY CopyInit
  <1>2. CopyInv /\ [N!Next]_(N!vars) => CopyInv'
    <2> SUFFICES ASSUME CopyInv, [N!Next]_(N!vars) PROVE CopyInv'
      OBVIOUS
    <2>1. CASE \/ N!DumpNand \/ N!OnCancelDump \/ N!DumpEnds \/ N!OnBackFromDump
               \/ N!RestoreNand \/ N!RestoreEnds \/ UNCHANGED N!vars
      BY <2>1, CopyPages
    <2>2. CASE N!DumpCreate
      BY <2>2, CopyCreate
    <2>3. CASE N!DumpBlock
      BY <2>3, CopyBlock
    <2>4. CASE N!DumpWrite
      BY <2>4, CopyWrite
    <2>5. CASE N!RestoreOpen
      BY <2>5, CopyOpen
    <2>6. CASE N!RestoreRead
      BY <2>6, CopyRead
    <2>7. CASE N!RestoreBlock
      BY <2>7, CopyBack
    <2>8. CASE N!RestoreEnd
      BY <2>8, CopyRestored
    <2> QED
      BY <2>1, <2>2, <2>3, <2>4, <2>5, <2>6, <2>7, <2>8 DEF N!Next
  <1> QED
    BY <1>1, <1>2, PTL DEF N!Spec

\* For any flash, buffer and bad blocks: a dump that is shown as completed is
\* the flash, a restore that is shown as complete has put back every block that
\* is not bad, a cancelled dump is never taken for a whole one, and the flash is
\* locked and a suspend refused exactly while blocks are written.  The first two
\* not when a call of the stick, or the write of a good block, failed unseen
\* (dump_thread, restore_thread, OnCancelDump).
THEOREM SpecNandCopied ==
  AllSpec => []NandCopied
  <1>1. AllInit /\ part = "copy" => N!Init
    BY DEF AllInit
  <1>2. part = "copy" /\ [AllNext]_allVars => (part = "copy")' /\ [N!Next]_(N!vars)
    BY DEF AllNext, allVars, copyOwn, N!vars
  <1>3. ~(part = "copy") /\ [AllNext]_allVars => ~(part = "copy")'
    BY DEF AllNext, allVars
  <1>4. CopyInv \/ ~(part = "copy") => NandCopied
    BY FlashAssumption, CopyPromises DEF NandCopied
  <1>5. N!Spec => []CopyInv
    BY FlashAssumption, SpecCopyInv
  <1> QED
    BY <1>1, <1>2, <1>3, <1>4, <1>5, PTL DEF AllSpec, N!Spec

-----------------------------------------------------------------------------
(* A firmware (Install).                                                   *)

BasePaths == W!Paths(W!Base(fw, model))
ExtraPaths == W!Paths(W!Extra(fw, model))
\* The files copied before the k-th of a list
Upto(paths, k) == {paths[i] : i \in 1..(k - 1)}
\* The flash holds these files, unless a short write went unseen
Holds(files) == lost = FALSE => flash.whole = files /\ flash.part = {}

Threads ==
    /\ page \in {"menu", "busy", "done"} /\ fw \in {"ofw", "m33", "tt"}
    /\ page # "busy" => step = W!None
    /\ step # W!None => cancelmode = TRUE
    /\ step = W!None => cancelmode = FALSE
    /\ step[1] \in {"none", "load", "flash1", "assign", "base", "registry", "clear", "set",
                    "extra", "complete", "failed"}
    /\ flash = [whole |-> flash.whole, part |-> flash.part]
\* The files that are there before each step
Formatted == step[1] \in {"flash1", "assign"} => wiped = TRUE /\ Holds({})
BaseCopied ==
    \A k \in Nat : step = <<"base", k>> =>
        wiped = TRUE /\ k \in DOMAIN BasePaths /\ Holds(Upto(BasePaths, k))
BaseThere == step[1] \in {"registry", "clear", "set"} => Holds(W!Range(BasePaths))
ExtraCopied ==
    \A k \in Nat : step = <<"extra", k>> =>
        /\ loader = <<fw, model>> /\ k \in DOMAIN ExtraPaths /\ ahead
        /\ Holds(W!Range(BasePaths) \cup Upto(ExtraPaths, k))
AllThere ==
    step[1] = "complete" \/ page = "done" =>
        loader = <<fw, model>> /\ Holds(W!Range(BasePaths) \cup W!Range(ExtraPaths))

InstallInv ==
    /\ Threads /\ Formatted /\ BaseCopied /\ BaseThere /\ ExtraCopied /\ AllThere
    /\ W!LoaderHasFiles

BaseLists == {"common", "common_testingtool", "common_retail", "slim", "slim_retail",
              "spec_01g", "spec_02g", "spec_03g",
              "spec_01g_retail", "spec_02g_retail", "spec_03g_retail"}
ExtraLists == {"common_m33", "spec_01g_m33", "spec_02g_m33", "spec_03g_m33"}

LEMMA InstallConstants ==
  ASSUME W!InstallAssumption
  PROVE  Files \in Nat /\ Files > 0 /\ Drivers \in Nat
  BY DEF W!InstallAssumption

LEMMA FileDivision ==
  ASSUME W!InstallAssumption, NEW a \in Nat
  PROVE  /\ a = (a \div Files) * Files + (a % Files)
         /\ a \div Files \in Nat /\ a % Files \in 0..(Files - 1)
  <1> Files \in Nat /\ Files > 0
    BY InstallConstants
  <1>1. a = (a \div Files) * Files + (a % Files) /\ a % Files \in 0..(Files - 1)
    OBVIOUS
  <1>2. a \div Files \in Nat
    OBVIOUS
  <1> QED
    BY <1>1, <1>2

\* The n-th path is in one of the lists
LEMMA FileOfList ==
  ASSUME W!InstallAssumption, NEW m \in Nat, NEW n \in 1..(m * Files)
  PROVE  ((n - 1) \div Files) + 1 \in 1..m /\ ((n - 1) % Files) + 1 \in 1..Files
  <1> DEFINE q == (n - 1) \div Files  r == (n - 1) % Files
  <1>1. n - 1 = q * Files + r /\ q \in Nat /\ r \in 0..(Files - 1)
    <2>1. n - 1 \in Nat
      BY InstallConstants
    <2> QED
      BY <2>1, FileDivision
  <1> HIDE DEF q, r
  <1>2. q < m
    <2> SUFFICES ASSUME q >= m PROVE FALSE
      BY <1>1
    <2>1. q * Files >= m * Files /\ n - 1 < m * Files
      BY <1>1, InstallConstants
    <2> QED
      BY <1>1, <2>1, InstallConstants
  <1>3. q + 1 \in 1..m /\ r + 1 \in 1..Files
    BY <1>1, <1>2, InstallConstants
  <1> QED
    BY <1>3 DEF q, r

\* Every path is in one of the lists
LEMMA PathsRight ==
  ASSUME W!InstallAssumption, NEW E, NEW lists \in Seq(E)
  PROVE  /\ Len(W!Paths(lists)) \in Nat /\ DOMAIN W!Paths(lists) = 1..Len(W!Paths(lists))
         /\ \A n \in DOMAIN W!Paths(lists) : W!Paths(lists)[n][1] \in E
         /\ Len(lists) > 0 => 1 \in DOMAIN W!Paths(lists)
         /\ lists = <<>> => DOMAIN W!Paths(lists) = {}
  <1> DEFINE total == Len(lists) * Files
  <1>1. Len(lists) \in Nat /\ total \in Nat /\ (Len(lists) > 0 => total > 0)
        /\ (lists = <<>> => total = 0)
    BY InstallConstants
  <1>2. DOMAIN W!Paths(lists) = 1..total /\ Len(W!Paths(lists)) = total
    BY <1>1 DEF W!Paths
  <1>3. ASSUME NEW n \in 1..total PROVE W!Paths(lists)[n][1] \in E
    <2>1. ((n - 1) \div Files) + 1 \in 1..Len(lists) /\ ((n - 1) % Files) + 1 \in 1..Files
      BY <1>1, FileOfList
    <2>2. W!Paths(lists)[n] =
            W!In(lists[((n - 1) \div Files) + 1])[((n - 1) % Files) + 1]
      BY DEF W!Paths
    <2>3. W!Paths(lists)[n] = <<lists[((n - 1) \div Files) + 1], ((n - 1) % Files) + 1>>
      BY <2>1, <2>2 DEF W!In
    <2>4. lists[((n - 1) \div Files) + 1] \in E
      BY <2>1
    <2> QED
      BY <2>3, <2>4
  <1> HIDE DEF total
  <1> QED
    BY <1>1, <1>2, <1>3

LEMMA OfLists ==
  ASSUME NEW E, NEW m, NEW a \in E, NEW b \in E, NEW c \in E
  PROVE  W!Of(m, <<a, b, c>>) \in Seq(E)
  <1>1. m \in W!Known => m \in {0, 1, 2}
    BY DEF W!Known
  <1>2. m \in W!Known => <<a, b, c>>[m + 1] \in E
    BY <1>1
  <1> QED
    BY <1>2 DEF W!Of

LEMMA IfLists ==
  ASSUME NEW E, NEW a \in E, NEW condition \in BOOLEAN
  PROVE  W!If(condition, a) \in Seq(E)
  BY DEF W!If

LEMMA BaseKnown ==
  ASSUME NEW w, NEW m
  PROVE  W!Base(w, m) \in Seq(BaseLists) /\ Len(W!Base(w, m)) > 0
  <1> DEFINE front == <<"common", IF w = "tt" THEN "common_testingtool" ELSE "common_retail">>
             slim == W!If(m # 0, "slim")
             retail == W!If(m # 0 /\ w # "tt", "slim_retail")
             spec == W!Of(m, <<"spec_01g", "spec_02g", "spec_03g">>)
             last == IF w = "tt" THEN <<>>
                     ELSE W!Of(m, <<"spec_01g_retail", "spec_02g_retail", "spec_03g_retail">>)
  <1>1. front \in Seq(BaseLists) /\ Len(front) > 0
    <2>1. front \in Seq(BaseLists)
      BY DEF BaseLists
    <2>2. Len(front) = 2
      OBVIOUS
    <2> QED
      BY <2>1, <2>2
  <1>2. slim \in Seq(BaseLists) /\ retail \in Seq(BaseLists)
    BY IfLists DEF BaseLists
  <1>3. spec \in Seq(BaseLists)
    BY OfLists DEF BaseLists
  <1>4. last \in Seq(BaseLists)
    <2>1. W!Of(m, <<"spec_01g_retail", "spec_02g_retail", "spec_03g_retail">>) \in Seq(BaseLists)
      BY OfLists DEF BaseLists
    <2>2. <<>> \in Seq(BaseLists)
      OBVIOUS
    <2> QED
      BY <2>1, <2>2
  <1>5. W!Base(w, m) = front \o slim \o retail \o spec \o last
    BY DEF W!Base
  <1> HIDE DEF front, slim, retail, spec, last
  <1> DEFINE two == front \o slim
             three == two \o retail
             four == three \o spec
  <1>6. two \in Seq(BaseLists) /\ Len(two) > 0
    BY <1>1, <1>2
  <1> HIDE DEF two
  <1>7. three \in Seq(BaseLists) /\ Len(three) > 0
    BY <1>2, <1>6
  <1> HIDE DEF three
  <1>8. four \in Seq(BaseLists) /\ Len(four) > 0
    BY <1>3, <1>7
  <1> HIDE DEF four
  <1>9. four \o last \in Seq(BaseLists) /\ Len(four \o last) > 0
    BY <1>4, <1>8
  <1> QED
    BY <1>5, <1>9 DEF two, three, four

LEMMA ExtraKnown ==
  ASSUME NEW w, NEW m
  PROVE  /\ W!Extra(w, m) \in Seq(ExtraLists)
         /\ w # "ofw" => Len(W!Extra(w, m)) > 0
         /\ w = "ofw" => W!Extra(w, m) = <<>>
  <1> DEFINE last == W!Of(m, <<"spec_01g_m33", "spec_02g_m33", "spec_03g_m33">>)
  <1>1. last \in Seq(ExtraLists)
    BY OfLists DEF ExtraLists
  <1>2. <<"common_m33">> \in Seq(ExtraLists) /\ Len(<<"common_m33">>) = 1
    BY DEF ExtraLists
  <1>3. W!Extra(w, m) = IF w = "ofw" THEN <<>> ELSE <<"common_m33">> \o last
    BY DEF W!Extra
  <1> HIDE DEF last
  <1>4. <<"common_m33">> \o last \in Seq(ExtraLists) /\ Len(<<"common_m33">> \o last) > 0
    BY <1>1, <1>2
  <1>5. <<>> \in Seq(ExtraLists)
    OBVIOUS
  <1> QED
    BY <1>3, <1>4, <1>5

\* A file of M33 is none that the loader needs
LEMMA PathsApart ==
  ASSUME W!InstallAssumption, NEW w, NEW m, NEW u, NEW n
  PROVE  W!Range(W!Paths(W!Base(w, m))) \cap W!Range(W!Paths(W!Extra(u, n))) = {}
  <1>1. \A p \in W!Range(W!Paths(W!Base(w, m))) : p[1] \in BaseLists
    BY BaseKnown, PathsRight DEF W!Range
  <1>2. \A p \in W!Range(W!Paths(W!Extra(u, n))) : p[1] \in ExtraLists
    BY ExtraKnown, PathsRight DEF W!Range
  <1>3. BaseLists \cap ExtraLists = {}
    BY DEF BaseLists, ExtraLists
  <1> QED
    BY <1>1, <1>2, <1>3

LEMMA UptoNext ==
  ASSUME NEW paths, NEW k \in Nat, k > 0, Len(paths) \in Nat, DOMAIN paths = 1..Len(paths)
  PROVE  /\ Upto(paths, 1) = {} /\ Upto(paths, k + 1) = Upto(paths, k) \cup {paths[k]}
         /\ k = Len(paths) => Upto(paths, k + 1) = W!Range(paths)
  <1>1. Upto(paths, 1) = {}
    BY DEF Upto
  <1>2. (k + 1) - 1 = k /\ 1..k = 1..(k - 1) \cup {k}
    OBVIOUS
  <1>3. Upto(paths, k + 1) = {paths[i] : i \in 1..k}
    BY <1>2 DEF Upto
  <1>4. Upto(paths, k + 1) = Upto(paths, k) \cup {paths[k]}
    BY <1>2, <1>3 DEF Upto
  <1>5. k = Len(paths) => Upto(paths, k + 1) = W!Range(paths)
    BY <1>3 DEF W!Range
  <1> QED
    BY <1>1, <1>4, <1>5

LEMMA PathFacts ==
  ASSUME W!InstallAssumption
  PROVE  /\ Len(BasePaths) \in Nat /\ DOMAIN BasePaths = 1..Len(BasePaths) /\ 1 \in DOMAIN BasePaths
         /\ Len(ExtraPaths) \in Nat /\ DOMAIN ExtraPaths = 1..Len(ExtraPaths)
         /\ fw # "ofw" => 1 \in DOMAIN ExtraPaths
         /\ fw = "ofw" => W!Range(ExtraPaths) = {}
  <1>1. W!Base(fw, model) \in Seq(BaseLists) /\ Len(W!Base(fw, model)) > 0
    BY BaseKnown
  <1>2. /\ W!Extra(fw, model) \in Seq(ExtraLists)
        /\ fw # "ofw" => Len(W!Extra(fw, model)) > 0
        /\ fw = "ofw" => W!Extra(fw, model) = <<>>
    BY ExtraKnown
  <1>3. Len(BasePaths) \in Nat /\ DOMAIN BasePaths = 1..Len(BasePaths) /\ 1 \in DOMAIN BasePaths
    BY <1>1, PathsRight DEF BasePaths
  <1>4. Len(ExtraPaths) \in Nat /\ DOMAIN ExtraPaths = 1..Len(ExtraPaths)
    BY <1>2, PathsRight DEF ExtraPaths
  <1>5. fw # "ofw" => 1 \in DOMAIN ExtraPaths
    BY <1>2, PathsRight DEF ExtraPaths
  <1>6. fw = "ofw" => DOMAIN ExtraPaths = {}
    BY <1>2, PathsRight DEF ExtraPaths
  <1> QED
    BY <1>3, <1>4, <1>5, <1>6 DEF W!Range

\* A step that copies no file changes what is there at most by taking all away
LEMMA InstallRests ==
  ASSUME model' = model, fw' = fw, flash' = flash, lost' = lost
  PROVE  /\ BasePaths' = BasePaths /\ ExtraPaths' = ExtraPaths
         /\ \A files : Holds(files)' = Holds(files)
  BY DEF BasePaths, ExtraPaths, Holds

LEMMA InstallInit ==
  ASSUME W!InstallAssumption, W!Init
  PROVE  InstallInv
  <1>1. /\ page = "menu" /\ fw = "ofw" /\ step = W!None /\ loader = W!None /\ cancelmode = FALSE
        /\ flash = [whole |-> {}, part |-> {}] /\ step[1] = "none"
    BY DEF W!Init, W!None
  <1>2. Threads
    BY <1>1 DEF Threads
  <1>3. Formatted /\ BaseCopied /\ BaseThere /\ ExtraCopied /\ AllThere
    BY <1>1 DEF Formatted, BaseCopied, BaseThere, ExtraCopied, AllThere
  <1>4. W!LoaderHasFiles
    BY <1>1 DEF W!LoaderHasFiles
  <1> QED
    BY <1>2, <1>3, <1>4 DEF InstallInv

\* Whoever asks, an error and the power: no file is touched and no thread goes on
LEMMA InstallPages ==
  ASSUME W!InstallAssumption, InstallInv,
         (\E w \in {"ofw", "m33", "tt"} : W!Install(w)) \/ W!InstallError \/ W!PowerOff
  PROVE  InstallInv'
  <1>1. UNCHANGED <<model, flash, loader, wiped, lost, ahead>>
    BY DEF W!Install, W!InstallError, W!PowerOff
  <1>2. /\ page' \in {"menu", "busy"} /\ fw' \in {"ofw", "m33", "tt"}
        /\ \/ step' = <<"load", 1>> /\ cancelmode' = TRUE /\ page' = "busy"
           \/ step' = W!None /\ cancelmode' = FALSE
    BY DEF InstallInv, Threads, W!Install, W!InstallError, W!PowerOff
  <1>3. step' \in {<<"load", 1>>, W!None} /\ step'[1] \in {"load", "none"} /\ W!None[1] = "none"
    BY <1>2 DEF W!None
  <1>4. Threads'
    BY <1>1, <1>2, <1>3 DEF InstallInv, Threads
  <1>5. Formatted' /\ BaseCopied' /\ BaseThere' /\ ExtraCopied' /\ AllThere'
    BY <1>2, <1>3 DEF Formatted, BaseCopied, BaseThere, ExtraCopied, AllThere
  <1>6. W!LoaderHasFiles'
    BY <1>1 DEF InstallInv, W!LoaderHasFiles
  <1> QED
    BY <1>4, <1>5, <1>6 DEF InstallInv

\* The thread goes on or ends, and touches no file
LEMMA InstallGoes ==
  ASSUME InstallInv, step # W!None, step' # W!None,
         step'[1] \in {"load", "flash1", "assign", "base", "registry", "clear", "set", "extra",
                       "complete", "failed"},
         UNCHANGED <<page, fw, cancelmode>>,
         flash' = [whole |-> flash'.whole, part |-> flash'.part]
  PROVE  Threads' /\ page = "busy"
  BY DEF InstallInv, Threads

LEMMA InstallFails ==
  ASSUME step' = <<"failed">>, page' # "done"
  PROVE  Formatted' /\ BaseCopied' /\ BaseThere' /\ ExtraCopied' /\ AllThere'
  <1>1. step'[1] = "failed"
    OBVIOUS
  <1> QED
    BY <1>1 DEF Formatted, BaseCopied, BaseThere, ExtraCopied, AllThere

LEMMA InstallLoads ==
  ASSUME W!InstallAssumption, InstallInv, \E d \in W!Driver : W!LoadUpdaterModule(d)
  PROVE  InstallInv'
  <1>1. PICK d \in W!Driver : W!LoadUpdaterModule(d)
    OBVIOUS
  <1>2. /\ step = <<"load", d>> /\ step' \in {<<"load", d + 1>>, <<"failed">>}
        /\ UNCHANGED <<model, page, fw, flash, loader, cancelmode, wiped, lost, ahead>>
    BY <1>1 DEF W!LoadUpdaterModule
  <1>3. step # W!None /\ step' # W!None /\ step'[1] \in {"load", "failed"}
    BY <1>2 DEF W!None
  <1>4. Threads' /\ page = "busy"
    BY <1>2, <1>3, InstallGoes DEF InstallInv, Threads
  <1>5. Formatted' /\ BaseCopied' /\ BaseThere' /\ ExtraCopied' /\ AllThere'
    BY <1>2, <1>3, <1>4 DEF Formatted, BaseCopied, BaseThere, ExtraCopied, AllThere
  <1>6. W!LoaderHasFiles'
    BY <1>2 DEF InstallInv, W!LoaderHasFiles
  <1> QED
    BY <1>4, <1>5, <1>6 DEF InstallInv

LEMMA InstallFormats ==
  ASSUME W!InstallAssumption, InstallInv, W!FormatFlash0
  PROVE  InstallInv'
  <1>1. /\ step = <<"load", Drivers + 1>> /\ step' \in {<<"flash1">>, <<"failed">>}
        /\ UNCHANGED <<model, page, fw, loader, cancelmode, ahead>>
        /\ \/ flash' = [whole |-> {}, part |-> {}] /\ wiped' = TRUE /\ lost' = FALSE
           \/ step' = <<"failed">> /\ UNCHANGED <<flash, wiped, lost>>
    BY DEF W!FormatFlash0, W!CallOf, W!Call
  <1>2. step # W!None /\ step' # W!None /\ step'[1] \in {"flash1", "failed"}
    BY <1>1 DEF W!None
  <1>3. flash' = [whole |-> flash'.whole, part |-> flash'.part]
    BY <1>1 DEF InstallInv, Threads
  <1>4. Threads' /\ page = "busy"
    BY <1>1, <1>2, <1>3, InstallGoes
  <1>5. W!LoaderHasFiles'
    BY <1>1 DEF InstallInv, W!LoaderHasFiles
  <1>6. Formatted'
    BY <1>1, <1>2 DEF Formatted, Holds
  <1>7. BaseCopied' /\ BaseThere' /\ ExtraCopied' /\ AllThere'
    BY <1>1, <1>2, <1>4 DEF BaseCopied, BaseThere, ExtraCopied, AllThere
  <1> QED
    BY <1>4, <1>5, <1>6, <1>7 DEF InstallInv

\* The calls between the files: what is there stays
LEMMA InstallCalls ==
  ASSUME W!InstallAssumption, InstallInv,
         W!FormatFlash1 \/ W!AssignFlashes \/ W!RestoreRegistry \/ W!ClearIpl
  PROVE  InstallInv'
  <1>1. /\ step \in {<<"flash1">>, <<"assign">>, <<"registry">>, <<"clear">>}
        /\ UNCHANGED <<model, page, fw, flash, cancelmode, wiped, lost, ahead>>
        /\ loader' \in {loader, W!None}
    BY DEF W!FormatFlash1, W!AssignFlashes, W!RestoreRegistry, W!ClearIpl
  <1>2. \/ step' = <<"failed">>
        \/ step[1] = "flash1" /\ step' = <<"assign">>
        \/ step[1] = "assign" /\ step' = <<"base", 1>>
        \/ step[1] = "registry" /\ step' = <<"clear">>
        \/ step[1] = "clear" /\ step' = <<"set">>
    BY DEF W!FormatFlash1, W!AssignFlashes, W!RestoreRegistry, W!ClearIpl, W!CallOf, W!Call
  <1>3. step # W!None /\ step' # W!None
        /\ step'[1] \in {"assign", "base", "clear", "set", "failed"}
    BY <1>1, <1>2 DEF W!None
  <1>4. Threads' /\ page = "busy"
    BY <1>1, <1>3, InstallGoes DEF InstallInv, Threads
  <1>5. W!LoaderHasFiles'
    BY <1>1 DEF InstallInv, W!LoaderHasFiles
  <1>6. BasePaths' = BasePaths /\ \A files : Holds(files)' = Holds(files)
    BY <1>1, InstallRests
  <1>7. Upto(BasePaths, 1) = {} /\ 1 \in DOMAIN BasePaths
    BY UptoNext, PathFacts
  <1>8. CASE step' = <<"failed">>
    BY <1>1, <1>4, <1>5, <1>8, InstallFails DEF InstallInv
  <1>9. CASE step[1] = "flash1" /\ step' = <<"assign">>
    <2>1. Formatted'
      BY <1>1, <1>6, <1>9 DEF InstallInv, Formatted
    <2>2. BaseCopied' /\ BaseThere' /\ ExtraCopied' /\ AllThere'
      BY <1>1, <1>4, <1>9 DEF BaseCopied, BaseThere, ExtraCopied, AllThere
    <2> QED
      BY <1>4, <1>5, <2>1, <2>2 DEF InstallInv
  <1>10. CASE step[1] = "assign" /\ step' = <<"base", 1>>
    <2>1. wiped = TRUE /\ Holds({})
      BY <1>10 DEF InstallInv, Formatted
    <2>2. \A k \in Nat : step' = <<"base", k>> => k = 1
      BY <1>10
    <2>3. BaseCopied'
      BY <1>1, <1>6, <1>7, <2>1, <2>2 DEF BaseCopied
    <2>4. Formatted' /\ BaseThere' /\ ExtraCopied' /\ AllThere'
      BY <1>1, <1>4, <1>10 DEF Formatted, BaseThere, ExtraCopied, AllThere
    <2> QED
      BY <1>4, <1>5, <2>3, <2>4 DEF InstallInv
  <1>11. CASE step[1] \in {"registry", "clear"} /\ step'[1] \in {"clear", "set"}
    <2>1. BaseThere'
      BY <1>1, <1>6, <1>11 DEF InstallInv, BaseThere
    <2>2. Formatted' /\ BaseCopied' /\ ExtraCopied' /\ AllThere'
      BY <1>1, <1>4, <1>11 DEF Formatted, BaseCopied, ExtraCopied, AllThere
    <2> QED
      BY <1>4, <1>5, <2>1, <2>2 DEF InstallInv
  <1>12. <<"clear">>[1] = "clear" /\ <<"set">>[1] = "set"
    OBVIOUS
  <1> QED
    BY <1>2, <1>8, <1>9, <1>10, <1>11, <1>12

\* The loader is set when its files are there, or there is none
LEMMA InstallSets ==
  ASSUME W!InstallAssumption, InstallInv, W!SetIpl
  PROVE  InstallInv'
  <1>1. /\ step = <<"set">> /\ step[1] = "set"
        /\ UNCHANGED <<model, page, fw, drivers, flash, cancelmode, lost>>
        /\ \/ /\ step' = IF fw = "ofw" THEN <<"complete">> ELSE <<"extra", 1>>
              /\ loader' = <<fw, model>> /\ wiped' = FALSE
           \/ step' = <<"failed">> /\ loader' = W!None /\ wiped' = wiped
    BY DEF W!SetIpl
  <1>2. fw # "ofw" /\ step' # <<"failed">> => ahead'
    BY Zenon DEF W!SetIpl
  <1>3. step # W!None /\ step' # W!None /\ step'[1] \in {"complete", "extra", "failed"}
    BY <1>1 DEF W!None
  <1>4. Threads' /\ page = "busy"
    BY <1>1, <1>3, InstallGoes DEF InstallInv, Threads
  <1>5. Holds(W!Range(BasePaths)) /\ BasePaths' = BasePaths /\ ExtraPaths' = ExtraPaths
        /\ \A files : Holds(files)' = Holds(files)
    BY <1>1, InstallRests DEF InstallInv, BaseThere
  <1>6. CASE step' = <<"failed">> /\ loader' = W!None
    <2>1. W!LoaderHasFiles'
      BY <1>6 DEF W!LoaderHasFiles
    <2> QED
      BY <1>1, <1>4, <1>6, <2>1, InstallFails DEF InstallInv
  <1>7. CASE /\ step' = IF fw = "ofw" THEN <<"complete">> ELSE <<"extra", 1>>
             /\ loader' = <<fw, model>>
    <2>1. W!LoaderHasFiles'
      <3>1. lost = FALSE => flash.whole = W!Range(BasePaths)
        BY <1>5 DEF Holds
      <3>2. W!Needed(loader'[1], loader'[2]) = W!Range(BasePaths)
        <4>1. loader'[1] = fw /\ loader'[2] = model
          BY <1>7
        <4> QED
          BY <4>1 DEF W!Needed, BasePaths
      <3>3. ~ahead' => W!Range(W!Paths(W!Extra(loader'[1], loader'[2]))) = {}
        <4>1. loader'[1] = fw /\ loader'[2] = model
          BY <1>7
        <4>2. fw # "ofw" => ahead'
          BY <1>2, <1>7
        <4>3. ~ahead' => W!Range(ExtraPaths) = {}
          BY <4>2, PathFacts
        <4> QED
          BY <4>1, <4>3 DEF ExtraPaths
      <3> QED
        BY <1>1, <3>1, <3>2, <3>3 DEF W!LoaderHasFiles, W!Needed
    <2>2. Formatted' /\ BaseCopied' /\ BaseThere'
      BY <1>7 DEF Formatted, BaseCopied, BaseThere
    <2>3. CASE fw = "ofw"
      <3>1. step' = <<"complete">>
        BY <1>7, <2>3
      <3>2. W!Range(BasePaths) \cup W!Range(ExtraPaths) = W!Range(BasePaths)
        BY <2>3, PathFacts
      <3>3. AllThere'
        BY <1>1, <1>5, <1>7, <3>2 DEF AllThere
      <3>4. ExtraCopied'
        BY <3>1 DEF ExtraCopied
      <3> QED
        BY <1>4, <2>1, <2>2, <3>3, <3>4 DEF InstallInv
    <2>4. CASE fw # "ofw"
      <3>1. step' = <<"extra", 1>> /\ 1 \in DOMAIN ExtraPaths
        BY <1>7, <2>4, PathFacts
      <3>2. Upto(ExtraPaths, 1) = {}
        BY UptoNext, PathFacts
      <3>3. \A k \in Nat : step' = <<"extra", k>> => k = 1
        BY <3>1
      <3>4. W!Range(BasePaths) \cup Upto(ExtraPaths, 1) = W!Range(BasePaths)
        BY <3>2
      <3>5. ExtraCopied'
        BY <1>1, <1>5, <1>7, <1>2, <2>4, <3>1, <3>3, <3>4 DEF ExtraCopied
      <3>6. AllThere'
        BY <1>1, <1>4, <3>1 DEF AllThere
      <3> QED
        BY <1>4, <2>1, <2>2, <3>5, <3>6 DEF InstallInv
    <2> QED
      BY <2>3, <2>4
  <1> QED
    BY <1>1, <1>6, <1>7

\* A file is copied: whole, or a short write goes unseen; or the thread ends
LEMMA FileCopied ==
  ASSUME NEW phase, NEW paths, NEW next, NEW files, NEW k \in DOMAIN paths,
         W!CopyFile(phase, paths, next), step = <<phase, k>>, Holds(files)
  PROVE  /\ UNCHANGED <<model, page, fw, drivers, loader, cancelmode, wiped>>
         /\ flash' = [whole |-> flash'.whole, part |-> flash'.part]
            \/ flash' = flash
         /\ \/ /\ lost' = FALSE => flash'.whole = files \cup {paths[k]} /\ flash'.part = {}
               /\ step' = IF k = Len(paths) THEN next ELSE <<phase, k + 1>>
               /\ lost' = FALSE => lost = FALSE
               /\ lost' = FALSE => flash'.whole = flash.whole \cup {paths[k]}
            \/ /\ step' = <<"failed">> /\ lost' = lost
               /\ flash'.whole \in {flash.whole, flash.whole \ {paths[k]}}
  <1>1. PICK j \in DOMAIN paths :
        /\ step = <<phase, j>>
        /\ \/ /\ \/ flash' = W!Copied(paths[j]) /\ UNCHANGED lost
                 \/ flash' = W!Spoiled(paths[j]) /\ lost' = TRUE
              /\ step' = IF j = Len(paths) THEN next ELSE <<phase, j + 1>>
           \/ /\ flash' \in {flash, W!Spoiled(paths[j])} /\ UNCHANGED lost
              /\ step' = <<"failed">>
        /\ UNCHANGED <<model, page, fw, drivers, loader, cancelmode, wiped>>
    BY DEF W!CopyFile
  <1>2. j = k
    BY <1>1
  <1>3. /\ W!Copied(paths[k]) = [whole |-> flash.whole \cup {paths[k]},
                                 part |-> flash.part \ {paths[k]}]
        /\ W!Spoiled(paths[k]) = [whole |-> flash.whole \ {paths[k]},
                                  part |-> flash.part \cup {paths[k]}]
    BY DEF W!Copied, W!Spoiled
  <1>4. flash' = [whole |-> flash'.whole, part |-> flash'.part] \/ flash' = flash
    BY <1>1, <1>2, <1>3
  <1>5. CASE /\ flash' = W!Copied(paths[k]) /\ lost' = lost
             /\ step' = IF k = Len(paths) THEN next ELSE <<phase, k + 1>>
    <2>1. flash'.whole = flash.whole \cup {paths[k]} /\ flash'.part = flash.part \ {paths[k]}
      BY <1>3, <1>5
    <2>2. lost' = FALSE => flash'.whole = files \cup {paths[k]} /\ flash'.part = {}
      BY <1>5, <2>1 DEF Holds
    <2> QED
      BY <1>1, <1>4, <1>5, <2>1, <2>2
  <1>6. CASE /\ lost' = TRUE
             /\ step' = IF k = Len(paths) THEN next ELSE <<phase, k + 1>>
    <2> QED
      BY <1>1, <1>4, <1>6
  <1>7. CASE /\ flash' \in {flash, W!Spoiled(paths[k])} /\ lost' = lost
             /\ step' = <<"failed">>
    <2>1. flash'.whole \in {flash.whole, flash.whole \ {paths[k]}}
      BY <1>3, <1>7
    <2> QED
      BY <1>1, <1>4, <1>7, <2>1
  <1> QED
    BY <1>1, <1>2, <1>5, <1>6, <1>7

LEMMA InstallBase ==
  ASSUME W!InstallAssumption, InstallInv, W!CopyBase
  PROVE  InstallInv'
  <1>1. PICK k \in DOMAIN BasePaths : step = <<"base", k>>
    BY DEF W!CopyBase, W!CopyFile, BasePaths
  <1>2. /\ Len(BasePaths) \in Nat /\ DOMAIN BasePaths = 1..Len(BasePaths) /\ k \in Nat /\ k > 0
    BY <1>1, PathFacts
  <1>3. wiped = TRUE /\ Holds(Upto(BasePaths, k)) /\ step[1] = "base"
    BY <1>1, <1>2 DEF InstallInv, BaseCopied
  <1>4. W!CopyFile("base", BasePaths, <<"registry">>)
    BY DEF W!CopyBase, BasePaths
  <1>5. /\ UNCHANGED <<model, page, fw, loader, cancelmode, wiped>>
        /\ flash' = [whole |-> flash'.whole, part |-> flash'.part] \/ flash' = flash
        /\ \/ /\ lost' = FALSE =>
                    flash'.whole = Upto(BasePaths, k) \cup {BasePaths[k]} /\ flash'.part = {}
              /\ step' = IF k = Len(BasePaths) THEN <<"registry">> ELSE <<"base", k + 1>>
           \/ step' = <<"failed">>
    BY <1>1, <1>3, <1>4, FileCopied
  <1>6. BasePaths' = BasePaths
    BY <1>5 DEF BasePaths
  <1>7. step # W!None /\ step' # W!None /\ step'[1] \in {"registry", "base", "failed"}
    BY <1>1, <1>5 DEF W!None
  <1>8. flash' = [whole |-> flash'.whole, part |-> flash'.part]
    BY <1>5 DEF InstallInv, Threads
  <1>9. Threads' /\ page = "busy"
    BY <1>5, <1>7, <1>8, InstallGoes
  <1>10. W!LoaderHasFiles'
    BY <1>3, <1>5 DEF W!LoaderHasFiles
  <1>11. CASE step' = <<"failed">>
    BY <1>5, <1>9, <1>10, <1>11, InstallFails DEF InstallInv
  <1>12. Upto(BasePaths, k) \cup {BasePaths[k]} = Upto(BasePaths, k + 1)
         /\ (k = Len(BasePaths) => Upto(BasePaths, k + 1) = W!Range(BasePaths))
    BY <1>2, UptoNext
  <1>13. CASE /\ lost' = FALSE =>
                    flash'.whole = Upto(BasePaths, k) \cup {BasePaths[k]} /\ flash'.part = {}
              /\ step' = IF k = Len(BasePaths) THEN <<"registry">> ELSE <<"base", k + 1>>
    <2>1. CASE k = Len(BasePaths)
      <3>1. lost' = FALSE => flash'.whole = W!Range(BasePaths) /\ flash'.part = {}
        BY <1>12, <1>13, <2>1 DEF Holds
      <3>2. BaseThere'
        BY <1>6, <3>1 DEF BaseThere, Holds
      <3>3. Formatted' /\ BaseCopied' /\ ExtraCopied' /\ AllThere'
        BY <1>5, <1>9, <1>13, <2>1 DEF Formatted, BaseCopied, ExtraCopied, AllThere
      <3> QED
        BY <1>9, <1>10, <3>2, <3>3 DEF InstallInv
    <2>2. CASE k # Len(BasePaths)
      <3>1. step' = <<"base", k + 1>> /\ k + 1 \in DOMAIN BasePaths
        BY <1>1, <1>2, <1>13, <2>2
      <3>2. lost' = FALSE => flash'.whole = Upto(BasePaths, k + 1) /\ flash'.part = {}
        BY <1>12, <1>13 DEF Holds
      <3>3. \A n \in Nat : step' = <<"base", n>> => n = k + 1
        BY <3>1
      <3>4. BaseCopied'
        BY <1>3, <1>5, <1>6, <3>1, <3>2, <3>3 DEF BaseCopied, Holds
      <3>5. Formatted' /\ BaseThere' /\ ExtraCopied' /\ AllThere'
        BY <1>5, <1>9, <3>1 DEF Formatted, BaseThere, ExtraCopied, AllThere
      <3> QED
        BY <1>9, <1>10, <3>4, <3>5 DEF InstallInv
    <2> QED
      BY <2>1, <2>2
  <1> QED
    BY <1>5, <1>11, <1>13

\* The files of M33 leave those that the loader needs
LEMMA InstallExtra ==
  ASSUME W!InstallAssumption, InstallInv, W!CopyExtra
  PROVE  InstallInv'
  <1>1. PICK k \in DOMAIN ExtraPaths : step = <<"extra", k>>
    BY DEF W!CopyExtra, W!CopyFile, ExtraPaths
  <1>2. /\ Len(ExtraPaths) \in Nat /\ DOMAIN ExtraPaths = 1..Len(ExtraPaths)
        /\ k \in Nat /\ k > 0
    BY <1>1, PathFacts
  <1> DEFINE there == W!Range(BasePaths) \cup Upto(ExtraPaths, k)
  <1>3. loader = <<fw, model>> /\ Holds(there) /\ step[1] = "extra" /\ ahead
    BY <1>1, <1>2 DEF InstallInv, ExtraCopied
  <1>4. W!CopyFile("extra", ExtraPaths, <<"complete">>)
    BY DEF W!CopyExtra, ExtraPaths
  <1> HIDE DEF there
  <1>5. /\ UNCHANGED <<model, page, fw, loader, cancelmode, wiped>>
        /\ flash' = [whole |-> flash'.whole, part |-> flash'.part] \/ flash' = flash
        /\ \/ /\ lost' = FALSE => flash'.whole = there \cup {ExtraPaths[k]} /\ flash'.part = {}
              /\ step' = IF k = Len(ExtraPaths) THEN <<"complete">> ELSE <<"extra", k + 1>>
              /\ lost' = FALSE => lost = FALSE
              /\ lost' = FALSE => flash'.whole = flash.whole \cup {ExtraPaths[k]}
           \/ /\ step' = <<"failed">> /\ lost' = lost
              /\ flash'.whole \in {flash.whole, flash.whole \ {ExtraPaths[k]}}
    BY <1>1, <1>3, <1>4, FileCopied
  <1>6. BasePaths' = BasePaths /\ ExtraPaths' = ExtraPaths
    BY <1>5 DEF BasePaths, ExtraPaths
  <1>7. step # W!None /\ step' # W!None /\ step'[1] \in {"complete", "extra", "failed"}
    BY <1>1, <1>5 DEF W!None
  <1>8. flash' = [whole |-> flash'.whole, part |-> flash'.part]
    BY <1>5 DEF InstallInv, Threads
  <1>9. Threads' /\ page = "busy"
    BY <1>5, <1>7, <1>8, InstallGoes
  <1>10. /\ there \cup {ExtraPaths[k]} = W!Range(BasePaths) \cup Upto(ExtraPaths, k + 1)
         /\ k = Len(ExtraPaths) => Upto(ExtraPaths, k + 1) = W!Range(ExtraPaths)
    BY <1>2, UptoNext DEF there
  <1>11. step' # <<"complete">> => ahead'
    BY Zenon DEF W!CopyExtra
  <1>12. W!LoaderHasFiles'
    <2>1. W!Needed(loader[1], loader[2]) = W!Range(BasePaths)
      <3>1. loader[1] = fw /\ loader[2] = model
        BY <1>3
      <3> QED
        BY <3>1 DEF W!Needed, BasePaths
    <2>2. ExtraPaths[k] \notin W!Range(BasePaths)
      <3>1. ExtraPaths[k] \in W!Range(ExtraPaths)
        BY <1>1 DEF W!Range
      <3> QED
        BY <3>1, PathsApart DEF BasePaths, ExtraPaths
    <2>3. W!Needed(loader'[1], loader'[2]) = W!Range(BasePaths)
      BY <1>5, <2>1 DEF W!Needed
    <2>4. loader' # W!None /\ ~wiped' /\ ~lost' => W!Range(BasePaths) \subseteq flash'.whole
      <3>1. lost' = FALSE => lost = FALSE
        BY <1>5
      <3>2. lost = FALSE => W!Range(BasePaths) \subseteq flash.whole
        BY <1>3 DEF Holds, there
      <3>3. lost' = FALSE => W!Range(BasePaths) \subseteq flash'.whole
        BY <1>5, <2>2, <3>1, <3>2
      <3> QED
        BY <3>3
    <2>5. ~ahead' /\ lost' = FALSE => W!Range(ExtraPaths) \subseteq flash'.whole
      <3>1. ~ahead' => step' = <<"complete">> /\ <<"complete">> # <<"extra", k + 1>>
        BY <1>11
      <3>2. ~ahead' => k = Len(ExtraPaths) /\ step' # <<"failed">>
        BY <1>5, <3>1
      <3> QED
        BY <1>5, <1>10, <3>1, <3>2
    <2>6. W!Range(W!Paths(W!Extra(loader'[1], loader'[2]))) = W!Range(ExtraPaths)
      BY <1>3, <1>5 DEF ExtraPaths
    <2> QED
      BY <2>3, <2>4, <2>5, <2>6 DEF W!LoaderHasFiles
  <1>13. CASE step' = <<"failed">>
    BY <1>5, <1>9, <1>12, <1>13, InstallFails DEF InstallInv
  <1>14. CASE /\ lost' = FALSE => flash'.whole = there \cup {ExtraPaths[k]} /\ flash'.part = {}
              /\ step' = IF k = Len(ExtraPaths) THEN <<"complete">> ELSE <<"extra", k + 1>>
    <2>1. lost' = FALSE =>
            flash'.whole = W!Range(BasePaths) \cup Upto(ExtraPaths, k + 1) /\ flash'.part = {}
      BY <1>10, <1>14 DEF Holds
    <2>2. CASE k = Len(ExtraPaths)
      <3>1. AllThere'
        BY <1>3, <1>5, <1>6, <1>10, <2>1, <2>2 DEF AllThere, Holds
      <3>2. Formatted' /\ BaseCopied' /\ BaseThere' /\ ExtraCopied'
        BY <1>14, <2>2 DEF Formatted, BaseCopied, BaseThere, ExtraCopied
      <3> QED
        BY <1>9, <1>12, <3>1, <3>2 DEF InstallInv
    <2>3. CASE k # Len(ExtraPaths)
      <3>1. step' = <<"extra", k + 1>> /\ k + 1 \in DOMAIN ExtraPaths
        BY <1>1, <1>2, <1>14, <2>3
      <3>2. \A n \in Nat : step' = <<"extra", n>> => n = k + 1
        BY <3>1
      <3>3. ExtraCopied'
        BY <1>3, <1>5, <1>6, <1>11, <2>1, <3>1, <3>2 DEF ExtraCopied, Holds
      <3>4. Formatted' /\ BaseCopied' /\ BaseThere' /\ AllThere'
        BY <1>5, <1>9, <3>1 DEF Formatted, BaseCopied, BaseThere, AllThere
      <3> QED
        BY <1>9, <1>12, <3>3, <3>4 DEF InstallInv
    <2> QED
      BY <2>2, <2>3
  <1> QED
    BY <1>5, <1>13, <1>14

LEMMA InstallEnds ==
  ASSUME W!InstallAssumption, InstallInv, W!InstallComplete \/ UNCHANGED W!vars
  PROVE  InstallInv'
  <1>1. UNCHANGED <<model, fw, flash, loader, wiped, lost, ahead>>
    BY DEF W!InstallComplete, W!vars
  <1>2. BasePaths' = BasePaths /\ ExtraPaths' = ExtraPaths
        /\ \A files : Holds(files)' = Holds(files)
    BY <1>1, InstallRests
  <1>3. W!LoaderHasFiles'
    BY <1>1 DEF InstallInv, W!LoaderHasFiles
  <1>4. CASE W!InstallComplete
    <2>1. /\ step = <<"complete">> /\ step[1] = "complete" /\ page' = "done"
          /\ step' = W!None /\ step'[1] = "none" /\ cancelmode' = FALSE
      BY <1>4 DEF W!InstallComplete, W!None
    <2>2. Threads'
      BY <1>1, <2>1 DEF InstallInv, Threads
    <2>3. AllThere'
      BY <1>1, <1>2, <2>1 DEF InstallInv, AllThere
    <2>4. Formatted' /\ BaseCopied' /\ BaseThere' /\ ExtraCopied'
      BY <2>1 DEF W!None, Formatted, BaseCopied, BaseThere, ExtraCopied
    <2> QED
      BY <1>3, <2>2, <2>3, <2>4 DEF InstallInv
  <1>5. CASE UNCHANGED W!vars
    <2>1. UNCHANGED <<page, step, cancelmode>>
      BY <1>5 DEF W!vars
    <2>2. Threads'
      BY <1>1, <2>1 DEF InstallInv, Threads
    <2>3. Formatted' /\ BaseCopied' /\ BaseThere' /\ ExtraCopied' /\ AllThere'
      BY <1>1, <1>2, <2>1
        DEF InstallInv, Formatted, BaseCopied, BaseThere, ExtraCopied, AllThere
    <2> QED
      BY <1>3, <2>2, <2>3 DEF InstallInv
  <1> QED
    BY <1>4, <1>5

LEMMA InstallPromises ==
  ASSUME InstallInv
  PROVE  W!Installed
  <1>1. W!Complete
    BY DEF InstallInv, AllThere, Holds, W!Complete, W!Needed, BasePaths, ExtraPaths
  <1>2. W!SuspendRefused
    BY DEF InstallInv, Threads, W!SuspendRefused
  <1> QED
    BY <1>1, <1>2 DEF InstallInv, W!Installed

\* The inductive invariant of the installer: who runs, and what is on the flash
\* before each step of the thread, until a short write goes unseen
\* (vunbricker/install.c:865-1161).
THEOREM SpecInstallInv ==
  ASSUME W!InstallAssumption
  PROVE  W!Spec => []InstallInv
  <1>1. W!Init => InstallInv
    BY InstallInit
  <1>2. InstallInv /\ [W!Next]_(W!vars) => InstallInv'
    <2> SUFFICES ASSUME InstallInv, [W!Next]_(W!vars) PROVE InstallInv'
      OBVIOUS
    <2>1. CASE (\E w \in {"ofw", "m33", "tt"} : W!Install(w)) \/ W!InstallError \/ W!PowerOff
      BY <2>1, InstallPages
    <2>2. CASE \E d \in W!Driver : W!LoadUpdaterModule(d)
      BY <2>2, InstallLoads
    <2>3. CASE W!FormatFlash0
      BY <2>3, InstallFormats
    <2>4. CASE W!FormatFlash1 \/ W!AssignFlashes \/ W!RestoreRegistry \/ W!ClearIpl
      BY <2>4, InstallCalls
    <2>5. CASE W!SetIpl
      BY <2>5, InstallSets
    <2>6. CASE W!CopyBase
      BY <2>6, InstallBase
    <2>7. CASE W!CopyExtra
      BY <2>7, InstallExtra
    <2>8. CASE W!InstallComplete \/ UNCHANGED W!vars
      BY <2>8, InstallEnds
    <2> QED
      BY <2>1, <2>2, <2>3, <2>4, <2>5, <2>6, <2>7, <2>8 DEF W!Next
  <1> QED
    BY <1>1, <1>2, PTL DEF W!Spec

\* For any models, lists of files and drivers, whatever call fails and whenever
\* the power goes: an install shown as complete has left every file of its lists
\* whole and its loader; a loader that was set has the files of its firmware beside
\* it and, unless an error or the power ended the install ahead of them, those of
\* M33 that it opens; and a suspend is refused exactly while the flash is between
\* two firmwares.  Not when a short write went unseen (install_thread).
THEOREM SpecInstalled ==
  AllSpec => []Installed
  <1>1. AllInit /\ part = "install" => W!Init
    BY DEF AllInit
  <1>2. part = "install" /\ [AllNext]_allVars => (part = "install")' /\ [W!Next]_(W!vars)
    BY DEF AllNext, allVars, installOwn, W!vars
  <1>3. ~(part = "install") /\ [AllNext]_allVars => ~(part = "install")'
    BY DEF AllNext, allVars
  <1>4. InstallInv \/ ~(part = "install") => Installed
    BY FlashAssumption, InstallPromises DEF Installed
  <1>5. W!Spec => []InstallInv
    BY FlashAssumption, SpecInstallInv
  <1> QED
    BY <1>1, <1>2, <1>3, <1>4, <1>5, PTL DEF AllSpec, W!Spec

-----------------------------------------------------------------------------
(* The board, the formatting and the blocks (Dcman).                       *)

Calls == {"out", "create", "wait", "ended", "return"}

\* A caller that nobody met is alone inside, and the result there is its own; the
\* thread that formats is that of a caller who has not forgotten it
DcmanInv ==
    /\ D!BoardRight /\ D!ReadRaw
    /\ call \in [Callers -> Calls]
    /\ outcome \in [Callers -> {0, -1}] /\ answer \in [Callers -> {0, -1}]
    /\ format_res \in {0, -1} /\ met \subseteq Callers /\ unmade \subseteq Callers
    /\ scramble \in [{"lowio", "updater"} -> {0, "own"}]
    /\ updater \in {"no", "loaded", "started"}
    /\ format_thid \in Callers \cup {Nobody}
    /\ format_thid \in Callers => format_thid = Nobody \/ call[format_thid] \in {"wait", "ended"}
    /\ \A c \in Callers \ met : call[c] # "out" => \A d \in Callers \ {c} : call[d] = "out"
    /\ \A c \in Callers \ (met \cup unmade) :
          /\ call[c] = "out" => answer[c] = outcome[c]
          /\ call[c] \in {"ended", "return"} => format_res = outcome[c]

\* A row that fits what the chips of a board answer, or do not, is that of the board
LEMMA RowOfBoard ==
  ASSUME NEW r \in D!Rows, NEW q \in D!Rows, q[1] = r[1],
         r[2] = D!Other \/ q[2] \in {D!Other, D!Unread, r[2]},
         r[3] = D!Other \/ q[3] \in {D!Other, D!Unread, r[3]}
  PROVE  q = r
  BY DEF D!Rows, D!Other, D!Unread

LEMMA BoardFound ==
  ASSUME NEW r \in D!Rows, NEW b \in D!Answers(r, 2), NEW p \in D!Answers(r, 3)
  PROVE  D!GetHardwareInfo(r[1], b, p) \in {r[4], "unknown"}
  <1> DEFINE fits == D!Matching(r[1], b, p)
  <1>1. \A q \in fits : q = r
    <2> SUFFICES ASSUME NEW q \in fits PROVE q = r
      OBVIOUS
    <2>1. q \in D!Rows /\ q[1] = r[1] /\ q[2] \in {D!Other, b} /\ q[3] \in {D!Other, p}
      BY DEF D!Matching
    <2>2. r[2] = D!Other \/ b \in {D!Unread, r[2]}
      BY DEF D!Answers
    <2>3. r[3] = D!Other \/ p \in {D!Unread, r[3]}
      BY DEF D!Answers
    <2> QED
      BY <2>1, <2>2, <2>3, RowOfBoard
  <1>2. D!GetHardwareInfo(r[1], b, p) =
          IF fits = {} THEN "unknown" ELSE (CHOOSE q \in fits : TRUE)[4]
    BY DEF D!GetHardwareInfo
  <1> HIDE DEF fits
  <1>3. fits # {} => (CHOOSE q \in fits : TRUE) \in fits
    OBVIOUS
  <1> QED
    BY <1>1, <1>2, <1>3

LEMMA DcmanInit == D!Init => DcmanInv
  <1> SUFFICES ASSUME D!Init PROVE DcmanInv
    OBVIOUS
  <1>1. D!BoardRight
    BY BoardFound DEF D!Init, D!BoardRight
  <1>2. scramble \in [{"lowio", "updater"} -> {0, "own"}]
    BY DEF D!Init
  <1> QED
    BY <1>1, <1>2 DEF D!Init, DcmanInv, D!ReadRaw, Calls

\* The steps of a caller
LEMMA DcmanCalls ==
  ASSUME DcmanInv, NEW c \in Callers, NEW fails \in BOOLEAN, NEW n \in {0, -1},
         D!Ask(c) \/ D!CreateThread(c, fails) \/ D!FormatThread(c, n) \/ D!Forget(c)
           \/ D!Return(c)
  PROVE  DcmanInv'
  <1>1. /\ D!BoardRight' /\ D!ReadRaw' /\ scramble' = scramble /\ updater' = updater
    BY DEF DcmanInv, D!BoardRight, D!ReadRaw, D!Ask, D!CreateThread, D!FormatThread, D!Forget,
           D!Return, D!Kept, D!nandVars
  <1>2. CASE D!Ask(c)
    BY <1>1, <1>2 DEF DcmanInv, D!Ask, D!Others, Calls
  <1>3. CASE D!CreateThread(c, fails)
    BY <1>1, <1>3 DEF DcmanInv, D!CreateThread, D!Go, Calls
  <1>4. CASE D!FormatThread(c, n)
    BY <1>1, <1>4 DEF DcmanInv, D!FormatThread, D!Go, Calls
  <1>5. CASE D!Forget(c)
    BY <1>1, <1>5 DEF DcmanInv, D!Forget, D!Go, Calls
  <1>6. CASE D!Return(c)
    BY <1>1, <1>6 DEF DcmanInv, D!Return, D!Go, Calls
  <1> QED
    BY <1>2, <1>3, <1>4, <1>5, <1>6

\* The steps that read a block, and what puts the scrambling on and off
LEMMA DcmanReads ==
  ASSUME DcmanInv,
         D!LoadUpdater \/ D!StartUpdater \/ D!ReadNandBlock
           \/ \E d \in {"lowio", "updater"} : D!Firmware(d)
  PROVE  DcmanInv'
  <1>1. UNCHANGED <<board, found, format_thid, format_res, call, outcome, answer, met, unmade>>
    BY DEF D!LoadUpdater, D!StartUpdater, D!ReadNandBlock, D!Firmware, D!formatVars
  <1>2. /\ scramble' \in [{"lowio", "updater"} -> {0, "own"}]
        /\ updater' \in {"no", "loaded", "started"} /\ D!ReadRaw'
    BY DEF DcmanInv, D!ReadRaw, D!LoadUpdater, D!StartUpdater, D!ReadNandBlock, D!Firmware,
           D!SetScrambleZero, D!Reader
  <1> QED
    BY <1>1, <1>2 DEF DcmanInv, D!BoardRight

\* The invariant of the calls on dcman holds in every behaviour of its model, for
\* any callers, any board and any call that fails (dcGetHardwareInfo,
\* dcIdStorageFormat, dcReadNandBlock).
THEOREM SpecDcmanInv == D!Spec => []DcmanInv
  <1>1. DcmanInv /\ [D!Next]_(D!vars) => DcmanInv'
    <2> SUFFICES ASSUME DcmanInv, [D!Next]_(D!vars) PROVE DcmanInv'
      OBVIOUS
    <2>1. CASE UNCHANGED D!vars
      BY <2>1 DEF DcmanInv, D!vars, D!formatVars, D!nandVars, D!BoardRight, D!ReadRaw
    <2> QED
      BY <2>1, DcmanCalls, DcmanReads DEF D!Next
  <1> QED
    BY DcmanInit, <1>1, PTL DEF D!Spec

\* What the invariant says for those who call
LEMMA DcmanPromises == DcmanInv => D!DcmanAnswers
  <1> SUFFICES ASSUME DcmanInv PROVE D!DcmanAnswers
    OBVIOUS
  <1>1. D!AnswerOwn
    BY DEF DcmanInv, D!AnswerOwn
  <1>2. D!FormatFree
    BY DEF DcmanInv, D!FormatFree
  <1> QED
    BY <1>1, <1>2 DEF DcmanInv, D!DcmanAnswers

-----------------------------------------------------------------------------
(* The identification storage (IdsTools).                                  *)

\* Where the maker of a new storage is, and that of the certificates of a region
Writing(steps) == steps \X {"new", "region"}
NewSteps == {<<"load">>, <<"format">>, <<"index">>, <<"end">>}
               \cup ({"generate", "certs", "umd", "verify"} \X {"new"})
               \cup ({"key"} \X (Nat \ {0}))
RegionSteps == {<<"load", "region">>, <<"changed">>}
               \cup ({"generate", "certs", "umd", "verify"} \X {"region"})

\* Which thread runs on which page
IdsThreads ==
    /\ mb \in Nat /\ region \in S!Region
    /\ page \in {"menu", "region", "mac", "create", "busy", "created", "choose", "changing"}
    /\ maker \in {S!None, <<"failed">>} \cup NewSteps \cup RegionSteps
    /\ maker \in NewSteps => page = "busy"
    /\ maker \in RegionSteps => page = "changing"
    /\ maker = <<"failed">> => page \in {"busy", "changing"}
    /\ thread \in {"none", "get", "fix", "write", "flush"}
    /\ page \in {"create", "busy", "created"} => thread = "none"
    /\ thread = "get" => page = "mac"

\* The address asked for is there once the page has heard of it
IdsAddress ==
    page \in {"region", "mac", "create", "busy", "created"} /\ ~late =>
        /\ page # "mac" => ~event
        /\ event \/ ~macrandom => macaddress = "real"
        /\ page \in {"create", "busy", "created"} => (macrandom <=> macaddress = "random")

\* What a new storage holds before each step of its maker
Filled(keys) == \A r \in keys : stored[r] = S!Content(r)
Before(k) == {S!Keys(mb)[i] : i \in 1 .. k - 1}
IdsStorage ==
    /\ \/ maker \in {"generate", "certs", "umd", "verify"} \X {"new"}
       \/ maker \in {"key"} \X (Nat \ {0}) \/ maker = <<"end">>
       => DOMAIN stored = S!Ranges
    /\ maker \in {"certs", "umd", "verify"} \X {"new"} => head = S!Cert /\ rest = S!Cert
    /\ maker \in {"umd", "verify"} \X {"new"} => Filled({S!Certs})
    /\ maker = <<"verify", "new">> => Filled({S!Umd})
    /\ \A k \in Nat \ {0} : maker = <<"key", k>> =>
          k \in DOMAIN S!Keys(mb) /\ Filled({S!Certs, S!Umd}) /\ Filled(Before(k))
    /\ maker = <<"end">> => Filled(S!Ranges)
    /\ page = "created" =>
          maker = S!None /\ ~dirty /\ DOMAIN stored = S!Ranges /\ Filled(S!Ranges)

\* The buffer belongs to one thread, unless two met at it
MacReal == S!Mac \in DOMAIN stored /\ stored[S!Mac] = <<"mac", "real">>
IsCert(r) == r \in DOMAIN stored => stored[r] = S!Cert
IdsMessages ==
    /\ thread = "write" /\ ~shared => head = <<"mac", "real">>
    /\ thread = "write" /\ S!AtBuffer => shared
    /\ thread = "flush" /\ ~shared => MacReal
    /\ maker \in Writing({"certs", "umd", "verify"}) /\ ~shared => head = S!Cert /\ rest = S!Cert
    /\ maker \in Writing({"umd", "verify"}) \cup {<<"changed">>} /\ ~shared => IsCert(S!Certs)
    /\ maker \in Writing({"verify"}) \cup {<<"changed">>} /\ ~shared => IsCert(S!Umd)
    /\ said # S!None => said[1] \in {"fixed", "changed"}
    /\ said = <<"fixed">> => thread = "none" /\ page # "busy" /\ (~shared => MacReal)
    /\ said[1] = "changed" => maker = S!None
    /\ said[1] = "changed" /\ ~shared =>
          \A r \in {S!Certs, S!Umd} \cap DOMAIN stored : stored[r] = said[2]

IdsInv == IdsThreads /\ IdsAddress /\ IdsStorage /\ IdsMessages /\ S!SuspendRefused

\* What the run may choose freely
LEMMA IdsConstants == Boards \subseteq Nat /\ Tried \subseteq S!Region /\ Batch \in Nat \ {0}
  BY FlashAssumption DEF S!IdsToolsAssumption

\* A maker that is at a step of both kinds is at one of them
LEMMA MakerAt ==
  ASSUME maker \in {S!None, <<"failed">>} \cup NewSteps \cup RegionSteps,
         NEW a \in {"generate", "certs", "umd", "verify"}, maker[1] = a
  PROVE  \E w \in {"new", "region"} :
            maker = <<a, w>> /\ maker[Len(maker)] = w
              /\ \A b : [maker EXCEPT ![1] = b] = <<b, w>>
  <1>1. PICK w \in {"new", "region"} : maker = <<a, w>>
    BY DEF NewSteps, RegionSteps, S!None
  <1>2. Len(maker) = 2 /\ maker[2] = w
    BY <1>1
  <1>3. ASSUME NEW b PROVE [maker EXCEPT ![1] = b] = <<b, w>>
    BY <1>1
  <1> QED
    BY <1>1, <1>2, <1>3

\* The pages keep the threads where they belong
LEMMA ThreadsKept ==
  ASSUME IdsThreads, [S!Next]_(S!vars)
  PROVE  IdsThreads'
  <1>1. CASE S!SelectCreate
    BY <1>1
       DEF IdsThreads, NewSteps, RegionSteps, S!None, S!Region, S!EUROPE, S!ids, S!SelectCreate
  <1>2. CASE S!SelectRegion
    BY IdsConstants, <1>2
       DEF IdsThreads, NewSteps, RegionSteps, S!None, S!Region, S!EUROPE, S!mac, S!ids,
           S!SelectRegion
  <1>3. CASE S!GoBack
    BY <1>3
       DEF IdsThreads, NewSteps, RegionSteps, S!None, S!Region, S!EUROPE, S!mac, S!ids,
           S!Home, S!GoBack
  <1>4. CASE S!NextPage
    BY <1>4 DEF IdsThreads, NewSteps, RegionSteps, S!None, S!mac, S!ids, S!NextPage
  <1>5. CASE S!BeginCreate
    BY <1>5 DEF IdsThreads, NewSteps, RegionSteps, S!None, S!mac, S!ids, S!BeginCreate
  <1>6. CASE S!StartMacThread
    BY <1>6 DEF IdsThreads, NewSteps, RegionSteps, S!None, S!mac, S!ids, S!StartMacThread
  <1>7. CASE S!GetMac
    BY <1>7 DEF IdsThreads, NewSteps, RegionSteps, S!None, S!ids, S!GetMac
  <1>8. CASE S!OnUpdateMacAddress
    BY <1>8 DEF IdsThreads, NewSteps, RegionSteps, S!None, S!ids, S!OnUpdateMacAddress
  <1>9. CASE S!FixMac
    BY <1>9 DEF IdsThreads, NewSteps, RegionSteps, S!None, S!mac, S!FixMac
  <1>10. CASE S!FixMacWrite
    BY <1>10 DEF IdsThreads, NewSteps, RegionSteps, S!None, S!mac, S!FixMacWrite
  <1>11. CASE S!FixMacFlush
    BY <1>11 DEF IdsThreads, NewSteps, RegionSteps, S!None, S!mac, S!FixMacFlush
  <1>12. ASSUME NEW new \in BOOLEAN, S!LoadRegeneration(new) PROVE IdsThreads'
    BY <1>12 DEF IdsThreads, NewSteps, RegionSteps, S!None, S!making, S!Fail, S!LoadRegeneration
  <1>13. CASE S!Generate
    BY <1>13 DEF IdsThreads, NewSteps, RegionSteps, S!None, S!making, S!Fail, S!Generate
  <1>14. CASE S!WriteCertificates("certs", S!Certs, "umd")
    BY <1>14
       DEF IdsThreads, NewSteps, RegionSteps, S!None, S!making, S!Fail, S!WriteCertificates
  <1>15. CASE S!WriteCertificates("umd", S!Umd, "verify")
    BY <1>15
       DEF IdsThreads, NewSteps, RegionSteps, S!None, S!making, S!Fail, S!WriteCertificates
  <1>16. CASE S!Verify
    <2>1. PICK w \in {"new", "region"} : maker = <<"verify", w>>
      BY <1>16, MakerAt DEF IdsThreads, S!Verify
    <2>2. UNCHANGED <<page, mb, region, thread>>
      BY <1>16 DEF S!Verify, S!making
    <2>3. \/ maker' = <<"failed">>
          \/ w = "region" /\ maker' = <<"changed">>
          \/ w = "new" /\ maker' = <<"key", 1>>
      BY <1>16, <2>1 DEF S!Verify, S!Fail
    <2> QED
      BY <2>1, <2>2, <2>3 DEF IdsThreads, NewSteps, RegionSteps, S!None
  <1>17. CASE S!FormatIdStorage
    BY <1>17 DEF IdsThreads, NewSteps, RegionSteps, S!None, S!making, S!Fail, S!FormatIdStorage
  <1>18. CASE S!CreateLeaves
    BY <1>18 DEF IdsThreads, NewSteps, RegionSteps, S!None, S!making, S!Fail, S!CreateLeaves
  <1>19. CASE S!WriteKeys
    BY IdsConstants, <1>19
       DEF IdsThreads, NewSteps, RegionSteps, S!None, S!making, S!Fail, S!WriteKeys
  <1>20. CASE S!CreateIdsComplete
    BY <1>20 DEF IdsThreads, NewSteps, RegionSteps, S!None, S!mac, S!CreateIdsComplete
  <1>21. CASE S!EndFails
    BY <1>21 DEF IdsThreads, NewSteps, RegionSteps, S!None, S!making, S!ids, S!Fail, S!EndFails
  <1>22. CASE S!ExitMessage
    BY <1>22
       DEF IdsThreads, NewSteps, RegionSteps, S!None, S!Region, S!EUROPE, S!Home, S!ExitMessage
  <1>23. CASE S!SelectChange
    BY <1>23 DEF IdsThreads, NewSteps, RegionSteps, S!None, S!mac, S!ids, S!SelectChange
  <1>24. CASE S!ChangeRegion
    BY IdsConstants, <1>24
       DEF IdsThreads, NewSteps, RegionSteps, S!None, S!Region, S!EUROPE, S!mac, S!ChangeRegion
  <1>25. CASE UNCHANGED S!vars
    BY <1>25 DEF IdsThreads, S!vars
  <1> QED
    BY <1>1, <1>2, <1>3, <1>4, <1>5, <1>6, <1>7, <1>8, <1>9, <1>10, <1>11, <1>12, <1>13,
       <1>14, <1>15, <1>16, <1>17, <1>18, <1>19, <1>20, <1>21, <1>22, <1>23, <1>24, <1>25
       DEF S!Next

\* An address that comes late is marked as such
LEMMA AddressKept ==
  ASSUME IdsThreads, IdsAddress, [S!Next]_(S!vars)
  PROVE  IdsAddress'
  <1>1. CASE S!SelectCreate
    BY <1>1 DEF IdsThreads, IdsAddress, S!None, NewSteps, RegionSteps, S!ids, S!SelectCreate
  <1>2. CASE S!SelectRegion
    BY <1>2
       DEF IdsThreads, IdsAddress, S!None, NewSteps, RegionSteps, S!mac, S!ids, S!SelectRegion
  <1>3. CASE S!GoBack
    BY <1>3
       DEF IdsThreads, IdsAddress, S!None, NewSteps, RegionSteps, S!mac, S!ids, S!Home, S!GoBack
  <1>4. CASE S!NextPage
    BY <1>4 DEF IdsThreads, IdsAddress, S!None, NewSteps, RegionSteps, S!mac, S!ids, S!NextPage
  <1>5. CASE S!BeginCreate
    BY <1>5
       DEF IdsThreads, IdsAddress, S!None, NewSteps, RegionSteps, S!mac, S!ids, S!BeginCreate
  <1>6. CASE S!StartMacThread
    BY <1>6
       DEF IdsThreads, IdsAddress, S!None, NewSteps, RegionSteps, S!mac, S!ids, S!StartMacThread
  <1>7. CASE S!GetMac
    BY <1>7 DEF IdsThreads, IdsAddress, S!None, NewSteps, RegionSteps, S!ids, S!GetMac
  <1>8. CASE S!OnUpdateMacAddress
    BY <1>8
       DEF IdsThreads, IdsAddress, S!None, NewSteps, RegionSteps, S!ids, S!OnUpdateMacAddress
  <1>9. CASE S!FixMac
    BY <1>9 DEF IdsThreads, IdsAddress, S!None, NewSteps, RegionSteps, S!mac, S!FixMac
  <1>10. CASE S!FixMacWrite
    BY <1>10 DEF IdsThreads, IdsAddress, S!None, NewSteps, RegionSteps, S!mac, S!FixMacWrite
  <1>11. CASE S!FixMacFlush
    BY <1>11 DEF IdsThreads, IdsAddress, S!None, NewSteps, RegionSteps, S!mac, S!FixMacFlush
  <1>12. ASSUME NEW new \in BOOLEAN, S!LoadRegeneration(new) PROVE IdsAddress'
    BY <1>12
       DEF IdsThreads, IdsAddress, S!None, NewSteps, RegionSteps, S!making, S!mac, S!Fail,
           S!LoadRegeneration
  <1>13. CASE S!Generate
    BY <1>13
       DEF IdsThreads, IdsAddress, S!None, NewSteps, RegionSteps, S!making, S!mac, S!Fail,
           S!Generate
  <1>14. CASE S!WriteCertificates("certs", S!Certs, "umd")
    BY <1>14
       DEF IdsThreads, IdsAddress, S!None, NewSteps, RegionSteps, S!making, S!mac, S!Fail,
           S!WriteCertificates
  <1>15. CASE S!WriteCertificates("umd", S!Umd, "verify")
    BY <1>15
       DEF IdsThreads, IdsAddress, S!None, NewSteps, RegionSteps, S!making, S!mac, S!Fail,
           S!WriteCertificates
  <1>16. CASE S!Verify
    BY <1>16
       DEF IdsThreads, IdsAddress, S!None, NewSteps, RegionSteps, S!making, S!mac, S!Fail,
           S!Verify
  <1>17. CASE S!FormatIdStorage
    BY <1>17
       DEF IdsThreads, IdsAddress, S!None, NewSteps, RegionSteps, S!making, S!mac, S!Fail,
           S!FormatIdStorage
  <1>18. CASE S!CreateLeaves
    BY <1>18
       DEF IdsThreads, IdsAddress, S!None, NewSteps, RegionSteps, S!making, S!mac, S!Fail,
           S!CreateLeaves
  <1>19. CASE S!WriteKeys
    BY <1>19
       DEF IdsThreads, IdsAddress, S!None, NewSteps, RegionSteps, S!making, S!mac, S!Fail,
           S!WriteKeys
  <1>20. CASE S!CreateIdsComplete
    BY <1>20
       DEF IdsThreads, IdsAddress, S!None, NewSteps, RegionSteps, S!mac, S!CreateIdsComplete
  <1>21. CASE S!EndFails
    BY <1>21
       DEF IdsThreads, IdsAddress, S!None, NewSteps, RegionSteps, S!making, S!mac, S!ids,
           S!Fail, S!EndFails
  <1>22. CASE S!ExitMessage
    BY <1>22 DEF IdsThreads, IdsAddress, S!None, NewSteps, RegionSteps, S!Home, S!ExitMessage
  <1>23. CASE S!SelectChange
    BY <1>23
       DEF IdsThreads, IdsAddress, S!None, NewSteps, RegionSteps, S!mac, S!ids, S!SelectChange
  <1>24. CASE S!ChangeRegion
    BY <1>24 DEF IdsThreads, IdsAddress, S!None, NewSteps, RegionSteps, S!mac, S!ChangeRegion
  <1>25. CASE UNCHANGED S!vars
    BY <1>25 DEF IdsAddress, S!vars
  <1> QED
    BY <1>1, <1>2, <1>3, <1>4, <1>5, <1>6, <1>7, <1>8, <1>9, <1>10, <1>11, <1>12, <1>13,
       <1>14, <1>15, <1>16, <1>17, <1>18, <1>19, <1>20, <1>21, <1>22, <1>23, <1>24, <1>25
       DEF S!Next

\* The cancel mode goes with the makers
LEMMA SuspendKept ==
  ASSUME IdsThreads, S!SuspendRefused, [S!Next]_(S!vars)
  PROVE  S!SuspendRefused'
  <1>1. CASE S!SelectCreate
    BY <1>1
       DEF IdsThreads, S!SuspendRefused, S!None, NewSteps, RegionSteps, S!ids, S!SelectCreate
  <1>2. CASE S!SelectRegion
    BY <1>2
       DEF IdsThreads, S!SuspendRefused, S!None, NewSteps, RegionSteps, S!mac, S!ids,
           S!SelectRegion
  <1>3. CASE S!GoBack
    BY <1>3
       DEF IdsThreads, S!SuspendRefused, S!None, NewSteps, RegionSteps, S!mac, S!ids, S!Home,
           S!GoBack
  <1>4. CASE S!NextPage
    BY <1>4
       DEF IdsThreads, S!SuspendRefused, S!None, NewSteps, RegionSteps, S!mac, S!ids, S!NextPage
  <1>5. CASE S!BeginCreate
    BY <1>5
       DEF IdsThreads, S!SuspendRefused, S!None, NewSteps, RegionSteps, S!mac, S!ids,
           S!BeginCreate
  <1>6. CASE S!StartMacThread
    BY <1>6
       DEF IdsThreads, S!SuspendRefused, S!None, NewSteps, RegionSteps, S!mac, S!ids,
           S!StartMacThread
  <1>7. CASE S!GetMac
    BY <1>7 DEF IdsThreads, S!SuspendRefused, S!None, NewSteps, RegionSteps, S!ids, S!GetMac
  <1>8. CASE S!OnUpdateMacAddress
    BY <1>8
       DEF IdsThreads, S!SuspendRefused, S!None, NewSteps, RegionSteps, S!ids,
           S!OnUpdateMacAddress
  <1>9. CASE S!FixMac
    BY <1>9 DEF IdsThreads, S!SuspendRefused, S!None, NewSteps, RegionSteps, S!mac, S!FixMac
  <1>10. CASE S!FixMacWrite
    BY <1>10
       DEF IdsThreads, S!SuspendRefused, S!None, NewSteps, RegionSteps, S!mac, S!FixMacWrite
  <1>11. CASE S!FixMacFlush
    BY <1>11
       DEF IdsThreads, S!SuspendRefused, S!None, NewSteps, RegionSteps, S!mac, S!FixMacFlush
  <1>12. ASSUME NEW new \in BOOLEAN, S!LoadRegeneration(new) PROVE S!SuspendRefused'
    BY <1>12
       DEF IdsThreads, S!SuspendRefused, S!None, NewSteps, RegionSteps, S!making, S!Fail,
           S!LoadRegeneration
  <1>13. CASE S!Generate
    BY <1>13
       DEF IdsThreads, S!SuspendRefused, S!None, NewSteps, RegionSteps, S!making, S!Fail,
           S!Generate
  <1>14. CASE S!WriteCertificates("certs", S!Certs, "umd")
    BY <1>14
       DEF IdsThreads, S!SuspendRefused, S!None, NewSteps, RegionSteps, S!making, S!Fail,
           S!WriteCertificates
  <1>15. CASE S!WriteCertificates("umd", S!Umd, "verify")
    BY <1>15
       DEF IdsThreads, S!SuspendRefused, S!None, NewSteps, RegionSteps, S!making, S!Fail,
           S!WriteCertificates
  <1>16. CASE S!Verify
    BY <1>16
       DEF IdsThreads, S!SuspendRefused, S!None, NewSteps, RegionSteps, S!making, S!Fail,
           S!Verify
  <1>17. CASE S!FormatIdStorage
    BY <1>17
       DEF IdsThreads, S!SuspendRefused, S!None, NewSteps, RegionSteps, S!making, S!Fail,
           S!FormatIdStorage
  <1>18. CASE S!CreateLeaves
    BY <1>18
       DEF IdsThreads, S!SuspendRefused, S!None, NewSteps, RegionSteps, S!making, S!Fail,
           S!CreateLeaves
  <1>19. CASE S!WriteKeys
    BY <1>19
       DEF IdsThreads, S!SuspendRefused, S!None, NewSteps, RegionSteps, S!making, S!Fail,
           S!WriteKeys
  <1>20. CASE S!CreateIdsComplete
    BY <1>20
       DEF IdsThreads, S!SuspendRefused, S!None, NewSteps, RegionSteps, S!mac,
           S!CreateIdsComplete
  <1>21. CASE S!EndFails
    BY <1>21
       DEF IdsThreads, S!SuspendRefused, S!None, NewSteps, RegionSteps, S!making, S!ids,
           S!Fail, S!EndFails
  <1>22. CASE S!ExitMessage
    BY <1>22
       DEF IdsThreads, S!SuspendRefused, S!None, NewSteps, RegionSteps, S!Home, S!ExitMessage
  <1>23. CASE S!SelectChange
    BY <1>23
       DEF IdsThreads, S!SuspendRefused, S!None, NewSteps, RegionSteps, S!mac, S!ids,
           S!SelectChange
  <1>24. CASE S!ChangeRegion
    BY <1>24
       DEF IdsThreads, S!SuspendRefused, S!None, NewSteps, RegionSteps, S!mac, S!ChangeRegion
  <1>25. CASE UNCHANGED S!vars
    BY <1>25 DEF S!SuspendRefused, S!vars
  <1> QED
    BY <1>1, <1>2, <1>3, <1>4, <1>5, <1>6, <1>7, <1>8, <1>9, <1>10, <1>11, <1>12, <1>13,
       <1>14, <1>15, <1>16, <1>17, <1>18, <1>19, <1>20, <1>21, <1>22, <1>23, <1>24, <1>25
       DEF S!Next

-----------------------------------------------------------------------------
\* The keys of a board
Follows(s, t, set) ==
    /\ s \o t \in Seq(set) /\ Len(s \o t) = Len(s) + Len(t)
    /\ S!Range(s \o t) = S!Range(s) \cup S!Range(t)

\* What one sequence and another behind it hold
LEMMA RangeJoin ==
  ASSUME NEW set, NEW s \in Seq(set), NEW t \in Seq(set)
  PROVE  Follows(s, t, set)
  <1>1. s \o t \in Seq(set) /\ Len(s \o t) = Len(s) + Len(t)
    OBVIOUS
  <1>2. \A i \in 1 .. Len(s) : (s \o t)[i] = s[i]
    OBVIOUS
  <1>3. \A i \in 1 .. Len(t) : (s \o t)[Len(s) + i] = t[i] /\ Len(s) + i \in 1 .. Len(s) + Len(t)
    OBVIOUS
  <1>4. \A i \in 1 .. Len(s) + Len(t) : i \in 1 .. Len(s) \/ \E j \in 1 .. Len(t) : i = Len(s) + j
    <2> SUFFICES ASSUME NEW i \in 1 .. Len(s) + Len(t), i \notin 1 .. Len(s)
                 PROVE  \E j \in 1 .. Len(t) : i = Len(s) + j
      OBVIOUS
    <2>1. i - Len(s) \in 1 .. Len(t) /\ i = Len(s) + (i - Len(s))
      OBVIOUS
    <2> QED
      BY <2>1
  <1>5. DOMAIN s = 1 .. Len(s) /\ DOMAIN t = 1 .. Len(t) /\ DOMAIN (s \o t) = 1 .. Len(s) + Len(t)
    BY <1>1
  <1>6. 1 .. Len(s) \subseteq 1 .. Len(s) + Len(t)
    OBVIOUS
  <1> DEFINE u == s \o t
  <1> HIDE DEF u
  <1>7. S!Range(u) = S!Range(s) \cup S!Range(t)
    <2>1. \A i \in DOMAIN s : i \in DOMAIN u /\ u[i] = s[i]
      BY <1>2, <1>5, <1>6 DEF u
    <2>2. \A j \in DOMAIN t : Len(s) + j \in DOMAIN u /\ u[Len(s) + j] = t[j]
      BY <1>3, <1>5 DEF u
    <2>3. \A i \in DOMAIN u : i \in DOMAIN s \/ \E j \in DOMAIN t : i = Len(s) + j
      BY <1>4, <1>5 DEF u
    <2>4. \A x \in S!Range(u) : x \in S!Range(s) \/ x \in S!Range(t)
      BY <2>1, <2>2, <2>3 DEF S!Range
    <2>5. \A x \in S!Range(s) : x \in S!Range(u)
      BY <2>1 DEF S!Range
    <2>6. \A x \in S!Range(t) : x \in S!Range(u)
      BY <2>2 DEF S!Range
    <2> QED
      BY <2>4, <2>5, <2>6
  <1> QED
    BY <1>1, <1>7 DEF u, Follows

Pairs == Nat \X Nat
Common == {S!Hw, S!Mg, S!Bad, S!Serial, S!Mac, S!Wlan, S!Usb, S!Unk140, S!Mg40, S!Unk3X}
Added(n, r, set) == IF S!Applies(n, r) THEN set ELSE {}
KeySet(n) ==
    Common \cup Added(n, S!Lock, {S!Lock, S!Fw}) \cup Added(n, S!Lcd, {S!Lcd, S!Calib})
      \cup Added(n, S!Unk52, {S!Unk52, S!Color})

\* The keys are those that apply, and there is one at least
LEMMA KeysOf ==
  ASSUME NEW n \in Nat
  PROVE  /\ S!Keys(n) \in Seq(Pairs) /\ Len(S!Keys(n)) >= 10
         /\ S!Range(S!Keys(n)) = KeySet(n)
  <1> DEFINE s == <<S!Hw, S!Mg, S!Bad, S!Serial, S!Mac, S!Wlan, S!Usb, S!Unk140, S!Mg40, S!Unk3X>>
             t == IF S!Applies(n, S!Lock) THEN <<S!Lock, S!Fw>> ELSE <<>>
             u == IF S!Applies(n, S!Lcd) THEN <<S!Lcd, S!Calib>> ELSE <<>>
             v == IF S!Applies(n, S!Unk52) THEN <<S!Unk52, S!Color>> ELSE <<>>
  <1>1. /\ S!Hw \in Pairs /\ S!Mg \in Pairs /\ S!Bad \in Pairs /\ S!Serial \in Pairs
        /\ S!Mac \in Pairs /\ S!Wlan \in Pairs /\ S!Usb \in Pairs /\ S!Unk140 \in Pairs
        /\ S!Mg40 \in Pairs /\ S!Unk3X \in Pairs /\ S!Lock \in Pairs /\ S!Fw \in Pairs
        /\ S!Lcd \in Pairs /\ S!Calib \in Pairs /\ S!Unk52 \in Pairs /\ S!Color \in Pairs
    BY DEF Pairs, S!Hw, S!Mg, S!Bad, S!Serial, S!Mac, S!Wlan, S!Usb, S!Unk140, S!Mg40, S!Unk3X,
           S!Lock, S!Fw, S!Lcd, S!Calib, S!Unk52, S!Color
  <1>2. s \in Seq(Pairs) /\ Len(s) = 10 /\ DOMAIN s = 1 .. 10
    BY <1>1
  <1>3. S!Range(s) = Common
    BY <1>2 DEF S!Range, Common
  <1>4. t \in Seq(Pairs) /\ Len(t) >= 0 /\ S!Range(t) = Added(n, S!Lock, {S!Lock, S!Fw})
    BY <1>1 DEF S!Range, Added
  <1>5. u \in Seq(Pairs) /\ Len(u) >= 0 /\ S!Range(u) = Added(n, S!Lcd, {S!Lcd, S!Calib})
    BY <1>1 DEF S!Range, Added
  <1>6. v \in Seq(Pairs) /\ Len(v) >= 0 /\ S!Range(v) = Added(n, S!Unk52, {S!Unk52, S!Color})
    BY <1>1 DEF S!Range, Added
  <1>7. S!Keys(n) = ((s \o t) \o u) \o v
    BY DEF S!Keys
  <1> HIDE DEF s, t, u, v
  <1> DEFINE st == s \o t
             stu == st \o u
             all == stu \o v
  <1>8. /\ st \in Seq(Pairs) /\ Len(st) = Len(s) + Len(t)
        /\ S!Range(st) = S!Range(s) \cup S!Range(t)
    <2>1. Follows(s, t, Pairs)
      BY <1>2, <1>4, RangeJoin
    <2> QED
      BY <2>1 DEF Follows
  <1> HIDE DEF st
  <1>9. /\ stu \in Seq(Pairs) /\ Len(stu) = Len(st) + Len(u)
        /\ S!Range(stu) = S!Range(st) \cup S!Range(u)
    <2>1. Follows(st, u, Pairs)
      BY <1>5, <1>8, RangeJoin
    <2> QED
      BY <2>1 DEF Follows
  <1> HIDE DEF stu
  <1>10. /\ all \in Seq(Pairs) /\ Len(all) = Len(stu) + Len(v)
         /\ S!Range(all) = S!Range(stu) \cup S!Range(v)
    <2>1. Follows(stu, v, Pairs)
      BY <1>6, <1>9, RangeJoin
    <2> QED
      BY <2>1 DEF Follows
  <1>11. Len(s) \in Nat /\ Len(t) \in Nat /\ Len(u) \in Nat /\ Len(v) \in Nat
    BY <1>2, <1>4, <1>5, <1>6
  <1>12. S!Keys(n) = all
    BY <1>7 DEF st, stu
  <1> HIDE DEF all
  <1>13. Len(S!Keys(n)) >= 10
    BY <1>2, <1>8, <1>9, <1>10, <1>11, <1>12
  <1>14. S!Range(S!Keys(n)) = KeySet(n)
    BY <1>3, <1>4, <1>5, <1>6, <1>8, <1>9, <1>10, <1>12 DEF KeySet
  <1> QED
    BY <1>10, <1>12, <1>13, <1>14

\* Every leaf of a board that is created has a key, but 0x46
LEMMA LeavesWritten ==
  ASSUME NEW n \in Nat, NEW g
  PROVE  S!EveryLeafWritten(n, g)
  <1> DEFINE keys == {S!Certs, S!Umd} \cup S!Range(S!Keys(n))
  <1>1. keys = {S!Certs, S!Umd} \cup KeySet(n)
    BY KeysOf
  <1>2. \A x : x \in S!Leaves(S!Index(n, g)) <=> \E r \in S!Index(n, g) : x \in r[1] .. r[2]
    BY DEF S!Leaves
  <1>3. \A x : x \in S!Leaves(keys) <=> \E r \in keys : x \in r[1] .. r[2]
    BY DEF S!Leaves
  <1> HIDE DEF keys
  <1>4. <<\h45, \h46>> \in S!Index(n, g) /\ {S!Wlan, S!Usb, S!Mac} \subseteq keys
    BY <1>1 DEF S!Index, KeySet, Common
  <1>5. {S!Usb, S!Mac} \subseteq S!Index(n, g) \/ <<\h41, \h44>> \in S!Index(n, g)
    BY DEF S!Index
  <1>6. ASSUME NEW r \in S!Index(n, g), r # <<\h45, \h46>>, r # <<\h41, \h44>> PROVE r \in keys
    <2> DEFINE more == S!PspType(n) # 1
               lcd  == more /\ n # S!TA82
               slim == S!IsSlim(n)
    <2>1. /\ S!Applies(n, S!Lock) <=> more
          /\ S!Applies(n, S!Lcd) <=> lcd
          /\ S!Applies(n, S!Unk52) <=> slim
      BY DEF S!Applies, S!Lock, S!Fw, S!Lcd, S!Calib, S!Unk52, S!Color
    <2>2. \/ r \in {S!Certs, S!Umd} \cup Common
          \/ more /\ r \in {S!Lock, S!Fw}
          \/ lcd /\ r \in {S!Lcd, S!Calib}
          \/ slim /\ r \in {S!Unk52, S!Color}
      BY <1>6 DEF S!Index, Common
    <2> HIDE DEF more, lcd, slim
    <2> QED
      BY <1>1, <2>1, <2>2 DEF KeySet, Added
  <1>7. ASSUME NEW r \in keys, r \notin {S!Wlan, S!Usb, S!Mac} PROVE r \in S!Index(n, g)
    BY <1>1, <1>7 DEF S!Index, KeySet, Common, Added, S!Applies, S!PspType, S!IsSlim, S!TA82
  <1>8. ASSUME NEW x, x \in S!Leaves(S!Index(n, g)) PROVE x \in S!Leaves(keys) \cup {S!Audio[1]}
    <2>1. PICK r \in S!Index(n, g) : x \in r[1] .. r[2]
      BY <1>2, <1>8
    <2>2. CASE r = <<\h45, \h46>>
      <3>1. x \in S!Wlan[1] .. S!Wlan[2] \/ x = S!Audio[1]
        BY <2>1, <2>2 DEF S!Wlan, S!Audio
      <3> QED
        BY <1>3, <1>4, <3>1
    <2>3. CASE r = <<\h41, \h44>>
      <3>1. x \in S!Usb[1] .. S!Usb[2] \/ x \in S!Mac[1] .. S!Mac[2]
        BY <2>1, <2>3 DEF S!Usb, S!Mac
      <3> QED
        BY <1>3, <1>4, <3>1
    <2> QED
      BY <1>3, <1>6, <2>1, <2>2, <2>3
  <1>9. ASSUME NEW x, x \in S!Leaves(keys) \cup {S!Audio[1]} PROVE x \in S!Leaves(S!Index(n, g))
    <2>1. x \in S!Audio[1] .. S!Audio[2] \/ \E r \in keys : x \in r[1] .. r[2]
      BY <1>3, <1>9 DEF S!Audio
    <2>2. CASE x \in S!Audio[1] .. S!Audio[2] \/ x \in S!Wlan[1] .. S!Wlan[2]
      <3>1. x \in <<\h45, \h46>>[1] .. <<\h45, \h46>>[2]
        BY <2>2 DEF S!Wlan, S!Audio
      <3> QED
        BY <1>2, <1>4, <3>1
    <2>3. CASE x \in S!Usb[1] .. S!Usb[2] \/ x \in S!Mac[1] .. S!Mac[2]
      <3>1. x \in <<\h41, \h44>>[1] .. <<\h41, \h44>>[2]
        BY <2>3 DEF S!Usb, S!Mac
      <3> QED
        BY <1>2, <1>5, <2>3, <3>1
    <2> QED
      BY <1>2, <1>7, <2>1, <2>2, <2>3
  <1>10. S!Leaves(S!Index(n, g)) = S!Leaves(keys) \cup {S!Audio[1]}
    BY <1>8, <1>9
  <1> QED
    BY <1>10 DEF S!EveryLeafWritten, keys

\* CreateLeaves creates the leaves of every key that is asked for
LEMMA RangesCreated ==
  ASSUME mb \in Nat
  PROVE  {r \in {S!Certs, S!Umd, S!Mac} \cup S!Range(S!Keys(mb)) :
            r[1] .. r[2] \subseteq S!Leaves(S!Index(mb, region))} = S!Ranges
  <1>1. S!Mac \in S!Range(S!Keys(mb))
    BY KeysOf DEF KeySet, Common
  <1>2. \A r \in {S!Certs, S!Umd} \cup S!Range(S!Keys(mb)) :
           r[1] .. r[2] \subseteq S!Leaves(S!Index(mb, region))
    BY LeavesWritten DEF S!EveryLeafWritten, S!Leaves
  <1> QED
    BY <1>1, <1>2 DEF S!Ranges

\* The pages begin with nothing made and nothing said
LEMMA IdsInit == S!Init => IdsInv
  <1> SUFFICES ASSUME S!Init PROVE IdsInv
    OBVIOUS
  <1>1. IdsThreads
    BY IdsConstants DEF S!Init, IdsThreads, S!Region, S!EUROPE, S!None, NewSteps, RegionSteps
  <1>2. IdsAddress /\ S!SuspendRefused
    BY DEF S!Init, IdsAddress, S!SuspendRefused
  <1>3. IdsStorage
    BY DEF S!Init, IdsStorage, S!None
  <1>4. IdsMessages
    BY DEF S!Init, IdsMessages, S!None, Writing, S!AtBuffer
  <1> QED
    BY <1>1, <1>2, <1>3, <1>4 DEF IdsInv

-----------------------------------------------------------------------------
\* Where nothing is claimed of the new storage
Idle == {S!None, <<"failed">>, <<"load">>, <<"format">>, <<"index">>} \cup RegionSteps

\* Nothing is claimed while nothing has been created
LEMMA StorageFree == ASSUME maker' \in Idle, page' # "created" PROVE IdsStorage'
  BY DEF Idle, RegionSteps, S!None, IdsStorage

\* What a leaf should hold depends on these four
LEMMA ContentSame ==
  ASSUME UNCHANGED <<mb, region, macaddress, setparam>>
  PROVE  /\ S!Cert' = S!Cert /\ S!Ranges' = S!Ranges /\ S!Keys(mb)' = S!Keys(mb)
         /\ \A r : S!Content(r)' = S!Content(r)
  BY DEF S!Cert, S!Ranges, S!Content

\* A step of another thread leaves the storage
LEMMA StorageStill ==
  ASSUME IdsStorage, UNCHANGED <<maker, stored, head, rest, dirty>>,
         page' = "created" => page = "created",
         UNCHANGED <<mb, region, macaddress, setparam>>
  PROVE  IdsStorage'
  BY ContentSame DEF IdsStorage, Filled, Before

\* Each step of the maker adds what the next one relies on
LEMMA StorageKept ==
  ASSUME IdsThreads, IdsStorage, [S!Next]_(S!vars)
  PROVE  IdsStorage'
  <1>1. CASE S!SelectCreate
    <2>1. maker' \in Idle /\ page' # "created"
      BY <1>1
         DEF IdsThreads, Idle, NewSteps, RegionSteps, S!None, S!making, S!Home, S!Fail,
             S!SelectCreate
    <2> QED
      BY <2>1, StorageFree
  <1>2. CASE S!SelectRegion
    <2>1. maker' \in Idle /\ page' # "created"
      BY <1>2
         DEF IdsThreads, Idle, NewSteps, RegionSteps, S!None, S!making, S!Home, S!Fail,
             S!SelectRegion
    <2> QED
      BY <2>1, StorageFree
  <1>3. CASE S!GoBack
    <2>1. maker' \in Idle /\ page' # "created"
      BY <1>3
         DEF IdsThreads, Idle, NewSteps, RegionSteps, S!None, S!making, S!Home, S!Fail, S!GoBack
    <2> QED
      BY <2>1, StorageFree
  <1>4. CASE S!NextPage
    <2>1. maker' \in Idle /\ page' # "created"
      BY <1>4
         DEF IdsThreads, Idle, NewSteps, RegionSteps, S!None, S!making, S!Home, S!Fail,
             S!NextPage
    <2> QED
      BY <2>1, StorageFree
  <1>5. CASE S!BeginCreate
    <2>1. maker' \in Idle /\ page' # "created"
      BY <1>5
         DEF IdsThreads, Idle, NewSteps, RegionSteps, S!None, S!making, S!Home, S!Fail,
             S!BeginCreate
    <2> QED
      BY <2>1, StorageFree
  <1>6. CASE S!StartMacThread
    <2>1. maker' \in Idle /\ page' # "created"
      BY <1>6
         DEF IdsThreads, Idle, NewSteps, RegionSteps, S!None, S!making, S!Home, S!Fail,
             S!StartMacThread
    <2> QED
      BY <2>1, StorageFree
  <1>7. CASE S!GetMac
    <2>1. maker' \in Idle /\ page' # "created"
      BY <1>7
         DEF IdsThreads, Idle, NewSteps, RegionSteps, S!None, S!making, S!Home, S!Fail, S!GetMac
    <2> QED
      BY <2>1, StorageFree
  <1>8. CASE S!OnUpdateMacAddress
    BY <1>8, StorageStill DEF S!OnUpdateMacAddress, S!ids
  <1>9. CASE S!FixMac
    <2>1. maker' \in Idle /\ page' # "created"
      BY <1>9
         DEF IdsThreads, Idle, NewSteps, RegionSteps, S!None, S!making, S!Home, S!Fail, S!FixMac
    <2> QED
      BY <2>1, StorageFree
  <1>10. CASE S!FixMacWrite
    <2>1. maker' \in Idle /\ page' # "created"
      BY <1>10
         DEF IdsThreads, Idle, NewSteps, RegionSteps, S!None, S!making, S!Home, S!Fail,
             S!FixMacWrite
    <2> QED
      BY <2>1, StorageFree
  <1>11. CASE S!FixMacFlush
    <2>1. maker' \in Idle /\ page' # "created"
      BY <1>11
         DEF IdsThreads, Idle, NewSteps, RegionSteps, S!None, S!making, S!Home, S!Fail,
             S!FixMacFlush
    <2> QED
      BY <2>1, StorageFree
  <1>12. ASSUME NEW new \in BOOLEAN, S!LoadRegeneration(new) PROVE IdsStorage'
    <2>1. maker' \in Idle /\ page' # "created"
      BY <1>12
         DEF IdsThreads, Idle, NewSteps, RegionSteps, S!None, S!making, S!Home, S!Fail,
             S!LoadRegeneration
    <2> QED
      BY <2>1, StorageFree
  <1>13. CASE S!Generate
    <2>1. PICK w \in {"new", "region"} : maker = <<"generate", w>>
             /\ [maker EXCEPT ![1] = "certs"] = <<"certs", w>>
      BY <1>13, MakerAt DEF IdsThreads, S!Generate
    <2>2. UNCHANGED <<page, mb, region, macaddress, setparam, stored>> /\ page # "created"
      BY <1>13, <2>1 DEF S!Generate, S!making, S!mac, IdsThreads, NewSteps, RegionSteps
    <2>3. CASE maker' = <<"failed">>
      BY <2>2, <2>3, StorageFree DEF Idle
    <2>4. CASE maker' = <<"certs", w>> /\ head' = S!Cert /\ rest' = S!Cert
      <3>1. CASE w = "region"
        BY <2>2, <2>4, <3>1, StorageFree DEF Idle, RegionSteps
      <3>2. CASE w = "new"
        BY <2>1, <2>2, <2>4, <3>2, ContentSame DEF IdsStorage
      <3> QED
        BY <3>1, <3>2
    <2> QED
      BY <1>13, <2>1, <2>3, <2>4 DEF S!Generate, S!Fail
  <1>14. CASE S!WriteCertificates("certs", S!Certs, "umd")
    <2>1. PICK w \in {"new", "region"} : maker = <<"certs", w>> /\ maker[Len(maker)] = w
             /\ [maker EXCEPT ![1] = "umd"] = <<"umd", w>>
      BY <1>14, MakerAt DEF IdsThreads, S!WriteCertificates
    <2>2. UNCHANGED <<page, mb, region, macaddress, setparam, head, rest>> /\ page # "created"
      BY <1>14, <2>1 DEF S!WriteCertificates, S!making, S!mac, IdsThreads, NewSteps, RegionSteps
    <2>3. CASE maker' = <<"failed">>
      BY <2>2, <2>3, StorageFree DEF Idle
    <2>4. CASE maker' = <<"umd", w>>
      <3>1. CASE w = "region"
        BY <2>2, <2>4, <3>1, StorageFree DEF Idle, RegionSteps
      <3>2. CASE w = "new"
        <4>1. S!Put(S!Certs, S!Buffer)
          BY <1>14, <2>1, <2>4, <3>2 DEF S!WriteCertificates, S!Fail
        <4>2. DOMAIN stored = S!Ranges /\ head = S!Cert /\ rest = S!Cert
          BY <2>1, <3>2 DEF IdsStorage
        <4>3. DOMAIN stored' = S!Ranges' /\ Filled({S!Certs})'
          BY <2>1, <2>2, <3>2, <4>1, <4>2, ContentSame
             DEF S!Put, S!Buffer, Filled, S!Content, IdsStorage
        <4> QED
          BY <2>2, <2>4, <3>2, <4>2, <4>3, ContentSame DEF IdsStorage
      <3> QED
        BY <3>1, <3>2
    <2> QED
      BY <1>14, <2>1, <2>3, <2>4 DEF S!WriteCertificates, S!Fail
  <1>15. CASE S!WriteCertificates("umd", S!Umd, "verify")
    <2>1. PICK w \in {"new", "region"} : maker = <<"umd", w>> /\ maker[Len(maker)] = w
             /\ [maker EXCEPT ![1] = "verify"] = <<"verify", w>>
      BY <1>15, MakerAt DEF IdsThreads, S!WriteCertificates
    <2>2. UNCHANGED <<page, mb, region, macaddress, setparam, head, rest>> /\ page # "created"
      BY <1>15, <2>1 DEF S!WriteCertificates, S!making, S!mac, IdsThreads, NewSteps, RegionSteps
    <2>3. CASE maker' = <<"failed">>
      BY <2>2, <2>3, StorageFree DEF Idle
    <2>4. CASE maker' = <<"verify", w>>
      <3>1. CASE w = "region"
        BY <2>2, <2>4, <3>1, StorageFree DEF Idle, RegionSteps
      <3>2. CASE w = "new"
        <4>1. S!Put(S!Umd, S!Buffer)
          BY <1>15, <2>1, <2>4, <3>2 DEF S!WriteCertificates, S!Fail
        <4>2. DOMAIN stored = S!Ranges /\ head = S!Cert /\ rest = S!Cert
          BY <2>1, <3>2 DEF IdsStorage
        <4>3. DOMAIN stored' = S!Ranges' /\ Filled({S!Certs})' /\ Filled({S!Umd})'
          BY <2>1, <2>2, <3>2, <4>1, <4>2, ContentSame
             DEF S!Put, S!Buffer, Filled, S!Content, IdsStorage
        <4> QED
          BY <2>2, <2>4, <3>2, <4>2, <4>3, ContentSame DEF IdsStorage
      <3> QED
        BY <3>1, <3>2
    <2> QED
      BY <1>15, <2>1, <2>3, <2>4 DEF S!WriteCertificates, S!Fail
  <1>16. CASE S!Verify
    <2>1. PICK w \in {"new", "region"} : maker = <<"verify", w>>
      BY <1>16, MakerAt DEF IdsThreads, S!Verify
    <2>2. UNCHANGED <<page, mb, region, macaddress, setparam, stored>> /\ page # "created"
      BY <1>16, <2>1 DEF S!Verify, S!making, S!mac, IdsThreads, NewSteps, RegionSteps
    <2>3. \/ maker' = <<"failed">>
          \/ w = "region" /\ maker' = <<"changed">>
          \/ w = "new" /\ maker' = <<"key", 1>>
      BY <1>16, <2>1 DEF S!Verify, S!Fail
    <2>4. CASE maker' \in {<<"failed">>, <<"changed">>}
      BY <2>2, <2>4, StorageFree DEF Idle, RegionSteps
    <2>5. CASE w = "new" /\ maker' = <<"key", 1>>
      <3>1. DOMAIN stored = S!Ranges /\ Filled({S!Certs}) /\ Filled({S!Umd})
        BY <2>1, <2>5 DEF IdsStorage
      <3>2. 1 \in DOMAIN S!Keys(mb)
        <4>1. S!Keys(mb) \in Seq(Pairs) /\ Len(S!Keys(mb)) >= 10
          BY KeysOf DEF IdsThreads
        <4> QED
          BY <4>1
      <3>5. Before(1)' = {}
        BY DEF Before
      <3>3. DOMAIN stored' = S!Ranges' /\ Filled({S!Certs, S!Umd})' /\ Filled(Before(1))'
        BY <2>2, <3>1, <3>5, ContentSame DEF Filled
      <3>4. 1 \in DOMAIN S!Keys(mb')
        BY <2>2, <3>2
      <3> QED
        BY <2>2, <2>5, <3>3, <3>4 DEF IdsStorage
    <2> QED
      BY <2>3, <2>4, <2>5
  <1>17. CASE S!FormatIdStorage
    <2>1. maker' \in Idle /\ page' # "created"
      BY <1>17
         DEF IdsThreads, Idle, NewSteps, RegionSteps, S!None, S!making, S!Home, S!Fail,
             S!FormatIdStorage
    <2> QED
      BY <2>1, StorageFree
  <1>18. CASE S!CreateLeaves
    <2>1. UNCHANGED <<page, mb, region, macaddress, setparam>> /\ page # "created"
      BY <1>18 DEF S!CreateLeaves, S!making, S!mac, IdsThreads, NewSteps
    <2>2. CASE maker' = <<"failed">>
      BY <2>1, <2>2, StorageFree DEF Idle
    <2>3. CASE maker' = <<"generate", "new">>
      <3>1. DOMAIN stored' = S!Ranges
        BY <1>18, <2>3, RangesCreated DEF S!CreateLeaves, S!Fail, IdsThreads
      <3> QED
        BY <2>1, <2>3, <3>1, ContentSame DEF IdsStorage
    <2> QED
      BY <1>18, <2>2, <2>3 DEF S!CreateLeaves, S!Fail
  <1>19. CASE S!WriteKeys
    <2> DEFINE keys == S!Keys(mb)
               last == Len(keys)
    <2>1. keys \in Seq(Pairs) /\ last \in Nat /\ DOMAIN keys = 1 .. last
      BY KeysOf DEF IdsThreads
    <2>2. PICK k \in DOMAIN keys :
             LET next == IF k + Batch > last THEN last + 1 ELSE k + Batch
                 now  == {keys[i] : i \in k .. (next - 1)}
             IN /\ maker = <<"key", k>>
                /\ \/ /\ now \subseteq DOMAIN stored
                      /\ stored' = [r \in DOMAIN stored |-> IF r \in now THEN S!Content(r)
                                                            ELSE stored[r]]
                      /\ maker' = IF next > last THEN <<"end">> ELSE <<"key", next>>
                   \/ maker' = <<"failed">>
      BY <1>19 DEF S!WriteKeys, S!Fail
    <2> DEFINE next == IF k + Batch > last THEN last + 1 ELSE k + Batch
               now  == {keys[i] : i \in k .. (next - 1)}
    <2>3. UNCHANGED <<page, mb, region, macaddress, setparam>> /\ page # "created"
      BY <1>19, <2>2 DEF S!WriteKeys, S!making, S!mac, IdsThreads, NewSteps
    <2>4. CASE maker' = <<"failed">>
      BY <2>3, <2>4, StorageFree DEF Idle
    <2>5. CASE /\ stored' = [r \in DOMAIN stored |-> IF r \in now THEN S!Content(r)
                                                     ELSE stored[r]]
               /\ maker' = IF next > last THEN <<"end">> ELSE <<"key", next>>
      <3>1. k \in 1 .. last /\ k \in Nat \ {0} /\ Batch \in Nat \ {0}
        BY <2>1, IdsConstants
      <3>2. DOMAIN stored = S!Ranges /\ Filled({S!Certs, S!Umd}) /\ Filled(Before(k))
        BY <2>2, <3>1 DEF IdsStorage
      <3>3. Before(next) \subseteq Before(k) \cup now
        <4>1. \A i \in 1 .. next - 1 : i \in 1 .. k - 1 \/ i \in k .. next - 1
          BY <2>1, <3>1
        <4> QED
          BY <4>1 DEF Before
      <3>4. Before(next) \subseteq S!Ranges
        <4>1. \A i \in 1 .. next - 1 : i \in DOMAIN keys
          BY <2>1, <3>1
        <4> QED
          BY <4>1 DEF Before, S!Ranges, S!Range
      <3> HIDE DEF now, keys
      <3>5. DOMAIN stored' = S!Ranges' /\ \A r \in S!Ranges : stored'[r] =
               IF r \in now THEN S!Content(r) ELSE stored[r]
        BY <2>3, <2>5, <3>2, ContentSame
      <3>6. \A r \in {S!Certs, S!Umd} \cup Before(next) : stored'[r] = S!Content(r)'
        BY <2>3, <3>2, <3>3, <3>4, <3>5, ContentSame DEF Filled, S!Ranges
      <3>7. CASE next > last
        <4>1. maker' = <<"end">> /\ next = last + 1
          BY <2>1, <2>5, <3>1, <3>7
        <4>2. S!Ranges = {S!Certs, S!Umd} \cup Before(next)
          BY <2>1, <4>1 DEF S!Ranges, S!Range, Before, keys
        <4>3. Filled(S!Ranges)'
          BY <2>3, <3>6, <4>2, ContentSame DEF Filled
        <4> QED
          BY <2>3, <3>5, <4>1, <4>3 DEF IdsStorage
      <3>8. CASE ~(next > last)
        <4>1. PICK n \in 1 .. last : n = next /\ maker' = <<"key", n>>
          BY <2>1, <2>5, <3>1, <3>8
        <4>2. n \in Nat \ {0} /\ n \in DOMAIN S!Keys(mb') /\ Before(n)' = Before(n)
          BY <2>1, <2>3 DEF Before, keys
        <4>3. Filled({S!Certs, S!Umd})' /\ Filled(Before(n))'
          BY <3>6, <4>1, <4>2 DEF Filled
        <4>4. \A j \in Nat \ {0} : maker' = <<"key", j>> => j = n
          BY <4>1
        <4> QED
          BY <2>3, <3>5, <4>1, <4>2, <4>3, <4>4 DEF IdsStorage
      <3> QED
        BY <3>7, <3>8
    <2> QED
      BY <2>2, <2>4, <2>5
  <1>20. CASE S!CreateIdsComplete
    <2>1. UNCHANGED <<mb, region, macaddress, setparam, stored>> /\ maker' = S!None /\ ~dirty'
      BY <1>20 DEF S!CreateIdsComplete, S!mac
    <2>2. DOMAIN stored = S!Ranges /\ Filled(S!Ranges)
      BY <1>20 DEF S!CreateIdsComplete, IdsStorage
    <2>3. DOMAIN stored' = S!Ranges' /\ Filled(S!Ranges)'
      BY <2>1, <2>2, ContentSame DEF Filled
    <2> QED
      BY <2>1, <2>3 DEF IdsStorage, S!None
  <1>21. CASE S!EndFails
    <2>1. maker' \in Idle /\ page' # "created"
      BY <1>21
         DEF IdsThreads, Idle, NewSteps, RegionSteps, S!None, S!making, S!Home, S!Fail,
             S!EndFails
    <2> QED
      BY <2>1, StorageFree
  <1>22. CASE S!ExitMessage
    <2>1. maker' \in Idle /\ page' # "created"
      BY <1>22
         DEF IdsThreads, Idle, NewSteps, RegionSteps, S!None, S!making, S!Home, S!Fail,
             S!ExitMessage
    <2> QED
      BY <2>1, StorageFree
  <1>23. CASE S!SelectChange
    <2>1. maker' \in Idle /\ page' # "created"
      BY <1>23
         DEF IdsThreads, Idle, NewSteps, RegionSteps, S!None, S!making, S!Home, S!Fail,
             S!SelectChange
    <2> QED
      BY <2>1, StorageFree
  <1>24. CASE S!ChangeRegion
    <2>1. maker' \in Idle /\ page' # "created"
      BY <1>24
         DEF IdsThreads, Idle, NewSteps, RegionSteps, S!None, S!making, S!Home, S!Fail,
             S!ChangeRegion
    <2> QED
      BY <2>1, StorageFree
  <1>25. CASE UNCHANGED S!vars
    BY <1>25, StorageStill DEF S!vars
  <1> QED
    BY <1>1, <1>2, <1>3, <1>4, <1>5, <1>6, <1>7, <1>8, <1>9, <1>10, <1>11, <1>12, <1>13,
       <1>14, <1>15, <1>16, <1>17, <1>18, <1>19, <1>20, <1>21, <1>22, <1>23, <1>24, <1>25
       DEF S!Next

\* Each thread knows what it has written, unless two met at the buffer
LEMMA MessagesKept ==
  ASSUME IdsThreads, IdsMessages, [S!Next]_(S!vars)
  PROVE  IdsMessages'
  <1>1. CASE S!SelectCreate
    BY <1>1
       DEF IdsThreads, IdsMessages, Writing, MacReal, IsCert, S!Cert, S!AtBuffer, NewSteps,
           RegionSteps, S!None, S!ids, S!SelectCreate
  <1>2. CASE S!SelectRegion
    BY <1>2
       DEF IdsThreads, IdsMessages, Writing, MacReal, IsCert, S!Cert, S!AtBuffer, NewSteps,
           RegionSteps, S!None, S!mac, S!ids, S!SelectRegion
  <1>3. CASE S!GoBack
    BY <1>3
       DEF IdsThreads, IdsMessages, Writing, MacReal, IsCert, S!Cert, S!AtBuffer, NewSteps,
           RegionSteps, S!None, S!mac, S!ids, S!Home, S!GoBack
  <1>4. CASE S!NextPage
    BY <1>4
       DEF IdsThreads, IdsMessages, Writing, MacReal, IsCert, S!Cert, S!AtBuffer, NewSteps,
           RegionSteps, S!None, S!mac, S!ids, S!NextPage
  <1>5. CASE S!BeginCreate
    BY <1>5
       DEF IdsThreads, IdsMessages, Writing, MacReal, IsCert, S!Cert, S!AtBuffer, NewSteps,
           RegionSteps, S!None, S!mac, S!ids, S!BeginCreate
  <1>6. CASE S!StartMacThread
    BY <1>6
       DEF IdsThreads, IdsMessages, Writing, MacReal, IsCert, S!Cert, S!AtBuffer, NewSteps,
           RegionSteps, S!None, S!mac, S!ids, S!StartMacThread
  <1>7. CASE S!GetMac
    BY <1>7
       DEF IdsThreads, IdsMessages, Writing, MacReal, IsCert, S!Cert, S!AtBuffer, NewSteps,
           RegionSteps, S!None, S!ids, S!GetMac
  <1>8. CASE S!OnUpdateMacAddress
    BY <1>8
       DEF IdsThreads, IdsMessages, Writing, MacReal, IsCert, S!Cert, S!AtBuffer, NewSteps,
           RegionSteps, S!None, S!ids, S!OnUpdateMacAddress
  <1>9. CASE S!FixMac
    BY <1>9
       DEF IdsThreads, IdsMessages, Writing, MacReal, IsCert, S!Cert, S!AtBuffer, NewSteps,
           RegionSteps, S!None, S!mac, S!FixMac
  <1>10. CASE S!FixMacWrite
    <2>1. /\ UNCHANGED <<page, mb, region, maker, head, rest, said, shared>> /\ thread = "write"
          /\ S!Cert' = S!Cert /\ maker[1]' = maker[1] /\ said[1]' = said[1] /\ said[2]' = said[2]
      BY <1>10 DEF S!FixMacWrite, S!mac, S!Cert
    <2>2. \/ thread' = "none" /\ stored' = stored
          \/ /\ thread' = "flush" /\ DOMAIN stored' = DOMAIN stored
             /\ S!Mac \in DOMAIN stored /\ stored'[S!Mac] = head
             /\ \A r \in DOMAIN stored \ {S!Mac} : stored'[r] = stored[r]
      BY <1>10 DEF S!FixMacWrite, S!Put
    <2>3. S!Mac \notin {S!Certs, S!Umd}
      BY DEF S!Mac, S!Certs, S!Umd
    <2>4. thread' = "flush" /\ ~shared => MacReal'
      BY <2>1, <2>2 DEF IdsMessages, MacReal
    <2>5. \A r \in {S!Certs, S!Umd} : IsCert(r) => IsCert(r)'
      BY <2>1, <2>2, <2>3 DEF IsCert
    <2>6. said[1] = "changed" /\ ~shared =>
            \A r \in {S!Certs, S!Umd} \cap DOMAIN stored' : stored'[r] = said[2]
      BY <2>2, <2>3 DEF IdsMessages
    <2>7. said # <<"fixed">>
      BY <2>1 DEF IdsMessages
    <2> QED
      BY <2>1, <2>2, <2>4, <2>5, <2>6, <2>7 DEF IdsMessages, Writing, S!AtBuffer
  <1>11. CASE S!FixMacFlush
    BY <1>11
       DEF IdsThreads, IdsMessages, Writing, MacReal, IsCert, S!Cert, S!AtBuffer, NewSteps,
           RegionSteps, S!None, S!mac, S!FixMacFlush
  <1>12. ASSUME NEW new \in BOOLEAN, S!LoadRegeneration(new) PROVE IdsMessages'
    BY <1>12
       DEF IdsThreads, IdsMessages, Writing, MacReal, IsCert, S!Cert, S!AtBuffer, NewSteps,
           RegionSteps, S!None, S!making, S!Fail, S!LoadRegeneration
  <1>13. CASE S!Generate
    <2>1. PICK w \in {"new", "region"} : maker = <<"generate", w>>
             /\ [maker EXCEPT ![1] = "certs"] = <<"certs", w>>
      BY <1>13, MakerAt DEF IdsThreads, S!Generate
    <2>2. /\ UNCHANGED <<page, mb, region, thread, stored, said>>
          /\ S!Cert' = S!Cert /\ said[1]' = said[1] /\ said[2]' = said[2]
      BY <1>13 DEF S!Generate, S!making, S!Cert
    <2>3. said[1] # "changed"
      BY <2>1 DEF IdsMessages, S!None
    <2>4. MacReal' <=> MacReal
      BY <2>2 DEF MacReal
    <2>5. CASE maker' = <<"failed">> /\ UNCHANGED <<head, rest, shared>>
      BY <2>2, <2>3, <2>4, <2>5 DEF IdsMessages, Writing, S!AtBuffer
    <2>6. CASE /\ maker' = <<"certs", w>> /\ head' = S!Cert /\ rest' = S!Cert
               /\ shared' = (shared \/ thread = "write")
      BY <2>2, <2>3, <2>4, <2>6 DEF IdsMessages, Writing, S!AtBuffer
    <2> QED
      BY <1>13, <2>1, <2>5, <2>6 DEF S!Generate, S!Fail
  <1>14. CASE S!WriteCertificates("certs", S!Certs, "umd")
    <2>1. PICK w \in {"new", "region"} : maker = <<"certs", w>>
             /\ [maker EXCEPT ![1] = "umd"] = <<"umd", w>>
      BY <1>14, MakerAt DEF IdsThreads, S!WriteCertificates
    <2>2. /\ UNCHANGED <<page, mb, region, thread, head, rest, said, shared>>
          /\ S!Cert' = S!Cert /\ said[1]' = said[1] /\ said[2]' = said[2]
      BY <1>14 DEF S!WriteCertificates, S!making, S!Cert
    <2>3. said[1] # "changed"
      BY <2>1 DEF IdsMessages, S!None
    <2>4. \/ stored' = stored /\ (maker' = <<"failed">> \/ S!Certs \notin DOMAIN stored)
          \/ /\ DOMAIN stored' = DOMAIN stored
             /\ S!Certs \in DOMAIN stored /\ stored'[S!Certs] = S!Buffer
             /\ \A q \in DOMAIN stored \ {S!Certs} : stored'[q] = stored[q]
      BY <1>14 DEF S!WriteCertificates, S!Put, S!Fail
    <2>5. S!Mac \notin {S!Certs, S!Umd} /\ S!Certs # S!Umd
      BY DEF S!Mac, S!Certs, S!Umd
    <2>6. maker' \in {<<"failed">>, <<"umd", w>>}
      BY <1>14, <2>1 DEF S!WriteCertificates, S!Fail
    <2>7. ~shared => head = S!Cert /\ rest = S!Cert
      BY <2>1 DEF IdsMessages, Writing
    <2>8. MacReal => MacReal'
      BY <2>4, <2>5 DEF MacReal
    <2>9. ~shared /\ maker' # <<"failed">> => IsCert(S!Certs)'
      BY <2>2, <2>4, <2>7 DEF IsCert, S!Buffer
    <2>10. IsCert(S!Certs) /\ S!Certs # S!Certs => IsCert(S!Certs)'
      BY <2>2, <2>4, <2>5 DEF IsCert
    <2>11. thread = "write" => shared
      BY <2>1 DEF IdsMessages, S!AtBuffer
    <2> QED
      BY <2>1, <2>2, <2>3, <2>5, <2>6, <2>7, <2>8, <2>9, <2>10, <2>11
         DEF IdsMessages, Writing, S!AtBuffer
  <1>15. CASE S!WriteCertificates("umd", S!Umd, "verify")
    <2>1. PICK w \in {"new", "region"} : maker = <<"umd", w>>
             /\ [maker EXCEPT ![1] = "verify"] = <<"verify", w>>
      BY <1>15, MakerAt DEF IdsThreads, S!WriteCertificates
    <2>2. /\ UNCHANGED <<page, mb, region, thread, head, rest, said, shared>>
          /\ S!Cert' = S!Cert /\ said[1]' = said[1] /\ said[2]' = said[2]
      BY <1>15 DEF S!WriteCertificates, S!making, S!Cert
    <2>3. said[1] # "changed"
      BY <2>1 DEF IdsMessages, S!None
    <2>4. \/ stored' = stored /\ (maker' = <<"failed">> \/ S!Umd \notin DOMAIN stored)
          \/ /\ DOMAIN stored' = DOMAIN stored
             /\ S!Umd \in DOMAIN stored /\ stored'[S!Umd] = S!Buffer
             /\ \A q \in DOMAIN stored \ {S!Umd} : stored'[q] = stored[q]
      BY <1>15 DEF S!WriteCertificates, S!Put, S!Fail
    <2>5. S!Mac \notin {S!Certs, S!Umd} /\ S!Certs # S!Umd
      BY DEF S!Mac, S!Certs, S!Umd
    <2>6. maker' \in {<<"failed">>, <<"verify", w>>}
      BY <1>15, <2>1 DEF S!WriteCertificates, S!Fail
    <2>7. ~shared => head = S!Cert /\ rest = S!Cert
      BY <2>1 DEF IdsMessages, Writing
    <2>8. MacReal => MacReal'
      BY <2>4, <2>5 DEF MacReal
    <2>9. ~shared /\ maker' # <<"failed">> => IsCert(S!Umd)'
      BY <2>2, <2>4, <2>7 DEF IsCert, S!Buffer
    <2>10. IsCert(S!Certs) /\ S!Umd # S!Certs => IsCert(S!Certs)'
      BY <2>2, <2>4, <2>5 DEF IsCert
    <2>11. thread = "write" => shared
      BY <2>1 DEF IdsMessages, S!AtBuffer
    <2> QED
      BY <2>1, <2>2, <2>3, <2>5, <2>6, <2>7, <2>8, <2>9, <2>10, <2>11
         DEF IdsMessages, Writing, S!AtBuffer
  <1>16. CASE S!Verify
    <2>1. PICK w \in {"new", "region"} : maker = <<"verify", w>>
      BY <1>16, MakerAt DEF IdsThreads, S!Verify
    <2>2. /\ UNCHANGED <<page, mb, region, thread, stored, said, shared>>
          /\ S!Cert' = S!Cert /\ said[1]' = said[1] /\ said[2]' = said[2]
      BY <1>16 DEF S!Verify, S!making, S!Cert
    <2>3. said[1] # "changed"
      BY <2>1 DEF IdsMessages, S!None
    <2>4. maker' \in {<<"failed">>, <<"changed">>, <<"key", 1>>}
      BY <1>16 DEF S!Verify, S!Fail
    <2>5. thread = "write" => shared
      BY <2>1 DEF IdsMessages, S!AtBuffer
    <2>6. ~shared => IsCert(S!Certs) /\ IsCert(S!Umd)
      BY <2>1 DEF IdsMessages, Writing
    <2>7. (MacReal' <=> MacReal) /\ \A r : IsCert(r) => IsCert(r)'
      BY <2>2 DEF MacReal, IsCert
    <2> QED
      BY <2>2, <2>3, <2>4, <2>5, <2>6, <2>7 DEF IdsMessages, Writing, S!AtBuffer
  <1>17. CASE S!FormatIdStorage
    BY <1>17
       DEF IdsThreads, IdsMessages, Writing, MacReal, IsCert, S!Cert, S!AtBuffer, NewSteps,
           RegionSteps, S!None, S!making, S!Fail, S!FormatIdStorage
  <1>18. CASE S!CreateLeaves
    BY <1>18
       DEF IdsThreads, IdsMessages, Writing, MacReal, IsCert, S!Cert, S!AtBuffer, NewSteps,
           RegionSteps, S!None, S!making, S!Fail, S!CreateLeaves
  <1>19. CASE S!WriteKeys
    BY <1>19
       DEF IdsThreads, IdsMessages, Writing, MacReal, IsCert, S!Cert, S!AtBuffer, NewSteps,
           RegionSteps, S!None, S!making, S!Fail, S!WriteKeys
  <1>20. CASE S!CreateIdsComplete
    BY <1>20
       DEF IdsThreads, IdsMessages, Writing, MacReal, IsCert, S!Cert, S!AtBuffer, NewSteps,
           RegionSteps, S!None, S!mac, S!Leftover, S!CreateIdsComplete
  <1>21. CASE S!EndFails
    BY <1>21
       DEF IdsThreads, IdsMessages, Writing, MacReal, IsCert, S!Cert, S!AtBuffer, NewSteps,
           RegionSteps, S!None, S!making, S!ids, S!Fail, S!EndFails
  <1>22. CASE S!ExitMessage
    BY <1>22
       DEF IdsThreads, IdsMessages, Writing, MacReal, IsCert, S!Cert, S!AtBuffer, NewSteps,
           RegionSteps, S!None, S!Home, S!Leftover, S!ExitMessage
  <1>23. CASE S!SelectChange
    BY <1>23
       DEF IdsThreads, IdsMessages, Writing, MacReal, IsCert, S!Cert, S!AtBuffer, NewSteps,
           RegionSteps, S!None, S!mac, S!ids, S!SelectChange
  <1>24. CASE S!ChangeRegion
    <2>1. /\ UNCHANGED <<thread, head, rest, stored>> /\ page' = "changing"
          /\ maker' \in {<<"load", "region">>, S!None} /\ said' = S!None
          /\ shared' = (shared /\ thread # "none") /\ ~S!AtBuffer'
      BY <1>24 DEF S!ChangeRegion, S!AtBuffer, S!None
    <2>2. MacReal' <=> MacReal
      BY <2>1 DEF MacReal
    <2>3. said'[1] = "none" /\ said' # <<"fixed">>
      BY <2>1 DEF S!None
    <2>4. /\ maker' \notin {"certs", "umd", "verify"} \X {"new", "region"}
          /\ maker' \notin {"umd", "verify"} \X {"new", "region"} \cup {<<"changed">>}
          /\ maker' \notin {"verify"} \X {"new", "region"} \cup {<<"changed">>}
      BY <2>1 DEF S!None
    <2>5. thread # "none" /\ ~shared' => ~shared
      BY <2>1
    <2>6. /\ thread = "write" /\ ~shared' => head' = <<"mac", "real">>
          /\ thread = "flush" /\ ~shared' => MacReal'
      BY <2>1, <2>2, <2>5 DEF IdsMessages
    <2> QED
      BY <2>1, <2>3, <2>4, <2>6 DEF IdsMessages, Writing
  <1>25. CASE UNCHANGED S!vars
    BY <1>25 DEF IdsMessages, Writing, MacReal, IsCert, S!Cert, S!AtBuffer, S!vars
  <1> QED
    BY <1>1, <1>2, <1>3, <1>4, <1>5, <1>6, <1>7, <1>8, <1>9, <1>10, <1>11, <1>12, <1>13,
       <1>14, <1>15, <1>16, <1>17, <1>18, <1>19, <1>20, <1>21, <1>22, <1>23, <1>24, <1>25
       DEF S!Next

\* What the invariant says for the user
LEMMA IdsPromises ==
  IdsInv => S!Created /\ S!AddressShown /\ S!MessagesTrue /\ S!SuspendRefused
  <1> SUFFICES ASSUME IdsInv
               PROVE  S!Created /\ S!AddressShown /\ S!MessagesTrue /\ S!SuspendRefused
    OBVIOUS
  <1>1. S!Created
    <2>1. page = "created" => ~dirty /\ DOMAIN stored = S!Ranges /\ Filled(S!Ranges)
      BY DEF IdsInv, IdsStorage
    <2>2. \A b \in 0 .. 10, g \in S!Region : S!EveryLeafWritten(b, g)
      BY LeavesWritten
    <2> QED
      BY <2>1, <2>2 DEF S!Created, Filled
  <1>2. S!AddressShown
    BY DEF IdsInv, IdsAddress, IdsThreads, S!AddressShown
  <1>3. S!MessagesTrue
    BY DEF IdsInv, IdsMessages, MacReal, S!MessagesTrue
  <1> QED
    BY <1>1, <1>2, <1>3 DEF IdsInv

\* The invariant of the pages and their threads holds in every behaviour of their
\* model, for any boards, regions and number of keys in a step (idscreate_thread,
\* getmac_thread, fixmac_thread, changereg_thread).
THEOREM SpecIdsInv == S!Spec => []IdsInv
  <1>1. IdsInv /\ [S!Next]_(S!vars) => IdsInv'
    BY ThreadsKept, AddressKept, StorageKept, MessagesKept, SuspendKept DEF IdsInv
  <1> QED
    BY IdsInit, <1>1, PTL DEF S!Spec

\* For any boards and regions, whatever call fails and however the threads meet: a
\* storage shown as created holds every leaf of the board with what belongs into
\* it and is flushed, the page knows whose address it has, the messages of success
\* are true, and no suspend is taken while a storage is made; and for any callers
\* dcman finds the board, answers each with the result of its own formatting and
\* reads the blocks as they were (idstools.c, dcman/main.c).
THEOREM SpecIdsRight == AllSpec => []IdsRight
  <1>1. AllInit /\ part = "ids" => S!Init
    BY DEF AllInit
  <1>2. part = "ids" /\ [AllNext]_allVars => (part = "ids")' /\ [S!Next]_(S!vars)
    BY DEF AllNext, allVars, idsOwn, S!vars
  <1>3. ~(part = "ids") /\ [AllNext]_allVars => ~(part = "ids")'
    BY DEF AllNext, allVars
  <1>4. AllInit /\ part = "dcman" => D!Init
    BY DEF AllInit
  <1>5. part = "dcman" /\ [AllNext]_allVars => (part = "dcman")' /\ [D!Next]_(D!vars)
    BY DEF AllNext, allVars, dcmanOwn, D!vars, D!formatVars, D!nandVars
  <1>6. ~(part = "dcman") /\ [AllNext]_allVars => ~(part = "dcman")'
    BY DEF AllNext, allVars
  <1>7. (IdsInv \/ ~(part = "ids")) /\ (DcmanInv \/ ~(part = "dcman")) => IdsRight
    BY IdsPromises, DcmanPromises DEF IdsRight
  <1>8. (S!Spec => []IdsInv) /\ (D!Spec => []DcmanInv)
    BY SpecIdsInv, SpecDcmanInv
  <1> QED
    BY <1>1, <1>2, <1>3, <1>4, <1>5, <1>6, <1>7, <1>8, PTL DEF AllSpec, S!Spec, D!Spec
=============================================================================
