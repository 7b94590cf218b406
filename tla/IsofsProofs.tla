------------------------------ MODULE IsofsProofs ------------------------------
(***************************************************************************)
(* What Isofs promises, for any threads, files, sizes of a sector and      *)
(* lengths of a read: every file keeps a handle of its own (HandlesOwned), *)
(* lseek answers for its own file (LseekAnswers), and the whole driver     *)
(* implements ByteRanges.                                                  *)
(***************************************************************************)
EXTENDS Isofs, SequenceTheorems, WellFoundedInduction, TLAPS

\* What a thread asks for and the file that it asks it of.  A file that is
\* being opened or closed is nobody else's.
RequestsInv ==
    \A t \in Threads :
        /\ pc[t] = "idle" <=> req[t].op = "none"
        /\ req[t].iob = Closed <=> req[t].op \in {"none", "getstat"}
        /\ pc[t] = "dopen" => req[t].op = "dopen"
        /\ pc[t] = "result" => req[t].op = "lseek"
        /\ pc[t] = "wait" /\ req[t].op \in {"open", "dopen"} => iob[req[t].iob] = Closed
        /\ pc[t] = "dopen" \/ req[t].op \in IobOps => iob[req[t].iob] # Closed
        /\ req[t].op \in {"open", "dopen", "close", "dclose"} =>
              \A u \in Threads \ {t} : req[u].iob # req[t].iob

\* What was read belongs to a file that is still open
OutInv == out = Nothing \/ (out.iob \in Iobs /\ iob[out.iob] # Closed)

IInv == TypeOK /\ RequestsInv /\ HandlesOwned /\ LseekAnswers /\ OutInv

USE DEF HandlersAssumption, FilesAssumption, BoundsAssumption, FreeAssumption
-----------------------------------------------------------------------------
(* The operators of Isofs.                                                 *)

\* A set of naturals has a least element
LEMMA LeastOf ==
  ASSUME NEW S \in SUBSET Nat, S # {}
  PROVE  \E h \in S : \A g \in S : h <= g
  <1>1. IsWellFoundedOn(OpToRel(<, Nat), Nat)
    BY NatLessThanWellFounded
  <1>2. PICK x \in S : \A y \in S : <<y, x>> \notin OpToRel(<, Nat)
    BY <1>1, WFMin, S \subseteq Nat
  <1>3. \A y \in S : ~(y < x)
    BY <1>2 DEF OpToRel
  <1> QED
    BY <1>3

\* GetFreeHandle finds an entry of the table that is free
LEMMA FreeHandleFound ==
  ASSUME FreeHandles # {}
  PROVE  GetFreeHandle \in Handlers /\ ~handlers[GetFreeHandle].opened
  <1>1. FreeHandles \in SUBSET Nat
    BY HandlersAssumption DEF FreeHandles
  <1>2. \E h \in FreeHandles : \A g \in FreeHandles : h <= g
    BY <1>1, LeastOf
  <1>3. GetFreeHandle \in FreeHandles
    BY <1>2 DEF GetFreeHandle
  <1> QED
    BY <1>3 DEF FreeHandles

\* k addresses from x on
Run(x, k) == [n \in 1 .. k |-> x + n - 1]

LEMMA RunLength ==
  ASSUME NEW x \in Int, NEW k \in Nat
  PROVE  Run(x, k) \in Seq(Int) /\ Len(Run(x, k)) = k
  BY DEF Run

\* Two runs that meet are one
LEMMA RunJoin ==
  ASSUME NEW x \in Int, NEW y \in Int, NEW a \in Nat, NEW b \in Nat, b > 0 => y = x + a
  PROVE  Run(x, a) \o Run(y, b) = Run(x, a + b)
  <1> DEFINE left == Run(x, a)
             right == Run(y, b)
             both == Run(x, a + b)
  <1>1. /\ left \in Seq(Int) /\ Len(left) = a
        /\ right \in Seq(Int) /\ Len(right) = b
        /\ both \in Seq(Int) /\ Len(both) = a + b
    BY RunLength, a + b \in Nat
  <1>2. \A n \in 1 .. a : left[n] = x + n - 1
    BY DEF Run
  <1>3. \A n \in 1 .. b : right[n] = y + n - 1
    BY DEF Run
  <1>4. \A n \in 1 .. a + b : both[n] = x + n - 1
    BY DEF Run
  <1> HIDE DEF left, right, both
  <1>5. left \o right \in Seq(Int) /\ Len(left \o right) = a + b
    BY <1>1, ConcatProperties
  <1>6. \A n \in 1 .. a + b : (left \o right)[n] = both[n]
    <2>1. \A n \in 1 .. a + b : (left \o right)[n] = IF n <= a THEN left[n] ELSE right[n - a]
      BY <1>1, ConcatProperties
    <2>2. \A n \in 1 .. a : (left \o right)[n] = both[n]
      BY <1>1, <1>2, <1>4, <2>1
    <2>3. ASSUME b > 0
          PROVE  \A n \in a + 1 .. a + b : (left \o right)[n] = both[n]
      <3>1. \A n \in a + 1 .. a + b : (left \o right)[n] = right[n - a]
        BY <1>1, <2>1
      <3>2. \A n \in a + 1 .. a + b : right[n - a] = y + (n - a) - 1
        BY <1>3
      <3> QED
        <4>1. ASSUME NEW n \in a + 1 .. a + b
              PROVE  (left \o right)[n] = both[n]
          <5>1. n \in 1 .. a + b
            OBVIOUS
          <5>2. both[n] = x + n - 1
            BY <1>4, <5>1
          <5>3. (left \o right)[n] = y + (n - a) - 1
            BY <1>1, <3>1, <3>2
          <5> QED
            BY <2>3, <5>2, <5>3
        <4> QED
          BY <4>1
    <2> QED
      BY <1>1, <2>2, <2>3
  <1>7. left \o right = both
    BY <1>1, <1>5, <1>6, SeqEqual
  <1> QED
    BY <1>7 DEF left, right, both

\* What Copy delivers is a run
LEMMA CopyRuns ==
  ASSUME NEW s \in Int, NEW o \in Int, NEW k \in Nat
  PROVE  Copy(s, o, k) = Run(s * Bytes + o, k)
  BY BoundsAssumption DEF Copy, Run

LEMMA Division ==
  ASSUME NEW a \in Nat
  PROVE  /\ a = (a \div Bytes) * Bytes + (a % Bytes)
         /\ a \div Bytes \in Nat /\ a % Bytes \in 0 .. Bytes - 1
  BY BoundsAssumption

\* The whole sectors of what remains
LEMMA WholeSectors ==
  ASSUME NEW a \in Nat
  PROVE  Whole(a) = a \div Bytes
  <1> DEFINE q == a \div Bytes
  <1>1. /\ a = q * Bytes + (a % Bytes) /\ q \in Nat /\ a % Bytes \in 0 .. Bytes - 1
    BY Division
  <1> HIDE DEF q
  <1>2. CASE a % Bytes = 0
    <2>1. (q * Bytes + (Bytes - 1)) \div Bytes = q
      BY <1>1, BoundsAssumption
    <2> QED
      BY <1>1, <1>2, <2>1, BoundsAssumption DEF Whole, SizeToSectors, q
  <1>3. CASE a % Bytes # 0
    <2> DEFINE o == a % Bytes
    <2>1. o \in 1 .. Bytes - 1
      BY <1>1, <1>3
    <2> HIDE DEF o
    <2>2. ((q + 1) * Bytes + (o - 1)) \div Bytes = q + 1
      BY <1>1, <2>1, BoundsAssumption
    <2>3. a + Bytes - 1 = (q + 1) * Bytes + (o - 1)
      BY <1>1, <2>1, BoundsAssumption DEF o
    <2> QED
      BY <1>1, <1>3, <2>2, <2>3, BoundsAssumption DEF Whole, SizeToSectors, q
  <1> QED
    BY <1>2, <1>3

-----------------------------------------------------------------------------
(* How a read ends.                                                        *)

Avail(h, len)    == IF len + h.pos > h.file.size THEN h.file.size - h.pos ELSE len
HeadBytes(h, len) == HeadLen(h, Avail(h, len))
Rest(h, len)      == Avail(h, len) - HeadBytes(h, len)
HeadData(h, len)  == Copy(h.file.lba + Div(h.pos), h.pos % Bytes, HeadBytes(h, len))

\* A result with the bytes up to the end of m whole sectors, and then some
Ended(h, len, m, r) ==
    LET left  == Rest(h, len) - m * Bytes
        moved == h.pos + (HeadBytes(h, len) + m * Bytes)
        body  == HeadData(h, len) \o Copy(FirstWhole(h), 0, m * Bytes)
    IN  \/ left <= 0 /\ r = [kind |-> "data", data |-> body, pos |-> moved]
        \/ left > 0 /\ r.kind \in {"error", "torn"} /\ r.pos \in {moved, moved + (left % Bytes)}
        \/ /\ left > 0 /\ left <= left % Bytes
           /\ r = [kind |-> "data", data |-> body \o Copy(FirstWhole(h) + m, 0, left % Bytes),
                   pos |-> moved + (left % Bytes)]

LEMMA HandleType ==
  ASSUME NEW h \in Handle
  PROVE  h.pos \in Int /\ h.file.lba \in Nat /\ h.file.size \in Nat /\ h.opened \in BOOLEAN
  BY FilesAssumption, BoundsAssumption DEF Handle, NoFile, Positions

LEMMA Remainder ==
  ASSUME NEW a \in Int
  PROVE  a % Bytes \in 0 .. Bytes - 1
  BY BoundsAssumption

LEMMA RestType ==
  ASSUME NEW h \in Handle, NEW len \in Nat
  PROVE  /\ Avail(h, len) \in Int /\ HeadBytes(h, len) \in Int /\ Rest(h, len) \in Int
         /\ Avail(h, len) > 0 =>
               HeadBytes(h, len) \in 0 .. Avail(h, len)
  <1>1. Avail(h, len) \in Int
    BY HandleType DEF Avail
  <1>2. h.pos % Bytes \in 0 .. Bytes - 1 /\ Bytes \in Int
    BY HandleType, Remainder, BoundsAssumption
  <1>3. HeadBytes(h, len) \in Int /\ (Avail(h, len) > 0 => HeadBytes(h, len) \in 0 .. Avail(h, len))
    BY <1>1, <1>2 DEF HeadBytes, HeadLen
  <1> QED
    BY <1>1, <1>3 DEF Rest

LEMMA RestNat ==
  ASSUME NEW h \in Handle, NEW len \in Nat, Avail(h, len) > 0
  PROVE  Rest(h, len) \in Nat
  BY RestType DEF Rest

\* The outcomes of isofs_read2, one by one
LEMMA OutcomeCases ==
  ASSUME NEW h \in Handle, NEW len \in Nat, NEW r \in Outcomes(h, len)
  PROVE  \/ Avail(h, len) <= 0 /\ r = [kind |-> "data", data |-> <<>>, pos |-> h.pos]
         \/ Avail(h, len) > 0 /\ r.kind \in {"error", "data"} /\ r.data = <<>> /\ r.pos = h.pos
         \/ Avail(h, len) > 0 /\ r.kind = "error" /\ r.pos = h.pos + HeadBytes(h, len)
         \/ /\ Avail(h, len) > 0
            /\ \E m \in 0 .. Whole(Rest(h, len)) : Ended(h, len, m, r)
  <1> DEFINE avail == Avail(h, len)
             head  == HeadBytes(h, len)
             first == FirstWhole(h)
             rest  == Rest(h, len)
             n     == Whole(rest)
             hdata == HeadData(h, len)
             Is(kind, data, moved) == [kind |-> kind, data |-> data, pos |-> h.pos + moved]
             Ends(m) ==
               LET left == rest - m * Bytes
                   data == hdata \o Copy(first, 0, m * Bytes)
                   k == left % Bytes
                   kind(good) == IF left > k THEN "error" ELSE good
                   moved == head + m * Bytes
               IN  IF left <= 0 THEN {Is("data", data, moved)}
                   ELSE {IF q < 0 THEN Is("error", data, moved)
                         ELSE IF q = 0 THEN Is(kind("torn"), data \o Stale(k), moved + k)
                         ELSE Is(kind("data"), data \o Copy(first + m, 0, k), moved + k)
                         : q \in Results(1)}
  <1>1. r \in IF avail <= 0 THEN {Is("data", <<>>, 0)}
              ELSE (IF head > 0
                    THEN {Is(IF q < 0 THEN "error" ELSE "data", <<>>, 0) : q \in Results(1) \ {1}}
                    ELSE {})
                   \cup
                   (IF n = 0 THEN Ends(0)
                    ELSE UNION {IF q < 0 THEN {Is("error", hdata, head)} ELSE Ends(q)
                                : q \in Results(n)})
    BY DEF Outcomes, Avail, HeadBytes, Rest, HeadData
  <1>2. h.pos \in Int /\ avail \in Int /\ head \in Int /\ rest \in Int /\ Bytes \in Int
    BY HandleType, RestType, BoundsAssumption
  <1>3. ASSUME NEW m \in Nat, r \in Ends(m)
        PROVE  Ended(h, len, m, r)
    <2> DEFINE left == rest - m * Bytes
               data == hdata \o Copy(first, 0, m * Bytes)
               k    == left % Bytes
               moved == head + m * Bytes
    <2>1. m * Bytes \in Int /\ left \in Int /\ k \in Int /\ moved \in Int
      BY <1>2, BoundsAssumption
    <2>2. h.pos + (moved + k) = (h.pos + (HeadBytes(h, len) + m * Bytes)) + k
      BY <1>2, <2>1
    <2>3. CASE left <= 0
      <3>1. r = Is("data", data, moved)
        BY <1>3, <2>3
      <3> QED
        BY <2>3, <3>1 DEF Ended
    <2>4. CASE ~(left <= 0)
      <3>1. left > 0
        BY <2>1, <2>4
      <3>2. PICK q \in Results(1) :
              r = IF q < 0 THEN Is("error", data, moved)
                  ELSE IF q = 0 THEN Is(IF left > k THEN "error" ELSE "torn", data \o Stale(k), moved + k)
                  ELSE Is(IF left > k THEN "error" ELSE "data", data \o Copy(first + m, 0, k), moved + k)
        BY <1>3, <2>4
      <3>3. CASE q < 0
        <4>1. r.kind = "error" /\ r.pos = h.pos + (HeadBytes(h, len) + m * Bytes)
          BY <3>2, <3>3
        <4> HIDE DEF data, Is
        <4> QED
          BY <3>1, <4>1 DEF Ended
      <3>4. CASE ~(q < 0) /\ q = 0
        <4>1. r.kind \in {"error", "torn"} /\ r.pos = (h.pos + (HeadBytes(h, len) + m * Bytes)) + k
          BY <2>2, <3>2, <3>4
        <4> HIDE DEF data, Is
        <4> QED
          BY <3>1, <4>1, Zenon DEF Ended
      <3>5. CASE ~(q < 0) /\ q # 0 /\ left > k
        <4>1. r.kind = "error" /\ r.pos = (h.pos + (HeadBytes(h, len) + m * Bytes)) + k
          BY <2>2, <3>2, <3>5
        <4> HIDE DEF data, Is
        <4> QED
          BY <3>1, <4>1, Zenon DEF Ended
      <3>6. CASE ~(q < 0) /\ q # 0 /\ ~(left > k)
        <4>1. r = [kind |-> "data", data |-> data \o Copy(first + m, 0, k),
                   pos |-> (h.pos + (HeadBytes(h, len) + m * Bytes)) + k]
          BY <2>2, <3>2, <3>6
        <4>2. left <= k
          BY <2>1, <3>6
        <4> QED
          BY <3>1, <4>1, <4>2, Zenon DEF Ended
      <3> QED
        BY <3>3, <3>4, <3>5, <3>6
    <2> QED
      BY <2>3, <2>4
  <1> HIDE DEF Ends
  <1>4. CASE avail <= 0
    <2>1. h.pos + 0 = h.pos
      BY <1>2
    <2> QED
      BY <1>1, <1>4, <2>1
  <1>5. CASE ~(avail <= 0)
    <2>1. avail > 0 /\ h.pos + 0 = h.pos
      BY <1>2, <1>5
    <2>2. rest \in Nat /\ n \in Nat
      BY <2>1, RestNat, WholeSectors, Division
    <2>3. CASE \E q \in Results(1) : r = Is(IF q < 0 THEN "error" ELSE "data", <<>>, 0)
      BY <2>1, <2>3
    <2>4. CASE n = 0 /\ r \in Ends(0)
      <3>1. Ended(h, len, 0, r)
        BY <1>3, <2>4
      <3> QED
        BY <2>1, <2>4, <3>1
    <2>5. ASSUME n # 0, NEW q \in Results(n), r \in IF q < 0 THEN {Is("error", hdata, head)} ELSE Ends(q)
          PROVE  \/ r.kind = "error" /\ r.pos = h.pos + HeadBytes(h, len)
                 \/ \E m \in 0 .. n : Ended(h, len, m, r)
      <3>1. CASE q < 0
        BY <2>5, <3>1
      <3>2. CASE ~(q < 0)
        <4>1. q \in 0 .. n
          BY <2>2, <2>5, <3>2 DEF Results
        <4>2. Ended(h, len, q, r)
          BY <1>3, <2>5, <3>2, <4>1
        <4> QED
          BY <4>1, <4>2
      <3> QED
        BY <3>1, <3>2
    <2> QED
      BY <1>1, <1>5, <2>1, <2>3, <2>4, <2>5
  <1> QED
    BY <1>4, <1>5

\* Where a position inside the file lies
Address(h) == h.file.lba * Bytes + h.pos

\* What is delivered from the first sector, and where the next one begins
LEMMA HeadPart ==
  ASSUME NEW h \in Handle, NEW len \in Nat, h.pos >= 0, Avail(h, len) > 0
  PROVE  /\ Address(h) \in Int /\ FirstWhole(h) \in Int
         /\ HeadData(h, len) = Run(Address(h), HeadBytes(h, len))
         /\ Rest(h, len) > 0 => FirstWhole(h) * Bytes = Address(h) + HeadBytes(h, len)
  <1> DEFINE l == h.file.lba
             p == h.pos
             q == p \div Bytes
             o == p % Bytes
             a == Avail(h, len)
             d == HeadBytes(h, len)
  <1>1. l \in Nat /\ p \in Nat /\ Bytes \in Nat /\ Bytes > 0
    BY HandleType, BoundsAssumption
  <1>2. q \in Nat /\ o \in 0 .. Bytes - 1 /\ p = q * Bytes + o
    BY <1>1, Division
  <1>3. a \in Int /\ d \in 0 .. a /\ d \in Nat /\ a > 0
    BY RestType
  <1>4. Div(p) = q
    BY <1>1 DEF Div
  <1>5. d = IF o = 0 THEN 0 ELSE IF Bytes - o > a THEN a ELSE Bytes - o
    BY DEF HeadBytes, HeadLen
  <1>6. FirstWhole(h) = l + q + IF o = 0 THEN 0 ELSE 1
    BY <1>4 DEF FirstWhole
  <1>7. HeadData(h, len) = Copy(l + q, o, d)
    BY <1>4 DEF HeadData
  <1>8. Rest(h, len) = a - d
    BY DEF Rest
  <1> HIDE DEF l, p, q, o, a, d
  <1>9. Address(h) = l * Bytes + p /\ Address(h) \in Int
    BY <1>1 DEF Address, l, p
  <1>10. (l + q) * Bytes + o = Address(h)
    <2>1. (l + q) * Bytes = l * Bytes + q * Bytes
      BY <1>1, <1>2
    <2> QED
      BY <1>1, <1>2, <1>9, <2>1
  <1>11. Copy(l + q, o, d) = Run(Address(h), d)
    BY <1>1, <1>2, <1>3, <1>10, CopyRuns
  <1>12. ASSUME a - d > 0
         PROVE  FirstWhole(h) * Bytes = Address(h) + d
    <2>1. CASE o = 0
      BY <1>1, <1>2, <1>5, <1>6, <1>10, <2>1
    <2>2. CASE o # 0
      <3>1. d = Bytes - o
        BY <1>1, <1>2, <1>3, <1>5, <1>12, <2>2
      <3>2. (l + q + 1) * Bytes = (l + q) * Bytes + Bytes
        BY <1>1, <1>2
      <3>3. FirstWhole(h) = l + q + 1
        BY <1>6, <2>2
      <3>4. (l + q) * Bytes \in Int
        BY <1>1, <1>2
      <3> QED
        BY <1>1, <1>2, <1>10, <3>1, <3>2, <3>3, <3>4
    <2> QED
      BY <2>1, <2>2
  <1>13. FirstWhole(h) \in Int
    BY <1>1, <1>2, <1>6
  <1> QED
    BY <1>7, <1>8, <1>9, <1>11, <1>12, <1>13 DEF d

\* What a read that went on for m whole sectors has delivered
LEMMA EndedMeaning ==
  ASSUME NEW h \in Handle, NEW len \in Nat, h.pos >= 0, Avail(h, len) > 0,
         NEW m \in 0 .. Whole(Rest(h, len)), NEW r, Ended(h, len, m, r)
  PROVE  /\ r.kind \in {"data", "error", "torn"}
         /\ r.kind = "data" => \E n \in Nat : /\ r.data = Run(Address(h), n)
                                              /\ r.pos = h.pos + n
                                              /\ n > 0 => h.pos + n <= h.file.size
         /\ r.kind # "data" => r.pos \in h.pos .. h.file.size
  <1> DEFINE x == Address(h)
             f == FirstWhole(h)
             d == HeadBytes(h, len)
             rest == Rest(h, len)
             w == m * Bytes
             left == rest - w
             k == left % Bytes
             body == HeadData(h, len) \o Copy(f, 0, w)
  <1>1. /\ x \in Int /\ f \in Int
        /\ HeadData(h, len) = Run(x, d)
        /\ rest > 0 => f * Bytes = x + d
    BY HeadPart
  <1>2. /\ d \in Nat /\ rest \in Nat /\ h.pos \in Nat /\ h.file.size \in Nat
        /\ h.pos + d + rest <= h.file.size
    <2>1. /\ Avail(h, len) \in Int /\ d \in 0 .. Avail(h, len) /\ rest = Avail(h, len) - d
          /\ h.pos \in Int /\ h.file.size \in Nat
      BY RestType, HandleType DEF Rest
    <2>2. h.pos + Avail(h, len) <= h.file.size
      BY <2>1 DEF Avail
    <2> QED
      BY <2>1, <2>2
  <1>3. m \in Nat /\ w \in Nat /\ w <= rest
    <2>1. /\ Whole(rest) = rest \div Bytes /\ rest \div Bytes \in Nat
          /\ rest = (rest \div Bytes) * Bytes + (rest % Bytes) /\ rest % Bytes \in 0 .. Bytes - 1
      BY <1>2, WholeSectors, Division
    <2>2. m \in Nat /\ m <= rest \div Bytes
      BY <2>1
    <2>3. m * Bytes <= (rest \div Bytes) * Bytes /\ m * Bytes \in Nat
      <3> HIDE DEF rest
      <3> QED
        BY <2>1, <2>2, BoundsAssumption
    <2> HIDE DEF rest
    <2> QED
      BY <1>2, <2>1, <2>2, <2>3, BoundsAssumption
  <1>4. left \in Nat /\ k \in 0 .. Bytes - 1 /\ k <= left
    <2>1. left \in Nat
      <3> HIDE DEF rest, w
      <3> QED
        BY <1>2, <1>3
    <2>2. /\ left = (left \div Bytes) * Bytes + (left % Bytes)
          /\ left \div Bytes \in Nat /\ k \in 0 .. Bytes - 1
      BY <2>1, Division
    <2>3. (left \div Bytes) * Bytes \in Nat
      <3> HIDE DEF left
      <3> QED
        BY <2>2, BoundsAssumption
    <2> HIDE DEF left
    <2> QED
      BY <2>1, <2>2, <2>3, BoundsAssumption DEF k
  <1>5. Copy(f, 0, w) = Run(f * Bytes, w) /\ f * Bytes \in Int
    <2>1. f * Bytes \in Int /\ f * Bytes + 0 = f * Bytes
      BY <1>1, BoundsAssumption
    <2> QED
      BY <1>1, <1>3, <2>1, CopyRuns
  <1>6. body = Run(x, d + w)
    <2>1. w > 0 => f * Bytes = x + d
      <3> HIDE DEF rest, w
      <3> QED
        BY <1>1, <1>2, <1>3
    <2>2. Run(x, d) \o Run(f * Bytes, w) = Run(x, d + w)
      <3> DEFINE y == f * Bytes
      <3>1. x \in Int /\ y \in Int /\ d \in Nat /\ w \in Nat /\ (w > 0 => y = x + d)
        BY <1>1, <1>2, <1>3, <1>5, <2>1
      <3> HIDE DEF x, y, d, w
      <3>2. Run(x, d) \o Run(y, w) = Run(x, d + w)
        BY <3>1, RunJoin
      <3> QED
        BY <3>2 DEF y
    <2> QED
      BY <1>1, <1>5, <2>2
  <1>7. CASE left <= 0 /\ r = [kind |-> "data", data |-> body, pos |-> h.pos + (d + w)]
    <2>1. d + w \in Nat /\ h.pos + (d + w) <= h.file.size
      <3> HIDE DEF d, w, rest
      <3> QED
        BY <1>2, <1>3
    <2> QED
      BY <1>6, <1>7, <2>1
  <1>8. CASE /\ left > 0 /\ r.kind \in {"error", "torn"}
             /\ r.pos \in {h.pos + (d + w), (h.pos + (d + w)) + k}
    <2>1. r.pos \in h.pos .. h.file.size
      <3>1. left = rest - w
        OBVIOUS
      <3> HIDE DEF d, w, rest, left, k
      <3> QED
        BY <1>2, <1>3, <1>4, <1>8, <3>1, BoundsAssumption
    <2> QED
      BY <1>8, <2>1
  <1>9. CASE /\ left > 0 /\ left <= k
             /\ r = [kind |-> "data", data |-> body \o Copy(f + m, 0, k),
                     pos |-> (h.pos + (d + w)) + k]
    <2>1. left = rest - w /\ left > 0
      BY <1>9
    <2>2. /\ d + w \in Nat /\ (d + w) + k \in Nat /\ k \in Nat /\ rest > 0
          /\ (h.pos + (d + w)) + k = h.pos + ((d + w) + k)
          /\ h.pos + ((d + w) + k) <= h.file.size
      <3> HIDE DEF d, w, rest, left, k
      <3> QED
        BY <1>2, <1>3, <1>4, <2>1, BoundsAssumption
    <2>3. (f + m) * Bytes + 0 = x + (d + w) /\ (f + m) * Bytes \in Int
      <3>1. (f + m) * Bytes = f * Bytes + m * Bytes
        BY <1>1, <1>3, BoundsAssumption
      <3>2. f * Bytes = x + d
        BY <1>1, <2>2
      <3> HIDE DEF f, x, d
      <3> QED
        BY <1>1, <1>2, <1>3, <1>5, <3>1, <3>2
    <2>4. Copy(f + m, 0, k) = Run(x + (d + w), k)
      <3>1. f + m \in Int
        BY <1>1, <1>3
      <3>2. Copy(f + m, 0, k) = Run((f + m) * Bytes + 0, k)
        BY <2>2, <3>1, CopyRuns
      <3> QED
        BY <2>3, <3>2
    <2>5. body \o Copy(f + m, 0, k) = Run(x, (d + w) + k)
      <3>1. Run(x, d + w) \o Run(x + (d + w), k) = Run(x, (d + w) + k)
        <4>1. x + (d + w) \in Int
          BY <1>1, <2>2
        <4> HIDE DEF x, d, w, k
        <4> QED
          BY <1>1, <2>2, <4>1, RunJoin
      <3> QED
        BY <1>6, <2>4, <3>1
    <2> QED
      BY <1>9, <2>2, <2>5
  <1>10. \/ left <= 0 /\ r = [kind |-> "data", data |-> body, pos |-> h.pos + (d + w)]
         \/ /\ left > 0 /\ r.kind \in {"error", "torn"}
            /\ r.pos \in {h.pos + (d + w), (h.pos + (d + w)) + k}
         \/ /\ left > 0 /\ left <= k
            /\ r = [kind |-> "data", data |-> body \o Copy(f + m, 0, k),
                    pos |-> (h.pos + (d + w)) + k]
    BY Zenon DEF Ended
  <1> QED
    BY <1>7, <1>8, <1>9, <1>10

LEMMA OutcomeKind ==
  ASSUME NEW h \in Handle, NEW len \in Nat, NEW r \in Outcomes(h, len)
  PROVE  r.kind \in {"data", "error", "torn"}
  <1>1. ASSUME NEW m, Ended(h, len, m, r)
        PROVE  r.kind \in {"data", "error", "torn"}
    BY <1>1 DEF Ended
  <1> QED
    BY <1>1, OutcomeCases

\* A read that succeeds delivers the bytes that follow the position, and one
\* that fails leaves the position inside the file
LEMMA ReadMeaning ==
  ASSUME NEW h \in Handle, NEW len \in Nat, NEW r \in Outcomes(h, len), h.pos >= 0
  PROVE  /\ r.kind = "data" => \E n \in Nat : /\ r.data = Run(Address(h), n)
                                              /\ r.pos = h.pos + n
                                              /\ n > 0 => h.pos + n <= h.file.size
         /\ r.kind # "data" => r.pos = h.pos \/ r.pos \in h.pos .. h.file.size
  <1>1. /\ h.pos \in Nat /\ h.file.size \in Nat /\ Address(h) \in Int
        /\ h.pos + 0 = h.pos
    BY HandleType, BoundsAssumption DEF Address
  <1>2. <<>> = Run(Address(h), 0)
    BY DEF Run
  <1>3. CASE r.kind = "data" /\ r.data = <<>> /\ r.pos = h.pos
    BY <1>1, <1>2, <1>3
  <1>4. CASE r.kind = "error" /\ r.data = <<>> /\ r.pos = h.pos
    BY <1>4
  <1>5. CASE Avail(h, len) > 0 /\ r.kind = "error" /\ r.pos = h.pos + HeadBytes(h, len)
    <2>1. /\ HeadBytes(h, len) \in 0 .. Avail(h, len) /\ Avail(h, len) \in Int
          /\ h.pos + Avail(h, len) <= h.file.size
      BY <1>1, <1>5, RestType DEF Avail
    <2> QED
      BY <1>1, <1>5, <2>1
  <1>6. CASE /\ Avail(h, len) > 0
             /\ \E m \in 0 .. Whole(Rest(h, len)) : Ended(h, len, m, r)
    BY <1>6, EndedMeaning
  <1> QED
    BY <1>3, <1>4, <1>5, <1>6, OutcomeCases

-----------------------------------------------------------------------------
(* Types.                                                                  *)

LEMMA Beginnings == Fresh \in Handle /\ NoReq \in Requests /\ 0 \in Positions
  <1>1. 0 \in Positions
    BY BoundsAssumption DEF Positions
  <1> QED
    BY <1>1 DEF Fresh, Handle, NoFile, NoReq, Requests

LEMMA TypeInit == Init => TypeOK
  <1> SUFFICES ASSUME Init PROVE TypeOK
    OBVIOUS
  <1>1. handlers \in [Handlers -> Handle] /\ req \in [Threads -> Requests]
    BY Beginnings DEF Init
  <1> QED
    BY <1>1 DEF Init, TypeOK, Nothing

\* A handle of the table that changes keeps its type
LEMMA HandleChanges ==
  ASSUME TypeOK, NEW s, NEW p \in Positions, NEW b \in BOOLEAN
  PROVE  /\ [handlers EXCEPT ![s].pos = p] \in [Handlers -> Handle]
         /\ [handlers EXCEPT ![s].eof = b] \in [Handlers -> Handle]
         /\ [handlers EXCEPT ![s].opened = b] \in [Handlers -> Handle]
  BY DEF TypeOK, Handle

LEMMA HandleOpened ==
  ASSUME NEW f \in Files
  PROVE  [Fresh EXCEPT !.opened = TRUE, !.file = f] \in Handle
  <1>1. \A h \in Handle : [h EXCEPT !.opened = TRUE, !.file = f] \in Handle
    BY DEF Handle
  <1> QED
    BY <1>1, Beginnings

\* A thread that returns
LEMMA ReturnType ==
  ASSUME TypeOK, NEW t \in Threads, Return(t)
  PROVE  /\ pc' \in [Threads -> {"idle", "wait", "dopen", "result"}]
         /\ req' \in [Threads -> Requests]
         /\ sought' \in [Threads -> Positions \cup {Closed}]
  BY Beginnings DEF TypeOK, Return, Forget

LEMMA TypeCall == ASSUME TypeOK, NEW t \in Threads, Call(t) PROVE TypeOK'
  <1>1. \A op \in IobOps \cup {"none", "open", "dopen", "getstat"}, i \in Iobs \cup {Closed} :
           [op |-> op, iob |-> i] \in Requests
    BY DEF Requests
  <1>2. req' \in [Threads -> Requests]
    BY <1>1 DEF Call, TypeOK
  <1> QED
    BY <1>2 DEF Call, TypeOK

LEMMA TypeOpen == ASSUME TypeOK, NEW t \in Threads, Open(t) PROVE TypeOK'
  <1>1. /\ pc' \in [Threads -> {"idle", "wait", "dopen", "result"}]
        /\ req' \in [Threads -> Requests]
        /\ sought' \in [Threads -> Positions \cup {Closed}]
    BY ReturnType DEF Open, TypeOK
  <1>2. PICK f \in Files : FreeHandles # {} /\ Opened(t, GetFreeHandle, f)
    BY DEF Open
  <1>3. GetFreeHandle \in Handlers
    BY <1>2, FreeHandleFound
  <1>4. handlers' \in [Handlers -> Handle]
    BY <1>2, HandleOpened DEF Opened, TypeOK
  <1>5. iob' \in [Iobs -> Handlers \cup {Closed}]
    BY <1>2, <1>3 DEF Opened, TypeOK
  <1> QED
    BY <1>1, <1>4, <1>5 DEF Open, Quietly, Nothing, TypeOK

LEMMA TypeClose ==
  ASSUME TypeOK, NEW t \in Threads, Dopen(t) \/ Close(t)
  PROVE  TypeOK'
  <1>1. handlers' \in [Handlers -> Handle]
    <2>1. \/ handlers' = handlers
          \/ handlers' = [handlers EXCEPT ![Slot(t)].eof = FALSE]
          \/ handlers' = [handlers EXCEPT ![Slot(t)].opened = FALSE]
      BY DEF Dopen, Close
    <2>2. /\ [handlers EXCEPT ![Slot(t)].eof = FALSE] \in [Handlers -> Handle]
          /\ [handlers EXCEPT ![Slot(t)].opened = FALSE] \in [Handlers -> Handle]
      BY HandleChanges, Beginnings
    <2> QED
      BY <2>1, <2>2 DEF TypeOK
  <1>2. iob' \in [Iobs -> Handlers \cup {Closed}]
    BY DEF TypeOK, Dopen, Close
  <1>3. Return(t) /\ Quietly
    BY DEF Dopen, Close
  <1> QED
    BY <1>1, <1>2, <1>3, ReturnType DEF Quietly, Nothing, TypeOK

\* A thread that asks something of an open file finds its handle
LEMMA SlotFound ==
  ASSUME TypeOK, RequestsInv, HandlesOwned, NEW t \in Threads,
         req[t].op \in IobOps \/ pc[t] = "dopen"
  PROVE  /\ req[t].iob \in Iobs /\ iob[req[t].iob] = Slot(t)
         /\ Slot(t) \in Handlers /\ handlers[Slot(t)].opened /\ handlers[Slot(t)] \in Handle
  <1>1. req[t] \in Requests
    BY DEF TypeOK
  <1>2. req[t].iob # Closed /\ iob[req[t].iob] # Closed
    BY DEF RequestsInv, IobOps
  <1>3. req[t].iob \in Iobs
    BY <1>1, <1>2 DEF Requests
  <1> QED
    BY <1>2, <1>3 DEF TypeOK, Slot, HandlesOwned

LEMMA TypeRead ==
  ASSUME TypeOK, RequestsInv, HandlesOwned, NEW t \in Threads, Read(t)
  PROVE  TypeOK'
  <1>1. PICK len \in 0 .. MaxLen : \E r \in Outcomes(handlers[Slot(t)], len) :
          /\ r.pos \in Positions
          /\ handlers' = [handlers EXCEPT ![Slot(t)].pos = r.pos]
          /\ out' = [iob |-> req[t].iob, kind |-> r.kind, data |-> r.data]
    BY DEF Read
  <1>2. PICK r \in Outcomes(handlers[Slot(t)], len) :
          /\ r.pos \in Positions
          /\ handlers' = [handlers EXCEPT ![Slot(t)].pos = r.pos]
          /\ out' = [iob |-> req[t].iob, kind |-> r.kind, data |-> r.data]
    BY <1>1
  <1>3. req[t].iob \in Iobs /\ handlers[Slot(t)] \in Handle /\ len \in Nat
    BY SlotFound, BoundsAssumption DEF Read, Wait, IobOps
  <1>4. out'.kind \in {"none", "data", "error", "torn"} /\ out'.iob \in Iobs \cup {Closed}
    BY <1>2, <1>3, OutcomeKind
  <1>5. handlers' \in [Handlers -> Handle]
    BY <1>2 DEF TypeOK, Handle
  <1> QED
    BY <1>4, <1>5, ReturnType DEF Read, TypeOK

LEMMA TypeLseek == ASSUME TypeOK, NEW t \in Threads, Lseek(t) PROVE TypeOK'
  <1>1. PICK new \in Positions :
          /\ handlers' = [handlers EXCEPT ![Slot(t)].pos = new]
          /\ sought' = [Forget(t) EXCEPT ![t] = new]
    BY DEF Lseek
  <1>2. handlers' \in [Handlers -> Handle]
    BY <1>1 DEF TypeOK, Handle
  <1>3. sought' \in [Threads -> Positions \cup {Closed}]
    BY <1>1 DEF TypeOK, Forget
  <1> QED
    BY <1>2, <1>3 DEF Lseek, Quietly, Nothing, TypeOK

LEMMA TypeOthers ==
  ASSUME TypeOK, NEW t \in Threads,
         \/ OpenFail(t) \/ GetStat(t) \/ BadHandle(t) \/ Ioctl(t) \/ LseekResult(t)
  PROVE  TypeOK'
  <1>1. CASE OpenFail(t)
    BY <1>1, ReturnType DEF OpenFail, Quietly, Nothing, TypeOK
  <1>2. CASE GetStat(t)
    BY <1>2, ReturnType DEF GetStat, Quietly, Nothing, TypeOK
  <1>3. CASE BadHandle(t)
    BY <1>3, ReturnType DEF BadHandle, Quietly, Nothing, TypeOK
  <1>4. CASE Ioctl(t)
    <2>1. kept' \in BOOLEAN /\ isofs_sema' \in Threads \cup {Free} /\ Return(t)
      BY <1>4 DEF Ioctl, TypeOK
    <2> QED
      BY <1>4, <2>1, ReturnType DEF Ioctl, TypeOK
  <1>5. CASE LseekResult(t)
    BY <1>5, ReturnType DEF LseekResult, TypeOK
  <1> QED
    BY <1>1, <1>2, <1>3, <1>4, <1>5

LEMMA TypeDread ==
  ASSUME TypeOK, RequestsInv, HandlesOwned, NEW t \in Threads, Dread(t)
  PROVE  TypeOK'
  <1> DEFINE h == handlers[Slot(t)]
  <1>1. h \in Handle
    BY SlotFound DEF Dread, Wait, IobOps
  <1>2. h.pos \in Int /\ h.pos >= -MaxPos /\ MaxPos \in Int
    BY <1>1, BoundsAssumption DEF Handle, Positions
  <1>3. \/ handlers' = handlers
        \/ handlers' = [handlers EXCEPT ![Slot(t)].eof = TRUE]
        \/ \E new \in h.pos + 1 .. h.file.size :
              new <= MaxPos /\ handlers' = [handlers EXCEPT ![Slot(t)].pos = new]
    BY DEF Dread
  <1>4. ASSUME NEW new \in h.pos + 1 .. h.file.size, new <= MaxPos
        PROVE  [handlers EXCEPT ![Slot(t)].pos = new] \in [Handlers -> Handle]
    <2>1. h.file.size \in Int
      BY <1>1, HandleType
    <2>2. new \in Positions
      <3> HIDE DEF h
      <3> QED
        BY <1>2, <1>4, <2>1 DEF Positions
    <2> QED
      BY <2>2, HandleChanges, TRUE \in BOOLEAN
  <1>5. [handlers EXCEPT ![Slot(t)].eof = TRUE] \in [Handlers -> Handle]
    BY HandleChanges, Beginnings
  <1>6. handlers' \in [Handlers -> Handle]
    BY <1>3, <1>4, <1>5 DEF TypeOK
  <1> QED
    BY <1>6, ReturnType DEF Dread, Quietly, Nothing, TypeOK

LEMMA TypeStep ==
  ASSUME TypeOK, RequestsInv, HandlesOwned, [Next]_vars
  PROVE  TypeOK'
  <1>1. CASE UNCHANGED vars
    BY <1>1 DEF vars, TypeOK
  <1>2. CASE Next
    BY <1>2, TypeCall, TypeOpen, TypeClose, TypeRead, TypeLseek, TypeDread, TypeOthers DEF Next, Step
  <1> QED
    BY <1>1, <1>2
-----------------------------------------------------------------------------
(* What the threads ask for.                                               *)

Basis == TypeOK /\ RequestsInv /\ HandlesOwned

\* What RequestsInv says of one thread
RequestInv(t) ==
    /\ pc[t] = "idle" <=> req[t].op = "none"
    /\ req[t].iob = Closed <=> req[t].op \in {"none", "getstat"}
    /\ pc[t] = "dopen" => req[t].op = "dopen"
    /\ pc[t] = "result" => req[t].op = "lseek"
    /\ pc[t] = "wait" /\ req[t].op \in {"open", "dopen"} => iob[req[t].iob] = Closed
    /\ pc[t] = "dopen" \/ req[t].op \in IobOps => iob[req[t].iob] # Closed
    /\ req[t].op \in {"open", "dopen", "close", "dclose"} =>
          \A u \in Threads \ {t} : req[u].iob # req[t].iob

LEMMA RequestsEach ==
  /\ RequestsInv <=> \A t \in Threads : RequestInv(t)
  /\ RequestsInv' <=> \A t \in Threads : RequestInv(t)'
  BY DEF RequestsInv, RequestInv

LEMMA RequestsCall ==
  ASSUME TypeOK, RequestsInv, NEW t \in Threads, Call(t)
  PROVE  RequestsInv'
  <1>1. PICK op \in {"open", "dopen"} \cup IobOps \cup {"getstat"}, i \in Iobs \cup {Closed} :
          /\ req' = [req EXCEPT ![t] = [op |-> op, iob |-> i]]
          /\ i = Closed <=> op = "getstat"
          /\ op \in {"open", "dopen"} => iob[i] = Closed /\ Using(i) = {}
          /\ op \in IobOps => iob[i] # Closed
          /\ op \in IobOps => \A u \in Using(i) : req[u].op \notin {"close", "dclose", "dopen"}
          /\ op \in {"close", "dclose"} => Using(i) = {}
    <2>1. ASSUME NEW op \in {"open", "dopen"}, NEW i \in Iobs
          PROVE  i # Closed /\ op # "getstat" /\ op \notin IobOps
      BY FreeAssumption DEF IobOps
    <2>2. ASSUME NEW op \in IobOps, NEW i \in Iobs
          PROVE  i # Closed /\ op # "getstat" /\ op \notin {"open", "dopen"}
      BY FreeAssumption DEF IobOps
    <2>3. "getstat" \notin IobOps
      BY DEF IobOps
    <2>4. CASE \E op \in {"open", "dopen"}, i \in Iobs :
                  /\ iob[i] = Closed /\ Using(i) = {}
                  /\ req' = [req EXCEPT ![t] = [op |-> op, iob |-> i]]
      BY <2>1, <2>4
    <2>5. CASE \E op \in IobOps, i \in Iobs :
                  /\ iob[i] # Closed
                  /\ \A u \in Using(i) : req[u].op \notin {"close", "dclose", "dopen"}
                  /\ op \in {"close", "dclose"} => Using(i) = {}
                  /\ req' = [req EXCEPT ![t] = [op |-> op, iob |-> i]]
      BY <2>2, <2>5
    <2>6. CASE req' = [req EXCEPT ![t] = [op |-> "getstat", iob |-> Closed]]
      <3> DEFINE op == "getstat"
                 i  == Closed
      <3>1. /\ op \in {"open", "dopen"} \cup IobOps \cup {"getstat"} /\ i \in Iobs \cup {Closed}
            /\ i = Closed /\ op = "getstat" /\ op \notin {"open", "dopen"} /\ op \notin IobOps
            /\ op \notin {"close", "dclose"}
            /\ req' = [req EXCEPT ![t] = [op |-> op, iob |-> i]]
        BY <2>3, <2>6
      <3> HIDE DEF op, i
      <3> QED
        BY <3>1
    <2> QED
      BY <2>4, <2>5, <2>6 DEF Call
  <1>2. pc' = [pc EXCEPT ![t] = "wait"] /\ iob' = iob /\ pc[t] = "idle"
    BY DEF Call
  <1>3. req'[t] = [op |-> op, iob |-> i] /\ pc'[t] = "wait"
    BY <1>1, <1>2 DEF TypeOK
  <1>4. ASSUME NEW u \in Threads \ {t}
        PROVE  /\ req'[u] = req[u] /\ pc'[u] = pc[u] /\ RequestInv(u)
               /\ req[u].iob = i /\ i # Closed => u \in Using(i)
               /\ req[u].op \in {"open", "dopen", "close", "dclose"} => req[u].iob # i
    <2>1. req'[u] = req[u] /\ pc'[u] = pc[u] /\ RequestInv(u)
      BY <1>1, <1>2, RequestsEach DEF TypeOK
    <2>2. req[u].iob = i /\ i # Closed => u \in Using(i)
      BY <2>1 DEF RequestInv, Using
    <2>3. ASSUME req[u].op \in {"open", "dopen", "close", "dclose"}, req[u].iob = i
          PROVE  FALSE
      <3>1. i # Closed /\ u \in Using(i)
        BY <2>1, <2>2, <2>3 DEF RequestInv
      <3>2. op \in IobOps /\ iob[i] # Closed /\ req[u].op = "open"
        BY <1>1, <2>3, <3>1
      <3>3. pc[u] = "wait"
        BY <2>1, <3>2 DEF RequestInv, TypeOK
      <3> QED
        BY <2>1, <2>3, <3>2, <3>3 DEF RequestInv
    <2> QED
      BY <2>1, <2>2, <2>3
  <1>5. RequestInv(t)'
    <2>1. op \in {"open", "dopen", "close", "dclose"} => \A u \in Threads \ {t} : req[u].iob # i
      BY <1>1, <1>4 DEF IobOps
    <2> QED
      BY <1>1, <1>2, <1>3, <1>4, <2>1 DEF RequestInv, IobOps
  <1>6. ASSUME NEW u \in Threads \ {t}
        PROVE  RequestInv(u)'
    BY <1>2, <1>3, <1>4 DEF RequestInv
  <1> QED
    BY <1>5, <1>6, RequestsEach

LEMMA RequestFile ==
  ASSUME TypeOK, NEW t \in Threads, RequestInv(t),
         req[t].op \in {"open", "dopen"} \cup IobOps \/ pc[t] = "dopen"
  PROVE  req[t].iob \in Iobs
  <1>1. req[t] \in Requests /\ req[t].iob # Closed
    BY DEF TypeOK, RequestInv, IobOps
  <1> QED
    BY <1>1 DEF Requests

\* A thread returns, and with it a file may have been opened or closed that
\* nobody else uses
LEMMA ReturnRequests ==
  ASSUME TypeOK, RequestsInv, NEW t \in Threads, Return(t),
         \A u \in Threads \ {t} : req[u].iob \in Iobs => iob'[req[u].iob] = iob[req[u].iob]
  PROVE  RequestsInv'
  <1>1. pc'[t] = "idle" /\ req'[t] = NoReq
    BY DEF Return, TypeOK
  <1>2. RequestInv(t)'
    BY <1>1 DEF RequestInv, NoReq, IobOps
  <1>3. ASSUME NEW u \in Threads \ {t}
        PROVE  RequestInv(u)'
    <2>1. /\ req'[u] = req[u] /\ pc'[u] = pc[u] /\ RequestInv(u)
          /\ req[u].iob \in Iobs => iob'[req[u].iob] = iob[req[u].iob]
      BY RequestsEach DEF Return, TypeOK
    <2>2. req[u].op \in {"open", "dopen", "close", "dclose"} =>
             \A v \in Threads \ {u} : req'[v].iob # req[u].iob
      <3>1. ASSUME NEW v \in Threads \ {u}
            PROVE  req'[v] = req[v] \/ req'[v] = NoReq
        BY DEF Return, TypeOK
      <3>2. req[u].op \in {"open", "dopen", "close", "dclose"} => req[u].iob # Closed
        BY <2>1 DEF RequestInv
      <3> QED
        BY <2>1, <3>1, <3>2 DEF RequestInv, NoReq
    <2>3. req[u].op \in {"open", "dopen"} \cup IobOps \/ pc[u] = "dopen" =>
             iob'[req[u].iob] = iob[req[u].iob]
      BY <2>1, RequestFile
    <2> QED
      BY <2>1, <2>2, <2>3 DEF RequestInv
  <1> QED
    BY <1>2, <1>3, RequestsEach

\* A thread goes on
LEMMA RequestsGo ==
  ASSUME TypeOK, RequestsInv, NEW t \in Threads, UNCHANGED req,
         \A u \in Threads \ {t} : req[u].iob \in Iobs => iob'[req[u].iob] = iob[req[u].iob],
         \/ pc' = [pc EXCEPT ![t] = "dopen"] /\ req[t].op = "dopen" /\ iob'[req[t].iob] # Closed
         \/ pc' = [pc EXCEPT ![t] = "result"] /\ req[t].op = "lseek" /\ iob' = iob
  PROVE  RequestsInv'
  <1>1. \A u \in Threads \ {t} : pc'[u] = pc[u]
    BY DEF TypeOK
  <1>2. RequestInv(t) /\ \A u \in Threads : RequestInv(u)
    BY RequestsEach
  <1>3. ASSUME NEW u \in Threads \ {t}
        PROVE  RequestInv(u)'
    <2>1. req[u].op \in {"open", "dopen"} \cup IobOps \/ pc[u] = "dopen" =>
             iob'[req[u].iob] = iob[req[u].iob]
      BY <1>2, RequestFile
    <2> QED
      BY <1>1, <1>2, <2>1 DEF RequestInv
  <1>4. RequestInv(t)'
    <2>1. CASE pc' = [pc EXCEPT ![t] = "dopen"] /\ req[t].op = "dopen" /\ iob'[req[t].iob] # Closed
      <3>1. pc'[t] = "dopen"
        BY <2>1 DEF TypeOK
      <3> QED
        BY <1>2, <2>1, <3>1 DEF RequestInv, IobOps
    <2>2. CASE pc' = [pc EXCEPT ![t] = "result"] /\ req[t].op = "lseek" /\ iob' = iob
      <3>1. pc'[t] = "result"
        BY <2>2 DEF TypeOK
      <3> QED
        BY <1>2, <2>2, <3>1 DEF RequestInv, IobOps
    <2> QED
      BY <2>1, <2>2
  <1> QED
    BY <1>3, <1>4, RequestsEach

-----------------------------------------------------------------------------
(* What a step does to the files.                                          *)

\* The handles of t's file alone may change, and only in what they say
Touches(t) ==
    /\ iob' = iob
    /\ \A h \in Handlers : /\ handlers'[h].opened = handlers[h].opened
                           /\ handlers'[h].file = handlers[h].file
    /\ \/ handlers' = handlers
       \/ /\ req[t].iob \in Iobs /\ iob[req[t].iob] = Slot(t) /\ Slot(t) \in Handlers
          /\ \A h \in Handlers \ {Slot(t)} : handlers'[h] = handlers[h]

\* t's file gets the free handle h
Gets(t, h, f) ==
    /\ h \in Handlers /\ ~handlers[h].opened /\ f \in Files
    /\ req[t].iob \in Iobs /\ iob[req[t].iob] = Closed
    /\ \A u \in Threads \ {t} : req[u].iob # req[t].iob
    /\ handlers' = [handlers EXCEPT ![h] = [Fresh EXCEPT !.opened = TRUE, !.file = f]]
    /\ iob' = [iob EXCEPT ![req[t].iob] = h]

\* t's file lets go of its handle
Loses(t) ==
    /\ req[t].iob \in Iobs /\ iob[req[t].iob] = Slot(t) /\ Slot(t) \in Handlers
    /\ handlers' = [handlers EXCEPT ![Slot(t)].opened = FALSE]
    /\ iob' = [iob EXCEPT ![req[t].iob] = Closed]
    /\ \A u \in Threads \ {t} : req[u].iob # req[t].iob

LEMMA TouchesOwned ==
  ASSUME Basis, NEW t \in Threads, Touches(t)
  PROVE  HandlesOwned'
  BY DEF Basis, TypeOK, Touches, HandlesOwned

LEMMA GetsOwned ==
  ASSUME Basis, NEW t \in Threads, NEW h, NEW f, Gets(t, h, f)
  PROVE  HandlesOwned'
  <1> DEFINE i == req[t].iob
  <1>1. /\ i \in Iobs /\ iob[i] = Closed /\ iob'[i] = h /\ h \in Handlers /\ h # Closed
        /\ handlers'[h].opened
        /\ \A j \in Iobs \ {i} : iob'[j] = iob[j] /\ iob[j] # h
        /\ \A g \in Handlers \ {h} : handlers'[g] = handlers[g]
    <2>1. handlers'[h].opened
      BY DEF Gets, Basis, TypeOK, Fresh
    <2>2. \A j \in Iobs : iob[j] # h
      BY FreeAssumption DEF Gets, Basis, HandlesOwned
    <2> QED
      BY <2>1, <2>2, FreeAssumption DEF Gets, Basis, TypeOK
  <1>2. ASSUME NEW j \in Iobs, iob'[j] # Closed
        PROVE  handlers'[iob'[j]].opened /\ \A k \in Iobs \ {j} : iob'[k] # iob'[j]
    <2>1. CASE j = i
      BY <1>1, <2>1
    <2>2. CASE j # i
      <3>1. /\ iob'[j] = iob[j] /\ iob[j] # h /\ iob[j] \in Handlers
            /\ handlers[iob[j]].opened /\ \A k \in Iobs \ {j} : iob[k] # iob[j]
        BY <1>1, <1>2, <2>2 DEF Basis, HandlesOwned, TypeOK
      <3> QED
        BY <1>1, <3>1
    <2> QED
      BY <2>1, <2>2
  <1>3. ASSUME NEW g \in Handlers, handlers'[g].opened
        PROVE  \E j \in Iobs : iob'[j] = g
    <2>1. CASE g = h
      BY <1>1, <2>1
    <2>2. CASE g # h
      <3>1. PICK j \in Iobs : iob[j] = g
        BY <1>1, <1>3, <2>2 DEF Basis, HandlesOwned
      <3>2. j # i
        BY <1>1, <3>1, FreeAssumption
      <3> QED
        BY <1>1, <3>1, <3>2
    <2> QED
      BY <2>1, <2>2
  <1> QED
    BY <1>2, <1>3 DEF HandlesOwned

LEMMA LosesOwned ==
  ASSUME Basis, NEW t \in Threads, Loses(t)
  PROVE  HandlesOwned'
  <1> DEFINE i == req[t].iob
             s == Slot(t)
  <1>1. /\ i \in Iobs /\ iob[i] = s /\ s \in Handlers /\ s # Closed /\ iob'[i] = Closed
        /\ ~handlers'[s].opened
        /\ \A j \in Iobs \ {i} : iob'[j] = iob[j] /\ iob[j] # s
        /\ \A g \in Handlers \ {s} : handlers'[g] = handlers[g]
    <2>1. handlers[s] \in Handle /\ handlers'[s] = [handlers[s] EXCEPT !.opened = FALSE]
      BY DEF Loses, Basis, TypeOK
    <2>2. ~handlers'[s].opened
      BY <2>1 DEF Handle
    <2> QED
      BY <2>2, FreeAssumption DEF Loses, Basis, TypeOK, HandlesOwned
  <1> HIDE DEF i, s
  <1>2. ASSUME NEW j \in Iobs, iob'[j] # Closed
        PROVE  handlers'[iob'[j]].opened /\ \A k \in Iobs \ {j} : iob'[k] # iob'[j]
    <2>1. /\ j # i /\ iob'[j] = iob[j] /\ iob[j] # s /\ iob[j] \in Handlers
          /\ handlers[iob[j]].opened /\ \A k \in Iobs \ {j} : iob[k] # iob[j]
      BY <1>1, <1>2 DEF Basis, HandlesOwned, TypeOK
    <2> QED
      BY <1>1, <1>2, <2>1
  <1>3. ASSUME NEW g \in Handlers, handlers'[g].opened
        PROVE  \E j \in Iobs : iob'[j] = g
    <2>1. g # s
      BY <1>1, <1>3
    <2>2. PICK j \in Iobs : iob[j] = g
      BY <1>1, <1>3, <2>1 DEF Basis, HandlesOwned
    <2> QED
      BY <1>1, <2>1, <2>2
  <1> QED
    BY <1>2, <1>3 DEF HandlesOwned

\* What lseek has set for another thread stays
LEMMA SoughtStays ==
  ASSUME Basis, LseekAnswers, NEW t \in Threads,
         Touches(t) \/ (\E h, f : Gets(t, h, f)) \/ Loses(t),
         NEW u \in Threads \ {t}, pc[u] = "result", sought[u] # Closed,
         Touches(t) => u \notin Same(t) \/ handlers' = handlers
  PROVE  handlers'[iob'[req[u].iob]].pos = sought[u]
  <1>1. /\ req[u].op \in IobOps /\ req[u].iob \in Iobs /\ Slot(u) \in Handlers
        /\ Slot(u) = iob[req[u].iob] /\ handlers[Slot(u)].opened
        /\ handlers[Slot(u)].pos = sought[u]
    <2>1. req[u].op \in IobOps
      BY DEF Basis, RequestsInv, IobOps
    <2> QED
      BY <2>1, SlotFound DEF Basis, LseekAnswers
  <1>2. ASSUME Touches(t)
        PROVE  handlers'[iob'[req[u].iob]] = handlers[Slot(u)]
    <2>1. CASE handlers' = handlers
      BY <1>1, <1>2, <2>1 DEF Touches
    <2>2. CASE u \notin Same(t) /\ handlers' # handlers
      <3>1. req[u].iob # req[t].iob
        BY <2>2 DEF Same
      <3>2. /\ req[t].iob \in Iobs /\ iob[req[t].iob] = Slot(t) /\ Slot(t) \in Handlers
            /\ \A h \in Handlers \ {Slot(t)} : handlers'[h] = handlers[h]
        BY <1>2, <2>2 DEF Touches
      <3>3. Slot(u) # Slot(t)
        BY <1>1, <3>1, <3>2, FreeAssumption DEF Basis, HandlesOwned
      <3> QED
        BY <1>1, <1>2, <3>2, <3>3 DEF Touches
    <2>3. u \notin Same(t) \/ handlers' = handlers
      BY <1>2
    <2> QED
      BY <2>1, <2>2, <2>3
  <1>3. ASSUME NEW h, NEW f, Gets(t, h, f)
        PROVE  handlers'[iob'[req[u].iob]] = handlers[Slot(u)]
    <2>1. Slot(u) # h /\ req[u].iob # req[t].iob
      BY <1>1, <1>3, FreeAssumption DEF Gets
    <2> QED
      BY <1>1, <1>3, <2>1 DEF Gets, Basis, TypeOK
  <1>4. ASSUME Loses(t)
        PROVE  handlers'[iob'[req[u].iob]] = handlers[Slot(u)]
    <2>1. req[u].iob # req[t].iob
      BY <1>4 DEF Loses
    <2>2. Slot(u) # Slot(t)
      BY <1>1, <1>4, <2>1, FreeAssumption DEF Loses, Basis, HandlesOwned
    <2> QED
      BY <1>1, <1>4, <2>1, <2>2 DEF Loses, Basis, TypeOK
  <1> QED
    BY <1>1, <1>2, <1>3, <1>4

Effect(t) == Touches(t) \/ (\E h, f : Gets(t, h, f)) \/ Loses(t)

LEMMA OpenEffect ==
  ASSUME Basis, NEW t \in Threads, Open(t)
  PROVE  \E h, f : Gets(t, h, f)
  <1>1. PICK f \in Files : FreeHandles # {} /\ Opened(t, GetFreeHandle, f)
    BY DEF Open
  <1>2. pc[t] = "wait" /\ req[t].op \in {"open", "dopen"}
    BY DEF Open, Wait
  <1>3. req[t] \in Requests /\ req[t].iob # Closed /\ iob[req[t].iob] = Closed
    BY <1>2 DEF Basis, TypeOK, RequestsInv
  <1>4. req[t].iob \in Iobs
    BY <1>3 DEF Requests
  <1>5. \A u \in Threads \ {t} : req[u].iob # req[t].iob
    BY <1>2 DEF Basis, RequestsInv
  <1>6. Gets(t, GetFreeHandle, f)
    BY <1>1, <1>3, <1>4, <1>5, FreeHandleFound DEF Gets, Opened
  <1> QED
    BY <1>6

LEMMA CloseEffect ==
  ASSUME Basis, NEW t \in Threads, Dopen(t) \/ Close(t)
  PROVE  Touches(t) \/ Loses(t)
  <1>1. pc[t] = "dopen" \/ req[t].op \in {"close", "dclose"}
    BY DEF Dopen, Close, Wait
  <1>2. /\ req[t].iob \in Iobs /\ iob[req[t].iob] = Slot(t) /\ Slot(t) \in Handlers
        /\ handlers[Slot(t)] \in Handle
    BY <1>1, SlotFound DEF Basis, IobOps
  <1>3. \A u \in Threads \ {t} : req[u].iob # req[t].iob
    BY <1>1 DEF Basis, RequestsInv
  <1>4. CASE UNCHANGED <<handlers, iob>>
    BY <1>4 DEF Touches
  <1>5. CASE /\ handlers' = [handlers EXCEPT ![Slot(t)].opened = FALSE]
             /\ iob' = [iob EXCEPT ![req[t].iob] = Closed]
    BY <1>2, <1>3, <1>5 DEF Loses
  <1>6. CASE handlers' = [handlers EXCEPT ![Slot(t)].eof = FALSE] /\ iob' = iob
    <2>1. /\ handlers'[Slot(t)] = [handlers[Slot(t)] EXCEPT !.eof = FALSE]
          /\ \A h \in Handlers \ {Slot(t)} : handlers'[h] = handlers[h]
      BY <1>2, <1>6 DEF Basis, TypeOK
    <2>2. /\ handlers'[Slot(t)].opened = handlers[Slot(t)].opened
          /\ handlers'[Slot(t)].file = handlers[Slot(t)].file
      BY <1>2, <2>1 DEF Handle
    <2> QED
      BY <1>2, <1>6, <2>1, <2>2 DEF Touches
  <1> QED
    BY <1>4, <1>5, <1>6 DEF Dopen, Close

LEMMA MoveEffect ==
  ASSUME Basis, NEW t \in Threads, Read(t) \/ Lseek(t) \/ Dread(t)
  PROVE  Touches(t)
  <1>1. /\ req[t].iob \in Iobs /\ iob[req[t].iob] = Slot(t) /\ Slot(t) \in Handlers
        /\ handlers[Slot(t)] \in Handle
    BY SlotFound DEF Basis, Read, Lseek, Dread, Wait, IobOps
  <1>2. ASSUME NEW p, \/ handlers' = [handlers EXCEPT ![Slot(t)].pos = p]
                      \/ handlers' = [handlers EXCEPT ![Slot(t)].eof = p]
        PROVE  /\ \A h \in Handlers : /\ handlers'[h].opened = handlers[h].opened
                                      /\ handlers'[h].file = handlers[h].file
               /\ \A h \in Handlers \ {Slot(t)} : handlers'[h] = handlers[h]
    <2>1. /\ \/ handlers'[Slot(t)] = [handlers[Slot(t)] EXCEPT !.pos = p]
             \/ handlers'[Slot(t)] = [handlers[Slot(t)] EXCEPT !.eof = p]
          /\ \A h \in Handlers \ {Slot(t)} : handlers'[h] = handlers[h]
      BY <1>1, <1>2 DEF Basis, TypeOK
    <2>2. /\ handlers'[Slot(t)].opened = handlers[Slot(t)].opened
          /\ handlers'[Slot(t)].file = handlers[Slot(t)].file
      BY <1>1, <2>1 DEF Handle
    <2> QED
      BY <2>1, <2>2
  <1>3. /\ iob' = iob
        /\ \/ handlers' = handlers
           \/ \E p : \/ handlers' = [handlers EXCEPT ![Slot(t)].pos = p]
                     \/ handlers' = [handlers EXCEPT ![Slot(t)].eof = p]
    <2>1. CASE Read(t)
      BY <2>1 DEF Read
    <2>2. CASE Lseek(t)
      BY <2>2 DEF Lseek
    <2>3. CASE Dread(t)
      BY <2>3 DEF Dread
    <2> QED
      BY <2>1, <2>2, <2>3
  <1> QED
    BY <1>1, <1>2, <1>3 DEF Touches

Others(t) == OpenFail(t) \/ GetStat(t) \/ BadHandle(t) \/ Ioctl(t)

LEMMA StillEffect ==
  ASSUME NEW t \in Threads, Call(t) \/ LseekResult(t) \/ Others(t)
  PROVE  Touches(t) /\ handlers' = handlers
  BY DEF Call, LseekResult, Others, OpenFail, GetStat, BadHandle, Ioctl, Touches

LEMMA AnyEffect ==
  ASSUME Basis, NEW t \in Threads, Call(t) \/ Step(t) \/ LseekResult(t)
  PROVE  Effect(t)
  BY OpenEffect, CloseEffect, MoveEffect, StillEffect DEF Step, Others, Effect

LEMMA OwnedStep ==
  ASSUME Basis, NEW t \in Threads, Effect(t)
  PROVE  HandlesOwned'
  BY TouchesOwned, GetsOwned, LosesOwned DEF Effect

LEMMA RequestsStep ==
  ASSUME Basis, NEW t \in Threads, Call(t) \/ Step(t) \/ LseekResult(t)
  PROVE  RequestsInv'
  <1>1. ASSUME NEW u \in Threads \ {t}
        PROVE  req[u].iob \in Iobs => iob'[req[u].iob] = iob[req[u].iob]
    <2>1. CASE Touches(t)
      BY <2>1 DEF Touches
    <2>2. CASE (\E h, f : Gets(t, h, f)) \/ Loses(t)
      <3>1. req[u].iob # req[t].iob /\ \E x : iob' = [iob EXCEPT ![req[t].iob] = x]
        BY <2>2 DEF Gets, Loses
      <3> QED
        BY <3>1 DEF Basis, TypeOK
    <2> QED
      BY <2>1, <2>2, AnyEffect DEF Effect
  <1>2. CASE Call(t)
    BY <1>2, RequestsCall DEF Basis
  <1>3. CASE Return(t)
    BY <1>1, <1>3, ReturnRequests DEF Basis
  <1>4. CASE Lseek(t)
    BY <1>1, <1>4, RequestsGo DEF Basis, Lseek, Wait
  <1>5. CASE Open(t) /\ ~Return(t)
    <2>1. /\ pc' = [pc EXCEPT ![t] = "dopen"] /\ UNCHANGED req /\ req[t].op = "dopen"
      BY <1>5 DEF Open, Wait
    <2>2. iob'[req[t].iob] # Closed
      <3>1. PICK h, f : Gets(t, h, f)
        BY <1>5, OpenEffect
      <3> QED
        BY <3>1, FreeAssumption DEF Gets, Basis, TypeOK
    <2> QED
      BY <1>1, <2>1, <2>2, RequestsGo DEF Basis
  <1>6. Call(t) \/ Return(t) \/ Lseek(t) \/ Open(t)
    BY DEF Step, OpenFail, Dopen, Close, GetStat, Read, Dread, Ioctl, BadHandle, LseekResult
  <1> QED
    BY <1>2, <1>3, <1>4, <1>5, <1>6

\* What another thread has set, and has not seen yet, is what it will see
LEMMA AnswersOthers ==
  ASSUME Basis, LseekAnswers, NEW t \in Threads, Call(t) \/ Step(t) \/ LseekResult(t),
         NEW u \in Threads \ {t}, pc'[u] = "result", sought'[u] # Closed
  PROVE  handlers'[Slot(u)'].pos = sought'[u]
  <1>1. pc'[u] = pc[u] /\ req'[u] = req[u]
    <2>1. CASE Call(t)
      BY <2>1 DEF Call, Basis, TypeOK
    <2>2. CASE Return(t)
      BY <2>2 DEF Return, Basis, TypeOK
    <2>3. CASE ~Return(t) /\ (Open(t) \/ Lseek(t))
      BY <2>3 DEF Open, Lseek, Basis, TypeOK
    <2> QED
      BY <2>1, <2>2, <2>3 DEF Step, OpenFail, Dopen, Close, GetStat, Read, Dread, Ioctl, BadHandle,
                              LseekResult
  <1>2. /\ sought'[u] = sought[u]
        /\ handlers' = handlers \/ (\E h, f : Gets(t, h, f)) \/ Loses(t) \/ u \notin Same(t)
    <2>1. CASE Call(t)
      BY <2>1 DEF Call
    <2>2. CASE Return(t)
      BY <2>2 DEF Return, Forget
    <2>3. CASE Lseek(t)
      <3>1. PICK new \in Positions : sought' = [Forget(t) EXCEPT ![t] = new]
        BY <2>3 DEF Lseek
      <3> QED
        BY <3>1 DEF Forget
    <2>4. CASE Open(t) /\ ~Return(t)
      BY <2>4, OpenEffect DEF Open
    <2> QED
      BY <2>1, <2>2, <2>3, <2>4 DEF Step, OpenFail, Dopen, Close, GetStat, Read, Dread, Ioctl,
                                    BadHandle, LseekResult
  <1>3. Slot(u)' = iob'[req[u].iob]
    BY <1>1 DEF Slot
  <1>4. Effect(t) /\ pc[u] = "result" /\ sought[u] # Closed
    BY <1>1, <1>2, AnyEffect
  <1>5. CASE Touches(t) /\ ~(\E h, f : Gets(t, h, f)) /\ ~Loses(t)
    BY <1>2, <1>3, <1>4, <1>5, SoughtStays
  <1>6. ASSUME (\E h, f : Gets(t, h, f)) \/ Loses(t)
        PROVE  ~Touches(t)
    <2>1. iob' # iob
      <3>1. ASSUME NEW h, NEW f, Gets(t, h, f)
            PROVE  iob'[req[t].iob] # iob[req[t].iob]
        BY <3>1, FreeAssumption DEF Gets, Basis, TypeOK
      <3>2. ASSUME Loses(t)
            PROVE  iob'[req[t].iob] # iob[req[t].iob]
        BY <3>2, FreeAssumption DEF Loses, Basis, TypeOK
      <3> QED
        BY <1>6, <3>1, <3>2
    <2> QED
      BY <2>1 DEF Touches
  <1>7. CASE (\E h, f : Gets(t, h, f)) \/ Loses(t)
    BY <1>2, <1>3, <1>4, <1>6, <1>7, SoughtStays
  <1> QED
    BY <1>4, <1>5, <1>7 DEF Effect

LEMMA AnswersStep ==
  ASSUME Basis, LseekAnswers, NEW t \in Threads, Call(t) \/ Step(t) \/ LseekResult(t)
  PROVE  LseekAnswers'
  <1>1. ASSUME pc'[t] = "result", sought'[t] # Closed
        PROVE  handlers'[Slot(t)'].pos = sought'[t]
    <2>1. Lseek(t)
      <3>1. ~Return(t)
        BY <1>1 DEF Return, Basis, TypeOK
      <3>2. ~Call(t)
        BY <1>1 DEF Call, Basis, TypeOK
      <3>3. ~Open(t)
        BY <1>1, <3>1 DEF Open, Basis, TypeOK
      <3> QED
        BY <3>1, <3>2, <3>3 DEF Step, OpenFail, Dopen, Close, GetStat, Read, Dread, Ioctl,
                                BadHandle, LseekResult
    <2>2. PICK new \in Positions :
            /\ handlers' = [handlers EXCEPT ![Slot(t)].pos = new]
            /\ sought' = [Forget(t) EXCEPT ![t] = new]
      BY <2>1 DEF Lseek
    <2>3. Slot(t) \in Handlers /\ handlers[Slot(t)] \in Handle /\ Slot(t)' = Slot(t)
      BY <2>1, SlotFound DEF Basis, Lseek, Wait, IobOps, Slot
    <2>4. handlers'[Slot(t)].pos = new
      BY <2>2, <2>3 DEF Basis, TypeOK, Handle
    <2>5. sought'[t] = new
      BY <2>2 DEF Forget
    <2> QED
      BY <2>3, <2>4, <2>5
  <1> QED
    BY <1>1, AnswersOthers DEF LseekAnswers

LEMMA OutStep ==
  ASSUME Basis, OutInv, NEW t \in Threads, Call(t) \/ Step(t) \/ LseekResult(t)
  PROVE  OutInv'
  <1>1. CASE out' = Nothing
    BY <1>1 DEF OutInv, Nothing
  <1>2. CASE UNCHANGED <<out, iob>>
    BY <1>2 DEF OutInv, Nothing
  <1>3. CASE Read(t)
    <2>1. req[t].iob \in Iobs /\ iob[req[t].iob] # Closed
      BY <1>3, SlotFound, FreeAssumption DEF Basis, Read, Wait, IobOps
    <2>2. out'.iob = req[t].iob /\ iob' = iob
      BY <1>3 DEF Read
    <2> QED
      BY <2>1, <2>2 DEF OutInv
  <1>4. out' = Nothing \/ UNCHANGED <<out, iob>> \/ Read(t)
    BY DEF Call, Step, Open, OpenFail, Dopen, Close, GetStat, Lseek, Dread, Ioctl, BadHandle,
           LseekResult, Quietly
  <1> QED
    BY <1>1, <1>2, <1>3, <1>4

LEMMA IInvInit == Init => IInv
  <1> SUFFICES ASSUME Init PROVE IInv
    OBVIOUS
  <1>1. RequestsInv
    BY DEF Init, RequestsInv, NoReq, IobOps
  <1>2. HandlesOwned /\ LseekAnswers /\ OutInv
    BY DEF Init, HandlesOwned, LseekAnswers, OutInv, Fresh
  <1> QED
    BY <1>1, <1>2, TypeInit DEF IInv

LEMMA IInvStep == IInv /\ [Next]_vars => IInv'
  <1> SUFFICES ASSUME IInv, [Next]_vars PROVE IInv'
    OBVIOUS
  <1>1. CASE UNCHANGED vars
    BY <1>1 DEF vars, IInv, TypeOK, RequestsInv, HandlesOwned, LseekAnswers, OutInv, Nothing, Slot
  <1>2. ASSUME NEW t \in Threads, Call(t) \/ Step(t) \/ LseekResult(t)
        PROVE  IInv'
    <2>1. Basis /\ Next
      BY <1>2 DEF IInv, Basis, Next
    <2>2. TypeOK'
      BY <2>1, TypeStep DEF Basis
    <2> QED
      BY <1>2, <2>1, <2>2, RequestsStep, AnyEffect, OwnedStep, AnswersStep, OutStep DEF IInv
  <1> QED
    BY <1>1, <1>2 DEF Next

\* The inductive invariant: the types, what the threads ask for, and who has
\* which handle (isofs_open2, isofs_dopen, isofs_close, isofs_lseek).
THEOREM SpecIInv == Spec => []IInv
  BY IInvInit, IInvStep, PTL DEF Spec

\* The variables keep their types, for any directory, handles and threads.
THEOREM SpecTypeOK == Spec => []TypeOK
  <1>1. IInv => TypeOK
    BY DEF IInv
  <1> QED
    BY <1>1, SpecIInv, PTL

\* Every open file has an open handle of its own, and none is lost.
THEOREM SpecHandlesOwned == Spec => []HandlesOwned
  <1>1. IInv => HandlesOwned
    BY DEF IInv
  <1> QED
    BY <1>1, SpecIInv, PTL

\* lseek returns the position it has set.
THEOREM SpecLseekAnswers == Spec => []LseekAnswers
  <1>1. IInv => LseekAnswers
    BY DEF IInv
  <1> QED
    BY <1>1, SpecIInv, PTL

-----------------------------------------------------------------------------
(* The refinement of ByteRanges.                                           *)

ByteRange == [start : Int, size : Nat, pos : Int]

LEMMA RangeTypes ==
  ASSUME TypeOK, NEW i \in Iobs, iob[i] # Closed
  PROVE  /\ ranges[i] = [start |-> handlers[iob[i]].file.lba * Bytes,
                         size |-> handlers[iob[i]].file.size, pos |-> handlers[iob[i]].pos]
         /\ ranges[i] \in ByteRange /\ ranges[i] # Closed
  <1>1. handlers[iob[i]] \in Handle
    BY DEF TypeOK
  <1>2. /\ handlers[iob[i]].file.lba * Bytes \in Int
        /\ handlers[iob[i]].file.size \in Nat /\ handlers[iob[i]].pos \in Int
    BY <1>1, HandleType, BoundsAssumption
  <1>3. ranges[i] = [start |-> handlers[iob[i]].file.lba * Bytes,
                     size |-> handlers[iob[i]].file.size, pos |-> handlers[iob[i]].pos]
    BY DEF ranges
  <1> QED
    BY <1>2, <1>3, FreeAssumption DEF ByteRange

LEMMA RangesInit == Init => Ranges!Init
  BY DEF Init, Ranges!Init, ranges, Nothing, Ranges!Nothing

\* A step that moves one position
LEMMA RangesMove ==
  ASSUME Basis, TypeOK', NEW t \in Threads, Touches(t)
  PROVE  /\ handlers' = handlers => ranges' = ranges
         /\ req[t].iob \in Iobs /\ iob[req[t].iob] # Closed =>
               ranges' = [ranges EXCEPT ![req[t].iob].pos = ranges'[req[t].iob].pos]
  <1>1. handlers' = handlers => ranges' = ranges
    BY DEF Touches, ranges
  <1>2. ASSUME req[t].iob \in Iobs, iob[req[t].iob] # Closed
        PROVE  ranges' = [ranges EXCEPT ![req[t].iob].pos = ranges'[req[t].iob].pos]
    <2> DEFINE i == req[t].iob
               new == [ranges EXCEPT ![i].pos = ranges'[i].pos]
    <2>1. iob' = iob /\ iob[i] \in Handlers /\ handlers[iob[i]] \in Handle
      BY <1>2 DEF Touches, Basis, TypeOK
    <2>2. ASSUME NEW j \in Iobs \ {i}
          PROVE  ranges'[j] = ranges[j]
      <3>1. CASE iob[j] = Closed
        BY <2>1, <3>1 DEF ranges
      <3>2. CASE iob[j] # Closed
        <4>1. iob[j] \in Handlers /\ iob[j] # iob[i]
          BY <1>2, <3>2 DEF Basis, HandlesOwned, TypeOK
        <4>2. handlers'[iob[j]] = handlers[iob[j]]
          BY <4>1 DEF Touches
        <4> QED
          BY <2>1, <4>2 DEF ranges
      <3> QED
        BY <3>1, <3>2
    <2>3. ranges'[i] = [ranges[i] EXCEPT !.pos = ranges'[i].pos]
      <3>1. ranges[i] = [start |-> handlers[iob[i]].file.lba * Bytes,
                         size |-> handlers[iob[i]].file.size, pos |-> handlers[iob[i]].pos]
        BY <1>2, RangeTypes DEF Basis
      <3>2. ranges'[i] = [start |-> handlers[iob[i]].file.lba * Bytes,
                          size |-> handlers[iob[i]].file.size, pos |-> handlers'[iob[i]].pos]
        BY <1>2, <2>1 DEF ranges, Touches
      <3> QED
        BY <3>1, <3>2
    <2>4. ranges' = [j \in Iobs |-> ranges'[j]] /\ ranges = [j \in Iobs |-> ranges[j]]
      BY DEF ranges
    <2>5. \A j \in Iobs : ranges'[j] = IF j = i THEN [ranges[i] EXCEPT !.pos = ranges'[i].pos]
                                       ELSE ranges[j]
      BY <2>2, <2>3
    <2> QED
      BY <1>2, <2>4, <2>5
  <1> QED
    BY <1>1, <1>2

LEMMA RangesOpen ==
  ASSUME Basis, TypeOK', NEW t \in Threads, NEW h, NEW f, Gets(t, h, f), out' = Nothing
  PROVE  Ranges!Next
  <1> DEFINE i == req[t].iob
  <1>1. /\ i \in Iobs /\ iob[i] = Closed /\ iob'[i] = h /\ h \in Handlers /\ h # Closed
        /\ handlers'[h] = [Fresh EXCEPT !.opened = TRUE, !.file = f]
        /\ \A j \in Iobs \ {i} : iob'[j] = iob[j] /\ iob[j] # h
        /\ \A g \in Handlers \ {h} : handlers'[g] = handlers[g]
    <2>1. \A j \in Iobs : iob[j] # h
      BY FreeAssumption DEF Gets, Basis, HandlesOwned
    <2> QED
      BY <2>1, FreeAssumption DEF Gets, Basis, TypeOK
  <1>2. ranges[i] = Closed
    BY <1>1 DEF ranges
  <1>3. handlers'[h].pos = 0
    BY <1>1 DEF Fresh
  <1>4. ranges'[i] = [start |-> handlers'[h].file.lba * Bytes,
                      size |-> handlers'[h].file.size, pos |-> 0]
    BY <1>1, <1>3 DEF ranges
  <1>5. ranges'[i] # Closed /\ ranges'[i].pos = 0
    <2>1. handlers'[h] \in Handle
      BY <1>1 DEF TypeOK
    <2>2. handlers'[h].file.lba \in Nat /\ handlers'[h].file.size \in Nat
      BY <2>1, HandleType
    <2>3. handlers'[h].file.lba * Bytes \in Int
      BY <2>2, BoundsAssumption
    <2> QED
      BY <1>4, <2>2, <2>3, FreeAssumption
  <1>6. \A j \in Iobs \ {i} : ranges'[j] = ranges[j]
    BY <1>1 DEF ranges, Basis, TypeOK
  <1>7. Ranges!Open(i)
    BY <1>2, <1>5, <1>6 DEF Ranges!Open, Nothing, Ranges!Nothing
  <1> QED
    BY <1>1, <1>7 DEF Ranges!Next

LEMMA RangesClose ==
  ASSUME Basis, NEW t \in Threads, Loses(t), out' = Nothing
  PROVE  Ranges!Next
  <1> DEFINE i == req[t].iob
             s == Slot(t)
  <1>1. /\ i \in Iobs /\ iob[i] = s /\ s \in Handlers /\ s # Closed /\ iob'[i] = Closed
        /\ \A j \in Iobs \ {i} : iob'[j] = iob[j] /\ iob[j] # s
        /\ \A g \in Handlers \ {s} : handlers'[g] = handlers[g]
    BY FreeAssumption DEF Loses, Basis, TypeOK, HandlesOwned
  <1>2. ranges[i] # Closed
    BY <1>1, RangeTypes DEF Basis
  <1>3. ranges' = [ranges EXCEPT ![i] = Closed]
    <2>1. \A j \in Iobs \ {i} : ranges'[j] = ranges[j]
      BY <1>1 DEF ranges, Basis, TypeOK
    <2>2. ranges'[i] = Closed
      BY <1>1 DEF ranges
    <2>3. ranges' = [j \in Iobs |-> ranges'[j]] /\ ranges = [j \in Iobs |-> ranges[j]]
      BY DEF ranges
    <2>4. \A j \in Iobs : ranges'[j] = IF j = i THEN Closed ELSE ranges[j]
      BY <2>1, <2>2
    <2> QED
      BY <1>1, <2>3, <2>4
  <1>4. Ranges!Close(i)
    BY <1>2, <1>3 DEF Ranges!Close, Nothing, Ranges!Nothing
  <1> QED
    BY <1>1, <1>4 DEF Ranges!Next

LEMMA RangesRead ==
  ASSUME Basis, TypeOK', NEW t \in Threads, Read(t)
  PROVE  Ranges!Next
  <1> DEFINE i == req[t].iob
             h == handlers[Slot(t)]
             n == Len(out'.data)
  <1>1. PICK len \in 0 .. MaxLen : \E r \in Outcomes(h, len) :
          /\ handlers' = [handlers EXCEPT ![Slot(t)].pos = r.pos]
          /\ out' = [iob |-> req[t].iob, kind |-> r.kind, data |-> r.data]
    BY DEF Read
  <1>2. PICK r \in Outcomes(h, len) :
          /\ handlers' = [handlers EXCEPT ![Slot(t)].pos = r.pos]
          /\ out' = [iob |-> req[t].iob, kind |-> r.kind, data |-> r.data]
    BY <1>1
  <1>3. /\ i \in Iobs /\ iob[i] = Slot(t) /\ Slot(t) \in Handlers /\ Slot(t) # Closed
        /\ h \in Handle /\ len \in Nat
    BY SlotFound, BoundsAssumption, FreeAssumption DEF Basis, Read, Wait, IobOps
  <1>4. /\ ranges[i] = [start |-> h.file.lba * Bytes, size |-> h.file.size, pos |-> h.pos]
        /\ ranges[i] # Closed
    BY <1>3, RangeTypes DEF Basis
  <1>5. ranges' = [ranges EXCEPT ![i].pos = ranges'[i].pos]
    BY <1>3, MoveEffect, RangesMove
  <1>6. ranges'[i].pos = r.pos
    <2>1. iob' = iob /\ handlers'[Slot(t)] = [h EXCEPT !.pos = r.pos]
      BY <1>2, <1>3 DEF Read, Basis, TypeOK
    <2>2. handlers'[Slot(t)].pos = r.pos
      BY <1>3, <2>1 DEF Handle
    <2> QED
      BY <1>3, <2>1, <2>2 DEF ranges
  <1>7. /\ h.pos \in Int /\ h.file.size \in Nat /\ Address(h) = h.file.lba * Bytes + h.pos
        /\ Address(h) \in Int
    BY <1>3, HandleType, BoundsAssumption DEF Address
  <1>8. out'.iob = i /\ out'.kind = r.kind /\ out'.data = r.data
    BY <1>2
  <1>9. r.kind \in {"data", "error", "torn"}
    BY <1>3, OutcomeKind
  <1>10. ASSUME h.pos >= 0, r.kind = "data"
         PROVE  /\ r.data = [k \in 1 .. Len(r.data) |-> h.file.lba * Bytes + h.pos + k - 1]
                /\ r.pos = h.pos + Len(r.data)
                /\ Len(r.data) > 0 => h.pos + Len(r.data) <= h.file.size
    <2>1. PICK m \in Nat : /\ r.data = Run(Address(h), m)
                           /\ r.pos = h.pos + m
                           /\ m > 0 => h.pos + m <= h.file.size
      BY <1>3, <1>10, ReadMeaning
    <2>2. Len(r.data) = m
      BY <1>7, <2>1, RunLength
    <2>3. Run(Address(h), m) = [k \in 1 .. m |-> h.file.lba * Bytes + h.pos + k - 1]
      BY <1>7 DEF Run
    <2> QED
      BY <2>1, <2>2, <2>3
  <1>11. ASSUME h.pos >= 0, r.kind # "data"
         PROVE  r.pos = h.pos \/ r.pos \in h.pos .. h.file.size
    BY <1>3, <1>11, ReadMeaning
  <1>12. Ranges!Read(i)
    <2>1. ranges[i].pos = h.pos /\ ranges[i].start = h.file.lba * Bytes /\ ranges[i].size = h.file.size
      BY <1>4
    <2> HIDE DEF h, i
    <2>2. CASE r.kind = "data"
      BY <1>4, <1>5, <1>6, <1>8, <1>10, <2>1, <2>2 DEF Ranges!Read
    <2>3. CASE r.kind # "data"
      BY <1>4, <1>5, <1>6, <1>8, <1>9, <1>11, <2>1, <2>3 DEF Ranges!Read
    <2> QED
      BY <2>2, <2>3
  <1> QED
    BY <1>3, <1>12 DEF Ranges!Next

\* A step that says nothing to the reader
LEMMA RangesQuiet ==
  ASSUME Basis, OutInv, TypeOK', NEW t \in Threads, Touches(t), out' = Nothing,
         \/ handlers' = handlers
         \/ req[t].iob \in Iobs /\ iob[req[t].iob] # Closed
  PROVE  [Ranges!Next]_<<ranges, out>>
  <1>1. ASSUME NEW i \in Iobs, iob[i] # Closed,
               ranges' = [ranges EXCEPT ![i].pos = ranges'[i].pos]
        PROVE  Ranges!Next
    <2>1. ranges[i] # Closed
      BY <1>1, RangeTypes DEF Basis
    <2>2. iob'[i] # Closed
      BY <1>1 DEF Touches
    <2>3. ranges'[i] # Closed
      <3>1. /\ handlers'[iob'[i]] \in Handle
            /\ ranges'[i] = [start |-> handlers'[iob'[i]].file.lba * Bytes,
                             size |-> handlers'[iob'[i]].file.size, pos |-> handlers'[iob'[i]].pos]
        BY <2>2 DEF TypeOK, ranges
      <3>2. /\ handlers'[iob'[i]].file.lba * Bytes \in Int
            /\ handlers'[iob'[i]].file.size \in Nat /\ handlers'[iob'[i]].pos \in Int
        BY <3>1, HandleType, BoundsAssumption
      <3> QED
        BY <3>1, <3>2, FreeAssumption
    <2>4. Ranges!Seek(i)
      BY <1>1, <2>1, <2>3 DEF Ranges!Seek, Nothing, Ranges!Nothing
    <2> QED
      BY <1>1, <2>4 DEF Ranges!Next
  <1>2. CASE req[t].iob \in Iobs /\ iob[req[t].iob] # Closed
    BY <1>1, <1>2, RangesMove
  <1>3. CASE handlers' = handlers /\ out = Nothing
    BY <1>3, RangesMove
  <1>4. CASE handlers' = handlers /\ out # Nothing
    <2>1. out.iob \in Iobs /\ iob[out.iob] # Closed
      BY <1>4 DEF OutInv
    <2>2. ranges' = ranges /\ ranges = [j \in Iobs |-> ranges[j]]
      BY <1>4, RangesMove DEF ranges
    <2>3. ranges[out.iob] = [ranges[out.iob] EXCEPT !.pos = ranges[out.iob].pos]
      BY <2>1, RangeTypes DEF Basis, ByteRange
    <2>4. ranges' = [ranges EXCEPT ![out.iob].pos = ranges'[out.iob].pos]
      BY <2>1, <2>2, <2>3
    <2> QED
      BY <1>1, <2>1, <2>4
  <1> QED
    BY <1>2, <1>3, <1>4

\* Every step of the driver is one of ByteRanges or changes nothing there
LEMMA RangesStep == IInv /\ IInv' /\ [Next]_vars => [Ranges!Next]_<<ranges, out>>
  <1> SUFFICES ASSUME IInv, IInv', [Next]_vars PROVE [Ranges!Next]_<<ranges, out>>
    OBVIOUS
  <1>1. Basis /\ OutInv /\ TypeOK'
    BY DEF IInv, Basis
  <1>2. CASE UNCHANGED vars
    BY <1>2 DEF vars, ranges
  <1>3. ASSUME NEW t \in Threads, Call(t) \/ Step(t) \/ LseekResult(t)
        PROVE  [Ranges!Next]_<<ranges, out>>
    <2>1. CASE Open(t)
      BY <1>1, <2>1, OpenEffect, RangesOpen DEF Open, Quietly
    <2>2. CASE Dopen(t) \/ Close(t)
      <3>1. out' = Nothing
        BY <2>2 DEF Dopen, Close, Quietly
      <3>2. req[t].iob \in Iobs /\ iob[req[t].iob] # Closed
        BY <1>1, <2>2, SlotFound, FreeAssumption DEF Basis, Dopen, Close, Wait, IobOps
      <3>3. CASE Touches(t)
        BY <1>1, <3>1, <3>2, <3>3, RangesQuiet
      <3>4. CASE Loses(t)
        BY <1>1, <3>1, <3>4, RangesClose
      <3> QED
        BY <1>1, <2>2, <3>3, <3>4, CloseEffect
    <2>3. CASE Read(t)
      BY <1>1, <2>3, RangesRead
    <2>4. CASE Lseek(t) \/ Dread(t)
      <3>1. out' = Nothing
        BY <2>4 DEF Lseek, Dread, Quietly
      <3>2. req[t].iob \in Iobs /\ iob[req[t].iob] # Closed
        BY <1>1, <2>4, SlotFound, FreeAssumption DEF Basis, Lseek, Dread, Wait, IobOps
      <3> QED
        BY <1>1, <2>4, <3>1, <3>2, MoveEffect, RangesQuiet
    <2>5. CASE OpenFail(t) \/ GetStat(t) \/ BadHandle(t)
      <3>1. out' = Nothing
        BY <2>5 DEF OpenFail, GetStat, BadHandle, Quietly
      <3>2. Touches(t) /\ handlers' = handlers
        BY <2>5, StillEffect DEF Others
      <3> QED
        BY <1>1, <3>1, <3>2, RangesQuiet
    <2>6. CASE Call(t) \/ LseekResult(t) \/ Ioctl(t)
      <3>1. out' = out
        BY <2>6 DEF Call, LseekResult, Ioctl
      <3>2. Touches(t) /\ handlers' = handlers
        BY <2>6, StillEffect DEF Others
      <3>3. ranges' = ranges
        BY <1>1, <3>2, RangesMove
      <3> QED
        BY <3>1, <3>3
    <2> QED
      BY <1>3, <2>1, <2>2, <2>3, <2>4, <2>5, <2>6 DEF Step
  <1> QED
    BY <1>2, <1>3 DEF Next

\* The driver implements the byte ranges: every read of every thread delivers
\* what lies at the position of its file, and moves no other (isofs_read2,
\* isofs_lseek, isofs_dread2).
THEOREM SpecByteRanges == Spec => IsByteRanges
  BY SpecIInv, RangesInit, RangesStep, PTL DEF Spec, IsByteRanges, Ranges!Spec
=============================================================================
