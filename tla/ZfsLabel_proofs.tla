--------------------------- MODULE ZfsLabel_proofs ---------------------------
(***************************************************************************)
(* For every label, damaged in any way, and however much of it was read:    *)
(* the parser never reads a byte twice, beyond a pair or beyond the buffer, *)
(* a dataset that zfs create confirmed is found again, and an intact label  *)
(* gives the pool's name as far as it was read.                             *)
(***************************************************************************)
EXTENDS ZfsLabel, NaturalsInduction, WellFoundedInduction, TLAPS

------------------------------------------------------------------------------
(* What was read *)

\* Nothing was read behind b.
Upto(b) == behind <= b /\ \A w \in reads : w[2] <= b

\* What was read in the last step follows what was read before, without overlap.
Fine ==
  /\ behind \in Nat
  /\ \A w \in reads :
       /\ w[1] \in Nat /\ w[2] \in Nat /\ behind <= w[1] /\ w[1] <= w[2]
       /\ \A v \in reads : v = w \/ v[2] <= w[1] \/ w[2] <= v[1]
  /\ \E m \in {behind} \cup {w[2] : w \in reads} :
       \A y \in {behind} \cup {w[2] : w \in reads} : m >= y

\* Passed is the end of it.
LEMMA PassedIsEnd ==
  ASSUME Fine
  PROVE  /\ Passed \in Nat /\ behind <= Passed
         /\ \A b \in Nat : Upto(b) => Passed <= b
<1> DEFINE S == {behind} \cup {w[2] : w \in reads}
<1>1. \A y \in S : y \in Nat
  BY DEF Fine
<1>2. \E m \in S : \A y \in S : m >= y
  BY DEF Fine
<1> HIDE DEF S
<1>3. Max(S) \in S /\ \A y \in S : Max(S) >= y
  BY <1>2 DEF Max
<1>4. behind \in S
  BY DEF S
<1>5. Passed = Max(S)
  BY DEF S, Passed
<1>6. ASSUME NEW b \in Nat, Upto(b) PROVE \A y \in S : y <= b
  BY <1>6 DEF Upto, S
<1> QED
  BY <1>1, <1>3, <1>4, <1>5, <1>6

\* A step that reads nothing.
LEMMA NoWindow ==
  ASSUME Fine, reads' = {}, behind' = Passed, NEW b \in Nat, Upto(b)
  PROVE  Fine' /\ behind' <= b
BY PassedIsEnd DEF Fine

\* A step that reads from a to c, and then on to d.
LEMMA Windows ==
  ASSUME Fine, NEW a \in Nat, NEW c \in Nat, NEW d \in Nat, a <= c, c <= d,
         reads' \in {{<<a, c>>}, {<<a, c>>, <<c, d>>}}, behind' = Passed, Upto(a)
  PROVE  /\ Fine' /\ behind' <= d /\ \A w \in reads' : w[2] <= d
         /\ reads' = {<<a, c>>} => behind' <= c /\ \A w \in reads' : w[2] <= c
<1>1. Passed \in Nat /\ Passed <= a
  BY PassedIsEnd
<1>2. behind' \in Nat /\ behind' <= a
  BY <1>1
<1>3. ASSUME reads' = {<<a, c>>}
      PROVE  Fine' /\ behind' <= c /\ \A w \in reads' : w[2] <= c
  <2>1. c \in {behind'} \cup {w[2] : w \in reads'}
        /\ \A y \in {behind'} \cup {w[2] : w \in reads'} : c >= y
    BY <1>2, <1>3
  <2> QED
    BY <1>2, <1>3, <2>1 DEF Fine
<1>4. ASSUME reads' = {<<a, c>>, <<c, d>>}
      PROVE  Fine' /\ \A w \in reads' : w[2] <= d
  <2>1. d \in {behind'} \cup {w[2] : w \in reads'}
        /\ \A y \in {behind'} \cup {w[2] : w \in reads'} : d >= y
    BY <1>2, <1>4
  <2>2. ASSUME NEW w \in reads'
        PROVE  /\ w[1] \in Nat /\ w[2] \in Nat /\ behind' <= w[1] /\ w[1] <= w[2]
               /\ \A v \in reads' : v = w \/ v[2] <= w[1] \/ w[2] <= v[1]
    <3>1. \A v \in reads' : v = <<a, c>> \/ v = <<c, d>>
      BY <1>4
    <3>2. CASE w = <<a, c>>
      BY <1>2, <3>1, <3>2
    <3>3. CASE w = <<c, d>>
      BY <1>2, <3>1, <3>3
    <3> QED
      BY <3>1, <3>2, <3>3
  <2> QED
    BY <1>2, <1>4, <2>1, <2>2 DEF Fine
<1> QED
  BY <1>2, <1>3, <1>4

\* The windows of Reads, with their offsets in the buffer: none.
LEMMA ReadsNothing ==
  ASSUME Reads({})
  PROVE  reads' = {} /\ behind' = Passed
BY DEF Reads

\* A single window.
LEMMA ReadsOne ==
  ASSUME NEW a \in Nat, NEW c \in Nat, off \in Nat, Reads({<<a, c>>})
  PROVE  reads' = {<<off + 8 + a, off + 8 + c>>} /\ behind' = Passed
BY DEF Reads

\* Two windows, one behind the other.
LEMMA ReadsTwo ==
  ASSUME NEW a \in Nat, NEW c \in Nat, NEW d \in Nat, off \in Nat, Reads({<<a, c>>, <<c, d>>})
  PROVE  reads' = {<<off + 8 + a, off + 8 + c>>, <<off + 8 + c, off + 8 + d>>} /\ behind' = Passed
<1>1. reads' = {<<off + 8 + w[1], off + 8 + w[2]>> : w \in {<<a, c>>, <<c, d>>}} /\ behind' = Passed
  BY DEF Reads
<1>2. {<<off + 8 + w[1], off + 8 + w[2]>> : w \in {<<a, c>>, <<c, d>>}}
        = {<<off + 8 + a, off + 8 + c>>, <<off + 8 + c, off + 8 + d>>}
  OBVIOUS
<1> QED
  BY <1>1, <1>2

------------------------------------------------------------------------------
(* The invariant *)

Reading == {"name", "type", "value"}

\* The rest of the types, and what is reset between two commands.
Base ==
  /\ TypeOK
  /\ label \in Labels /\ base \in BaseNames
  /\ n \in Nat /\ at \in Nat \ {0} /\ damaged \in BOOLEAN
  /\ pc \in {"idle", "run", "done"} => reads = {} /\ behind = 0
  /\ pc \in {"idle", "done"} => found = <<>>

\* How far the parser has got: within the buffer, within the pair, and not behind the
\* place it goes on at.
Frontier ==
  /\ pc = "pair" => off <= n /\ Upto(off)
  /\ pc \in Reading => off + 8 + pairLen <= n /\ Upto(off + 8 + pairLen)
  /\ pc = "name" => Upto(off + 8)
  /\ pc \in {"type", "value"} => Upto(off + 8 + pos)
  /\ pc = "pool" => Upto(n)

ReadInv == Base /\ Fine /\ Frontier

\* The numbers read are natural numbers.
LEMMA FieldIsNat ==
  ASSUME NEW right, NEW w \in Nat, NEW any, any \subseteq Nat
  PROVE  Field(right, w, any) \subseteq Nat
BY DEF Field

\* The pair at hand, as long as the label is intact.
LEMMA PairAtHand ==
  ASSUME Base, Intact
  PROVE  /\ at \in 1..Len(label) /\ Len(label) \in Nat
         /\ Now.nameLen \in Nat \ {0} /\ Now.typ \in {String, Uint64, Nested} /\ Now.nelem \in Nat
         /\ Now.dataLen \in Nat /\ Now.val \in Names \cup {EmptyName} /\ Now.named \in BOOLEAN
         /\ EncodedBytes(Now) \in Nat /\ EncodedBytes(Now) >= 20
<1>1. label \in Seq(PairRecords)
  BY LabelAssumption DEF Base
<1>2. at \in 1..Len(label) /\ Len(label) \in Nat
  BY <1>1 DEF Base, Intact
<1>3. Now \in PairRecords
  BY <1>1, <1>2 DEF Now
<1>4. /\ Now.nameLen \in Nat \ {0} /\ Now.typ \in {String, Uint64, Nested} /\ Now.nelem \in Nat
      /\ Now.dataLen \in Nat /\ Now.val \in Names \cup {EmptyName} /\ Now.named \in BOOLEAN
  BY <1>3 DEF PairRecords
<1>5. RoundUp(Now.nameLen) \in Nat /\ RoundUp(Now.dataLen) \in Nat
  BY <1>4 DEF RoundUp
<1>6. DataBytes(Now) \in Nat
  BY <1>4, <1>5 DEF DataBytes
<1> QED
  BY <1>2, <1>4, <1>5, <1>6 DEF EncodedBytes

\* The encoded size of the pair is a number.
LEMMA NowEncodedIsNat ==
  ASSUME Base
  PROVE  NowEncoded \in Nat
<1>1. label \in Seq(PairRecords) /\ at \in Nat \ {0}
  BY LabelAssumption DEF Base
<1>2. CASE at <= Len(label)
  <2>1. Now \in PairRecords
    BY <1>1, <1>2 DEF Now
  <2>2. Now.nameLen \in Nat /\ Now.dataLen \in Nat
    BY <2>1 DEF PairRecords
  <2>3. RoundUp(Now.nameLen) \in Nat /\ RoundUp(Now.dataLen) \in Nat
    BY <2>2 DEF RoundUp
  <2>4. EncodedBytes(Now) \in Nat
    BY <2>2, <2>3 DEF EncodedBytes, DataBytes
  <2> QED
    BY <1>2, <2>4 DEF NowEncoded
<1>3. CASE ~(at <= Len(label))
  BY <1>3 DEF NowEncoded
<1> QED
  BY <1>2, <1>3

\* What an assignment can leave in res["name"].
LEMMA AssignedIsString ==
  ASSUME Base, NEW intact, intact => Intact
  PROVE  Assigned(intact) \subseteq Strings
<1>1. found \in Strings
  BY DEF Base, TypeOK
<1>2. CASE ~intact
  BY <1>1, <1>2 DEF Assigned, Strings
<1>3. CASE intact
  <2>1. Now.val \in Names \cup {EmptyName}
    BY <1>3, PairAtHand
  <2>2. <<>> \in Strings /\ \A x \in Names : <<x>> \in Strings
    BY DEF Strings
  <2>3. (IF ~Now.named THEN found ELSE IF Now.val = EmptyName THEN <<>> ELSE <<Now.val>>) \in Strings
    BY <1>1, <2>1, <2>2
  <2> QED
    BY <1>3, <2>3 DEF Assigned
<1> QED
  BY <1>2, <1>3

------------------------------------------------------------------------------
(* Every step keeps it *)

\* The loop goes on with the next pair.
LEMMA NextPairKeeps ==
  ASSUME ReadInv, pc \in Reading, NextPair, found' \in Strings, damaged' \in BOOLEAN,
         UNCHANGED <<label, base, n, pairLen, answer, last>>,
         Fine', behind' <= off + 8 + pairLen, \A w \in reads' : w[2] <= off + 8 + pairLen
  PROVE  ReadInv'
<1>0. Base /\ TypeOK /\ Frontier /\ off \in Nat /\ pairLen \in Nat
  BY DEF ReadInv, Base, TypeOK
<1>1. pc' = "pair" /\ off' = off + 8 + pairLen /\ off' \in Nat /\ pos' = 0 /\ at' \in Nat \ {0}
  BY <1>0 DEF NextPair, Base
<1>2. Base'
  BY <1>0, <1>1 DEF Base, TypeOK
<1>3. Frontier'
  BY <1>0, <1>1 DEF Frontier, Reading, Upto
<1> QED
  BY <1>2, <1>3 DEF ReadInv

\* parseNVPair gives up on a pair without reading more of it.
LEMMA GiveUpKeeps ==
  ASSUME ReadInv, pc \in Reading, Reads({}), GiveUp, damaged' \in BOOLEAN,
         UNCHANGED <<label, base, n, pairLen, answer, last>>
  PROVE  ReadInv'
<1>0. Base /\ TypeOK /\ Fine /\ off + 8 + pairLen \in Nat /\ Upto(off + 8 + pairLen)
  BY DEF ReadInv, Base, TypeOK, Frontier
<1>1. Fine' /\ behind' <= off + 8 + pairLen /\ reads' = {}
  BY <1>0, ReadsNothing, NoWindow
<1>2. NextPair /\ found' \in Strings
  BY <1>0 DEF GiveUp, TypeOK
<1> QED
  BY <1>1, <1>2, NextPairKeeps

\* os.Open and ReadAt.
LEMMA ReadLabelKeeps ==
  ASSUME ReadInv, ReadLabel
  PROVE  ReadInv'
<1>0. /\ Base /\ TypeOK /\ pc = "idle" /\ reads = {} /\ behind = 0 /\ found = <<>>
      /\ UNCHANGED <<label, base, pairLen, pos, found, pool, at, damaged, reads, behind, last>>
  BY DEF ReadInv, Base, ReadLabel
<1>1. Fine'
  BY <1>0 DEF Fine, ReadInv
<1>2. CASE n' \in ReadLens /\ pc' = (IF n' < Header THEN "pool" ELSE "pair") /\ off' = Header /\ UNCHANGED answer
  <2>1. n' \in Nat
    BY <1>2, LabelAssumption
  <2>2. off' \in Nat /\ (pc' = "pool" \/ (pc' = "pair" /\ off' <= n'))
    BY <1>2, <2>1 DEF Header
  <2>3. Base'
    BY <1>0, <1>2, <2>1, <2>2 DEF Base, TypeOK
  <2>4. reads' = {} /\ behind' = 0 /\ 0 <= off' /\ 0 <= n'
    BY <1>0, <2>1, <2>2
  <2>5. Upto(off)' /\ Upto(n)'
    BY <2>4 DEF Upto
  <2>6. Frontier'
    BY <2>2, <2>5 DEF Frontier, Reading
  <2> QED
    BY <1>1, <2>3, <2>6 DEF ReadInv
<1>3. CASE pc' = "done" /\ answer' = "refused" /\ UNCHANGED <<n, off>>
  <2>1. Base' /\ Frontier'
    BY <1>0, <1>3 DEF Base, TypeOK, Frontier, Reading
  <2> QED
    BY <1>1, <2>1 DEF ReadInv
<1> QED
  BY <1>2, <1>3 DEF ReadLabel

\* The header of a pair.
LEMMA PairHeaderKeeps ==
  ASSUME ReadInv, PairHeader
  PROVE  ReadInv'
<1>0. /\ Base /\ TypeOK /\ Fine /\ pc = "pair" /\ off \in Nat /\ n \in Nat /\ off <= n /\ Upto(off) /\ pos' = 0
      /\ UNCHANGED <<label, base, n, off, found, pool, answer, at, last>>
  BY DEF ReadInv, Base, TypeOK, PairHeader, Frontier
<1>1. CASE pc' = "pool" /\ UNCHANGED <<pairLen, damaged, reads, behind>>
  <2>1. pc' = "pool" /\ pairLen' = pairLen /\ damaged' = damaged /\ reads' = reads /\ behind' = behind
    BY <1>1
  <2>2. Upto(n)
    BY <1>0 DEF Upto, Fine
  <2>3. Base'
    BY <1>0, <2>1 DEF Base, TypeOK
  <2>4. Fine' /\ Frontier'
    BY <1>0, <2>1, <2>2 DEF Fine, Frontier, Reading, Upto
  <2> QED
    BY <2>3, <2>4 DEF ReadInv
<1>2. CASE /\ off + 8 <= n
           /\ \E encoded \in Field(~damaged, NowEncoded, Words) :
                /\ Notes(TRUE, encoded = NowEncoded)
                /\ pairLen' = IF encoded < 8 THEN 0 ELSE encoded - 8
                /\ pc' = IF encoded # 0 /\ PairFits(pairLen') THEN "name" ELSE "pool"
           /\ reads' = {<<off, off + 4>>}
           /\ behind' = Passed
  <2>1. PICK encoded \in Field(~damaged, NowEncoded, Words) :
          /\ Notes(TRUE, encoded = NowEncoded)
          /\ pairLen' = IF encoded < 8 THEN 0 ELSE encoded - 8
          /\ pc' = IF encoded # 0 /\ PairFits(pairLen') THEN "name" ELSE "pool"
    BY <1>2, Zenon
  <2>2. off + 8 <= n /\ reads' = {<<off, off + 4>>} /\ behind' = Passed
    BY <1>2, Zenon
  <2>3. encoded \in Nat
    BY <1>0, <2>1, NowEncodedIsNat, FieldIsNat, LabelAssumption
  <2>4. pairLen' \in Nat
    BY <2>1, <2>3
  <2>5. pc' = "pool" \/ (pc' = "name" /\ off + 8 + pairLen' <= n)
    BY <2>1 DEF PairFits
  <2>6. damaged' \in BOOLEAN
    BY <2>1 DEF Notes
  <2>7. Fine' /\ behind' <= off + 4 /\ \A w \in reads' : w[2] <= off + 4
    BY <1>0, <2>2, Windows
  <2>8. Base'
    BY <1>0, <2>4, <2>5, <2>6 DEF Base, TypeOK
  <2>9. Frontier'
    <3>1. ASSUME NEW b \in Nat, off + 4 <= b PROVE behind' <= b /\ \A w \in reads' : w[2] <= b
      BY <1>0, <2>7, <3>1 DEF Fine
    <3>3. off + 8 \in Nat /\ off + 4 <= off + 8 /\ off' = off /\ n' = n /\ off + 4 <= n
      BY <1>0, <2>2
    <3>4. off + 8 + pairLen' \in Nat /\ off + 4 <= off + 8 + pairLen'
      <4>1. \A x, y \in Nat : x + 8 + y \in Nat /\ x + 4 <= x + 8 + y
        OBVIOUS
      <4> QED
        BY <1>0, <2>4, <4>1
    <3>5. Upto(off + 8)' /\ Upto(n)' /\ Upto(off + 8 + pairLen)'
      <4>1. behind' <= off + 8 /\ \A w \in reads' : w[2] <= off + 8
        BY <3>1, <3>3
      <4>2. behind' <= n /\ \A w \in reads' : w[2] <= n
        BY <1>0, <3>1, <3>3
      <4>3. behind' <= off + 8 + pairLen' /\ \A w \in reads' : w[2] <= off + 8 + pairLen'
        BY <3>1, <3>4
      <4> QED
        BY <3>3, <4>1, <4>2, <4>3 DEF Upto
    <3> QED
      BY <2>5, <3>3, <3>5 DEF Frontier, Reading
  <2> QED
    BY <2>7, <2>8, <2>9 DEF ReadInv
<1> QED
  BY <1>1, <1>2, Zenon DEF PairHeader

\* The key of a pair.
LEMMA PairNameKeeps ==
  ASSUME ReadInv, PairName
  PROVE  ReadInv'
<1>0. /\ Base /\ TypeOK /\ Fine /\ pc = "name" /\ off \in Nat /\ n \in Nat /\ pairLen \in Nat
      /\ off + 8 + pairLen <= n /\ Upto(off + 8) /\ damaged \in BOOLEAN
      /\ UNCHANGED <<label, base, n, pairLen, pool, answer, last>>
  BY DEF ReadInv, Base, TypeOK, PairName, Frontier, Reading
<1>1. CASE pairLen < 4
  <2>1. Reads({}) /\ GiveUp /\ UNCHANGED damaged
    BY <1>0, <1>1 DEF PairName
  <2> QED
    BY <1>0, <2>1, GiveUpKeeps DEF Reading
<1>2. CASE pairLen >= 4
  <2>1. PICK nameLen \in Field(Intact, IF Intact THEN Now.nameLen ELSE 0, Words) :
             /\ Notes(Intact, Intact => nameLen = Now.nameLen)
             /\ \/ /\ 4 + nameLen > pairLen
                   /\ Reads({<<0, 4>>}) /\ GiveUp
                \/ /\ 4 + nameLen <= pairLen
                   /\ Reads({<<0, 4>>, <<4, 4 + nameLen>>})
                   /\ pos' = 4 + nameLen + Pad(nameLen)
                   /\ pc' = "type"
                   /\ UNCHANGED <<off, at, typ, nelem, found>>
    BY <1>0, <1>2 DEF PairName
  <2>2. nameLen \in Nat
    <3>1. (IF Intact THEN Now.nameLen ELSE 0) \in Nat
      BY <1>0, PairAtHand
    <3> QED
      BY <2>1, <3>1, FieldIsNat, LabelAssumption
  <2>3. damaged' \in BOOLEAN
    BY <2>1 DEF Notes
  <2>4. CASE 4 + nameLen > pairLen
    <3>1. Reads({<<0, 4>>}) /\ GiveUp
      BY <1>0, <2>1, <2>2, <2>4
    <3>2. reads' = {<<off + 8 + 0, off + 8 + 4>>} /\ behind' = Passed
      BY <1>0, <3>1, ReadsOne
    <3>3. Fine' /\ behind' <= off + 12 /\ \A w \in reads' : w[2] <= off + 12
      <4>1. reads' = {<<off + 8, off + 12>>}
        BY <1>0, <3>2
      <4> QED
        BY <1>0, <3>2, <4>1, Windows
    <3>4. behind' <= off + 8 + pairLen /\ \A w \in reads' : w[2] <= off + 8 + pairLen
      BY <1>0, <1>2, <3>3 DEF Fine
    <3>5. NextPair /\ found' \in Strings
      BY <1>0, <3>1 DEF GiveUp, TypeOK
    <3> QED
      BY <1>0, <2>3, <3>3, <3>4, <3>5, NextPairKeeps DEF Reading
  <2>5. CASE 4 + nameLen <= pairLen
    <3>1. /\ Reads({<<0, 4>>, <<4, 4 + nameLen>>})
          /\ pos' = 4 + nameLen + Pad(nameLen) /\ pc' = "type" /\ UNCHANGED <<off, at, typ, nelem, found>>
      BY <1>0, <2>1, <2>2, <2>5
    <3>2. Pad(nameLen) \in Nat
      BY <2>2 DEF Pad
    <3>3. reads' = {<<off + 8 + 0, off + 8 + 4>>, <<off + 8 + 4, off + 8 + (4 + nameLen)>>} /\ behind' = Passed
      <4>1. 0 \in Nat /\ 4 \in Nat /\ 4 + nameLen \in Nat
        BY <2>2
      <4> DEFINE e == 4 + nameLen
      <4>2. Reads({<<0, 4>>, <<4, e>>}) /\ e \in Nat
        BY <3>1, <4>1
      <4> HIDE DEF e
      <4>3. reads' = {<<off + 8 + 0, off + 8 + 4>>, <<off + 8 + 4, off + 8 + e>>} /\ behind' = Passed
        BY <1>0, <4>1, <4>2, ReadsTwo
      <4> QED
        BY <4>3 DEF e
    <3> DEFINE d == off + 12 + nameLen
    <3>4. Fine' /\ behind' <= d /\ \A w \in reads' : w[2] <= d
      <4>1. reads' = {<<off + 8, off + 12>>, <<off + 12, d>>}
        BY <1>0, <2>2, <3>3
      <4>2. d \in Nat /\ off + 12 <= d
        BY <1>0, <2>2
      <4> HIDE DEF d
      <4> QED
        BY <1>0, <3>3, <4>1, <4>2, Windows
    <3>5. \A b \in Nat : d <= b => Upto(b)'
      BY <1>0, <2>2, <3>4 DEF Fine, Upto
    <3>6. pos' \in Nat /\ d <= off + 8 + pos' /\ d <= off + 8 + pairLen
      BY <1>0, <2>2, <2>5, <3>1, <3>2
    <3>7. Base'
      BY <1>0, <2>3, <3>1, <3>6 DEF Base, TypeOK
    <3>8. Frontier'
      <4>1. Upto(off + 8 + pairLen)' /\ Upto(off + 8 + pos)'
        <5>1. off + 8 + pairLen \in Nat /\ off + 8 + pos' \in Nat /\ off' = off /\ pairLen' = pairLen
          BY <1>0, <3>1, <3>6
        <5>2. behind' <= off + 8 + pairLen /\ (\A w \in reads' : w[2] <= off + 8 + pairLen)
          BY <3>5, <3>6, <5>1 DEF Upto
        <5>3. behind' <= off + 8 + pos' /\ (\A w \in reads' : w[2] <= off + 8 + pos')
          BY <3>5, <3>6, <5>1 DEF Upto
        <5> QED
          BY <5>1, <5>2, <5>3 DEF Upto
      <4> QED
        BY <1>0, <3>1, <4>1 DEF Frontier, Reading
    <3> QED
      BY <3>4, <3>7, <3>8 DEF ReadInv
  <2> QED
    BY <1>0, <2>2, <2>4, <2>5
<1> QED
  BY <1>0, <1>1, <1>2

\* The type of a pair.
LEMMA PairTypeKeeps ==
  ASSUME ReadInv, PairType
  PROVE  ReadInv'
<1>0. /\ Base /\ TypeOK /\ Fine /\ pc = "type" /\ off \in Nat /\ n \in Nat /\ pairLen \in Nat /\ pos \in Nat
      /\ off + 8 + pairLen <= n /\ Upto(off + 8 + pos) /\ damaged \in BOOLEAN
      /\ UNCHANGED <<label, base, n, pairLen, pool, answer, last>>
  BY DEF ReadInv, Base, TypeOK, PairType, Frontier, Reading
<1>1. CASE pos + 8 > pairLen
  <2>1. Reads({}) /\ GiveUp /\ UNCHANGED damaged
    BY <1>0, <1>1 DEF PairType
  <2> QED
    BY <1>0, <2>1, GiveUpKeeps DEF Reading
<1>2. CASE pos + 8 <= pairLen
  <2>1. Reads({<<pos, pos + 8>>}) /\ pos' = pos + 8 /\ pc' = "value" /\ UNCHANGED <<off, at, found>>
    BY <1>0, <1>2 DEF PairType
  <2>2. damaged' \in BOOLEAN
    BY <1>0, <1>2 DEF PairType, Notes
  <2>3. reads' = {<<off + 8 + pos, off + 8 + (pos + 8)>>} /\ behind' = Passed
    BY <1>0, <2>1, ReadsOne
  <2> DEFINE a == off + 8 + pos
             d == off + 16 + pos
  <2>4. Fine' /\ behind' <= d /\ \A w \in reads' : w[2] <= d
    <3>1. reads' = {<<a, d>>} /\ a \in Nat /\ d \in Nat /\ a <= d /\ Upto(a)
      BY <1>0, <2>3
    <3> HIDE DEF a, d
    <3> QED
      BY <1>0, <2>3, <3>1, Windows
  <2>5. d = off + 8 + pos' /\ d <= off + 8 + pairLen /\ pos' \in Nat /\ d \in Nat /\ off' = off /\ pairLen' = pairLen
    BY <1>0, <1>2, <2>1
  <2>6. Base'
    BY <1>0, <2>1, <2>2, <2>5 DEF Base, TypeOK
  <2>7. Upto(off + 8 + pairLen)' /\ Upto(off + 8 + pos)'
    <3> HIDE DEF d
    <3>1. behind' \in Nat /\ \A w \in reads' : w[2] \in Nat
      BY <2>4 DEF Fine
    <3>2. off + 8 + pairLen \in Nat
      BY <1>0
    <3>3. behind' <= off + 8 + pairLen /\ \A w \in reads' : w[2] <= off + 8 + pairLen
      BY <2>4, <2>5, <3>1, <3>2
    <3>4. behind' <= off + 8 + pos' /\ \A w \in reads' : w[2] <= off + 8 + pos'
      BY <2>4, <2>5
    <3> QED
      BY <2>5, <3>3, <3>4 DEF Upto
  <2>8. Frontier'
    BY <1>0, <2>1, <2>7 DEF Frontier, Reading
  <2> QED
    BY <2>4, <2>6, <2>8 DEF ReadInv
<1> QED
  BY <1>0, <1>1, <1>2

\* A string.
LEMMA PairStringKeeps ==
  ASSUME ReadInv, PairString
  PROVE  ReadInv'
<1>0. /\ Base /\ TypeOK /\ Fine /\ pc = "value" /\ off \in Nat /\ n \in Nat /\ pairLen \in Nat /\ pos \in Nat
      /\ off + 8 + pairLen <= n /\ Upto(off + 8 + pos) /\ damaged \in BOOLEAN
      /\ UNCHANGED <<label, base, n, pairLen, pool, answer, last>>
  BY DEF ReadInv, Base, TypeOK, PairString, Frontier, Reading
<1>1. CASE Reads({}) /\ GiveUp /\ UNCHANGED damaged
  BY <1>0, <1>1, GiveUpKeeps DEF Reading
<1>2. CASE /\ pos + 4 <= pairLen
           /\ \E strLen \in Field(AtData, IF AtData THEN Now.dataLen ELSE 0, Words) :
                LET same == AtData /\ strLen = Now.dataLen
                IN /\ Notes(AtData, same)
                   /\ \/ /\ pos + 4 + strLen > pairLen
                         /\ Reads({<<pos, pos + 4>>}) /\ GiveUp
                      \/ /\ pos + 4 + strLen <= pairLen
                         /\ Reads({<<pos, pos + 4>>, <<pos + 4, pos + 4 + strLen>>})
                         /\ found' \in Assigned(same)
                         /\ NextPair
  <2>0. pos + 4 <= pairLen
    BY <1>2, Zenon
  <2>1. PICK strLen \in Field(AtData, IF AtData THEN Now.dataLen ELSE 0, Words) :
          /\ Notes(AtData, AtData /\ strLen = Now.dataLen)
          /\ \/ /\ pos + 4 + strLen > pairLen
                /\ Reads({<<pos, pos + 4>>}) /\ GiveUp
             \/ /\ pos + 4 + strLen <= pairLen
                /\ Reads({<<pos, pos + 4>>, <<pos + 4, pos + 4 + strLen>>})
                /\ found' \in Assigned(AtData /\ strLen = Now.dataLen)
                /\ NextPair
    BY <1>2, Zenon
  <2>2. strLen \in Nat
    <3>1. (IF AtData THEN Now.dataLen ELSE 0) \in Nat
      BY <1>0, PairAtHand DEF AtData
    <3> QED
      BY <2>1, <3>1, FieldIsNat, LabelAssumption
  <2>3. damaged' \in BOOLEAN
    BY <2>1 DEF Notes
  <2> DEFINE a == off + 8 + pos
             c == off + 12 + pos
             d == off + 12 + pos + strLen
  <2>4. a \in Nat /\ c \in Nat /\ d \in Nat /\ a <= c /\ c <= d /\ Upto(a) /\ c <= off + 8 + pairLen
    BY <1>0, <2>0, <2>2
  <2>5. CASE Reads({<<pos, pos + 4>>}) /\ GiveUp
    <3>1. reads' = {<<a, c>>} /\ behind' = Passed
      <4>1. reads' = {<<off + 8 + pos, off + 8 + (pos + 4)>>} /\ behind' = Passed
        BY <1>0, <2>5, ReadsOne
      <4> QED
        BY <1>0, <4>1
    <3> HIDE DEF a, c, d
    <3>2. Fine' /\ behind' <= c /\ \A w \in reads' : w[2] <= c
      BY <1>0, <2>4, <3>1, Windows
    <3>3. behind' <= off + 8 + pairLen /\ \A w \in reads' : w[2] <= off + 8 + pairLen
      BY <1>0, <2>4, <3>2 DEF Fine
    <3>4. NextPair /\ found' \in Strings
      BY <1>0, <2>5 DEF GiveUp, TypeOK
    <3> QED
      BY <1>0, <2>3, <3>2, <3>3, <3>4, NextPairKeeps DEF Reading
  <2>6. CASE /\ pos + 4 + strLen <= pairLen
             /\ Reads({<<pos, pos + 4>>, <<pos + 4, pos + 4 + strLen>>})
             /\ found' \in Assigned(AtData /\ strLen = Now.dataLen)
             /\ NextPair
    <3>1. reads' = {<<a, c>>, <<c, d>>} /\ behind' = Passed
      <4>1. reads' = {<<off + 8 + pos, off + 8 + (pos + 4)>>, <<off + 8 + (pos + 4), off + 8 + (pos + 4 + strLen)>>}
            /\ behind' = Passed
        <5> DEFINE e == pos + 4
                   f == pos + 4 + strLen
        <5>1. Reads({<<pos, e>>, <<e, f>>}) /\ e \in Nat /\ f \in Nat
          BY <1>0, <2>2, <2>6
        <5> HIDE DEF e, f
        <5>2. reads' = {<<off + 8 + pos, off + 8 + e>>, <<off + 8 + e, off + 8 + f>>} /\ behind' = Passed
          BY <1>0, <5>1, ReadsTwo
        <5> QED
          BY <5>2 DEF e, f
      <4> QED
        BY <1>0, <2>2, <4>1
    <3>2. d <= off + 8 + pairLen
      BY <1>0, <2>2, <2>6
    <3> HIDE DEF a, c, d
    <3>3. Fine' /\ behind' <= d /\ \A w \in reads' : w[2] <= d
      BY <1>0, <2>4, <3>1, Windows
    <3>4. behind' <= off + 8 + pairLen /\ \A w \in reads' : w[2] <= off + 8 + pairLen
      BY <1>0, <2>4, <3>2, <3>3 DEF Fine
    <3>5. found' \in Strings
      BY <1>0, <2>6, AssignedIsString DEF AtData
    <3> QED
      BY <1>0, <2>3, <2>6, <3>3, <3>4, <3>5, NextPairKeeps DEF Reading
  <2> QED
    BY <2>1, <2>5, <2>6, Zenon
<1> QED
  BY <1>1, <1>2, Zenon DEF PairString

\* A number.
LEMMA PairUint64Keeps ==
  ASSUME ReadInv, PairUint64
  PROVE  ReadInv'
<1>0. /\ Base /\ TypeOK /\ Fine /\ pc = "value" /\ off \in Nat /\ n \in Nat /\ pairLen \in Nat /\ pos \in Nat
      /\ off + 8 + pairLen <= n /\ Upto(off + 8 + pos) /\ damaged' \in BOOLEAN
      /\ UNCHANGED <<label, base, n, pairLen, pool, answer, last>>
  BY DEF ReadInv, Base, TypeOK, PairUint64, Frontier, Reading
<1>1. CASE Reads({}) /\ GiveUp
  BY <1>0, <1>1, GiveUpKeeps DEF Reading
<1>2. CASE pos + 8 <= pairLen /\ Reads({<<pos, pos + 8>>}) /\ found' \in Assigned(AtData) /\ NextPair
  <2> DEFINE a == off + 8 + pos
             d == off + 16 + pos
  <2>1. a \in Nat /\ d \in Nat /\ a <= d /\ Upto(a) /\ d <= off + 8 + pairLen
    BY <1>0, <1>2
  <2>2. reads' = {<<a, d>>} /\ behind' = Passed
    <3>1. reads' = {<<off + 8 + pos, off + 8 + (pos + 8)>>} /\ behind' = Passed
      BY <1>0, <1>2, ReadsOne
    <3> QED
      BY <1>0, <3>1
  <2> HIDE DEF a, d
  <2>3. Fine' /\ behind' <= d /\ \A w \in reads' : w[2] <= d
    BY <1>0, <2>1, <2>2, Windows
  <2>4. behind' <= off + 8 + pairLen /\ \A w \in reads' : w[2] <= off + 8 + pairLen
    BY <1>0, <2>1, <2>3 DEF Fine
  <2>5. found' \in Strings
    BY <1>0, <1>2, AssignedIsString DEF AtData
  <2> QED
    BY <1>0, <1>2, <2>3, <2>4, <2>5, NextPairKeeps DEF Reading
<1> QED
  BY <1>1, <1>2 DEF PairUint64

\* Anything else.
LEMMA PairOtherKeeps ==
  ASSUME ReadInv, PairOther
  PROVE  ReadInv'
<1>1. pc \in Reading /\ damaged' \in BOOLEAN
  BY DEF PairOther, Reading, ReadInv, Base
<1> QED
  BY <1>1, GiveUpKeeps DEF PairOther

\* The commands themselves, with the pool's name.
Commands ==
  \/ ZpoolStatusFromImage \/ ZfsListFromImage \/ ZfsGetQuotaFromImage
  \/ ZfsSetQuotaFromImage \/ ZfsCreateFromImage

\* The lookup ends, and the command runs and returns.
LEMMA CommandKeeps ==
  ASSUME ReadInv, PoolName \/ Commands \/ Return
  PROVE  ReadInv'
<1>0. Base /\ TypeOK /\ Fine
  BY DEF ReadInv, Base
<1>1. CASE PoolName
  <2>1. /\ pc' = "run" /\ off' = 0 /\ pairLen' = 0 /\ at' = 1 /\ behind' = 0 /\ reads' = {} /\ pool' = poolName
        /\ UNCHANGED <<label, base, n, pos, found, answer, damaged, last>>
    BY <1>1 DEF PoolName
  <2>2. poolName \in Strings \ {<<>>}
    <3>1. <<base>> \in Strings /\ <<base>> # <<>>
      BY <1>0, LabelAssumption DEF Base, Strings
    <3> QED
      BY <1>0, <3>1 DEF poolName, TypeOK
  <2>3. Base' /\ Fine' /\ Frontier'
    BY <1>0, <2>1, <2>2 DEF Base, TypeOK, Fine, Frontier, Reading
  <2> QED
    BY <2>3 DEF ReadInv
<1>2. CASE Commands
  <2>1. /\ pc = "run" /\ pc' = "done" /\ n' = 0 /\ found' = <<>>
        /\ answer' \in {"shown", "created", "refused", "absent"}
        /\ UNCHANGED <<label, base, off, pairLen, pos, at, damaged, reads, behind>>
    BY <1>2 DEF Commands, ZpoolStatusFromImage, ZfsListFromImage, ZfsGetQuotaFromImage,
               ZfsSetQuotaFromImage, ZfsCreateFromImage, Answer
  <2>2. last'.dataset \in Datasets \cup {NoDataset}
    BY <1>0, <1>2 DEF Commands, ZpoolStatusFromImage, ZfsListFromImage, ZfsGetQuotaFromImage,
               ZfsSetQuotaFromImage, ZfsCreateFromImage, Answer, TypeOK
  <2>3. <<>> \in Strings
    BY DEF Strings
  <2>4. Base' /\ Fine' /\ Frontier'
    BY <1>0, <2>1, <2>2, <2>3 DEF Base, TypeOK, Fine, Frontier, Reading
  <2> QED
    BY <2>4 DEF ReadInv
<1>3. CASE Return
  <2>1. Base' /\ Fine' /\ Frontier'
    BY <1>0, <1>3 DEF Return, Base, TypeOK, Fine, Frontier, Reading
  <2> QED
    BY <2>1 DEF ReadInv
<1> QED
  BY <1>1, <1>2, <1>3

\* The parser keeps its place.
THEOREM ReadInvariant == Spec => []ReadInv
<1>1. Init => ReadInv
  <2> SUFFICES ASSUME Init PROVE ReadInv
    OBVIOUS
  <2>1. <<>> \in Strings
    BY DEF Strings
  <2>2. last.dataset \in Datasets \cup {NoDataset}
    BY DEF Init
  <2>3. TypeOK
    BY <2>1, <2>2 DEF Init, TypeOK
  <2>4. Base
    <3>1. /\ label \in Labels /\ base \in BaseNames /\ pc = "idle" /\ n = 0 /\ at = 1 /\ found = <<>>
          /\ reads = {} /\ behind = 0
      BY DEF Init
    <3>2. damaged \in BOOLEAN
      BY DEF Init
    <3> QED
      BY <2>3, <3>1, <3>2 DEF Base
  <2>5. Fine /\ Frontier
    BY DEF Init, Fine, Frontier, Reading
  <2> QED
    BY <2>4, <2>5 DEF ReadInv
<1>2. ReadInv /\ [Next]_vars => ReadInv'
  <2> SUFFICES ASSUME ReadInv, [Next]_vars PROVE ReadInv'
    OBVIOUS
  <2>1. CASE UNCHANGED vars
    <3>1. Base'
      BY <2>1 DEF vars, ReadInv, Base, TypeOK
    <3>2. Fine'
      BY <2>1 DEF vars, ReadInv, Fine
    <3>3. Frontier'
      BY <2>1 DEF vars, ReadInv, Frontier, Upto
    <3> QED
      BY <3>1, <3>2, <3>3 DEF ReadInv
  <2> QED
    BY <2>1, ReadLabelKeeps, PairHeaderKeeps, PairNameKeeps, PairTypeKeeps, PairStringKeeps,
       PairUint64Keeps, PairOtherKeeps, CommandKeeps DEF Next, Work, Commands
<1> QED
  BY <1>1, <1>2, PTL DEF Spec

\* The state is well formed, whatever a damaged label made the parser read.
THEOREM TypeCorrect == Spec => []TypeOK
<1>1. ReadInv => TypeOK
  BY DEF ReadInv, Base
<1> QED
  BY <1>1, ReadInvariant, PTL

\* parseLabelNVList and parseNVPair read every byte at most once, from left to right,
\* within the pair and within what ReadAt delivered.
THEOREM InOrder == Spec => []ReadsInOrder
<1>1. ReadInv => ReadsInOrder
  <2> SUFFICES ASSUME ReadInv PROVE ReadsInOrder
    OBVIOUS
  <2> DEFINE limit == CASE pc = "pair" -> off
                        [] pc \in {"type", "value"} -> off + 8 + pairLen
                        [] OTHER -> n
  <2>0. /\ Base /\ TypeOK /\ Fine /\ Frontier /\ off \in Nat /\ pairLen \in Nat /\ n \in Nat
    BY DEF ReadInv, Base, TypeOK
  <2>1. reads # {} => limit <= n /\ \A w \in reads : w[2] <= limit
    <3>1. CASE pc = "pair"
      BY <2>0, <3>1 DEF Frontier, Upto
    <3>2. CASE pc \in {"type", "value"}
      BY <2>0, <3>2 DEF Frontier, Upto, Reading
    <3>3. CASE pc = "name"
      <4>1. off + 8 + pairLen <= n /\ \A w \in reads : w[2] <= off + 8 + pairLen
        BY <2>0, <3>3 DEF Frontier, Upto, Reading
      <4>2. \A w \in reads : w[2] <= n
        BY <2>0, <4>1 DEF Fine
      <4> QED
        BY <2>0, <3>3, <4>2
    <3>4. CASE pc = "pool"
      BY <2>0, <3>4 DEF Frontier, Upto
    <3>5. CASE pc \in {"idle", "run", "done"}
      BY <2>0, <3>5 DEF Base
    <3> QED
      BY <2>0, <3>1, <3>2, <3>3, <3>4, <3>5 DEF TypeOK
  <2> HIDE DEF limit
  <2>2. \A w \in reads :
          /\ behind <= w[1] /\ w[1] <= w[2] /\ w[2] <= limit /\ limit <= n
          /\ \A v \in reads : v = w \/ v[2] <= w[1] \/ w[2] <= v[1]
    BY <2>0, <2>1 DEF Fine
  <2> QED
    BY <2>2 DEF ReadsInOrder, limit
<1> QED
  BY <1>1, ReadInvariant, PTL
------------------------------------------------------------------------------
(* What a command confirmed *)

\* Names of a single part, or none.
Singles == {<<x>> : x \in Names} \cup {<<>>}

\* As long as the label is intact, the parser is where it should be.
Track ==
  ~damaged =>
    /\ pc \in Reading => at <= Len(label)
    /\ pc = "type" => pos = 4 + RoundUp(Now.nameLen)
    /\ pc = "value" => pos = 12 + RoundUp(Now.nameLen)

\* So the pool's name has one part.
OnePart ==
  ~damaged => found \in Singles /\ (pc = "run" => pool \in Singles \ {<<>>})

\* The directory that zfs create made is the one its dataset stands for.
Remembered == last.dataset # NoDataset => last.path = dsPath(last.dataset)

ConfirmInv == Track /\ OnePart /\ Remembered /\ ConfirmedIsFound

\* No damage is noted of a field that is as it should be.
LEMMA NotedSame ==
  ASSUME NEW right, NEW same, Notes(right, same), ~damaged'
  PROVE  ~damaged /\ (right => same)
BY Zenon DEF Notes

\* The padding of a key takes it to the next multiple of four.
LEMMA PadRounds ==
  ASSUME NEW k \in Nat
  PROVE  k + Pad(k) = RoundUp(k)
BY SMTT(30) DEF Pad, RoundUp

\* The loop goes on: nothing but res["name"] can have changed.
LEMMA NextPairConfirms ==
  ASSUME ConfirmInv, NextPair, last' = last, ~damaged' => found' \in Singles
  PROVE  ConfirmInv'
<1>1. pc' = "pair"
  BY DEF NextPair
<1>2. Track'
  BY <1>1 DEF Track, Reading
<1>3. OnePart'
  BY <1>1 DEF OnePart
<1>4. Remembered'
  BY DEF ConfirmInv, Remembered, dsPath
<1>5. ConfirmedIsFound'
  BY <1>1 DEF ConfirmedIsFound
<1> QED
  BY <1>2, <1>3, <1>4, <1>5 DEF ConfirmInv

\* The parser goes on within a pair.
LEMMA WithinPairConfirms ==
  ASSUME ConfirmInv, Track', pc' \in {"pair", "name", "type", "value", "pool"},
         found' = found, last' = last, ~damaged' => ~damaged
  PROVE  ConfirmInv'
<1>1. OnePart'
  BY DEF ConfirmInv, OnePart
<1>2. Remembered'
  BY DEF ConfirmInv, Remembered, dsPath
<1>3. ConfirmedIsFound'
  BY DEF ConfirmedIsFound
<1> QED
  BY <1>1, <1>2, <1>3 DEF ConfirmInv

\* A pair that is given up.
LEMMA GiveUpConfirms ==
  ASSUME ConfirmInv, GiveUp, last' = last, ~damaged' => ~damaged
  PROVE  ConfirmInv'
<1>1. ~damaged' => found' \in Singles
  BY DEF ConfirmInv, OnePart, GiveUp
<1>2. NextPair
  BY DEF GiveUp
<1> QED
  BY <1>1, <1>2, NextPairConfirms

\* An assignment from a pair that is intact.
LEMMA AssignedIsSingle ==
  ASSUME Base, ConfirmInv, ~damaged, NEW intact, intact, intact => Intact
  PROVE  Assigned(intact) \subseteq Singles
<1>1. found \in Singles
  BY DEF ConfirmInv, OnePart
<1>2. Now.val \in Names \cup {EmptyName}
  BY PairAtHand
<1>3. (IF ~Now.named THEN found ELSE IF Now.val = EmptyName THEN <<>> ELSE <<Now.val>>) \in Singles
  BY <1>1, <1>2 DEF Singles
<1> QED
  BY <1>3 DEF Assigned

\* ReadAt and the header of a pair.
LEMMA HeaderConfirms ==
  ASSUME ReadInv, ConfirmInv, ReadLabel \/ PairHeader
  PROVE  ConfirmInv'
<1>0. Base /\ TypeOK
  BY DEF ReadInv, Base
<1>1. CASE ReadLabel
  <2>1. /\ pc' \in {"pool", "pair", "done"} /\ (pc' = "done" => answer' = "refused")
        /\ UNCHANGED <<found, damaged, last>>
    BY <1>1 DEF ReadLabel
  <2>2. Track' /\ OnePart'
    BY <2>1 DEF ConfirmInv, Track, OnePart, Reading
  <2>3. Remembered' /\ ConfirmedIsFound'
    BY <2>1 DEF ConfirmInv, Remembered, ConfirmedIsFound, dsPath
  <2> QED
    BY <2>2, <2>3 DEF ConfirmInv
<1>2. CASE PairHeader
  <2>0. UNCHANGED <<label, found, at, last>>
    BY <1>2 DEF PairHeader
  <2>1. CASE pc' = "pool" /\ UNCHANGED <<pairLen, damaged, reads, behind>>
    <3>1. Track'
      BY <2>1 DEF Track, Reading
    <3> QED
      BY <2>0, <2>1, <3>1, WithinPairConfirms
  <2>2. CASE \E encoded \in Field(~damaged, NowEncoded, Words) :
               /\ Notes(TRUE, encoded = NowEncoded)
               /\ pairLen' = IF encoded < 8 THEN 0 ELSE encoded - 8
               /\ pc' = IF encoded # 0 /\ PairFits(pairLen') THEN "name" ELSE "pool"
    <3>1. PICK encoded \in Field(~damaged, NowEncoded, Words) :
               /\ Notes(TRUE, encoded = NowEncoded)
               /\ pairLen' = IF encoded < 8 THEN 0 ELSE encoded - 8
               /\ pc' = IF encoded # 0 /\ PairFits(pairLen') THEN "name" ELSE "pool"
      BY <2>2, Zenon
    <3>2. ~damaged' => ~damaged /\ encoded = NowEncoded
      BY <3>1, Zenon DEF Notes
    <3>3. pc' = "pool" \/ (pc' = "name" /\ encoded # 0)
      BY <3>1, Zenon
    <3>4. ~damaged' /\ pc' = "name" => at <= Len(label)
      BY <3>2, <3>3 DEF NowEncoded
    <3>5. Track'
      BY <2>0, <3>3, <3>4 DEF Track, Reading
    <3> QED
      BY <2>0, <3>2, <3>3, <3>5, WithinPairConfirms
  <2> QED
    BY <1>2, <2>1, <2>2, Zenon DEF PairHeader
<1> QED
  BY <1>1, <1>2

\* The key: behind its padding is the type.
LEMMA PairNameConfirms ==
  ASSUME ReadInv, ConfirmInv, PairName
  PROVE  ConfirmInv'
<1>0. Base /\ pc = "name" /\ UNCHANGED <<label, last>>
  BY DEF ReadInv, PairName
<1>1. CASE GiveUp /\ UNCHANGED damaged
  BY <1>0, <1>1, GiveUpConfirms
<1>2. CASE \E nameLen \in Field(Intact, IF Intact THEN Now.nameLen ELSE 0, Words) :
             /\ Notes(Intact, Intact => nameLen = Now.nameLen)
             /\ \/ /\ 4 + nameLen > pairLen
                   /\ Reads({<<0, 4>>}) /\ GiveUp
                \/ /\ 4 + nameLen <= pairLen
                   /\ Reads({<<0, 4>>, <<4, 4 + nameLen>>})
                   /\ pos' = 4 + nameLen + Pad(nameLen)
                   /\ pc' = "type"
                   /\ UNCHANGED <<off, at, typ, nelem, found>>
  <2>1. PICK nameLen \in Field(Intact, IF Intact THEN Now.nameLen ELSE 0, Words) :
             /\ Notes(Intact, Intact => nameLen = Now.nameLen)
             /\ \/ GiveUp
                \/ /\ pos' = 4 + nameLen + Pad(nameLen)
                   /\ pc' = "type"
                   /\ UNCHANGED <<off, at, typ, nelem, found>>
    BY <1>2, Zenon
  <2>2. ~damaged' => ~damaged /\ (Intact => nameLen = Now.nameLen)
    BY <2>1, Zenon DEF Notes
  <2>3. CASE GiveUp
    BY <1>0, <2>2, <2>3, GiveUpConfirms
  <2>4. CASE pos' = 4 + nameLen + Pad(nameLen) /\ pc' = "type" /\ UNCHANGED <<off, at, typ, nelem, found>>
    <3>1. ASSUME ~damaged' PROVE at <= Len(label) /\ pos' = 4 + RoundUp(Now.nameLen)
      <4>1. ~damaged /\ at <= Len(label)
        BY <1>0, <2>2, <3>1 DEF ConfirmInv, Track, Reading
      <4>2. nameLen = Now.nameLen /\ nameLen \in Nat
        BY <1>0, <2>2, <3>1, <4>1, PairAtHand DEF Intact
      <4>3. nameLen + Pad(nameLen) = RoundUp(nameLen) /\ Pad(nameLen) \in Nat
        BY <4>2, PadRounds DEF Pad
      <4> QED
        BY <2>4, <4>1, <4>2, <4>3
    <3>2. Now' = Now /\ at' = at /\ label' = label
      BY <1>0, <2>4 DEF Now
    <3>3. Track'
      BY <2>4, <3>1, <3>2 DEF Track, Reading
    <3> QED
      BY <1>0, <2>2, <2>4, <3>3, WithinPairConfirms
  <2> QED
    BY <2>1, <2>3, <2>4, Zenon
<1> QED
  BY <1>1, <1>2, Zenon DEF PairName

\* The type: behind it are the data.
LEMMA PairTypeConfirms ==
  ASSUME ReadInv, ConfirmInv, PairType
  PROVE  ConfirmInv'
<1>0. Base /\ pc = "type" /\ UNCHANGED <<label, last>> /\ pos \in Nat
  BY DEF ReadInv, PairType, Base, TypeOK
<1>1. CASE GiveUp /\ UNCHANGED damaged
  BY <1>0, <1>1, GiveUpConfirms
<1>2. CASE /\ Notes(AtType, AtType => typ' = Now.typ /\ nelem' = Now.nelem)
           /\ pos' = pos + 8
           /\ pc' = "value"
           /\ UNCHANGED <<off, at, found>>
  <2>1. ~damaged' => ~damaged
    BY <1>2, Zenon DEF Notes
  <2>2. pos' = pos + 8 /\ pc' = "value" /\ at' = at /\ found' = found
    BY <1>2, Zenon
  <2>3. ASSUME ~damaged' PROVE at <= Len(label) /\ pos' = 12 + RoundUp(Now.nameLen)
    <3>1. ~damaged /\ at <= Len(label) /\ pos = 4 + RoundUp(Now.nameLen)
      BY <1>0, <2>1, <2>3 DEF ConfirmInv, Track, Reading
    <3>2. Now.nameLen \in Nat
      BY <1>0, <3>1, PairAtHand DEF Intact
    <3>3. RoundUp(Now.nameLen) \in Nat
      BY <3>2 DEF RoundUp
    <3> QED
      BY <2>2, <3>1, <3>3
  <2>4. Now' = Now /\ at' = at /\ label' = label
    BY <1>0, <2>2 DEF Now
  <2>5. Track'
    BY <2>2, <2>3, <2>4 DEF Track, Reading
  <2> QED
    BY <1>0, <2>1, <2>2, <2>5, WithinPairConfirms
<1> QED
  BY <1>1, <1>2, Zenon DEF PairType

\* The value of a pair that is intact is that of the label.
LEMMA PairValueConfirms ==
  ASSUME ReadInv, ConfirmInv, PairString \/ PairUint64 \/ PairOther
  PROVE  ConfirmInv'
<1>0. Base /\ pc = "value" /\ last' = last
  BY DEF ReadInv, PairString, PairUint64, PairOther
<1>1. ~damaged => AtData
  BY <1>0 DEF ConfirmInv, Track, Reading, AtData, Intact
<1>2. AtData => Intact
  BY DEF AtData
<1>3. CASE GiveUp /\ UNCHANGED damaged
  BY <1>0, <1>3, GiveUpConfirms
<1>4. CASE PairString
  <2>1. CASE \E strLen \in Field(AtData, IF AtData THEN Now.dataLen ELSE 0, Words) :
                LET same == AtData /\ strLen = Now.dataLen
                IN /\ Notes(AtData, same)
                   /\ \/ /\ pos + 4 + strLen > pairLen
                         /\ Reads({<<pos, pos + 4>>}) /\ GiveUp
                      \/ /\ pos + 4 + strLen <= pairLen
                         /\ Reads({<<pos, pos + 4>>, <<pos + 4, pos + 4 + strLen>>})
                         /\ found' \in Assigned(same)
                         /\ NextPair
    <3>1. PICK strLen \in Field(AtData, IF AtData THEN Now.dataLen ELSE 0, Words) :
             /\ Notes(AtData, AtData /\ strLen = Now.dataLen)
             /\ GiveUp \/ (found' \in Assigned(AtData /\ strLen = Now.dataLen) /\ NextPair)
      BY <2>1, Zenon
    <3> DEFINE same == AtData /\ strLen = Now.dataLen
    <3>2. ~damaged' => ~damaged /\ (AtData => same)
      BY <3>1, Zenon DEF Notes
    <3>3. CASE GiveUp
      BY <1>0, <3>2, <3>3, GiveUpConfirms
    <3>4. CASE found' \in Assigned(same) /\ NextPair
      <4>1. ASSUME ~damaged' PROVE found' \in Singles
        <5>1. ~damaged /\ same /\ (same => Intact)
          BY <1>1, <1>2, <3>2, <4>1, Zenon
        <5> HIDE DEF same
        <5> QED
          BY <1>0, <3>4, <5>1, AssignedIsSingle, Zenon
      <4>2. NextPair
        BY <3>4, Zenon
      <4> QED
        BY <1>0, <4>1, <4>2, NextPairConfirms
    <3> QED
      BY <3>1, <3>3, <3>4, Zenon
  <2> QED
    BY <1>3, <1>4, <2>1, Zenon DEF PairString
<1>5. CASE PairUint64
  <2>1. CASE found' \in Assigned(AtData) /\ NextPair /\ UNCHANGED damaged
    <3>1. ASSUME ~damaged' PROVE found' \in Singles
      BY <1>0, <1>1, <1>2, <2>1, <3>1, AssignedIsSingle, Zenon
    <3> QED
      BY <1>0, <2>1, <3>1, NextPairConfirms
  <2> QED
    BY <1>3, <1>5, <2>1, Zenon DEF PairUint64
<1>6. CASE PairOther
  BY <1>3, <1>6, Zenon DEF PairOther
<1> QED
  BY <1>4, <1>5, <1>6

\* zfs set splits its argument differently, yet takes the same part off.
LEMMA SamePath ==
  ASSUME NEW d \in Datasets, pool \in Singles \ {<<>>}
  PROVE  startPath(d) \in {<<>>, dsPath(d)}
<1>1. PICK x \in Names : pool = <<x>>
  BY DEF Singles
<1>2. d \in Seq(Names) /\ Len(d) \in Nat /\ Len(pool) = 1
  BY <1>1, LabelAssumption
<1>3. CASE d = pool
  BY <1>3 DEF startPath
<1>4. CASE d # pool /\ Len(d) > 1
  <2>1. Tail(d) = SubSeq(d, 2, Len(d))
    BY <1>2, <1>4
  <2> QED
    BY <1>2, <1>4, <2>1 DEF startPath, dsPath
<1>5. CASE d # pool /\ ~(Len(d) > 1)
  BY <1>2, <1>5 DEF startPath, dsPath
<1> QED
  BY <1>3, <1>4, <1>5

\* A directory that was made is there.
LEMMA MadeIsThere ==
  ASSUME Remembered, last.dataset \in Datasets
  PROVE  Exists(dsPath(last.dataset))
<1> DEFINE d == last.dataset
<1>1. d \in Seq(Names) /\ d # <<>>
  BY LabelAssumption
<1>2. last.path = dsPath(d)
  BY <1>1 DEF Remembered, NoDataset
<1>3. dsPath(d) \in Seq(Names)
  BY <1>1 DEF dsPath
<1>4. dsPath(d) # NoPath
  <2>1. ASSUME dsPath(d) = NoPath PROVE FALSE
    <3>1. NoPath \in Seq(Names)
      BY <1>3, <2>1
    <3>2. Len(NoPath) = 1 /\ NoPath[1] = NoName
      BY DEF NoPath
    <3> QED
      BY <3>1, <3>2, LabelAssumption
  <2> QED
    BY <2>1
<1> HIDE DEF d
<1>5. last.path = SubSeq(last.path, 1, Len(last.path)) /\ Len(last.path) \in 0..Len(last.path)
  BY <1>2, <1>3
<1> QED
  BY <1>2, <1>4, <1>5 DEF Exists, d

\* The lookup ends, and the command runs and returns.
LEMMA CommandConfirms ==
  ASSUME ReadInv, ConfirmInv, PoolName \/ Commands \/ Return
  PROVE  ConfirmInv'
<1>0. Base /\ TypeOK /\ Track /\ OnePart /\ Remembered /\ ConfirmedIsFound
  BY DEF ReadInv, Base, ConfirmInv
<1>1. CASE PoolName
  <2>1. pc' = "run" /\ pool' = poolName /\ UNCHANGED <<found, damaged, last>>
    BY <1>1 DEF PoolName
  <2>2. ~damaged => poolName \in Singles \ {<<>>}
    <3>1. <<base>> \in Singles /\ <<base>> # <<>>
      BY <1>0, LabelAssumption DEF Base, Singles
    <3> QED
      BY <1>0, <3>1 DEF poolName, OnePart
  <2>3. Track' /\ ConfirmedIsFound'
    BY <2>1 DEF Track, Reading, ConfirmedIsFound
  <2>4. OnePart'
    BY <1>0, <2>1, <2>2 DEF OnePart
  <2>5. Remembered'
    BY <1>0, <2>1 DEF Remembered, dsPath
  <2> QED
    BY <2>3, <2>4, <2>5 DEF ConfirmInv
<1>2. CASE Commands
  <2>1. /\ pc = "run" /\ pc' = "done" /\ found' = <<>> /\ damaged' = damaged
        /\ (last' = last \/ \E d \in Datasets : last' = [dataset |-> d, path |-> dsPath(d)])
        /\ (answer' = "absent" =>
              /\ last' = last /\ dataset' \in Datasets
              /\ ~Exists(startPath(dataset')) /\ startPath(dataset') # <<>>)
    BY <1>2 DEF Commands, ZpoolStatusFromImage, ZfsListFromImage, ZfsGetQuotaFromImage,
               ZfsSetQuotaFromImage, ZfsCreateFromImage, Answer
  <2>2. Track'
    BY <2>1 DEF Track, Reading
  <2>3. OnePart'
    BY <2>1 DEF OnePart, Singles
  <2>4. Remembered'
    <3>1. CASE last' = last
      BY <1>0, <3>1 DEF Remembered, dsPath
    <3>2. ASSUME NEW d \in Datasets, last' = [dataset |-> d, path |-> dsPath(d)] PROVE Remembered'
      <4>1. last'.dataset = d /\ last'.path = dsPath(d)
        BY <3>2
      <4> QED
        BY <4>1 DEF Remembered, dsPath
    <3> QED
      BY <2>1, <3>1, <3>2
  <2>5. ConfirmedIsFound'
    <3> SUFFICES ASSUME answer' = "absent", ~damaged', dataset' = last'.dataset PROVE FALSE
      BY DEF ConfirmedIsFound
    <3>1. last' = last /\ dataset' \in Datasets /\ last.dataset \in Datasets
      BY <2>1
    <3>2. startPath(dataset') = dsPath(dataset')
      BY <1>0, <2>1, <3>1, SamePath DEF OnePart
    <3>3. Exists(dsPath(last.dataset))
      BY <1>0, <3>1, MadeIsThere
    <3> QED
      BY <2>1, <3>1, <3>2, <3>3
  <2> QED
    BY <2>2, <2>3, <2>4, <2>5 DEF ConfirmInv
<1>3. CASE Return
  <2>1. pc = "done" /\ pc' = "idle" /\ found' = found /\ last' = last
    BY <1>3 DEF Return
  <2>2. found' \in Singles
    BY <1>0, <2>1 DEF Base, Singles
  <2>3. Track' /\ OnePart' /\ ConfirmedIsFound'
    BY <2>1, <2>2 DEF Track, Reading, OnePart, ConfirmedIsFound
  <2>4. Remembered'
    BY <1>0, <2>1 DEF Remembered, dsPath
  <2> QED
    BY <2>3, <2>4 DEF ConfirmInv
<1> QED
  BY <1>1, <1>2, <1>3

\* The parser keeps its place in an intact label, and what zfs create made is remembered.
THEOREM ConfirmInvariant == Spec => []ConfirmInv
<1>1. Init => ConfirmInv
  <2> SUFFICES ASSUME Init PROVE ConfirmInv
    OBVIOUS
  <2>1. pc = "idle" /\ found = <<>> /\ last.dataset = NoDataset
    BY DEF Init
  <2>2. Track /\ OnePart /\ Remembered /\ ConfirmedIsFound
    BY <2>1 DEF Track, Reading, OnePart, Singles, Remembered, ConfirmedIsFound
  <2> QED
    BY <2>2 DEF ConfirmInv
<1>2. ReadInv /\ ConfirmInv /\ [Next]_vars => ConfirmInv'
  <2> SUFFICES ASSUME ReadInv, ConfirmInv, [Next]_vars PROVE ConfirmInv'
    OBVIOUS
  <2>1. CASE UNCHANGED vars
    <3>1. Track' /\ OnePart'
      BY <2>1 DEF vars, ConfirmInv, Track, OnePart, Now
    <3>2. Remembered' /\ ConfirmedIsFound'
      BY <2>1 DEF vars, ConfirmInv, Remembered, ConfirmedIsFound, dsPath
    <3> QED
      BY <3>1, <3>2 DEF ConfirmInv
  <2> QED
    BY <2>1, HeaderConfirms, PairNameConfirms, PairTypeConfirms, PairValueConfirms, CommandConfirms
       DEF Next, Work, Commands
<1> QED
  BY <1>1, <1>2, ReadInvariant, PTL DEF Spec

\* A dataset that "zfs create" confirmed is never "not found" for "zfs set quota", as
\* long as the label it reads is intact: with however much of the label was read, and
\* whatever the file is called by then.
THEOREM ConfirmedFound == Spec => []ConfirmedIsFound
<1>1. ConfirmInv => ConfirmedIsFound
  BY DEF ConfirmInv
<1> QED
  BY <1>1, ConfirmInvariant, PTL


------------------------------------------------------------------------------
(* Where the pairs of a label end *)

\* A set of naturals that is not empty has a least element.
LEMMA LeastOf ==
  ASSUME NEW T, T \subseteq Nat, T # {}
  PROVE  \E x \in T : \A y \in T : x <= y
<1> DEFINE R == {p \in Nat \X Nat : p[1] < p[2]}
<1>1. R = OpToRel(<, Nat)
  BY DEF OpToRel
<1>2. IsWellFoundedOn(R, Nat)
  BY <1>1, NatLessThanWellFounded
<1> HIDE DEF R
<1>3. PICK x \in T : \A y \in T : ~(<<y, x>> \in R)
  BY <1>2, WFMin
<1>4. ASSUME NEW y \in T, ~(x <= y) PROVE FALSE
  <2>1. x \in Nat /\ y \in Nat
    OBVIOUS
  <2>2. <<y, x>> \in R
    BY <1>4, <2>1 DEF R
  <2> QED
    BY <1>3, <2>2
<1> QED
  BY <1>4

\* A pair of a label, and the bytes it takes.
LEMMA PairOf ==
  ASSUME label \in Labels, NEW k \in 1..Len(label)
  PROVE  /\ label[k].nameLen \in Nat \ {0} /\ label[k].typ \in {String, Uint64, Nested}
         /\ label[k].nelem \in Nat /\ label[k].dataLen \in Nat /\ label[k].val \in Names \cup {EmptyName}
         /\ label[k].typ = Uint64 => label[k].nelem >= 1 /\ label[k].dataLen >= 8
         /\ RoundUp(label[k].nameLen) \in Nat /\ label[k].nameLen <= RoundUp(label[k].nameLen)
         /\ RoundUp(label[k].dataLen) \in Nat /\ label[k].dataLen <= RoundUp(label[k].dataLen)
         /\ DataBytes(label[k]) \in Nat
         /\ EncodedBytes(label[k]) \in Nat
         /\ EncodedBytes(label[k]) = 20 + RoundUp(label[k].nameLen) + DataBytes(label[k])
<1>1. label \in Seq(PairRecords)
  BY LabelAssumption
<1>2. label[k] \in PairRecords
  BY <1>1
<1>3. /\ label[k].nameLen \in Nat \ {0} /\ label[k].typ \in {String, Uint64, Nested}
      /\ label[k].nelem \in Nat /\ label[k].dataLen \in Nat /\ label[k].val \in Names \cup {EmptyName}
  BY <1>2 DEF PairRecords
<1>4. label[k].typ = Uint64 => label[k].nelem >= 1 /\ label[k].dataLen >= 8
  BY LabelAssumption
<1>5. \A x \in Nat : RoundUp(x) \in Nat /\ x <= RoundUp(x)
  BY DEF RoundUp
<1> DEFINE key == RoundUp(label[k].nameLen)
           text == RoundUp(label[k].dataLen)
           data == DataBytes(label[k])
<1>6. key \in Nat /\ label[k].nameLen <= key
  <2>1. label[k].nameLen \in Nat
    BY <1>3
  <2> QED
    BY <1>5, <2>1
<1>7. text \in Nat /\ label[k].dataLen <= text
  BY <1>3, <1>5
<1>8. data \in Nat
  <2>1. data = 4 + text \/ data = label[k].dataLen
    BY DEF DataBytes
  <2> HIDE DEF data, text
  <2> QED
    BY <1>3, <1>7, <2>1
<1>9. EncodedBytes(label[k]) = 8 + 4 + key + 8 + data
  BY DEF EncodedBytes
<1> HIDE DEF key, text, data
<1>10. \A x, y \in Nat : 8 + 4 + x + 8 + y = 20 + x + y /\ 20 + x + y \in Nat
  OBVIOUS
<1>11. EncodedBytes(label[k]) = 20 + key + data /\ EncodedBytes(label[k]) \in Nat
  BY <1>6, <1>8, <1>9, <1>10
<1> QED
  BY <1>3, <1>4, <1>6, <1>7, <1>8, <1>11 DEF key, text, data

\* The step from the end of one pair to that of the next.
EndStep(g, k) == IF k = 0 THEN ListStart ELSE g[k - 1] + EncodedBytes(label[k])

\* There is a function that adds them up.
LEMMA EndsExist ==
  ASSUME label \in Labels
  PROVE  \E g : g = [k \in 0..Len(label) |-> EndStep(g, k)]
<1> DEFINE L == Len(label)
           Goes(m, g) == g[0] = ListStart /\ \A k \in 1..m : g[k] = g[k - 1] + EncodedBytes(label[k])
           T == {m \in Nat : m <= L /\ ~\E g \in [0..L -> Nat] : Goes(m, g)}
<1>0. L \in Nat
  <2>1. label \in Seq(PairRecords)
    BY LabelAssumption
  <2> QED
    BY <2>1
<1>1. \A k \in 1..L : EncodedBytes(label[k]) \in Nat
  BY PairOf
<1>2. T = {}
  <2>1. SUFFICES ASSUME T # {} PROVE FALSE
    OBVIOUS
  <2>2. T \subseteq Nat
    OBVIOUS
  <2>3. PICK m \in T : \A x \in T : m <= x
    <3> HIDE DEF T
    <3> QED
      BY <2>1, <2>2, LeastOf
  <2>4. m \in Nat /\ m <= L /\ ~\E g \in [0..L -> Nat] : Goes(m, g)
    OBVIOUS
  <2> HIDE DEF L
  <2>5. CASE m = 0
    <3> DEFINE g == [k \in 0..L |-> ListStart]
    <3>1. g \in [0..L -> Nat] /\ g[0] = ListStart
      BY <1>0 DEF ListStart
    <3>2. Goes(0, g)
      BY <3>1
    <3> QED
      BY <2>4, <2>5, <3>1, <3>2
  <2>6. CASE m # 0
    <3>1. m - 1 \in Nat /\ m - 1 <= L /\ ~(m <= m - 1) /\ m \in 1..L /\ m \in 0..L /\ m - 1 \in 0..L
      BY <1>0, <2>4, <2>6
    <3>2. m - 1 \notin T
      <4> HIDE DEF T
      <4> QED
        BY <2>3, <3>1
    <3>3. PICK g \in [0..L -> Nat] : Goes(m - 1, g)
      BY <3>1, <3>2
    <3> DEFINE h == [g EXCEPT ![m] = g[m - 1] + EncodedBytes(label[m])]
    <3>4. g[m - 1] + EncodedBytes(label[m]) \in Nat
      <4>1. g[m - 1] \in Nat /\ EncodedBytes(label[m]) \in Nat
        BY <1>1, <3>1
      <4> QED
        BY <4>1
    <3>5. h \in [0..L -> Nat]
      BY <3>1, <3>4
    <3>6. \A k \in 0..L : h[k] = IF k = m THEN g[m - 1] + EncodedBytes(label[m]) ELSE g[k]
      OBVIOUS
    <3>7. h[0] = ListStart
      BY <1>0, <2>6, <3>3, <3>6
    <3>8. ASSUME NEW k \in 1..m PROVE h[k] = h[k - 1] + EncodedBytes(label[k])
      <4>1. k \in 0..L /\ k - 1 \in 0..L /\ k - 1 # m /\ (k # m => k \in 1..(m - 1))
        BY <1>0, <2>4
      <4>2. h[k - 1] = g[k - 1] /\ h[k] = IF k = m THEN g[m - 1] + EncodedBytes(label[m]) ELSE g[k]
        BY <3>6, <4>1
      <4> HIDE DEF h
      <4>3. CASE k = m
        BY <4>2, <4>3
      <4>4. CASE k # m
        BY <3>3, <4>1, <4>2, <4>4
      <4> QED
        BY <4>3, <4>4
    <3> HIDE DEF h
    <3>9. Goes(m, h)
      BY <3>7, <3>8
    <3> QED
      BY <2>4, <3>5, <3>9
  <2> QED
    BY <2>5, <2>6
<1>3. PICK g \in [0..L -> Nat] : Goes(L, g)
  BY <1>0, <1>2
<1>4. ASSUME NEW k \in 0..L PROVE g[k] = EndStep(g, k)
  <2>1. CASE k = 0
    BY <1>3, <2>1 DEF EndStep
  <2>2. CASE k # 0
    <3>1. k \in 1..L
      BY <1>0, <2>2
    <3> QED
      BY <1>3, <2>2, <3>1 DEF EndStep
  <2> QED
    BY <2>1, <2>2
<1>5. g = [k \in 0..L |-> EndStep(g, k)]
  BY <1>4
<1> QED
  BY <1>5

\* Where the pairs end: each behind the one before.
LEMMA EndsAre ==
  ASSUME label \in Labels
  PROVE  /\ Len(label) \in Nat /\ Ends[0] = Header
         /\ \A k \in 1..Len(label) : Ends[k] = Ends[k - 1] + EncodedBytes(label[k])
         /\ \A k \in 0..Len(label) : Ends[k] \in Nat
<1> DEFINE G == CHOOSE g : g = [k \in 0..Len(label) |-> EndStep(g, k)]
<1>1. Ends = G
  BY DEF Ends, EndStep
<1>2. G = [k \in 0..Len(label) |-> EndStep(G, k)]
  BY EndsExist
<1> HIDE DEF G
<1>3. Len(label) \in Nat
  <2>1. label \in Seq(PairRecords)
    BY LabelAssumption
  <2> QED
    BY <2>1
<1>4. \A k \in 0..Len(label) : Ends[k] = EndStep(Ends, k)
  BY <1>1, <1>2
<1>5. Ends[0] = Header
  BY <1>3, <1>4 DEF EndStep, ListStart, Header
<1>6. ASSUME NEW k \in 1..Len(label) PROVE Ends[k] = Ends[k - 1] + EncodedBytes(label[k])
  <2>1. k \in 0..Len(label) /\ k # 0
    BY <1>3
  <2> QED
    BY <1>4, <2>1 DEF EndStep
<1> DEFINE T == {k \in 0..Len(label) : Ends[k] \notin Nat}
<1>7. T = {}
  <2>1. SUFFICES ASSUME T # {} PROVE FALSE
    OBVIOUS
  <2>2. T \subseteq Nat
    BY <1>3
  <2>3. PICK k \in T : \A x \in T : k <= x
    <3> HIDE DEF T
    <3> QED
      BY <2>1, <2>2, LeastOf
  <2>4. k \in 0..Len(label) /\ Ends[k] \notin Nat
    OBVIOUS
  <2>5. k # 0
    BY <1>5, <2>4 DEF Header
  <2>6. k \in 1..Len(label) /\ k - 1 \in 0..Len(label) /\ ~(k <= k - 1)
    BY <1>3, <2>4, <2>5
  <2>7. k - 1 \notin T
    <3> HIDE DEF T
    <3> QED
      BY <2>3, <2>6
  <2>8. Ends[k - 1] \in Nat /\ EncodedBytes(label[k]) \in Nat
    BY <2>6, <2>7, PairOf
  <2> QED
    BY <1>6, <2>4, <2>6, <2>8
<1> QED
  BY <1>3, <1>5, <1>6, <1>7

\* They end from left to right.
LEMMA EndsGrow ==
  ASSUME label \in Labels, NEW a \in 0..Len(label), NEW b \in 0..Len(label), a <= b
  PROVE  Ends[a] <= Ends[b]
<1> DEFINE T == {k \in 0..Len(label) : a <= k /\ ~(Ends[a] <= Ends[k])}
<1>1. T = {}
  <2>1. SUFFICES ASSUME T # {} PROVE FALSE
    OBVIOUS
  <2>2. T \subseteq Nat
    BY EndsAre
  <2>3. PICK k \in T : \A x \in T : k <= x
    <3> HIDE DEF T
    <3> QED
      BY <2>1, <2>2, LeastOf
  <2>4. k \in 0..Len(label) /\ a <= k /\ ~(Ends[a] <= Ends[k]) /\ Len(label) \in Nat
    BY EndsAre
  <2>5. k # a
    <3>1. Ends[a] \in Nat
      BY EndsAre
    <3> QED
      BY <2>4, <3>1
  <2>6. k \in 1..Len(label) /\ k - 1 \in 0..Len(label) /\ ~(k <= k - 1) /\ a <= k - 1
    BY <2>4, <2>5
  <2>7. Ends[a] <= Ends[k - 1]
    <3>1. k - 1 \notin T
      <4> HIDE DEF T
      <4> QED
        BY <2>3, <2>6
    <3> QED
      BY <2>6, <3>1
  <2>8. Ends[k] = Ends[k - 1] + EncodedBytes(label[k]) /\ Ends[k - 1] \in Nat /\ Ends[a] \in Nat
        /\ EncodedBytes(label[k]) \in Nat
    BY <2>6, EndsAre, PairOf
  <2> QED
    BY <2>4, <2>7, <2>8
<1> QED
  BY <1>1

------------------------------------------------------------------------------
(* The pool's name *)

\* The pairs with which a label l tells the pool's name, and the name they tell.
Tells(l, k) == l[k].named /\ l[k].typ \in {String, Uint64}
NameOf(l, k) == IF l[k].val = EmptyName THEN <<>> ELSE <<l[k].val>>

\* f is the name that the first m pairs tell: that of the last of them to tell one.
NamedBy(l, m, f) ==
  \/ f = <<>> /\ \A k \in 1..m : ~Tells(l, k)
  \/ \E k \in 1..m : /\ Tells(l, k) /\ f = NameOf(l, k)
                     /\ \A j \in 1..m : Tells(l, j) => j <= k

\* In an intact label the parser is at the beginning of a pair, or within one, and has
\* the name of the pairs before it.
OnWay ==
  /\ pc \in {"pair"} \cup Reading =>
       at - 1 \in 0..Len(label) /\ off = Ends[at - 1] /\ NamedBy(label, at - 1, found)
  /\ pc \in Reading => pairLen = EncodedBytes(Now) - 8
  /\ pc = "value" => typ = Now.typ /\ nelem = Now.nelem

\* It stops behind the last pair that was read in full.
StoppedAt(m) ==
  NamedBy(label, m, found) /\ \A k \in 1..Len(label) : (Ends[k] <= n) <=> (k <= m)
Stopped == pc = "pool" => \E m \in 0..Len(label) : StoppedAt(m)

FoundInv ==
  /\ pc \in {"idle", "run", "done"} => at = 1
  /\ ~damaged => OnWay /\ Stopped
  /\ PoolNameFound

\* The pairs end where they did.
LEMMA SameEnds ==
  ASSUME label' = label
  PROVE  Ends' = Ends
<1> DEFINE EndsOf(l) ==
      CHOOSE f : f = [k \in 0..Len(l) |->
        IF k = 0 THEN ListStart ELSE f[k - 1] + EncodedBytes(l[k])]
<1>1. Ends = EndsOf(label)
  BY DEF Ends
<1>2. Ends' = EndsOf(label')
  BY DEF Ends, EncodedBytes, DataBytes
<1> HIDE DEF EndsOf
<1> QED
  BY <1>1, <1>2

\* The parser goes on.
LEMMA GoesOn ==
  ASSUME pc' \in {"pair"} \cup Reading, ~damaged' => OnWay'
  PROVE  FoundInv'
<1>1. pc' \notin {"idle", "run", "done", "pool"}
  BY DEF Reading
<1>2. Stopped' /\ PoolNameFound'
  BY <1>1 DEF Stopped, PoolNameFound
<1> QED
  BY <1>1, <1>2 DEF FoundInv

\* The pair at hand tells a name, or does not.
LEMMA OneMore ==
  ASSUME NEW l, NEW m \in Nat, NEW f, NEW g, NamedBy(l, m, f),
         g = IF Tells(l, m + 1) THEN NameOf(l, m + 1) ELSE f
  PROVE  NamedBy(l, m + 1, g)
<1>0. m + 1 \in 1..(m + 1) /\ \A k \in 1..(m + 1) : (k <= m + 1) /\ (k = m + 1 \/ k \in 1..m)
  OBVIOUS
<1>1. CASE Tells(l, m + 1)
  <2>1. g = NameOf(l, m + 1)
    BY <1>1
  <2> QED
    BY <1>0, <1>1, <2>1, Zenon DEF NamedBy
<1>2. CASE ~Tells(l, m + 1)
  <2>0. g = f /\ 1..m \subseteq 1..(m + 1)
    BY <1>2
  <2>1. CASE f = <<>> /\ \A k \in 1..m : ~Tells(l, k)
    <3>1. \A k \in 1..(m + 1) : ~Tells(l, k)
      BY <1>0, <1>2, <2>1, Zenon
    <3> QED
      BY <2>0, <2>1, <3>1, Zenon DEF NamedBy
  <2>2. ASSUME NEW k \in 1..m, Tells(l, k), f = NameOf(l, k),
               \A j \in 1..m : Tells(l, j) => j <= k
        PROVE  NamedBy(l, m + 1, g)
    <3>1. \A j \in 1..(m + 1) : Tells(l, j) => j <= k
      BY <1>0, <1>2, <2>2, Zenon
    <3>2. k \in 1..(m + 1)
      BY <2>0, <2>2, Zenon
    <3> QED
      BY <2>0, <2>2, <3>1, <3>2, Zenon DEF NamedBy
  <2> QED
    BY <2>1, <2>2, Zenon DEF NamedBy
<1> QED
  BY <1>1, <1>2

\* Behind a pair of an intact label is the next one, whatever this one was.
LEMMA NextPairNames ==
  ASSUME ReadInv, ConfirmInv, FoundInv, pc \in Reading, ~damaged, ~damaged', NextPair, label' = label,
         found' = IF Tells(label, at) THEN NameOf(label, at) ELSE found
  PROVE  OnWay'
<1>0. /\ Base /\ at \in Nat \ {0} /\ at <= Len(label) /\ off = Ends[at - 1] /\ at - 1 \in 0..Len(label)
      /\ NamedBy(label, at - 1, found) /\ pairLen = EncodedBytes(label[at]) - 8
  BY DEF ReadInv, Base, ConfirmInv, Track, FoundInv, OnWay, Now
<1>1. label \in Labels /\ Len(label) \in Nat
  BY <1>0, EndsAre DEF Base
<1>2. at \in 1..Len(label)
  BY <1>0, <1>1
<1>3. Ends[at] = Ends[at - 1] + EncodedBytes(label[at]) /\ Ends[at - 1] \in Nat
  BY <1>0, <1>1, <1>2, EndsAre
<1>4. EncodedBytes(label[at]) \in Nat
  BY <1>1, <1>2, PairOf
<1>5. off' = off + 8 + pairLen /\ at' = at + 1 /\ pc' = "pair"
  BY <1>0 DEF NextPair, Intact
<1>6. off' = Ends[at]
  <2>1. \A e, c \in Nat : e + 8 + (c - 8) = e + c
    OBVIOUS
  <2> QED
    BY <1>0, <1>3, <1>4, <1>5, <2>1
<1>7. at' - 1 = at /\ at' - 1 \in 0..Len(label')
  BY <1>1, <1>2, <1>5
<1>8. NamedBy(label, at, found')
  <2>1. at - 1 \in Nat /\ (at - 1) + 1 = at
    BY <1>0
  <2>2. found' = IF Tells(label, (at - 1) + 1) THEN NameOf(label, (at - 1) + 1) ELSE found
    BY <2>1
  <2>3. NamedBy(label, (at - 1) + 1, found')
    BY <1>0, <2>1, <2>2, OneMore
  <2> QED
    BY <2>1, <2>3
<1>9. NamedBy(label', at' - 1, found')
  BY <1>7, <1>8
<1>10. off' = Ends'[at' - 1]
  BY <1>6, <1>7, SameEnds
<1> QED
  BY <1>5, <1>7, <1>9, <1>10 DEF OnWay, Reading

\* Of an intact label as many pairs are told of as end within what was read.
LEMMA StopsThere ==
  ASSUME Base, NEW m \in 0..Len(label), Ends[m] <= n, m < Len(label) => Ends[m + 1] > n
  PROVE  \A k \in 1..Len(label) : (Ends[k] <= n) <=> (k <= m)
<1>0. /\ label \in Labels /\ Len(label) \in Nat /\ n \in Nat
      /\ \A k \in 0..Len(label) : Ends[k] \in Nat
  BY EndsAre DEF Base
<1>1. ASSUME NEW k \in 1..Len(label), k <= m PROVE Ends[k] <= n
  <2>1. k \in 0..Len(label) /\ m # 0
    BY <1>0, <1>1
  <2>2. Ends[k] <= Ends[m]
    BY <1>0, <1>1, <2>1, EndsGrow
  <2>3. Ends[k] \in Nat /\ Ends[m] \in Nat /\ Ends[m] <= n
    BY <1>0, <2>1
  <2> QED
    BY <1>0, <2>2, <2>3
<1>2. ASSUME NEW k \in 1..Len(label), ~(k <= m) PROVE ~(Ends[k] <= n)
  <2>1. k \in 0..Len(label) /\ m + 1 \in 0..Len(label) /\ m + 1 <= k /\ m < Len(label)
    BY <1>0, <1>2
  <2>2. Ends[m + 1] <= Ends[k]
    BY <1>0, <2>1, EndsGrow
  <2>3. Ends[k] \in Nat /\ Ends[m + 1] \in Nat /\ Ends[m + 1] > n
    BY <1>0, <2>1
  <2> QED
    BY <1>0, <2>2, <2>3
<1> QED
  BY <1>1, <1>2

\* ReadAt: with less than two headers there is no pair.
LEMMA ReadLabelFinds ==
  ASSUME ReadInv, FoundInv, ReadLabel
  PROVE  FoundInv'
<1>0. /\ Base /\ label \in Labels /\ n' \in Nat /\ pc = "idle" /\ at = 1 /\ found = <<>>
      /\ UNCHANGED <<label, found, at, damaged>>
  BY LabelAssumption DEF ReadInv, Base, FoundInv, ReadLabel
<1>1. Ends' = Ends /\ Ends[0] = Header /\ Len(label) \in Nat /\ \A k \in 0..Len(label) : Ends[k] \in Nat
  BY <1>0, EndsAre, SameEnds
<1>2. NamedBy(label, 0, <<>>)
  BY DEF NamedBy
<1>3. CASE pc' = "pair" /\ off' = Header
  <2>1. at' - 1 = 0 /\ 0 \in 0..Len(label')
    BY <1>0, <1>1
  <2>2. OnWay'
    BY <1>0, <1>1, <1>2, <1>3, <2>1 DEF OnWay, Reading
  <2> QED
    BY <1>3, <2>2, GoesOn
<1>4. CASE pc' = "pool" /\ n' < Header
  <2>1. ASSUME NEW k \in 1..Len(label) PROVE ~(Ends[k] <= n') /\ ~(k <= 0)
    <3>1. k \in 0..Len(label) /\ 0 \in 0..Len(label) /\ 0 <= k
      BY <1>1
    <3>2. Ends[0] <= Ends[k]
      BY <1>0, <3>1, EndsGrow
    <3>3. Ends[k] \in Nat /\ Header \in Nat
      BY <1>1, <3>1 DEF Header
    <3> QED
      BY <1>0, <1>1, <1>4, <3>2, <3>3
  <2>2. StoppedAt(0)'
    BY <1>0, <1>1, <1>2, <2>1 DEF StoppedAt
  <2>3. 0 \in 0..Len(label')
    BY <1>0, <1>1
  <2>4. Stopped' /\ OnWay' /\ PoolNameFound'
    BY <1>4, <2>2, <2>3 DEF Stopped, OnWay, Reading, PoolNameFound
  <2> QED
    BY <1>4, <2>4 DEF FoundInv
<1>5. CASE pc' = "done"
  BY <1>0, <1>5 DEF FoundInv, OnWay, Reading, Stopped, PoolNameFound
<1> QED
  BY <1>3, <1>4, <1>5 DEF ReadLabel

\* The header: the pair is gone through if it was read in full.
LEMMA HeaderFinds ==
  ASSUME ReadInv, FoundInv, PairHeader
  PROVE  FoundInv'
<1>0. /\ Base /\ label \in Labels /\ pc = "pair" /\ n \in Nat /\ off <= n /\ at \in Nat \ {0}
      /\ UNCHANGED <<label, n, off, found, at>>
  BY DEF ReadInv, Base, Frontier, PairHeader
<1>1. /\ Ends' = Ends /\ Ends[0] = Header /\ Len(label) \in Nat
      /\ \A k \in 0..Len(label) : Ends[k] \in Nat
      /\ \A k \in 1..Len(label) : Ends[k] = Ends[k - 1] + EncodedBytes(label[k])
  BY <1>0, EndsAre, SameEnds
<1>2. ~damaged => at - 1 \in 0..Len(label) /\ off = Ends[at - 1] /\ NamedBy(label, at - 1, found)
  BY <1>0 DEF FoundInv, OnWay
<1>3. ASSUME ~damaged, at <= Len(label)
      PROVE  /\ EncodedBytes(label[at]) \in Nat /\ EncodedBytes(label[at]) >= 20
             /\ Ends[at] = off + EncodedBytes(label[at])
  <2>1. at \in 1..Len(label)
    BY <1>0, <1>1, <1>3
  <2>2. /\ EncodedBytes(label[at]) = 20 + RoundUp(label[at].nameLen) + DataBytes(label[at])
        /\ RoundUp(label[at].nameLen) \in Nat /\ DataBytes(label[at]) \in Nat
    BY <1>0, <2>1, PairOf
  <2>3. \A x, y \in Nat : 20 + x + y \in Nat /\ 20 + x + y >= 20
    OBVIOUS
  <2> QED
    BY <1>1, <1>2, <1>3, <2>1, <2>2, <2>3
<1>4. ASSUME pc' = "pool", ~damaged' => ~damaged /\ (at <= Len(label) => Ends[at] > n)
      PROVE  FoundInv'
  <2>1. ASSUME ~damaged' PROVE Stopped'
    <3>1. /\ at - 1 \in 0..Len(label) /\ Ends[at - 1] <= n /\ (at - 1) + 1 = at
          /\ (at - 1 < Len(label) => at <= Len(label))
      BY <1>0, <1>1, <1>2, <1>4, <2>1
    <3>2. \A k \in 1..Len(label) : (Ends[k] <= n) <=> (k <= at - 1)
      BY <1>0, <1>4, <2>1, <3>1, StopsThere
    <3>3. StoppedAt(at - 1)
      BY <1>2, <1>4, <2>1, <3>2 DEF StoppedAt
    <3>4. StoppedAt(at - 1)'
      BY <1>0, <1>1, <3>3 DEF StoppedAt
    <3> QED
      BY <1>0, <3>1, <3>4 DEF Stopped
  <2>2. OnWay' /\ PoolNameFound'
    BY <1>4 DEF OnWay, Reading, PoolNameFound
  <2> QED
    BY <1>4, <2>1, <2>2 DEF FoundInv
<1>5. CASE off + 8 > n /\ pc' = "pool" /\ UNCHANGED damaged
  <2>1. ASSUME ~damaged, at <= Len(label) PROVE Ends[at] > n
    <3>1. off \in Nat
      BY <1>1, <1>2, <2>1
    <3> QED
      BY <1>0, <1>3, <1>5, <2>1, <3>1
  <2> QED
    BY <1>4, <1>5, <2>1
<1>6. CASE \E encoded \in Field(~damaged, NowEncoded, Words) :
             /\ Notes(TRUE, encoded = NowEncoded)
             /\ pairLen' = IF encoded < 8 THEN 0 ELSE encoded - 8
             /\ pc' = IF encoded # 0 /\ PairFits(pairLen') THEN "name" ELSE "pool"
  <2>1. PICK encoded \in Field(~damaged, NowEncoded, Words) :
             /\ Notes(TRUE, encoded = NowEncoded)
             /\ pairLen' = IF encoded < 8 THEN 0 ELSE encoded - 8
             /\ pc' = IF encoded # 0 /\ PairFits(pairLen') THEN "name" ELSE "pool"
    BY <1>6, Zenon
  <2>2. ~damaged' => ~damaged /\ encoded = NowEncoded
    BY <2>1, Zenon DEF Notes
  <2>3. ASSUME ~damaged', at <= Len(label)
        PROVE  /\ encoded = EncodedBytes(label[at]) /\ encoded # 0 /\ ~(encoded < 8)
               /\ pairLen' = EncodedBytes(label[at]) - 8 /\ pairLen' > 0
               /\ (~PairFits(pairLen') => Ends[at] > n)
    <3>1. encoded = EncodedBytes(label[at])
      BY <2>2, <2>3 DEF NowEncoded, Now
    <3>2. encoded \in Nat /\ encoded >= 20 /\ Ends[at] = off + encoded /\ off \in Nat
      BY <1>1, <1>2, <1>3, <2>2, <2>3, <3>1
    <3>3. encoded # 0 /\ ~(encoded < 8)
      BY <3>2
    <3>4. pairLen' = encoded - 8
      BY <2>1, <3>3, Zenon
    <3>5. off + 8 + (encoded - 8) = off + encoded /\ encoded - 8 > 0
      BY <3>2
    <3>6. ~PairFits(pairLen') => off + encoded > n
      BY <1>0, <3>2, <3>4, <3>5 DEF PairFits
    <3> QED
      BY <3>1, <3>2, <3>3, <3>4, <3>5, <3>6
  <2>4. CASE pc' = "pool"
    <3>1. ASSUME ~damaged', at <= Len(label) PROVE Ends[at] > n
      <4>1. ~PairFits(pairLen')
        BY <2>1, <2>3, <2>4, <3>1
      <4> QED
        BY <2>3, <3>1, <4>1
    <3> QED
      BY <1>4, <2>2, <2>4, <3>1
  <2>5. CASE pc' = "name" /\ encoded # 0
    <3>1. ASSUME ~damaged' PROVE OnWay'
      <4>1. at <= Len(label) /\ ~damaged
        BY <2>2, <2>5, <3>1 DEF NowEncoded
      <4>2. pairLen' = EncodedBytes(label[at]) - 8
        BY <2>3, <3>1, <4>1
      <4>3. EncodedBytes(Now)' = EncodedBytes(label[at])
        BY <1>0 DEF Now, EncodedBytes, DataBytes
      <4> QED
        BY <1>0, <1>1, <1>2, <2>5, <4>1, <4>2, <4>3 DEF OnWay, Reading
    <3> QED
      BY <2>5, <3>1, GoesOn DEF Reading
  <2> QED
    BY <2>1, <2>4, <2>5, Zenon
<1> QED
  BY <1>5, <1>6, Zenon DEF PairHeader

\* The sizes of the pair at hand, of an intact label.
LEMMA PairInside ==
  ASSUME ReadInv, ConfirmInv, FoundInv, pc \in Reading, ~damaged
  PROVE  /\ Intact /\ at \in 1..Len(label) /\ Now = label[at] /\ Now.nameLen \in Nat
         /\ RoundUp(Now.nameLen) \in Nat /\ Now.nameLen <= RoundUp(Now.nameLen)
         /\ RoundUp(Now.dataLen) \in Nat /\ Now.dataLen <= RoundUp(Now.dataLen)
         /\ Now.dataLen \in Nat /\ DataBytes(Now) \in Nat
         /\ pairLen = 12 + RoundUp(Now.nameLen) + DataBytes(Now)
         /\ (Now.typ = Uint64 => Now.nelem >= 1 /\ Now.dataLen >= 8)
<1>1. label \in Labels /\ at \in Nat \ {0} /\ at <= Len(label) /\ pairLen = EncodedBytes(Now) - 8
  BY DEF ReadInv, Base, ConfirmInv, Track, FoundInv, OnWay
<1>2. at \in 1..Len(label)
  BY <1>1, EndsAre
<1>3. Now = label[at] /\ Intact
  BY <1>1 DEF Now, Intact
<1>4. \A x, y \in Nat : (20 + x + y) - 8 = 12 + x + y
  OBVIOUS
<1>5. /\ Now.nameLen \in Nat /\ RoundUp(Now.nameLen) \in Nat /\ Now.nameLen <= RoundUp(Now.nameLen)
      /\ RoundUp(Now.dataLen) \in Nat /\ Now.dataLen <= RoundUp(Now.dataLen)
      /\ Now.dataLen \in Nat /\ DataBytes(Now) \in Nat
      /\ EncodedBytes(Now) = 20 + RoundUp(Now.nameLen) + DataBytes(Now)
      /\ (Now.typ = Uint64 => Now.nelem >= 1 /\ Now.dataLen >= 8)
  BY <1>1, <1>2, <1>3, PairOf
<1>6. pairLen = 12 + RoundUp(Now.nameLen) + DataBytes(Now)
  BY <1>1, <1>4, <1>5
<1> QED
  BY <1>2, <1>3, <1>5, <1>6

\* Within a pair nothing changes but how far the parser is, and what it read.
LEMMA WithinPairFinds ==
  ASSUME FoundInv, pc \in Reading, pc' \in {"type", "value"}, ~damaged' => ~damaged,
         UNCHANGED <<label, n, off, pairLen, found, at>>,
         ~damaged' /\ pc' = "value" => typ' = Now.typ /\ nelem' = Now.nelem
  PROVE  FoundInv'
<1>1. Ends' = Ends /\ Now' = Now /\ EncodedBytes(Now)' = EncodedBytes(Now)
  BY SameEnds DEF Now, EncodedBytes, DataBytes
<1>2. ASSUME ~damaged' PROVE OnWay'
  <2>1. OnWay
    BY <1>2 DEF FoundInv
  <2> QED
    BY <1>1, <1>2, <2>1 DEF OnWay, Reading
<1> QED
  BY <1>2, GoesOn DEF Reading

\* The key fits the pair.
LEMMA PairNameFinds ==
  ASSUME ReadInv, ConfirmInv, FoundInv, PairName
  PROVE  FoundInv'
<1>0. pc = "name" /\ pc \in Reading /\ UNCHANGED <<label, n, pairLen>>
  BY DEF PairName, Reading
<1>1. CASE pairLen < 4 /\ GiveUp /\ UNCHANGED damaged
  <2>1. ASSUME ~damaged PROVE FALSE
    <3>1. pairLen = 12 + RoundUp(Now.nameLen) + DataBytes(Now)
          /\ RoundUp(Now.nameLen) \in Nat /\ DataBytes(Now) \in Nat
      BY <1>0, <2>1, PairInside
    <3> QED
      BY <1>1, <3>1
  <2>2. pc' = "pair"
    BY <1>1 DEF GiveUp, NextPair
  <2> QED
    BY <1>1, <2>1, <2>2, GoesOn
<1>2. CASE \E nameLen \in Field(Intact, IF Intact THEN Now.nameLen ELSE 0, Words) :
             /\ Notes(Intact, Intact => nameLen = Now.nameLen)
             /\ \/ /\ 4 + nameLen > pairLen
                   /\ Reads({<<0, 4>>}) /\ GiveUp
                \/ /\ 4 + nameLen <= pairLen
                   /\ Reads({<<0, 4>>, <<4, 4 + nameLen>>})
                   /\ pos' = 4 + nameLen + Pad(nameLen)
                   /\ pc' = "type"
                   /\ UNCHANGED <<off, at, typ, nelem, found>>
  <2>1. PICK nameLen \in Field(Intact, IF Intact THEN Now.nameLen ELSE 0, Words) :
             /\ Notes(Intact, Intact => nameLen = Now.nameLen)
             /\ \/ 4 + nameLen > pairLen /\ GiveUp
                \/ pc' = "type" /\ UNCHANGED <<off, at, typ, nelem, found>>
    BY <1>2, Zenon
  <2>2. ~damaged' => ~damaged /\ (Intact => nameLen = Now.nameLen)
    BY <2>1, Zenon DEF Notes
  <2>3. CASE 4 + nameLen > pairLen /\ GiveUp
    <3>1. ASSUME ~damaged' PROVE FALSE
      <4>1. /\ pairLen = 12 + RoundUp(Now.nameLen) + DataBytes(Now)
            /\ RoundUp(Now.nameLen) \in Nat /\ DataBytes(Now) \in Nat
            /\ Now.nameLen \in Nat /\ Now.nameLen <= RoundUp(Now.nameLen) /\ nameLen = Now.nameLen
        BY <1>0, <2>2, <3>1, PairInside
      <4> QED
        BY <2>3, <4>1
    <3>2. pc' = "pair"
      BY <2>3 DEF GiveUp, NextPair
    <3> QED
      BY <3>1, <3>2, GoesOn
  <2>4. CASE pc' = "type" /\ UNCHANGED <<off, at, typ, nelem, found>>
    <3>1. pc' \in {"type", "value"} /\ pc' # "value" /\ UNCHANGED <<label, n, off, pairLen, found, at>>
      BY <1>0, <2>4
    <3> QED
      BY <1>0, <2>2, <3>1, WithinPairFinds
  <2> QED
    BY <2>1, <2>3, <2>4, Zenon
<1> QED
  BY <1>1, <1>2, Zenon DEF PairName

\* So do the type and the number of elements.
LEMMA PairTypeFinds ==
  ASSUME ReadInv, ConfirmInv, FoundInv, PairType
  PROVE  FoundInv'
<1>0. pc = "type" /\ pc \in Reading /\ UNCHANGED <<label, n, pairLen>>
  BY DEF PairType, Reading
<1>1. ASSUME ~damaged
      PROVE  /\ AtType /\ pos = 4 + RoundUp(Now.nameLen) /\ RoundUp(Now.nameLen) \in Nat
             /\ pairLen = 12 + RoundUp(Now.nameLen) + DataBytes(Now) /\ DataBytes(Now) \in Nat
  <2>1. pos = 4 + RoundUp(Now.nameLen)
    BY <1>0, <1>1 DEF ConfirmInv, Track
  <2> QED
    BY <1>0, <1>1, <2>1, PairInside DEF AtType
<1>2. CASE pos + 8 > pairLen /\ GiveUp /\ UNCHANGED damaged
  <2>1. ASSUME ~damaged PROVE FALSE
    BY <1>1, <1>2, <2>1
  <2>2. pc' = "pair"
    BY <1>2 DEF GiveUp, NextPair
  <2> QED
    BY <1>2, <2>1, <2>2, GoesOn
<1>3. CASE /\ Notes(AtType, AtType => typ' = Now.typ /\ nelem' = Now.nelem)
           /\ pc' = "value"
           /\ UNCHANGED <<off, at, found>>
  <2>1. ~damaged' => ~damaged /\ (AtType => typ' = Now.typ /\ nelem' = Now.nelem)
    BY <1>3, Zenon DEF Notes
  <2>2. ~damaged' => typ' = Now.typ /\ nelem' = Now.nelem
    BY <1>1, <2>1
  <2>3. pc' \in {"type", "value"} /\ UNCHANGED <<label, n, off, pairLen, found, at>>
    BY <1>0, <1>3
  <2> QED
    BY <1>0, <2>1, <2>2, <2>3, WithinPairFinds
<1> QED
  BY <1>2, <1>3, Zenon DEF PairType

\* What res["name"] becomes at a pair that is intact.
LEMMA AssignedIsTold ==
  ASSUME ReadInv, ConfirmInv, FoundInv, pc \in Reading, ~damaged,
         NEW intact, intact, found' \in Assigned(intact), Now.typ \in {String, Uint64}
  PROVE  found' = IF Tells(label, at) THEN NameOf(label, at) ELSE found
<1>1. Now = label[at]
  BY PairInside
<1>2. found' = IF ~Now.named THEN found ELSE IF Now.val = EmptyName THEN <<>> ELSE <<Now.val>>
  BY DEF Assigned
<1>3. CASE Now.named
  BY <1>1, <1>2, <1>3 DEF Tells, NameOf
<1>4. CASE ~Now.named
  BY <1>1, <1>2, <1>4 DEF Tells
<1> QED
  BY <1>3, <1>4

\* The value of an intact pair is read, and one of another type passed over.
LEMMA PairValueFinds ==
  ASSUME ReadInv, ConfirmInv, FoundInv, PairString \/ PairUint64 \/ PairOther
  PROVE  FoundInv'
<1>0. pc = "value" /\ pc \in Reading /\ UNCHANGED <<label, n>>
  BY DEF PairString, PairUint64, PairOther, Reading
<1>1. ASSUME ~damaged
      PROVE  /\ AtData /\ pos = 12 + RoundUp(Now.nameLen) /\ RoundUp(Now.nameLen) \in Nat
             /\ pairLen = 12 + RoundUp(Now.nameLen) + DataBytes(Now) /\ DataBytes(Now) \in Nat
             /\ typ = Now.typ /\ nelem = Now.nelem /\ Now = label[at]
             /\ Now.dataLen \in Nat /\ RoundUp(Now.dataLen) \in Nat
             /\ Now.dataLen <= RoundUp(Now.dataLen)
             /\ (Now.typ = Uint64 => Now.nelem >= 1 /\ Now.dataLen >= 8)
  <2>1. pos = 12 + RoundUp(Now.nameLen)
    BY <1>0, <1>1 DEF ConfirmInv, Track
  <2>2. typ = Now.typ /\ nelem = Now.nelem
    BY <1>0, <1>1 DEF FoundInv, OnWay
  <2> QED
    BY <1>0, <1>1, <2>1, <2>2, PairInside DEF AtData
<1>2. ASSUME NextPair, ~damaged' => ~damaged,
             ~damaged' => found' = IF Tells(label, at) THEN NameOf(label, at) ELSE found
      PROVE  FoundInv'
  <2>1. pc' = "pair"
    BY <1>2 DEF NextPair
  <2>2. ~damaged' => OnWay'
    BY <1>0, <1>2, NextPairNames
  <2> QED
    BY <2>1, <2>2, GoesOn
<1>3. ASSUME GiveUp, ~damaged' => FALSE PROVE FoundInv'
  <2>1. pc' = "pair"
    BY <1>3 DEF GiveUp, NextPair
  <2> QED
    BY <1>3, <2>1, GoesOn
<1>4. CASE PairString
  <2>0. typ = String
    BY <1>4 DEF PairString
  <2>1. ASSUME ~damaged
        PROVE  pos + 4 <= pairLen /\ pos + 4 + Now.dataLen <= pairLen
    <3>1. DataBytes(Now) = 4 + RoundUp(Now.dataLen)
      BY <1>1, <2>0, <2>1 DEF DataBytes
    <3> QED
      BY <1>1, <2>1, <3>1
  <2>2. CASE pos + 4 > pairLen /\ GiveUp /\ UNCHANGED damaged
    <3>1. ASSUME ~damaged PROVE FALSE
      BY <1>1, <2>1, <2>2, <3>1
    <3> QED
      BY <1>3, <2>2, <3>1
  <2>3. CASE \E strLen \in Field(AtData, IF AtData THEN Now.dataLen ELSE 0, Words) :
                LET same == AtData /\ strLen = Now.dataLen
                IN /\ Notes(AtData, same)
                   /\ \/ /\ pos + 4 + strLen > pairLen
                         /\ Reads({<<pos, pos + 4>>}) /\ GiveUp
                      \/ /\ pos + 4 + strLen <= pairLen
                         /\ Reads({<<pos, pos + 4>>, <<pos + 4, pos + 4 + strLen>>})
                         /\ found' \in Assigned(same)
                         /\ NextPair
    <3>1. PICK strLen \in Field(AtData, IF AtData THEN Now.dataLen ELSE 0, Words) :
             /\ Notes(AtData, AtData /\ strLen = Now.dataLen)
             /\ \/ pos + 4 + strLen > pairLen /\ GiveUp
                \/ found' \in Assigned(AtData /\ strLen = Now.dataLen) /\ NextPair
      BY <2>3, Zenon
    <3>2. ~damaged' => ~damaged /\ (AtData => strLen = Now.dataLen)
      BY <3>1, Zenon DEF Notes
    <3>3. CASE pos + 4 + strLen > pairLen /\ GiveUp
      <4>1. ASSUME ~damaged' PROVE FALSE
        <5>1. strLen = Now.dataLen /\ ~damaged
          BY <1>1, <3>2, <4>1
        <5> QED
          BY <1>1, <2>1, <3>3, <5>1
      <4> QED
        BY <1>3, <3>3, <4>1
    <3>4. CASE found' \in Assigned(AtData /\ strLen = Now.dataLen) /\ NextPair
      <4> DEFINE same == AtData /\ strLen = Now.dataLen
      <4>1. ASSUME ~damaged'
            PROVE  found' = IF Tells(label, at) THEN NameOf(label, at) ELSE found
        <5>1. ~damaged /\ same /\ Now.typ \in {String, Uint64}
          BY <1>1, <2>0, <3>2, <4>1
        <5>2. found' \in Assigned(same)
          BY <3>4, Zenon
        <5> HIDE DEF same
        <5> QED
          BY <1>0, <5>1, <5>2, AssignedIsTold, Zenon
      <4>2. NextPair
        BY <3>4, Zenon
      <4> QED
        BY <1>2, <3>2, <4>1, <4>2
    <3> QED
      BY <3>1, <3>3, <3>4, Zenon
  <2> QED
    BY <1>4, <2>2, <2>3, Zenon DEF PairString
<1>5. CASE PairUint64
  <2>0. typ = Uint64 /\ damaged' = damaged
    BY <1>5 DEF PairUint64
  <2>1. ASSUME ~damaged PROVE nelem >= 1 /\ pos + 8 <= pairLen /\ Now.typ \in {String, Uint64}
    <3>1. DataBytes(Now) = Now.dataLen /\ Now.typ = Uint64
      BY <1>1, <2>0, <2>1 DEF DataBytes, String, Uint64
    <3>2. Now.dataLen >= 8 /\ nelem >= 1
      BY <1>1, <2>1, <3>1
    <3>3. \A p, d \in Nat : d >= 8 => (12 + p) + 8 <= 12 + p + d
      OBVIOUS
    <3> QED
      BY <1>1, <2>1, <3>1, <3>2, <3>3
  <2>2. CASE found' \in Assigned(AtData) /\ NextPair
    <3>1. ASSUME ~damaged'
          PROVE  found' = IF Tells(label, at) THEN NameOf(label, at) ELSE found
      <4>1. ~damaged /\ AtData /\ Now.typ \in {String, Uint64} /\ found' \in Assigned(AtData)
        BY <1>1, <2>0, <2>1, <2>2, <3>1, Zenon
      <4> QED
        BY <1>0, <4>1, AssignedIsTold, Zenon
    <3> QED
      BY <1>2, <2>0, <2>2, <3>1
  <2>3. CASE ~(nelem >= 1 /\ pos + 8 <= pairLen) /\ GiveUp
    BY <1>3, <2>0, <2>1, <2>3
  <2> QED
    BY <1>5, <2>2, <2>3, Zenon DEF PairUint64
<1>6. CASE PairOther
  <2>1. NextPair /\ found' = found /\ damaged' = damaged /\ typ \notin {String, Uint64}
    BY <1>6 DEF PairOther, GiveUp
  <2>2. ~damaged => ~Tells(label, at)
    BY <1>1, <2>1 DEF Tells
  <2> QED
    BY <1>2, <2>1, <2>2
<1> QED
  BY <1>4, <1>5, <1>6

\* The name of the pairs that were read is the one in the label.
LEMMA NamedIsInLabel ==
  ASSUME Base, NEW m \in 0..Len(label), StoppedAt(m)
  PROVE  poolName = IF NameInLabel = EmptyName THEN <<base>> ELSE <<NameInLabel>>
<1>0. label \in Labels /\ Len(label) \in Nat
  BY EndsAre DEF Base
<1>1. NamePairs = {k \in 1..m : Tells(label, k)}
  <2>1. \A k \in 1..Len(label) : (Ends[k] <= n) <=> (k <= m)
    BY DEF StoppedAt
  <2>2. \A k : k \in 1..m <=> (k \in 1..Len(label) /\ k <= m)
    BY <1>0
  <2> QED
    BY <2>1, <2>2 DEF NamePairs, Tells
<1>2. CASE found = <<>> /\ \A k \in 1..m : ~Tells(label, k)
  <2>1. NamePairs = {}
    BY <1>1, <1>2
  <2>2. NameInLabel = EmptyName
    BY <2>1 DEF NameInLabel
  <2> QED
    BY <1>2, <2>2 DEF poolName
<1>3. ASSUME NEW k \in 1..m, Tells(label, k), found = NameOf(label, k),
             \A j \in 1..m : Tells(label, j) => j <= k
      PROVE  poolName = IF NameInLabel = EmptyName THEN <<base>> ELSE <<NameInLabel>>
  <2>1. k \in NamePairs /\ (\A l \in NamePairs : l <= k) /\ NamePairs \subseteq Nat
    BY <1>1, <1>3
  <2>2. \A c \in NamePairs : (\A l \in NamePairs : l <= c) => c = k
    <3>1. \A a, b \in Nat : a <= b /\ b <= a => a = b
      OBVIOUS
    <3> QED
      BY <2>1, <3>1
  <2>3. (CHOOSE c \in NamePairs : \A l \in NamePairs : l <= c) = k
    BY <2>1, <2>2
  <2>4. NameInLabel = label[k].val
    BY <2>1, <2>3 DEF NameInLabel
  <2>5. CASE label[k].val = EmptyName
    BY <1>3, <2>4, <2>5 DEF poolName, NameOf
  <2>6. CASE label[k].val # EmptyName
    BY <1>3, <2>4, <2>6 DEF poolName, NameOf
  <2> QED
    BY <2>5, <2>6
<1> QED
  BY <1>2, <1>3, Zenon DEF StoppedAt, NamedBy

\* The lookup ends, and the command runs and returns.
LEMMA CommandFinds ==
  ASSUME ReadInv, FoundInv, PoolName \/ Commands \/ Return
  PROVE  FoundInv'
<1>0. Base
  BY DEF ReadInv
<1>1. CASE PoolName
  <2>1. pc = "pool" /\ pc' = "run" /\ pool' = poolName /\ at' = 1 /\ UNCHANGED <<label, base, n, damaged>>
    BY <1>1 DEF PoolName
  <2>2. ASSUME ~damaged
        PROVE  poolName = IF NameInLabel = EmptyName THEN <<base>> ELSE <<NameInLabel>>
    <3>1. PICK m \in 0..Len(label) : StoppedAt(m)
      BY <2>1, <2>2 DEF FoundInv, Stopped
    <3> QED
      BY <1>0, <3>1, NamedIsInLabel
  <2>3. Ends' = Ends
    BY <2>1, SameEnds
  <2>4. NameInLabel' = NameInLabel
    BY <2>1, <2>3 DEF NameInLabel, NamePairs
  <2>5. PoolNameFound'
    BY <2>1, <2>2, <2>4 DEF PoolNameFound
  <2>6. OnWay' /\ Stopped'
    BY <2>1 DEF OnWay, Stopped, Reading
  <2> QED
    BY <2>1, <2>5, <2>6 DEF FoundInv
<1>2. CASE Commands
  <2>1. pc = "run" /\ pc' = "done" /\ at' = at
    BY <1>2 DEF Commands, ZpoolStatusFromImage, ZfsListFromImage, ZfsGetQuotaFromImage,
               ZfsSetQuotaFromImage, ZfsCreateFromImage, Answer
  <2> QED
    BY <2>1 DEF FoundInv, OnWay, Stopped, Reading, PoolNameFound
<1>3. CASE Return
  <2>1. pc = "done" /\ pc' = "idle" /\ at' = at
    BY <1>3 DEF Return
  <2> QED
    BY <2>1 DEF FoundInv, OnWay, Stopped, Reading, PoolNameFound
<1> QED
  BY <1>1, <1>2, <1>3

\* From an intact label, of which any part was read, the commands get the pool's name
\* if it was in that part, and the file's name if not.
THEOREM NameFound == Spec => []PoolNameFound
<1>1. Init => FoundInv
  BY DEF Init, FoundInv, OnWay, Stopped, Reading, PoolNameFound
<1>2. ReadInv /\ ConfirmInv /\ FoundInv /\ [Next]_vars => FoundInv'
  <2> SUFFICES ASSUME ReadInv, ConfirmInv, FoundInv, [Next]_vars PROVE FoundInv'
    OBVIOUS
  <2>1. CASE UNCHANGED vars
    <3>1. label' = label /\ UNCHANGED <<base, pc, n, off, pairLen, typ, nelem, found, pool, at, damaged>>
      BY <2>1 DEF vars
    <3>2. Ends' = Ends /\ Now' = Now
      BY <3>1, SameEnds DEF Now
    <3>3. OnWay' = OnWay
      BY <3>1, <3>2 DEF OnWay, EncodedBytes, DataBytes
    <3>4. Stopped' = Stopped
      BY <3>1, <3>2 DEF Stopped, StoppedAt
    <3>5. PoolNameFound' = PoolNameFound
      BY <3>1, <3>2 DEF PoolNameFound, NameInLabel, NamePairs
    <3> QED
      BY <3>1, <3>3, <3>4, <3>5 DEF FoundInv
  <2> QED
    BY <2>1, ReadLabelFinds, HeaderFinds, PairNameFinds, PairTypeFinds, PairValueFinds, CommandFinds
       DEF Next, Work, Commands
<1>3. FoundInv => PoolNameFound
  BY DEF FoundInv
<1> QED
  BY <1>1, <1>2, <1>3, ReadInvariant, ConfirmInvariant, PTL DEF Spec
==============================================================================
