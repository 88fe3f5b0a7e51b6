------------------------ MODULE PartitionTable_proofs ------------------------
(***************************************************************************)
(* For images of every size and for every geometry that LayoutAssumption    *)
(* admits: the regions that createRaw writes fit the image side by side, so *)
(* none harms another, the table covers the filesystem, and readers find    *)
(* what was written, at every moment of the creation.                       *)
(***************************************************************************)
EXTENDS PartitionTable, TLAPS

------------------------------------------------------------------------------
(* Sectors and bytes *)

\* A product of natural numbers.
LEMMA ProductIsNat ==
  ASSUME NEW a \in Nat, NEW b \in Nat
  PROVE  a * b \in Nat
OBVIOUS

\* Division by the sector size, and what is left.
LEMMA Quotient ==
  ASSUME NEW b \in Int, NEW s \in Nat \ {0}
  PROVE  /\ b \div s \in Int /\ b % s \in 0..(s - 1)
         /\ b = s * (b \div s) + (b % s)
<1>1. b \div s \in Int
  OBVIOUS
<1>2. b % s \in 0..(s - 1)
  OBVIOUS
<1>3. b = s * (b \div s) + (b % s)
  OBVIOUS
<1> QED
  BY <1>1, <1>2, <1>3

\* k whole sectors fit into b bytes only if b has k whole sectors.
LEMMA WholeSectors ==
  ASSUME NEW b \in Int, NEW s \in Nat \ {0}, NEW k \in Int, s * k <= b
  PROVE  k <= b \div s
<1> DEFINE q == b \div s
<1>1. q \in Int /\ b < s * q + s
  BY Quotient
<1> HIDE DEF q
<1>2. s * k < s * (q + 1)
  BY <1>1
<1>3. k < q + 1
  BY <1>1, <1>2
<1> QED
  BY <1>1, <1>3 DEF q

\* A multiple of the sector size is a whole number of sectors.
LEMMA MultipleOfSector ==
  ASSUME NEW s \in Nat \ {0}, NEW k \in Int
  PROVE  (k * s) \div s = k
<1> DEFINE b == k * s
<1>1. b \in Int /\ b = s * k
  OBVIOUS
<1> HIDE DEF b
<1> DEFINE q == b \div s
<1>2. q \in Int /\ b >= s * q
  BY <1>1, Quotient
<1>3. k <= q
  BY <1>1, WholeSectors
<1> HIDE DEF q
<1>4. q <= k
  BY <1>1, <1>2
<1>5. q = k
  BY <1>2, <1>3, <1>4
<1> QED
  BY <1>5 DEF q, b

\* Rounding down to a multiple of a multiple of the sector size.
LEMMA AlignedDown ==
  ASSUME NEW b \in Int, NEW f \in Nat \ {0}
  PROVE  alignDown(b, f) \in Int /\ alignDown(b, f) <= b
BY Quotient DEF alignDown

------------------------------------------------------------------------------
(* The layout *)

\* What CheckSize lets through.
Sized ==
  /\ scheme # "none" => partSize > 0
  /\ scheme = "mbr" => mbrSectors >= AlignedStart + 1

\* The filesystem fits between the table and its backup.
LEMMA FsFits ==
  ASSUME size \in Nat, scheme \in Schemes, Sized
  PROVE  /\ totalSectors \in Nat
         /\ spliceWrite.what = "fs" /\ spliceWrite.n \in Nat
         /\ scheme = "none" => spliceWrite.lba = 0 /\ spliceWrite.n = totalSectors
         /\ scheme = "mbr" => spliceWrite.lba = AlignedStart /\ AlignedStart + spliceWrite.n <= totalSectors
         /\ scheme = "gpt" =>
              spliceWrite.lba = AlignedStart /\ AlignedStart + spliceWrite.n + EntrySectors + 1 <= totalSectors
<1> USE LayoutAssumption
<1> DEFINE n == partSize \div Sector
           off == AlignedStart * Sector
<1>1. totalSectors \in Nat
  <2>1. totalSectors \in Int /\ Sector * 0 <= size
    BY Quotient DEF totalSectors
  <2>2. 0 <= totalSectors
    BY <2>1, WholeSectors DEF totalSectors
  <2> QED
    BY <2>1, <2>2
<1>2. /\ spliceWrite.what = "fs" /\ spliceWrite.n = n
      /\ spliceWrite.lba = partOffset \div Sector
  BY DEF spliceWrite, Region
<1>3. off \in Nat /\ off \div Sector = AlignedStart
  BY ProductIsNat, MultipleOfSector
<1>4. CASE scheme = "none"
  <2>1. n = totalSectors
    BY <1>4 DEF partSize, totalSectors
  <2>2. partOffset = 0 * Sector
    BY <1>4 DEF partOffset
  <2>3. partOffset \div Sector = 0
    BY <2>2, MultipleOfSector
  <2> QED
    BY <1>1, <1>2, <1>4, <2>1, <2>3
<1>5. ASSUME NEW tail \in Nat, scheme # "none", partSize = alignDown(size - off - tail * Sector, FsAlign)
      PROVE  /\ n \in Nat /\ spliceWrite.lba = AlignedStart
             /\ AlignedStart + n + tail <= totalSectors
  <2>1. partOffset = off
    BY <1>5 DEF partOffset
  <2>2. tail * Sector \in Nat
    BY ProductIsNat
  <2>3. size - off - tail * Sector \in Int
    BY <1>3, <2>2
  <2>4. partSize \in Int /\ partSize <= size - off - tail * Sector /\ partSize > 0
    BY <1>5, <2>3, AlignedDown DEF Sized
  <2>5. n \in Int /\ Sector * n <= partSize
    BY <2>4, Quotient
  <2>6. Sector * 0 <= partSize
    BY <2>4
  <2>7. 0 <= n
    BY <2>4, <2>6, WholeSectors
  <2> HIDE DEF n
  <2>8. Sector * (AlignedStart + n + tail) = off + Sector * n + tail * Sector
    BY <2>5
  <2>9. Sector * (AlignedStart + n + tail) <= size
    <3>1. Sector * n \in Int /\ off \in Int /\ tail * Sector \in Int
      BY <1>3, <2>2, <2>5
    <3> HIDE DEF off
    <3> QED
      BY <2>4, <2>5, <2>8, <3>1
  <2>10. AlignedStart + n + tail <= totalSectors
    BY <2>5, <2>9, WholeSectors DEF totalSectors
  <2> QED
    BY <1>2, <1>3, <2>1, <2>5, <2>7, <2>10
<1>6. CASE scheme = "mbr"
  <2>1. partSize = alignDown(size - off, FsAlign)
    BY <1>6 DEF partSize, partOffset
  <2>2. size - off - 0 * Sector = size - off
    BY <1>3
  <2>3. partSize = alignDown(size - off - 0 * Sector, FsAlign)
    BY <2>1, <2>2
  <2>4. /\ n \in Nat /\ spliceWrite.lba = AlignedStart /\ AlignedStart + n + 0 <= totalSectors
    BY <1>5, <1>6, <2>3
  <2> QED
    BY <1>1, <1>2, <1>6, <2>4
<1>7. CASE scheme = "gpt"
  <2>1. EntrySectors + 1 \in Nat
    OBVIOUS
  <2>2. partSize = alignDown(size - off - (EntrySectors + 1) * Sector, FsAlign)
    BY <1>7 DEF partSize, partOffset
  <2>3. n \in Nat /\ spliceWrite.lba = AlignedStart /\ AlignedStart + n + (EntrySectors + 1) <= totalSectors
    BY <1>5, <1>7, <2>1, <2>2
  <2> QED
    BY <1>1, <1>2, <1>7, <2>3
<1> QED
  BY <1>4, <1>6, <1>7 DEF Schemes

\* A region of the table.
Is(r, what, lba, n) == r.what = what /\ r.lba = lba /\ r.n = n

\* The writes of the table, one by one.
LEMMA TableIs ==
  ASSUME scheme \in Schemes
  PROVE  /\ scheme = "none" => Len(tableWrites) = 0
         /\ scheme = "mbr" => Len(tableWrites) = 1 /\ Is(tableWrites[1], "mbr", 0, 1)
         /\ scheme = "gpt" =>
              /\ Len(tableWrites) = 5
              /\ Is(tableWrites[1], "pmbr", 0, 1)
              /\ Is(tableWrites[2], "header", 1, 1)
              /\ Is(tableWrites[3], "entries", 2, EntrySectors)
              /\ Is(tableWrites[4], "backup entries", backupEntriesLBA, EntrySectors)
              /\ Is(tableWrites[5], "backup header", backupHeaderLBA, 1)
<1>1. CASE scheme = "none"
  BY <1>1 DEF tableWrites
<1>2. CASE scheme = "mbr"
  BY <1>2 DEF tableWrites, writeMBR, Region, Is
<1>3. CASE scheme = "gpt"
  BY <1>3 DEF tableWrites, writeGPT, Region, Is
<1> QED
  BY <1>1, <1>2, <1>3 DEF Schemes

\* The filesystem comes last.
LEMMA WritesAre ==
  ASSUME scheme \in Schemes
  PROVE  /\ Len(tableWrites) \in Nat
         /\ Len(writes) = Len(tableWrites) + (IF fs = "none" THEN 0 ELSE 1)
         /\ \A i \in 1..Len(tableWrites) : writes[i] = tableWrites[i]
         /\ fs # "none" => writes[Len(tableWrites) + 1] = spliceWrite
<1>0. \E S : tableWrites \in Seq(S)
  <2>1. \A a, b, c, d, e : <<a, b, c, d, e>> \in Seq({a, b, c, d, e})
    OBVIOUS
  <2>2. CASE scheme = "none"
    BY <2>2 DEF tableWrites
  <2>3. CASE scheme = "mbr"
    <3>1. \A a : <<a>> \in Seq({a})
      OBVIOUS
    <3> QED
      BY <2>3, <3>1 DEF tableWrites, writeMBR
  <2>4. CASE scheme = "gpt"
    BY <2>1, <2>4 DEF tableWrites, writeGPT
  <2> QED
    BY <2>2, <2>3, <2>4 DEF Schemes
<1> DEFINE t == tableWrites
<1>1. PICK S : t \in Seq(S)
  BY <1>0
<1>2. writes = t \o (IF fs = "none" THEN <<>> ELSE <<spliceWrite>>)
  BY DEF writes
<1> HIDE DEF t
<1>3. Len(t) \in Nat
  BY <1>1
<1>4. CASE fs = "none"
  <2>1. writes = t \o <<>>
    BY <1>2, <1>4
  <2>2. writes = t
    BY <1>1, <2>1
  <2> QED
    BY <1>3, <1>4, <2>2 DEF t
<1>5. CASE fs # "none"
  <2>1. writes = Append(t, spliceWrite)
    <3>1. writes = t \o <<spliceWrite>>
      BY <1>2, <1>5
    <3> QED
      BY <1>1, <3>1
  <2>2. /\ Len(writes) = Len(t) + 1 /\ writes[Len(t) + 1] = spliceWrite
        /\ \A i \in 1..Len(t) : writes[i] = t[i]
    BY <1>1, <2>1
  <2> QED
    BY <1>3, <1>5, <2>2 DEF t
<1> QED
  BY <1>4, <1>5

Whats == {"mbr", "pmbr", "header", "entries", "backup entries", "backup header", "fs"}

\* Region j is behind region i, or before it.
Apart(u, v) == u.lba + u.n <= v.lba \/ v.lba + v.n <= u.lba

\* No region is outside the image or on another one, and no two are alike.
LEMMA Geometry ==
  ASSUME size \in Nat, scheme \in Schemes, Sized
  PROVE  /\ totalSectors \in Nat
         /\ \A i \in 1..Len(writes) :
              /\ writes[i].what \in Whats
              /\ writes[i].lba \in Nat /\ writes[i].n \in Nat /\ writes[i].lba + writes[i].n <= totalSectors
              /\ writes[i].what = "fs" <=> i = Len(tableWrites) + 1
         /\ \A i, j \in 1..Len(writes) : i < j => Apart(writes[i], writes[j])
<1>0. EntrySectors \in Nat \ {0} /\ AlignedStart \in Nat /\ AlignedStart >= EntrySectors + 2
  BY LayoutAssumption
<1> DEFINE t == Len(tableWrites)
<1>1. /\ t \in Nat /\ Len(writes) = t + (IF fs = "none" THEN 0 ELSE 1)
      /\ \A i \in 1..t : writes[i] = tableWrites[i]
      /\ fs # "none" => writes[t + 1] = spliceWrite
  BY WritesAre
<1>2. /\ totalSectors \in Nat
      /\ spliceWrite.what = "fs" /\ spliceWrite.n \in Nat /\ spliceWrite.lba \in Nat
      /\ spliceWrite.lba + spliceWrite.n <= totalSectors
  BY <1>0, FsFits DEF Schemes
<1>4. /\ \A i \in 1..t :
           /\ tableWrites[i].what \in Whats \ {"fs"}
           /\ tableWrites[i].lba \in Nat /\ tableWrites[i].n \in Nat
           /\ tableWrites[i].lba + tableWrites[i].n <= totalSectors
           /\ Apart(tableWrites[i], spliceWrite)
      /\ \A i, j \in 1..t : i < j => Apart(tableWrites[i], tableWrites[j])
  <2>1. CASE scheme = "none"
    BY <1>1, <2>1, TableIs
  <2>2. CASE scheme = "mbr"
    <3>1. t = 1 /\ tableWrites[1].what = "mbr" /\ tableWrites[1].lba = 0 /\ tableWrites[1].n = 1
      BY <2>2, TableIs DEF Is
    <3>2. spliceWrite.lba = AlignedStart /\ AlignedStart >= 3 /\ AlignedStart + spliceWrite.n <= totalSectors
      BY <1>0, <2>2, FsFits
    <3>3. Apart(tableWrites[1], spliceWrite) /\ tableWrites[1].lba + tableWrites[1].n <= totalSectors
      BY <1>0, <1>2, <3>1, <3>2 DEF Apart
    <3>4. tableWrites[1].what \in Whats \ {"fs"}
      BY <3>1 DEF Whats
    <3>5. 1..t = {1}
      BY <3>1
    <3> QED
      BY <3>1, <3>3, <3>4, <3>5
  <2>3. CASE scheme = "gpt"
    <3>1. /\ t = 5
          /\ tableWrites[1].what = "pmbr" /\ tableWrites[1].lba = 0 /\ tableWrites[1].n = 1
          /\ tableWrites[2].what = "header" /\ tableWrites[2].lba = 1 /\ tableWrites[2].n = 1
          /\ tableWrites[3].what = "entries" /\ tableWrites[3].lba = 2 /\ tableWrites[3].n = EntrySectors
          /\ tableWrites[4].what = "backup entries" /\ tableWrites[4].lba = totalSectors - 1 - EntrySectors
          /\ tableWrites[4].n = EntrySectors
          /\ tableWrites[5].what = "backup header" /\ tableWrites[5].lba = totalSectors - 1 /\ tableWrites[5].n = 1
      BY <2>3, TableIs DEF Is, backupEntriesLBA, backupHeaderLBA
    <3>2. /\ spliceWrite.lba = AlignedStart /\ AlignedStart >= EntrySectors + 2
          /\ AlignedStart + spliceWrite.n + EntrySectors + 1 <= totalSectors
      BY <1>0, <2>3, FsFits
    <3>3. /\ totalSectors - 1 - EntrySectors \in Nat /\ totalSectors - 1 \in Nat /\ 2 + EntrySectors <= AlignedStart
          /\ 2 + EntrySectors <= totalSectors /\ AlignedStart <= totalSectors - 1 - EntrySectors
          /\ (totalSectors - 1 - EntrySectors) + EntrySectors = totalSectors - 1
          /\ AlignedStart + spliceWrite.n <= totalSectors - 1 - EntrySectors
          /\ AlignedStart + spliceWrite.n <= totalSectors - 1
      BY <1>0, <1>2, <3>2
    <3>4. /\ tableWrites[1].lba = 0 /\ tableWrites[1].n = 1
          /\ tableWrites[2].lba = 1 /\ tableWrites[2].n = 1
          /\ tableWrites[3].lba = 2 /\ tableWrites[3].n = EntrySectors
          /\ tableWrites[4].lba = totalSectors - 1 - EntrySectors /\ tableWrites[4].n = EntrySectors
          /\ tableWrites[5].lba = totalSectors - 1 /\ tableWrites[5].n = 1
      BY <3>1
    <3>5. EntrySectors \in Nat /\ AlignedStart \in Nat /\ totalSectors \in Nat /\ spliceWrite.n \in Nat
          /\ spliceWrite.lba = AlignedStart
      BY <1>0, <1>2, <3>2
    <3>6. /\ Apart(tableWrites[1], tableWrites[2]) /\ Apart(tableWrites[1], tableWrites[3])
          /\ Apart(tableWrites[1], tableWrites[4]) /\ Apart(tableWrites[1], tableWrites[5])
      BY <3>3, <3>4, <3>5 DEF Apart
    <3>7. /\ Apart(tableWrites[2], tableWrites[3])
          /\ Apart(tableWrites[2], tableWrites[4]) /\ Apart(tableWrites[2], tableWrites[5])
      BY <3>3, <3>4, <3>5 DEF Apart
    <3>8. Apart(tableWrites[3], tableWrites[4]) /\ Apart(tableWrites[3], tableWrites[5])
      BY <3>3, <3>4, <3>5 DEF Apart
    <3>9. Apart(tableWrites[4], tableWrites[5])
      BY <3>3, <3>4, <3>5 DEF Apart
    <3>10. /\ Apart(tableWrites[1], spliceWrite) /\ Apart(tableWrites[2], spliceWrite)
          /\ Apart(tableWrites[3], spliceWrite)
      BY <3>3, <3>4, <3>5 DEF Apart
    <3>11. Apart(tableWrites[4], spliceWrite) /\ Apart(tableWrites[5], spliceWrite)
      BY <3>3, <3>4, <3>5 DEF Apart
    <3>12. ASSUME NEW i \in 1..5
          PROVE  /\ tableWrites[i].what \in Whats \ {"fs"}
                 /\ tableWrites[i].lba \in Nat /\ tableWrites[i].n \in Nat
                 /\ tableWrites[i].lba + tableWrites[i].n <= totalSectors
                 /\ Apart(tableWrites[i], spliceWrite)
      <4>1. i \in {1, 2, 3, 4, 5}
        OBVIOUS
      <4>2. tableWrites[i].what \in Whats \ {"fs"}
        BY <3>1, <4>1 DEF Whats
      <4>3. tableWrites[i].lba \in Nat /\ tableWrites[i].n \in Nat
            /\ tableWrites[i].lba + tableWrites[i].n <= totalSectors
        BY <3>3, <3>4, <3>5, <4>1
      <4>4. Apart(tableWrites[i], spliceWrite)
        BY <3>10, <3>11, <4>1
      <4> QED
        BY <4>2, <4>3, <4>4
    <3>13. ASSUME NEW i \in 1..5, NEW j \in 1..5, i < j
          PROVE  Apart(tableWrites[i], tableWrites[j])
      <4>1. i \in {1, 2, 3, 4} /\ j \in {2, 3, 4, 5}
        BY <3>13
      <4> QED
        BY <3>13, <3>6, <3>7, <3>8, <3>9, <4>1
    <3> QED
      BY <3>1, <3>12, <3>13
  <2> QED
    BY <2>1, <2>2, <2>3 DEF Schemes
<1> HIDE DEF t
<1>5. ASSUME NEW i \in 1..Len(writes)
      PROVE  /\ writes[i].what \in Whats
             /\ writes[i].lba \in Nat /\ writes[i].n \in Nat /\ writes[i].lba + writes[i].n <= totalSectors
             /\ writes[i].what = "fs" <=> i = t + 1
  <2>1. CASE i \in 1..t
    BY <1>1, <1>4, <2>1
  <2>2. CASE i = t + 1 /\ fs # "none"
    BY <1>1, <1>2, <2>2 DEF Whats
  <2> QED
    BY <1>1, <2>1, <2>2
<1>6. ASSUME NEW i \in 1..Len(writes), NEW j \in 1..Len(writes), i < j
      PROVE  Apart(writes[i], writes[j])
  <2>1. i \in 1..t
    BY <1>1, <1>6
  <2>2. CASE j \in 1..t
    BY <1>1, <1>4, <1>6, <2>1, <2>2
  <2>3. CASE j = t + 1 /\ fs # "none"
    BY <1>1, <1>4, <2>1, <2>3
  <2> QED
    BY <1>1, <2>2, <2>3
<1> QED
  BY <1>2, <1>5, <1>6 DEF t

------------------------------------------------------------------------------
(* The invariant *)

\* Nothing has been written.
Blank == at = 1 /\ res = "err" /\ \A l \in LBAs : disk[l] = Zero

\* createRaw writes only what CheckSize has let through, and returns nil at the end.
Stage ==
  /\ pc = "start" => Blank
  /\ pc = "write" => Sized
  /\ Sized \/ Blank
  /\ res = "nil" => pc = "done" /\ at = Len(writes) + 1

\* Region i is there in full.
Full(i) == \A k \in 0..(writes[i].n - 1) : Holds(writes[i].lba + k, writes[i].what, k)

\* The regions before the one at hand are, and the formatter took its partition.
Written == \A i \in 1..Len(writes) : i < at => Full(i) /\ Formats(writes[i])

\* Sector l holds what region i puts there.
From(l, i) ==
  /\ l \in writes[i].lba..(writes[i].lba + writes[i].n - 1)
  /\ disk[l] = [what |-> writes[i].what, k |-> l - writes[i].lba]

\* Every sector that is not empty comes from a write that was begun.
Explained == \A l \in LBAs : disk[l] = Zero \/ \E i \in 1..Len(writes) : i <= at /\ From(l, i)

LayoutInv == TypeOK /\ Stage /\ Written /\ Explained

\* The layout depends on the options alone.
LEMMA SameLayout ==
  ASSUME UNCHANGED <<size, scheme, fs, slot>>
  PROVE  /\ LBAs' = LBAs /\ tableWrites' = tableWrites /\ writes' = writes /\ MagicSector' = MagicSector
         /\ Sized => Sized'
<1>1. partSize' = partSize /\ mbrSectors' = mbrSectors /\ partOffset' = partOffset /\ totalSectors' = totalSectors
  BY DEF partSize, mbrSectors, partOffset, totalSectors
<1>2. LBAs' = LBAs /\ MagicSector' = MagicSector
  BY <1>1 DEF LBAs, MagicSector
<1>3. Sized => Sized'
  BY <1>1 DEF Sized
<1>4. backupHeaderLBA' = backupHeaderLBA /\ backupEntriesLBA' = backupEntriesLBA
  BY <1>1 DEF backupHeaderLBA, backupEntriesLBA
<1>5. writeGPT' = writeGPT /\ writeMBR' = writeMBR
  BY <1>4 DEF writeGPT, writeMBR
<1>6. tableWrites' = tableWrites
  BY <1>5 DEF tableWrites
<1>7. spliceWrite' = spliceWrite
  BY <1>1 DEF spliceWrite
<1>8. writes' = writes
  BY <1>6, <1>7 DEF writes
<1> QED
  BY <1>2, <1>3, <1>6, <1>8

\* A write, whole or broken off, stays within its region.
LEMMA PutKeeps ==
  ASSUME LayoutInv, Sized, at \in 1..Len(writes), NEW n \in 0..writes[at].n, Put(writes[at], n),
         UNCHANGED <<size, scheme, fs, slot>>
  PROVE  /\ disk' \in [LBAs -> Contents]
         /\ \A i \in 1..Len(writes) : i < at => Full(i)'
         /\ \A i \in 1..Len(writes) : i = at /\ n = writes[at].n => Full(i)'
         /\ \A l \in LBAs : disk'[l] = Zero \/ \E i \in 1..Len(writes) : i <= at /\ From(l, i)'
<1> DEFINE w == writes[at]
<1>0. /\ size \in Nat /\ scheme \in Schemes /\ disk \in [LBAs -> Contents] /\ Len(writes) \in Nat
      /\ Written /\ Explained
  BY LayoutAssumption, WritesAre DEF LayoutInv, TypeOK
<1>1. LBAs' = LBAs /\ writes' = writes
  BY SameLayout
<1>2. /\ w.what \in Whats /\ w.lba \in Nat /\ w.n \in Nat /\ w.lba + w.n <= totalSectors /\ totalSectors \in Nat
  BY <1>0, Geometry
<1>3. \A i \in 1..Len(writes) :
        i < at => Apart(writes[i], w) /\ writes[i].lba \in Nat /\ writes[i].n \in Nat
  BY <1>0, Geometry
<1>4. DOMAIN disk' = LBAs
  BY DEF Put
<1>5. \A l \in LBAs : disk'[l] = IF l \in w.lba..(w.lba + n - 1) THEN [what |-> w.what, k |-> l - w.lba] ELSE disk[l]
  BY DEF Put
<1>6. LBAs = 0..(totalSectors - 1)
  BY DEF LBAs
<1>7. disk' \in [LBAs -> Contents]
  <2>1. ASSUME NEW l \in LBAs PROVE disk'[l] \in Contents
    <3>1. CASE l \in w.lba..(w.lba + n - 1)
      <4>1. l - w.lba \in Nat /\ w.what \in Whats
        BY <1>2, <1>6, <3>1
      <4>2. [what |-> w.what, k |-> l - w.lba] \in Contents
        BY <4>1 DEF Contents, Whats
      <4> QED
        BY <1>5, <3>1, <4>2
    <3>2. CASE ~(l \in w.lba..(w.lba + n - 1))
      BY <1>0, <1>5, <3>2
    <3> QED
      BY <3>1, <3>2
  <2>2. disk' = [l \in LBAs |-> disk'[l]]
    BY DEF Put
  <2> QED
    BY <2>1, <2>2
<1>8. ASSUME NEW i \in 1..Len(writes), i < at PROVE Full(i)'
  <2> DEFINE v == writes[i]
  <2>1. Full(i)
    BY <1>0, <1>8 DEF Written
  <2>2. ASSUME NEW k \in 0..(v.n - 1) PROVE Holds(v.lba + k, v.what, k)'
    <3>1. v.lba + k \in LBAs /\ disk[v.lba + k] = [what |-> v.what, k |-> k]
      BY <2>1 DEF Full, Holds
    <3>2. ~(v.lba + k \in w.lba..(w.lba + n - 1))
      <4>1. v.lba \in Nat /\ v.n \in Nat /\ (v.lba + v.n <= w.lba \/ w.lba + w.n <= v.lba)
        BY <1>3, <1>8 DEF Apart
      <4>2. k \in Nat /\ k < v.n /\ n <= w.n /\ n \in Nat
        BY <1>2, <4>1
      <4>3. \A a, m, b, c \in Nat : (a + m <= b \/ b + c <= a) /\ k < m /\ n <= c => ~(a + k \in b..(b + n - 1))
        BY <4>2
      <4> QED
        BY <1>2, <4>1, <4>2, <4>3
    <3>3. disk'[v.lba + k] = [what |-> v.what, k |-> k]
      BY <1>5, <3>1, <3>2
    <3> QED
      BY <1>1, <3>1, <3>3 DEF Holds
  <2> QED
    BY <1>1, <2>2 DEF Full
<1>9. ASSUME NEW i \in 1..Len(writes), i = at, n = w.n PROVE Full(i)'
  <2>1. ASSUME NEW k \in 0..(w.n - 1) PROVE w.lba + k \in LBAs /\ disk'[w.lba + k] = [what |-> w.what, k |-> k]
    <3>1. w.lba + k \in LBAs /\ w.lba + k \in w.lba..(w.lba + n - 1) /\ (w.lba + k) - w.lba = k
      <4>1. \A a, m, t \in Nat : k \in 0..(m - 1) /\ a + m <= t =>
              a + k \in 0..(t - 1) /\ a + k \in a..(a + m - 1) /\ (a + k) - a = k
        OBVIOUS
      <4> QED
        BY <1>2, <1>6, <1>9, <4>1
    <3> QED
      BY <1>5, <3>1
  <2> QED
    BY <1>1, <1>9, <2>1 DEF Full, Holds
<1>10. ASSUME NEW l \in LBAs PROVE disk'[l] = Zero \/ \E i \in 1..Len(writes) : i <= at /\ From(l, i)'
  <2>1. CASE l \in w.lba..(w.lba + n - 1)
    <3>1. l \in w.lba..(w.lba + w.n - 1)
      BY <1>2, <1>6, <2>1
    <3>2. disk'[l] = [what |-> w.what, k |-> l - w.lba]
      BY <1>5, <2>1
    <3>3. \A i \in 1..Len(writes) : i = at => From(l, i)'
      BY <1>1, <3>1, <3>2 DEF From
    <3> QED
      BY <1>0, <3>3
  <2>2. CASE ~(l \in w.lba..(w.lba + n - 1))
    <3>1. disk'[l] = disk[l]
      BY <1>5, <2>2
    <3> QED
      BY <1>0, <1>1, <3>1 DEF Explained, From
  <2> QED
    BY <2>1, <2>2
<1> QED
  BY <1>7, <1>8, <1>9, <1>10

\* Every step keeps the invariant.
THEOREM LayoutInvariant == Spec => []LayoutInv
<1>1. Init => LayoutInv
  <2> SUFFICES ASSUME Init PROVE LayoutInv
    OBVIOUS
  <2>1. size \in Sizes /\ scheme \in Schemes /\ fs \in FsChoices /\ pc = "start" /\ at = 1 /\ res = "err"
    BY DEF Init
  <2>2. slot \in 0..(RingSlots - 1)
    BY LayoutAssumption DEF Init
  <2>3. Len(writes) \in Nat
    BY <2>1, WritesAre
  <2>4. disk = [l \in LBAs |-> Zero] /\ Zero \in Contents
    BY DEF Init, Zero, Contents
  <2>5. TypeOK
    BY <2>1, <2>2, <2>3, <2>4 DEF TypeOK
  <2>6. Stage /\ Written /\ Explained
    BY <2>1, <2>3, <2>4 DEF Stage, Blank, Written, Explained
  <2> QED
    BY <2>5, <2>6 DEF LayoutInv
<1>2. LayoutInv /\ [Next]_vars => LayoutInv'
  <2> SUFFICES ASSUME LayoutInv, [Next]_vars PROVE LayoutInv'
    OBVIOUS
  <2>0. /\ UNCHANGED <<size, scheme, fs, slot>>
        /\ LBAs' = LBAs /\ writes' = writes /\ MagicSector' = MagicSector
        /\ TypeOK /\ Stage /\ Written /\ Explained /\ Len(writes) \in Nat
    <3>1. UNCHANGED <<size, scheme, fs, slot>>
      BY DEF Next, CheckSize, WriteRegion, WriteFails, Return, vars
    <3> QED
      BY <3>1, SameLayout, WritesAre DEF LayoutInv, TypeOK
  <2>1. Sized => Sized'
    BY <2>0, SameLayout
  <2>2. CASE UNCHANGED <<disk, at>> /\ res' \in {"nil", "err"}
    <3>1. \A i \in 1..Len(writes) : Full(i) => Full(i)'
      BY <2>0, <2>2 DEF Full, Holds
    <3>2. \A i \in 1..Len(writes) : Formats(writes[i]) => Formats(writes[i])'
      BY <2>0 DEF Formats
    <3>3. Written'
      BY <2>0, <2>2, <3>1, <3>2 DEF Written
    <3>4. Explained'
      BY <2>0, <2>2 DEF Explained, From
    <3>5. ASSUME pc' \in {"start", "write", "done"} PROVE TypeOK'
      BY <2>0, <2>2, <3>5 DEF TypeOK
    <3>6. CASE CheckSize
      <4>1. pc' \in {"write", "done"} /\ res' = res /\ Blank /\ (pc' = "write" => Sized)
        <5>1. pc' = "write" => Sized
          <6>1. partSize \in Int /\ mbrSectors \in Int
            <7>1. size \in Nat /\ Sector \in Nat \ {0} /\ FsAlign \in Nat \ {0} /\ AlignedStart \in Nat /\ U32 \in Nat \ {0}
                  /\ EntrySectors \in Nat
              BY <2>0, LayoutAssumption DEF TypeOK
            <7>2. totalSectors \in Int
              BY <7>1, Quotient DEF totalSectors
            <7>3. mbrSectors \in Int
              BY <7>1, <7>2, Quotient DEF mbrSectors
            <7>4. partOffset \in Int /\ (EntrySectors + 1) * Sector \in Int
              BY <7>1 DEF partOffset
            <7>5. size - partOffset \in Int /\ size - partOffset - (EntrySectors + 1) * Sector \in Int
              BY <7>1, <7>4
            <7>6. partSize \in Int
              BY <2>0, <7>1, <7>5, AlignedDown DEF partSize, TypeOK, Schemes
            <7> QED
              BY <7>3, <7>6
          <6>2. AlignedStart \in Nat
            BY LayoutAssumption
          <6> QED
            BY <3>6, <6>1, <6>2 DEF CheckSize, Sized
        <5> QED
          BY <2>0, <3>6, <5>1 DEF CheckSize, Stage
      <4>2. Blank'
        BY <2>0, <2>2, <4>1 DEF Blank
      <4>3. Stage'
        BY <2>1, <4>1, <4>2 DEF Stage, Blank
      <4> QED
        BY <3>3, <3>4, <3>5, <4>1, <4>3 DEF LayoutInv
    <3>7. CASE pc = "write" /\ pc' = "done" /\ (res' = "nil" => at = Len(writes) + 1)
      <4>1. Stage'
        BY <2>0, <2>1, <2>2, <3>7 DEF Stage
      <4> QED
        BY <3>3, <3>4, <3>5, <3>7, <4>1 DEF LayoutInv
    <3>8. CASE UNCHANGED vars
      <4>1. Blank => Blank'
        BY <2>0, <3>8 DEF Blank, vars
      <4>2. Stage'
        BY <2>0, <2>1, <3>8, <4>1 DEF Stage, vars
      <4> QED
        BY <2>0, <3>3, <3>4, <3>5, <3>8, <4>2 DEF LayoutInv, vars, TypeOK
    <3> QED
      <4>1. CASE WriteFails
        BY <2>0, <3>7, <4>1 DEF WriteFails, Stage
      <4>2. CASE Return
        BY <2>0, <3>7, <4>2 DEF Return, TypeOK
      <4>3. CASE WriteRegion
        BY <2>0, <2>2, <4>3 DEF WriteRegion, TypeOK
      <4> QED
        BY <3>6, <3>8, <4>1, <4>2, <4>3 DEF Next
  <2>3. CASE WriteRegion
    <3>1. /\ pc = "write" /\ at \in 1..Len(writes) /\ Formats(writes[at]) /\ Put(writes[at], writes[at].n)
          /\ at' = at + 1 /\ pc' = pc /\ res' = res
      BY <2>0, <2>3 DEF WriteRegion, TypeOK
    <3>2. Sized /\ writes[at].n \in 0..writes[at].n
      <4>1. Sized /\ size \in Nat /\ scheme \in Schemes
        BY <2>0, <3>1, LayoutAssumption DEF Stage, TypeOK
      <4>2. writes[at].n \in Nat
        BY <3>1, <4>1, Geometry
      <4> QED
        BY <4>1, <4>2
    <3>3. /\ disk' \in [LBAs -> Contents]
          /\ \A i \in 1..Len(writes) : i < at => Full(i)'
          /\ \A i \in 1..Len(writes) : i = at => Full(i)'
          /\ \A l \in LBAs : disk'[l] = Zero \/ \E i \in 1..Len(writes) : i <= at /\ From(l, i)'
      BY <2>0, <3>1, <3>2, PutKeeps
    <3>4. TypeOK'
      BY <2>0, <3>1, <3>3 DEF TypeOK
    <3>5. Stage'
      BY <2>0, <2>1, <3>1, <3>2 DEF Stage
    <3>6. Written'
      <4>1. ASSUME NEW i \in 1..Len(writes), i < at + 1 PROVE Full(i)' /\ Formats(writes[i])'
        <5>1. i < at \/ i = at
          BY <2>0, <3>1, <4>1
        <5>2. Formats(writes[i])
          BY <2>0, <3>1, <5>1 DEF Written
        <5> QED
          BY <2>0, <3>3, <5>1, <5>2 DEF Formats
      <4> QED
        BY <2>0, <3>1, <4>1 DEF Written
    <3>7. Explained'
      BY <2>0, <3>1, <3>3 DEF Explained
    <3> QED
      BY <3>4, <3>5, <3>6, <3>7 DEF LayoutInv
  <2>4. ASSUME pc = "write", at \in 1..Len(writes), NEW n \in 0..(writes[at].n - 1), Put(writes[at], n),
               pc' = "done", at' = at, res' = res
        PROVE  LayoutInv'
    <3>1. Sized /\ n \in 0..writes[at].n
      <4>1. Sized /\ size \in Nat /\ scheme \in Schemes
        BY <2>0, <2>4, LayoutAssumption DEF Stage, TypeOK
      <4>2. writes[at].n \in Nat
        BY <2>4, <4>1, Geometry
      <4> QED
        BY <4>1, <4>2
    <3>2. /\ disk' \in [LBAs -> Contents]
          /\ \A i \in 1..Len(writes) : i < at => Full(i)'
          /\ \A l \in LBAs : disk'[l] = Zero \/ \E i \in 1..Len(writes) : i <= at /\ From(l, i)'
      BY <2>0, <2>4, <3>1, PutKeeps
    <3>3. TypeOK'
      BY <2>0, <2>4, <3>2 DEF TypeOK
    <3>4. Stage'
      BY <2>0, <2>1, <2>4, <3>1 DEF Stage
    <3>5. Written' /\ Explained'
      <4>1. \A i \in 1..Len(writes) : Formats(writes[i]) => Formats(writes[i])'
        BY <2>0 DEF Formats
      <4> QED
        BY <2>0, <2>4, <3>2, <4>1 DEF Written, Explained
    <3> QED
      BY <3>3, <3>4, <3>5 DEF LayoutInv
  <2> QED
    <3>1. CASE CheckSize \/ Return \/ UNCHANGED vars
      BY <2>0, <2>2, <3>1 DEF CheckSize, Return, vars, TypeOK
    <3>2. CASE WriteFails
      <4>1. /\ pc = "write" /\ at \in 1..Len(writes) /\ pc' = "done" /\ at' = at /\ res' = res
            /\ (disk' = disk \/ \E n \in 0..(writes[at].n - 1) : Put(writes[at], n))
        BY <2>0, <3>2 DEF WriteFails, TypeOK
      <4>2. CASE disk' = disk
        BY <2>0, <2>2, <4>1, <4>2 DEF TypeOK
      <4> QED
        BY <2>4, <4>1, <4>2
    <3> QED
      BY <2>3, <3>1, <3>2 DEF Next
<1> QED
  BY <1>1, <1>2, PTL DEF Spec

\* The state of a creation is well formed, whatever size and options it was given.
THEOREM TypeCorrect == Spec => []TypeOK
<1>1. LayoutInv => TypeOK
  BY DEF LayoutInv
<1> QED
  BY <1>1, LayoutInvariant, PTL

\* When Create returns nil, everything that writeMBR, writeGPT and the formatter wrote
\* is there in full: for every size, alignment and number of GPT entries.
THEOREM Intact == Spec => []RegionsIntact
<1>1. LayoutInv => RegionsIntact
  <2> SUFFICES ASSUME LayoutInv, Created PROVE RegionsIntact
    BY DEF RegionsIntact
  <2>1. at = Len(writes) + 1 /\ Len(writes) \in Nat /\ Written
    BY WritesAre DEF LayoutInv, Stage, Created, TypeOK
  <2>2. \A i \in 1..Len(writes) : Full(i)
    BY <2>1 DEF Written
  <2> QED
    BY <2>2 DEF RegionsIntact, Full
<1> QED
  BY <1>1, LayoutInvariant, PTL

------------------------------------------------------------------------------
(* What readers find *)

\* What is on the disk was written, and CheckSize had let it through.
LEMMA HeldIsWritten ==
  ASSUME LayoutInv, NEW l, NEW what \in Whats, NEW k, Holds(l, what, k)
  PROVE  Sized /\ \E i \in 1..Len(writes) : i <= at /\ writes[i].what = what
<1>1. l \in LBAs /\ disk[l] = [what |-> what, k |-> k]
  BY DEF Holds
<1>2. disk[l].what = what /\ Zero.what = "zero" /\ what # "zero"
  <2>1. disk[l].what = what
    BY <1>1
  <2>2. Zero.what = "zero"
    BY DEF Zero
  <2>3. what # "zero"
    BY DEF Whats
  <2> QED
    BY <2>1, <2>2, <2>3
<1>3. disk[l] # Zero
  BY <1>2
<1>4. Sized
  BY <1>1, <1>3 DEF LayoutInv, Stage, Blank
<1>5. PICK i \in 1..Len(writes) : i <= at /\ From(l, i)
  BY <1>1, <1>3 DEF LayoutInv, Explained
<1>6. disk[l].what = writes[i].what
  BY <1>5 DEF From
<1> QED
  BY <1>2, <1>4, <1>5, <1>6

\* A sector of a table tells its scheme.
LEMMA SchemeTold ==
  ASSUME LayoutInv, NEW l, NEW what \in Whats, NEW k, Holds(l, what, k)
  PROVE  /\ what \in {"pmbr", "header", "entries"} => scheme = "gpt"
         /\ what = "mbr" => scheme = "mbr"
<1> DEFINE t == Len(tableWrites)
<1>0. scheme \in Schemes
  BY DEF LayoutInv, TypeOK
<1>1. PICK i \in 1..Len(writes) : writes[i].what = what
  BY HeldIsWritten
<1>2. Sized /\ size \in Nat
  BY HeldIsWritten, LayoutAssumption DEF LayoutInv, TypeOK
<1>3. what = "fs" \/ (i \in 1..t /\ tableWrites[i].what = what)
  <2>1. (writes[i].what = "fs" <=> i = t + 1)
    BY <1>0, <1>2, Geometry
  <2>2. t \in Nat /\ Len(writes) \in {t, t + 1} /\ \A j \in 1..t : writes[j] = tableWrites[j]
    BY <1>0, WritesAre
  <2> QED
    BY <1>1, <2>1, <2>2
<1>4. CASE scheme = "none"
  <2>1. t = 0
    BY <1>0, <1>4, TableIs
  <2> QED
    BY <1>3, <2>1
<1>5. CASE scheme = "mbr"
  <2>1. t = 1 /\ tableWrites[1].what = "mbr"
    BY <1>0, <1>5, TableIs DEF Is
  <2>2. what = "fs" \/ what = "mbr"
    BY <1>3, <2>1
  <2> QED
    BY <1>5, <2>2
<1>6. CASE scheme = "gpt"
  <2>1. /\ t = 5 /\ tableWrites[1].what = "pmbr" /\ tableWrites[2].what = "header"
        /\ tableWrites[3].what = "entries" /\ tableWrites[4].what = "backup entries"
        /\ tableWrites[5].what = "backup header"
    BY <1>0, <1>6, TableIs DEF Is
  <2>2. what = "fs" \/ i \in {1, 2, 3, 4, 5}
    <3>1. t = 5
      BY <2>1
    <3>2. what = "fs" \/ i \in 1..5
      BY <1>3, <3>1
    <3>3. 1..5 = {1, 2, 3, 4, 5}
      OBVIOUS
    <3> QED
      BY <3>2, <3>3
  <2>3. what # "mbr"
    BY <1>3, <2>1, <2>2
  <2> QED
    BY <1>6, <2>3
<1> QED
  BY <1>0, <1>4, <1>5, <1>6 DEF Schemes

\* What a successful Create left, as the readers see it.
LEMMA CreatedHolds ==
  ASSUME LayoutInv, Created
  PROVE  /\ Sized
         /\ scheme = "mbr" => Holds(0, "mbr", 0)
         /\ scheme = "gpt" => Holds(1, "header", 0) /\ Holds(2, "entries", 0)
         /\ fs # "none" =>
              /\ MagicSector < spliceWrite.n
              /\ \A k \in 0..(spliceWrite.n - 1) : Holds(spliceWrite.lba + k, "fs", k)
<1> DEFINE t == Len(tableWrites)
<1>0. /\ scheme \in Schemes /\ size \in Nat /\ at = Len(writes) + 1 /\ Len(writes) \in Nat /\ Written
      /\ t \in Nat /\ Len(writes) = t + (IF fs = "none" THEN 0 ELSE 1)
      /\ \A i \in 1..t : writes[i] = tableWrites[i]
      /\ fs # "none" => writes[t + 1] = spliceWrite
  BY WritesAre, LayoutAssumption DEF LayoutInv, Stage, Created, TypeOK
<1>1. \A i \in 1..Len(writes) : Full(i) /\ Formats(writes[i])
  BY <1>0 DEF Written
<1>2. ASSUME scheme = "mbr" PROVE Holds(0, "mbr", 0)
  <2>1. t = 1 /\ tableWrites[1].what = "mbr" /\ tableWrites[1].lba = 0 /\ tableWrites[1].n = 1
    BY <1>0, <1>2, TableIs DEF Is
  <2>2. Full(1) /\ writes[1] = tableWrites[1]
    BY <1>0, <1>1, <2>1
  <2>3. Holds(writes[1].lba + 0, writes[1].what, 0)
    BY <2>1, <2>2 DEF Full
  <2> QED
    BY <2>1, <2>2, <2>3
<1>3. ASSUME scheme = "gpt" PROVE Holds(1, "header", 0) /\ Holds(2, "entries", 0)
  <2>1. /\ t = 5 /\ tableWrites[2].what = "header" /\ tableWrites[2].lba = 1 /\ tableWrites[2].n = 1
        /\ tableWrites[3].what = "entries" /\ tableWrites[3].lba = 2 /\ tableWrites[3].n = EntrySectors
    BY <1>0, <1>3, TableIs DEF Is
  <2>2. Full(2) /\ writes[2] = tableWrites[2] /\ Full(3) /\ writes[3] = tableWrites[3]
    BY <1>0, <1>1, <2>1
  <2>3. EntrySectors \in Nat \ {0}
    BY LayoutAssumption
  <2>4. Holds(writes[2].lba + 0, writes[2].what, 0)
    BY <2>1, <2>2 DEF Full
  <2>5. Holds(writes[3].lba + 0, writes[3].what, 0)
    <3>1. 0 \in 0..(writes[3].n - 1)
      BY <2>1, <2>2, <2>3
    <3> QED
      BY <2>2, <3>1 DEF Full
  <2> QED
    BY <2>1, <2>2, <2>4, <2>5
<1>4. ASSUME fs # "none"
      PROVE  /\ MagicSector < spliceWrite.n
             /\ \A k \in 0..(spliceWrite.n - 1) : Holds(spliceWrite.lba + k, "fs", k)
  <2>1. t + 1 \in 1..Len(writes) /\ writes[t + 1] = spliceWrite /\ spliceWrite.what = "fs"
    BY <1>0, <1>4 DEF spliceWrite, Region
  <2> QED
    BY <1>1, <2>1 DEF Full, Formats
<1>5. Sized
  <2>1. CASE fs # "none"
    BY <1>0, <2>1 DEF LayoutInv, Stage, Blank, Created
  <2>2. CASE fs = "none"
    BY DEF LayoutInv, Stage, Blank, Created
  <2> QED
    BY <2>1, <2>2
<1> QED
  BY <1>2, <1>3, <1>4, <1>5

\* What `exec part print` and detectPartOffset make of the image at any moment: with
\* a GPT there is one partition once its entries are written, with an MBR there is one,
\* and otherwise the image is bare.
LEMMA Entries ==
  ASSUME LayoutInv
  PROVE  /\ HasGPT => scheme = "gpt" /\ Sized
         /\ Holds(2, "entries", 0) => scheme = "gpt" /\ Sized
         /\ Holds(0, "mbr", 0) => scheme = "mbr" /\ Sized
         /\ Holds(0, "pmbr", 0) => scheme = "gpt" /\ Sized
<1> USE DEF Whats
<1>1. HasGPT => scheme = "gpt" /\ Sized
  BY SchemeTold, HeldIsWritten DEF HasGPT
<1>2. Holds(2, "entries", 0) => scheme = "gpt" /\ Sized
  BY SchemeTold, HeldIsWritten
<1>3. Holds(0, "mbr", 0) => scheme = "mbr" /\ Sized
  BY SchemeTold, HeldIsWritten
<1>4. Holds(0, "pmbr", 0) => scheme = "gpt" /\ Sized
  BY SchemeTold, HeldIsWritten
<1> QED
  BY <1>1, <1>2, <1>3, <1>4

\* The sizes of an image that got through CheckSize.
LEMMA SizedNumbers ==
  ASSUME LayoutInv, Sized
  PROVE  /\ totalSectors \in Nat /\ AlignedStart \in Nat /\ AlignedStart >= 3
         /\ scheme = "gpt" => lastUsable \in Nat /\ lastUsable > 0 /\ totalSectors - 1 > 0
         /\ scheme = "gpt" => spliceWrite.n <= lastUsable - AlignedStart + 1
         /\ Under2TiB => mbrSectors = totalSectors /\ (totalSectors - 1 > 0 => (totalSectors - 1) % U32 = totalSectors - 1)
         /\ scheme = "mbr" => mbrPartSectors \in Int /\ mbrPartSectors > 0
<1>0. /\ size \in Nat /\ scheme \in Schemes /\ AlignedStart \in Nat /\ EntrySectors \in Nat \ {0}
      /\ AlignedStart >= EntrySectors + 2 /\ U32 \in Nat \ {0}
  BY LayoutAssumption DEF LayoutInv, TypeOK
<1>1. totalSectors \in Nat
  BY <1>0, FsFits
<1>2. AlignedStart >= 3
  BY <1>0
<1>3. ASSUME scheme = "gpt"
      PROVE  /\ lastUsable \in Nat /\ lastUsable > 0 /\ totalSectors - 1 > 0
             /\ spliceWrite.n <= lastUsable - AlignedStart + 1
  <2>1. spliceWrite.n \in Nat /\ AlignedStart + spliceWrite.n + EntrySectors + 1 <= totalSectors
    BY <1>0, <1>3, FsFits
  <2>2. lastUsable = totalSectors - EntrySectors - 2
    BY <1>0, <1>1 DEF lastUsable, backupEntriesLBA, backupHeaderLBA
  <2> QED
    BY <1>0, <1>1, <2>1, <2>2
<1>4. ASSUME NEW x \in Nat, x < U32 PROVE x % U32 = x
  BY <1>0, <1>4
<1>5. ASSUME Under2TiB
      PROVE  mbrSectors = totalSectors /\ (totalSectors - 1 > 0 => (totalSectors - 1) % U32 = totalSectors - 1)
  <2>1. totalSectors < U32
    BY <1>5 DEF Under2TiB
  <2>2. mbrSectors = totalSectors
    BY <1>1, <1>4, <2>1 DEF mbrSectors
  <2>3. ASSUME totalSectors - 1 > 0 PROVE (totalSectors - 1) % U32 = totalSectors - 1
    <3>1. totalSectors - 1 \in Nat /\ totalSectors - 1 < U32
      BY <1>0, <1>1, <2>1, <2>3
    <3> QED
      BY <1>4, <3>1
  <2> QED
    BY <2>2, <2>3
<1>6. ASSUME scheme = "mbr" PROVE mbrPartSectors \in Int /\ mbrPartSectors > 0
  <2>1. mbrSectors \in Int
    BY <1>0, <1>1, Quotient DEF mbrSectors
  <2> QED
    BY <1>0, <1>6, <2>1 DEF Sized, mbrPartSectors
<1> QED
  BY <1>1, <1>2, <1>0, <1>3, <1>5, <1>6

\* The entries of a GPT: one, and only once it is written.
LEMMA GptEntries ==
  ASSUME LayoutInv, NEW i \in Int
  PROVE  /\ gptEntry(i).used <=> (i = 0 /\ Holds(2, "entries", 0))
         /\ gptEntry(i).used =>
              gptEntry(i).start = AlignedStart /\ gptEntry(i).end = lastUsable /\ scheme = "gpt" /\ Sized
<1>1. CASE i = 0 /\ Holds(2, "entries", 0)
  <2>1. gptEntry(i) = [used |-> TRUE, start |-> AlignedStart, end |-> lastUsable]
    BY <1>1 DEF gptEntry
  <2>2. gptEntry(i).used /\ gptEntry(i).start = AlignedStart /\ gptEntry(i).end = lastUsable
    BY <2>1
  <2> QED
    BY <1>1, <2>2, Entries
<1>2. CASE ~(i = 0 /\ Holds(2, "entries", 0))
  <2>1. gptEntry(i) = [used |-> FALSE, start |-> 0, end |-> 0]
    BY <1>2 DEF gptEntry
  <2>2. ~gptEntry(i).used
    BY <2>1
  <2> QED
    BY <1>2, <2>2
<1> QED
  BY <1>1, <1>2

\* The entries of sector 0: one at most, and never an empty one below 2 TiB.
LEMMA MbrEntries ==
  ASSUME LayoutInv, NEW i \in Int
  PROVE  /\ i = 0 /\ Holds(0, "mbr", 0) => mbrEntry(i).start = AlignedStart /\ mbrEntry(i).count = mbrPartSectors
         /\ mbrEntry(i).start \in Nat
         /\ mbrEntry(i).start # 0 => i = 0 /\ (Holds(0, "mbr", 0) \/ Holds(0, "pmbr", 0))
         /\ mbrEntry(i).start # 0 /\ Under2TiB => mbrEntry(i).count # 0
<1>1. CASE i = 0 /\ Holds(0, "mbr", 0)
  <2>0. ~Holds(0, "pmbr", 0)
    BY <1>1, Entries
  <2>1. mbrEntry(i) = [start |-> AlignedStart, count |-> mbrPartSectors]
    BY <1>1, <2>0 DEF mbrEntry
  <2>2. mbrEntry(i).start = AlignedStart /\ mbrEntry(i).count = mbrPartSectors
    BY <2>1
  <2>3. AlignedStart \in Nat /\ mbrPartSectors # 0
    BY <1>1, Entries, SizedNumbers
  <2> QED
    BY <1>1, <2>2, <2>3
<1>2. CASE i = 0 /\ Holds(0, "pmbr", 0)
  <2>0. ~Holds(0, "mbr", 0)
    BY <1>2, Entries
  <2>1. mbrEntry(i) = [start |-> 1, count |-> (totalSectors - 1) % U32]
    BY <1>2, <2>0 DEF mbrEntry
  <2>2. mbrEntry(i).start = 1 /\ mbrEntry(i).count = (totalSectors - 1) % U32
    BY <2>1
  <2>3. Under2TiB => (totalSectors - 1) % U32 # 0
    BY <1>2, Entries, SizedNumbers
  <2> QED
    BY <1>2, <2>0, <2>2, <2>3
<1>3. CASE i # 0 \/ (~Holds(0, "mbr", 0) /\ ~Holds(0, "pmbr", 0))
  <2>1. mbrEntry(i) = [start |-> 0, count |-> 0]
    BY <1>3 DEF mbrEntry
  <2>2. mbrEntry(i).start = 0
    BY <2>1
  <2> QED
    BY <1>3, <2>2
<1> QED
  BY <1>1, <1>2, <1>3

\* The partition that the table lists covers the filesystem that was put there, for
\* every image that a uint32 can count: createRaw and writeMBR or writeGPT agree.
THEOREM Covers == Spec => []PartitionCoversFilesystem
<1>1. LayoutInv => PartitionCoversFilesystem
  <2> SUFFICES ASSUME LayoutInv, Under2TiB, Created, fs # "none", scheme # "none"
               PROVE  \E p \in PartPrintFromImage : p.start = spliceWrite.lba /\ spliceWrite.n <= p.count
    BY DEF PartitionCoversFilesystem, FilesystemInPartition
  <2>0. scheme \in Schemes /\ size \in Nat /\ Sized
    BY LayoutAssumption, CreatedHolds DEF LayoutInv, TypeOK
  <2>1. CASE scheme = "gpt"
    <3>1. HasGPT /\ gptEntry(0).used /\ gptEntry(0).start = AlignedStart /\ gptEntry(0).end = lastUsable
      BY <2>1, CreatedHolds, GptEntries DEF HasGPT
    <3>2. spliceWrite.lba = AlignedStart /\ spliceWrite.n <= lastUsable - AlignedStart + 1 /\ lastUsable # 0
      BY <2>0, <2>1, FsFits, SizedNumbers
    <3> DEFINE p == [index |-> 0, start |-> gptEntry(0).start, count |-> gptEntry(0).end - gptEntry(0).start + 1]
    <3>3. p \in parseGPT
      <4>1. 0 \in {j \in GptIndexes : gptEntry(j).used /\ ~(gptEntry(j).start = 0 /\ gptEntry(j).end = 0)}
        BY <3>1, <3>2 DEF GptIndexes
      <4> QED
        BY <4>1 DEF parseGPT
    <3>4. p.start = AlignedStart /\ p.count = lastUsable - AlignedStart + 1
      BY <3>1
    <3> HIDE DEF p
    <3> QED
      BY <3>1, <3>2, <3>3, <3>4 DEF PartPrintFromImage
  <2>2. CASE scheme = "mbr"
    <3>1. ~HasGPT /\ HasBootSignature /\ Holds(0, "mbr", 0)
      BY <2>2, CreatedHolds, Entries DEF HasBootSignature
    <3>2. mbrEntry(0).start = AlignedStart /\ mbrEntry(0).count = mbrPartSectors
      BY <3>1, MbrEntries
    <3>3. /\ spliceWrite.lba = AlignedStart /\ AlignedStart + spliceWrite.n <= totalSectors /\ spliceWrite.n \in Nat
          /\ mbrPartSectors # 0 /\ AlignedStart # 0
      BY <2>0, <2>2, FsFits, SizedNumbers
    <3>4. spliceWrite.n <= mbrPartSectors
      BY <2>0, <3>3, SizedNumbers DEF mbrPartSectors
    <3> DEFINE p == [index |-> 0, start |-> mbrEntry(0).start, count |-> mbrEntry(0).count]
    <3>5. p \in parseMBR
      <4>1. 0 \in {j \in MbrIndexes : mbrEntry(j).start # 0 /\ mbrEntry(j).count # 0}
        BY <3>2, <3>3 DEF MbrIndexes
      <4> QED
        BY <4>1 DEF parseMBR
    <3>6. p.start = AlignedStart /\ p.count = mbrPartSectors
      BY <3>2
    <3> HIDE DEF p
    <3> QED
      BY <3>1, <3>3, <3>4, <3>5, <3>6 DEF PartPrintFromImage
  <2> QED
    BY <2>0, <2>1, <2>2 DEF Schemes
<1> QED
  BY <1>1, LayoutInvariant, PTL

\* Only the filesystem that was asked for shows a magic.
LEMMA MagicTells ==
  ASSUME NEW f, NEW o, MagicAt(f, o)
  PROVE  f = fs /\ \E l : Holds(l, "fs", MagicSector)
BY DEF MagicAt, detectZFSUberblock

\* Without a magic, nothing is found.
LEMMA FoundByMagic ==
  ASSUME NEW o, probeFilesystem(o) # "unknown"
  PROVE  \E i \in 1..Len(ProbeOrder) : MagicAt(ProbeOrder[i], o)
BY DEF probeFilesystem

\* A reader that looks at any moment finds a filesystem only behind a table that is
\* there in full: createRaw writes the table first.
THEOREM Tabled == Spec => []DetectedMeansTabled
<1>1. LayoutInv => DetectedMeansTabled
  <2> SUFFICES ASSUME LayoutInv, NEW p \in -1..4, DetectFilesystem(p) # "unknown",
                      NEW j \in 1..Len(tableWrites), NEW k \in 0..(tableWrites[j].n - 1)
               PROVE  Holds(tableWrites[j].lba + k, tableWrites[j].what, k)
    BY DEF DetectedMeansTabled
  <2>1. \E l : Holds(l, "fs", MagicSector)
    BY FoundByMagic, MagicTells DEF DetectFilesystem
  <2>2. Sized /\ \E i \in 1..Len(writes) : i <= at /\ writes[i].what = "fs"
    BY <2>1, HeldIsWritten DEF Whats
  <2>3. PICK i \in 1..Len(writes) : i <= at /\ writes[i].what = "fs"
    BY <2>2
  <2>4. size \in Nat /\ scheme \in Schemes /\ Written /\ at \in Nat
    BY LayoutAssumption DEF LayoutInv, TypeOK
  <2>5. i = Len(tableWrites) + 1
    BY <2>2, <2>3, <2>4, Geometry
  <2>6. /\ Len(tableWrites) \in Nat /\ Len(writes) \in Nat
        /\ \A m \in 1..Len(tableWrites) : writes[m] = tableWrites[m]
    BY <2>4, WritesAre
  <2>7. j \in 1..Len(writes) /\ j < at /\ writes[j] = tableWrites[j]
    BY <2>3, <2>4, <2>5, <2>6
  <2>8. Full(j)
    BY <2>4, <2>7 DEF Written
  <2> QED
    BY <2>7, <2>8 DEF Full
<1> QED
  BY <1>1, LayoutInvariant, PTL

\* Partition 0 of an image that was created is where the filesystem is.
LEMMA OffsetFound ==
  ASSUME LayoutInv, Created
  PROVE  detectPartOffset(0) = spliceWrite.lba /\ spliceWrite.lba \in Nat
<1>0. scheme \in Schemes /\ size \in Nat /\ Sized
  BY LayoutAssumption, CreatedHolds DEF LayoutInv, TypeOK
<1>1. CASE scheme = "gpt"
  <2>1. HasGPT /\ gptEntry(0).used /\ gptEntry(0).start = AlignedStart
    BY <1>1, CreatedHolds, GptEntries DEF HasGPT
  <2>2. detectGPTOffset(0) = AlignedStart
    BY <2>1 DEF detectGPTOffset, gptEntrySize, GptIndexes
  <2>3. detectPartOffset(0) = AlignedStart
    BY <2>1, <2>2 DEF detectPartOffset
  <2> QED
    BY <1>0, <1>1, <2>3, FsFits, SizedNumbers
<1>2. CASE scheme = "mbr"
  <2>1. ~HasGPT /\ HasBootSignature /\ mbrEntry(0).start = AlignedStart
    BY <1>2, CreatedHolds, Entries, MbrEntries DEF HasBootSignature
  <2>2. AlignedStart \in Nat /\ AlignedStart >= 3
    BY <1>0, SizedNumbers
  <2>3. detectMBROffset(0) = AlignedStart
    BY <2>1, <2>2 DEF detectMBROffset, MbrIndexes
  <2>4. detectPartOffset(0) = AlignedStart
    BY <2>1, <2>2, <2>3 DEF detectPartOffset
  <2> QED
    BY <1>0, <1>2, <2>2, <2>4, FsFits
<1>3. CASE scheme = "none"
  <2>1. ~HasGPT /\ mbrEntry(0).start = 0
    BY <1>3, Entries, MbrEntries
  <2>2. detectMBROffset(0) = -1
    BY <2>1 DEF detectMBROffset, NotFound
  <2>3. detectPartOffset(0) = 0
    BY <2>1, <2>2 DEF detectPartOffset
  <2> QED
    BY <1>0, <1>3, <2>3, FsFits
<1> QED
  BY <1>0, <1>1, <1>2, <1>3 DEF Schemes

\* The sector of the magic, and where the ring of a pool has it.
LEMMA MagicIsThere ==
  ASSUME LayoutInv, Created, Detectable
  PROVE  MagicAt(fs, spliceWrite.lba)
<1>0. fs \in FsChoices /\ slot \in 0..(RingSlots - 1) /\ RingSlots \in Nat /\ RingStart \in Nat /\ SlotSectors \in Nat
  BY LayoutAssumption DEF LayoutInv, TypeOK
<1>1. fs # "none"
  <2>1. PICK i \in 1..Len(ProbeOrder) : ProbeOrder[i] = fs
    BY DEF Detectable
  <2>2. ProbeOrder[i] # "none"
    BY DEF ProbeOrder
  <2> QED
    BY <2>1, <2>2
<1>2. slot \in Nat /\ slot * SlotSectors \in Nat
  <2>1. slot \in Nat
    BY <1>0
  <2> QED
    BY <1>0, <2>1, ProductIsNat
<1>3. MagicSector \in Nat
  <2>1. CASE fs = "zfs"
    BY <1>0, <1>2, <2>1 DEF MagicSector
  <2>2. CASE fs # "zfs"
    BY <1>0, <1>1, <2>2, LayoutAssumption DEF MagicSector
  <2> QED
    BY <2>1, <2>2
<1>4. spliceWrite.n \in Nat /\ spliceWrite.lba \in Nat
  <2>1. size \in Nat /\ scheme \in Schemes /\ Sized
    BY LayoutAssumption, CreatedHolds DEF LayoutInv, TypeOK
  <2> QED
    BY <2>1, FsFits, OffsetFound
<1>5. MagicSector < spliceWrite.n /\ \A k \in 0..(spliceWrite.n - 1) : Holds(spliceWrite.lba + k, "fs", k)
  BY <1>1, CreatedHolds
<1>6. Holds(spliceWrite.lba + MagicSector, "fs", MagicSector)
  <2>1. MagicSector \in 0..(spliceWrite.n - 1)
    BY <1>3, <1>4, <1>5
  <2> QED
    BY <1>5, <2>1
<1>7. CASE fs = "zfs"
  <2>1. MagicSector = RingStart + slot * SlotSectors
    BY <1>7 DEF MagicSector
  <2>2. spliceWrite.lba + MagicSector = spliceWrite.lba + RingStart + slot * SlotSectors
    BY <1>0, <1>2, <1>4, <2>1
  <2>3. Holds(spliceWrite.lba + RingStart + slot * SlotSectors, "fs", MagicSector)
    BY <1>6, <2>2
  <2>4. detectZFSUberblock(spliceWrite.lba)
    BY <1>0, <1>7, <2>3 DEF detectZFSUberblock
  <2> QED
    BY <1>7, <2>4 DEF MagicAt
<1>8. CASE fs # "zfs"
  BY <1>6, <1>8 DEF MagicAt
<1> QED
  BY <1>7, <1>8

\* DetectFilesystem finds what Create made, in the partition it is in, with whatever
\* slot of the uberblock ring a pool started.
THEOREM Detected == Spec => []CreateThenDetect
<1>1. LayoutInv => CreateThenDetect
  <2> SUFFICES ASSUME LayoutInv, Created, Detectable PROVE DetectFilesystem(0) = fs
    BY DEF CreateThenDetect
  <2> DEFINE o == spliceWrite.lba
             hits == {i \in 1..Len(ProbeOrder) : MagicAt(ProbeOrder[i], o)}
  <2>1. detectPartOffset(0) = o /\ o \in Nat
    BY OffsetFound
  <2>2. PICK m \in 1..Len(ProbeOrder) : ProbeOrder[m] = fs
    BY DEF Detectable
  <2>3. m \in hits
    BY <2>2, MagicIsThere
  <2>4. \A i \in hits : ProbeOrder[i] = fs
    BY MagicTells
  <2>5. \A i, j \in 1..Len(ProbeOrder) : ProbeOrder[i] = ProbeOrder[j] => i = j
    BY DEF ProbeOrder
  <2>6. \A i \in hits : i = m
    BY <2>2, <2>4, <2>5
  <2>7. m \in Int
    <3>1. Len(ProbeOrder) = 8
      BY DEF ProbeOrder
    <3> QED
      BY <2>2, <3>1
  <2>8. probeFilesystem(o) = ProbeOrder[CHOOSE i \in hits : \A j \in hits : i <= j]
    BY <2>3 DEF probeFilesystem
  <2> HIDE DEF hits
  <2>9. (CHOOSE i \in hits : \A j \in hits : i <= j) = m
    <3>1. m <= m
      BY <2>7
    <3>2. \E i \in hits : \A j \in hits : i <= j
      BY <2>3, <2>6, <3>1
    <3>3. (CHOOSE i \in hits : \A j \in hits : i <= j) \in hits
      BY <3>2
    <3> QED
      BY <2>6, <3>3
  <2>10. probeFilesystem(o) = fs
    BY <2>2, <2>8, <2>9
  <2> HIDE DEF o
  <2> QED
    BY <2>1, <2>10 DEF DetectFilesystem, NotFound
<1> QED
  BY <1>1, LayoutInvariant, PTL

\* At every moment `part print` lists exactly the partitions that detectPartOffset
\* opens, though the two have parsers of their own and the table may be half written.
THEOREM PrintAgrees == Spec => []PartPrintAgrees
<1>1. LayoutInv => PartPrintAgrees
  <2> SUFFICES ASSUME LayoutInv, Under2TiB PROVE PartPrintAgrees
    BY DEF PartPrintAgrees
  <2>1. ASSUME NEW p \in PartPrintFromImage
        PROVE  p.index \in -1..127 /\ detectPartOffset(p.index) = p.start /\ p.start > 0
    <3>1. CASE HasGPT
      <4>1. PICK i \in {j \in GptIndexes : gptEntry(j).used /\ ~(gptEntry(j).start = 0 /\ gptEntry(j).end = 0)} :
              p = [index |-> i, start |-> gptEntry(i).start, count |-> gptEntry(i).end - gptEntry(i).start + 1]
        BY <3>1 DEF PartPrintFromImage, parseGPT
      <4>2. i \in 0..127 /\ gptEntry(i).used /\ p.index = i /\ p.start = gptEntry(i).start
        BY <4>1 DEF GptIndexes
      <4>3. gptEntry(i).start = AlignedStart /\ AlignedStart > 0
        BY <4>2, GptEntries, SizedNumbers
      <4>4. detectPartOffset(i) = gptEntry(i).start
        BY <3>1, <4>2 DEF detectPartOffset, detectGPTOffset, gptEntrySize, GptIndexes
      <4> QED
        BY <4>2, <4>3, <4>4
    <3>2. CASE ~HasGPT
      <4>1. HasBootSignature /\ p \in parseMBR
        BY <3>2 DEF PartPrintFromImage
      <4>2. PICK i \in {j \in MbrIndexes : mbrEntry(j).start # 0 /\ mbrEntry(j).count # 0} :
              p = [index |-> i, start |-> mbrEntry(i).start, count |-> mbrEntry(i).count]
        BY <4>1 DEF parseMBR
      <4>3. i \in 0..3 /\ mbrEntry(i).start # 0 /\ p.index = i /\ p.start = mbrEntry(i).start
        BY <4>2 DEF MbrIndexes
      <4>4. mbrEntry(i).start \in Nat /\ mbrEntry(i).start > 0
        BY <4>3, MbrEntries
      <4>5. detectMBROffset(i) = mbrEntry(i).start
        BY <4>3 DEF detectMBROffset, MbrIndexes
      <4>6. detectPartOffset(i) = mbrEntry(i).start
        BY <3>2, <4>1, <4>4, <4>5 DEF detectPartOffset
      <4> QED
        BY <4>3, <4>4, <4>6
    <3> QED
      BY <3>1, <3>2
  <2>2. ASSUME NEW j \in -1..127, detectPartOffset(j) > 0
        PROVE  \E p \in PartPrintFromImage : p.index = j /\ p.start = detectPartOffset(j)
    <3>1. CASE HasGPT
      <4>1. detectGPTOffset(j) > 0 /\ detectPartOffset(j) = detectGPTOffset(j)
        BY <2>2, <3>1 DEF detectPartOffset
      <4>2. j \in GptIndexes /\ gptEntry(j).used /\ detectPartOffset(j) = gptEntry(j).start
        BY <4>1 DEF detectGPTOffset, gptEntrySize, NotFound
      <4>3. gptEntry(j).end # 0
        BY <4>2, GptEntries, SizedNumbers
      <4> DEFINE p == [index |-> j, start |-> gptEntry(j).start, count |-> gptEntry(j).end - gptEntry(j).start + 1]
      <4>4. p \in PartPrintFromImage
        BY <3>1, <4>2, <4>3 DEF PartPrintFromImage, parseGPT
      <4>5. p.index = j /\ p.start = gptEntry(j).start
        OBVIOUS
      <4> HIDE DEF p
      <4> QED
        BY <4>2, <4>4, <4>5
    <3>2. CASE ~HasGPT
      <4>1. HasBootSignature /\ detectMBROffset(j) > 0 /\ detectPartOffset(j) = detectMBROffset(j)
        BY <2>2, <3>2 DEF detectPartOffset
      <4>2. j \in MbrIndexes /\ mbrEntry(j).start # 0 /\ detectPartOffset(j) = mbrEntry(j).start
        BY <4>1 DEF detectMBROffset, NotFound
      <4>3. mbrEntry(j).count # 0
        BY <4>2, MbrEntries
      <4> DEFINE p == [index |-> j, start |-> mbrEntry(j).start, count |-> mbrEntry(j).count]
      <4>4. p \in PartPrintFromImage
        BY <3>2, <4>1, <4>2, <4>3 DEF PartPrintFromImage, parseMBR
      <4>5. p.index = j /\ p.start = mbrEntry(j).start
        OBVIOUS
      <4> HIDE DEF p
      <4> QED
        BY <4>2, <4>4, <4>5
    <3> QED
      BY <3>1, <3>2
  <2>3. {<<p.index, p.start>> : p \in PartPrintFromImage}
          = {<<i, detectPartOffset(i)>> : i \in {j \in -1..127 : detectPartOffset(j) > 0}}
    BY <2>1, <2>2
  <2> QED
    BY <2>3 DEF PartPrintAgrees
<1> QED
  BY <1>1, LayoutInvariant, PTL
==============================================================================
