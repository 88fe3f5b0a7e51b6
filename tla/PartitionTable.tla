--------------------------- MODULE PartitionTable ---------------------------
(***************************************************************************)
(* How createRaw lays out a raw image (create.go, partitions.go) and what  *)
(* DetectFilesystem (detect.go) and `exec part print` (exec_cmd_part.go)   *)
(* make of it, at every moment of the creation: a step can fail or the     *)
(* process die half way through a write, and readers take no lock.         *)
(*                                                                         *)
(* The image is an array of sectors; each says which region it belongs to  *)
(* and which sector of that region it is.  The numbers of the code (512    *)
(* byte sectors, the 2048-sector start, 4096-byte alignment, 32 sectors of *)
(* GPT entries, 2^32) are constants, so that small ones can be checked.    *)
(***************************************************************************)
EXTENDS Integers, Sequences, FiniteSets

CONSTANTS
  Sector,        \* sectorSize in bytes
  AlignedStart,  \* alignedStart, firstSector, partStart, in sectors
  FsAlign,       \* what createRaw aligns the partition size to, in bytes
  EntrySectors,  \* entriesSize / sectorSize
  U32,           \* 2^32
  Sizes,         \* CreateOptions.SizeBytes
  FsChoices,     \* the filesystems asked for
  Magic,         \* Magic[f]: the sector of f's region that its magic is in
  RingStart,     \* the first sector of the ZFS uberblock ring
  RingSlots,     \* its slots
  SlotSectors,   \* zfsUberblockSlotSize in sectors
  Faults         \* what may go wrong, a subset of {"io"}

ASSUME LayoutAssumption ==
  /\ Sector \in Nat \ {0}
  /\ EntrySectors \in Nat \ {0}
  /\ AlignedStart \in Nat
  /\ AlignedStart >= EntrySectors + 2
  /\ FsAlign \in Nat \ {0}
  /\ FsAlign % Sector = 0
  /\ U32 \in Nat
  /\ U32 > AlignedStart
  /\ Sizes \subseteq Nat
  /\ Magic \in [FsChoices \ {"none", "zfs"} -> Nat]
  /\ RingStart \in Nat
  /\ RingSlots \in Nat \ {0}
  /\ SlotSectors \in Nat \ {0}

VARIABLES
  size,    \* CreateOptions.SizeBytes
  scheme,  \* CreateOptions.Partition
  fs,      \* CreateOptions.Filesystem
  slot,    \* the slot of the ring the ZFS formatter uses
  disk,    \* what each whole sector of the image holds
  pc,      \* where createRaw is
  at,      \* the next region it writes
  res      \* its result

vars == <<size, scheme, fs, slot, disk, pc, at, res>>

------------------------------------------------------------------------------
(* Layout arithmetic, shared by createRaw, writeMBR and writeGPT *)

\* Go's remainder of a negative n differs, but the result is <= 0 in both cases.
alignDown(n, align) == n - (n % align)

totalSectors == size \div Sector
backupHeaderLBA == totalSectors - 1
backupEntriesLBA == backupHeaderLBA - EntrySectors
\* Mutant: the partition ends one sector early.
lastUsable_OneShort == backupEntriesLBA - 2

lastUsable == backupEntriesLBA - 1

\* writeMBR counts sectors in a uint32.
mbrSectors == totalSectors % U32
mbrPartSectors == mbrSectors - AlignedStart

partOffset == IF scheme = "none" THEN 0 ELSE AlignedStart * Sector

\* Mutant: room is left for the backup entries but not for the backup header.
partSize_NoHeader ==
  alignDown(size - partOffset - IF scheme = "gpt" THEN EntrySectors * Sector ELSE 0, FsAlign)

\* What createRaw gives the formatter: the rest of the image, less the backup
\* entries and header of a GPT (33 sectors).
partSize ==
  CASE scheme = "none" -> size
    [] scheme = "mbr"  -> alignDown(size - partOffset, FsAlign)
    [] scheme = "gpt"  -> alignDown(size - partOffset - (EntrySectors + 1) * Sector, FsAlign)

\* A run of sectors of one region.
Region(what, lba, n) == [what |-> what, lba |-> lba, n |-> n]

\* The one write of writeMBR, the five of writeGPT in their order.
writeMBR == <<Region("mbr", 0, 1)>>
writeGPT ==
  << Region("pmbr", 0, 1),
     Region("header", 1, 1),
     Region("entries", 2, EntrySectors),
     Region("backup entries", backupEntriesLBA, EntrySectors),
     Region("backup header", backupHeaderLBA, 1) >>

tableWrites ==
  CASE scheme = "mbr" -> writeMBR
    [] scheme = "gpt" -> writeGPT
    [] OTHER          -> <<>>

\* io.Copy of the formatted filesystem to the partition.
spliceWrite == Region("fs", partOffset \div Sector, partSize \div Sector)

\* Mutant: the filesystem is written before the table.
writes_FsFirst == (IF fs = "none" THEN <<>> ELSE <<spliceWrite>>) \o tableWrites

\* createRaw writes the table first, then the filesystem if there is one.
writes == tableWrites \o IF fs = "none" THEN <<>> ELSE <<spliceWrite>>

------------------------------------------------------------------------------
LBAs == 0..(totalSectors - 1)
Zero == [what |-> "zero", k |-> 0]
Contents == [what : {"zero", "mbr", "pmbr", "header", "entries", "backup entries",
                     "backup header", "fs"}, k : Nat]
Schemes == {"none", "mbr", "gpt"}

TypeOK ==
  /\ size \in Sizes
  /\ scheme \in Schemes
  /\ fs \in FsChoices
  /\ slot \in 0..(RingSlots - 1)
  /\ disk \in [LBAs -> Contents]
  /\ pc \in {"start", "write", "done"}
  /\ at \in 1..(Len(writes) + 1)
  /\ res \in {"nil", "err"}

\* The sector, counted from the start of the filesystem, that holds its magic.
MagicSector == IF fs = "zfs" THEN RingStart + slot * SlotSectors ELSE Magic[fs]

\* createRaw has just truncated the file to its size.
Init ==
  /\ size \in Sizes
  /\ scheme \in Schemes
  /\ fs \in FsChoices
  /\ slot \in 0..(IF fs = "zfs" THEN RingSlots - 1 ELSE 0)
  /\ disk = [l \in LBAs |-> Zero]
  /\ pc = "start"
  /\ at = 1
  /\ res = "err"

\* The switch on the partition scheme and the size test of writeMBR.
CheckSize ==
  /\ pc = "start"
  /\ pc' = IF \/ scheme # "none" /\ partSize <= 0
              \/ scheme = "mbr" /\ mbrSectors < AlignedStart + 1
             THEN "done" ELSE "write"
  /\ UNCHANGED <<size, scheme, fs, slot, disk, at, res>>

\* The first n sectors of region w are written.
Put(w, n) ==
  disk' = [l \in LBAs |-> IF l \in w.lba..(w.lba + n - 1)
                            THEN [what |-> w.what, k |-> l - w.lba]
                            ELSE disk[l]]

\* The formatter refuses a partition that cannot hold its superblock.
Formats(w) == w.what = "fs" => MagicSector < w.n

\* Mutant: the loop over the writes skips every second one.
WriteRegion_Skips ==
  /\ pc = "write"
  /\ at <= Len(writes)
  /\ Put(writes[at], writes[at].n)
  /\ at' = at + 2
  /\ UNCHANGED <<size, scheme, fs, slot, pc, res>>

WriteRegion ==
  /\ pc = "write"
  /\ at <= Len(writes)
  /\ Formats(writes[at])
  /\ Put(writes[at], writes[at].n)
  /\ at' = at + 1
  /\ UNCHANGED <<size, scheme, fs, slot, pc, res>>

\* A write stops half way: an I/O error, a formatter error or a crash.
WriteFails ==
  /\ pc = "write"
  /\ at <= Len(writes)
  /\ \/ /\ "io" \in Faults
        /\ \E n \in 0..(writes[at].n - 1) : Put(writes[at], n)
     \/ /\ ~Formats(writes[at])
        /\ UNCHANGED disk
  /\ pc' = "done"
  /\ UNCHANGED <<size, scheme, fs, slot, at, res>>

Return ==
  /\ pc = "write"
  /\ at > Len(writes)
  /\ pc' = "done"
  /\ res' = "nil"
  /\ UNCHANGED <<size, scheme, fs, slot, disk, at>>

Next == CheckSize \/ WriteRegion \/ WriteFails \/ Return

Spec == Init /\ [][Next]_vars

------------------------------------------------------------------------------
(* Reading the table back *)

NotFound == -1
Holds(l, what, k) == l \in LBAs /\ disk[l] = [what |-> what, k |-> k]

\* The partition entries of sector 0: the MBR's own, the protective one (whose
\* count is a uint32 too), or the zeroes of a boot sector or an empty image.
mbrEntry(i) ==
  CASE i = 0 /\ Holds(0, "mbr", 0)  -> [start |-> AlignedStart, count |-> mbrPartSectors]
    [] i = 0 /\ Holds(0, "pmbr", 0) -> [start |-> 1, count |-> (totalSectors - 1) % U32]
    [] OTHER                        -> [start |-> 0, count |-> 0]

\* The GPT entries, which the primary header places at sector 2.
gptEntry(i) ==
  IF i = 0 /\ Holds(2, "entries", 0)
    THEN [used |-> TRUE, start |-> AlignedStart, end |-> lastUsable]
    ELSE [used |-> FALSE, start |-> 0, end |-> 0]

MbrIndexes == 0..3
GptIndexes == 0..127

HasGPT == Holds(1, "header", 0)

\* 0x55AA at the end of sector 0; FAT and exFAT boot sectors have it too.
HasBootSignature ==
  \/ Holds(0, "mbr", 0)
  \/ Holds(0, "pmbr", 0)
  \/ Holds(0, "fs", 0) /\ fs \in {"fat32", "exfat"}

\* The entry size that writeGPT puts into the header.
gptEntrySize == 128

\* Mutant: the partition index counts from one.
detectGPTOffset_FromOne(i) ==
  IF gptEntrySize >= 128 /\ (i - 1) \in GptIndexes /\ gptEntry(i - 1).used
    THEN gptEntry(i - 1).start ELSE NotFound

\* A header with smaller entries is refused; an unused entry is passed over.
detectGPTOffset(i) ==
  IF gptEntrySize >= 128 /\ i \in GptIndexes /\ gptEntry(i).used
    THEN gptEntry(i).start ELSE NotFound

detectMBROffset(i) ==
  IF i \in MbrIndexes /\ mbrEntry(i).start # 0 THEN mbrEntry(i).start ELSE NotFound

\* In sectors, or NotFound.  Without a usable MBR entry the image is bare.
detectPartOffset(i) ==
  CASE HasGPT                                    -> detectGPTOffset(i)
    [] ~HasGPT /\ HasBootSignature
         /\ detectMBROffset(i) > 0               -> detectMBROffset(i)
    [] OTHER                                     -> 0

\* The order of the tests of probeFilesystem.
ProbeOrder == <<"ntfs", "apfs", "exfat", "xfs", "ext4", "fat32", "btrfs", "zfs">>

\* Mutant: only the first slot of the ring is looked at.
detectZFSUberblock_FirstSlot(off) ==
  fs = "zfs" /\ Holds(off + RingStart, "fs", MagicSector)

\* Every slot is looked at until a read fails.
detectZFSUberblock(off) ==
  \E s \in 0..(RingSlots - 1) :
    fs = "zfs" /\ Holds(off + RingStart + s * SlotSectors, "fs", MagicSector)

MagicAt(f, off) ==
  \/ f = "zfs" /\ detectZFSUberblock(off)
  \/ f # "zfs" /\ f = fs /\ Holds(off + MagicSector, "fs", MagicSector)

probeFilesystem(off) ==
  LET hits == {i \in 1..Len(ProbeOrder) : MagicAt(ProbeOrder[i], off)}
  IN  IF hits = {} THEN "unknown"
      ELSE ProbeOrder[CHOOSE i \in hits : \A j \in hits : i <= j]

DetectFilesystem(i) ==
  IF detectPartOffset(i) = NotFound THEN "unknown" ELSE probeFilesystem(detectPartOffset(i))

\* The rows of `exec part print`, which does not test the entry size and skips an
\* entry that has neither a start nor an end.
parseGPT ==
  {[index |-> i, start |-> gptEntry(i).start, count |-> gptEntry(i).end - gptEntry(i).start + 1] :
     i \in {j \in GptIndexes : gptEntry(j).used /\ ~(gptEntry(j).start = 0 /\ gptEntry(j).end = 0)}}
parseMBR ==
  {[index |-> i, start |-> mbrEntry(i).start, count |-> mbrEntry(i).count] :
     i \in {j \in MbrIndexes : mbrEntry(j).start # 0 /\ mbrEntry(j).count # 0}}
PartPrintFromImage ==
  IF HasGPT THEN parseGPT ELSE IF HasBootSignature THEN parseMBR ELSE {}

------------------------------------------------------------------------------
(* Properties *)

Created == pc = "done" /\ res = "nil"
Detectable == \E i \in 1..Len(ProbeOrder) : ProbeOrder[i] = fs
Under2TiB == totalSectors < U32

\* No write of createRaw, writeMBR or writeGPT falls outside the image or on
\* what an earlier one wrote: when Create returns nil every region is there in
\* full, the backup GPT behind the filesystem included.
RegionsIntact ==
  Created =>
    \A i \in 1..Len(writes) : \A k \in 0..(writes[i].n - 1) :
      Holds(writes[i].lba + k, writes[i].what, k)

FilesystemInPartition ==
  Created /\ fs # "none" /\ scheme # "none" =>
    \E p \in PartPrintFromImage :
      /\ p.start = spliceWrite.lba
      /\ spliceWrite.n <= p.count

\* The partition of the table covers the filesystem that was put there, for
\* images whose sectors a uint32 can count (createRaw and writeMBR/writeGPT
\* compute the two sizes independently).
PartitionCoversFilesystem == Under2TiB => FilesystemInPartition

\* The same for the sizes the command line offers ("Image size, e.g. 10G, 512M,
\* 2T") with `--part mbr`: the table describes the image.
AnySizeCovered == FilesystemInPartition

\* What Create made, DetectFilesystem finds, in the partition it is in, whatever
\* slot of the uberblock ring a ZFS pool started with.
CreateThenDetect == Created /\ Detectable => DetectFilesystem(0) = fs

\* A reader that looks while Create is running, or after it failed or crashed,
\* finds no filesystem before the whole partition table is in place.
DetectedMeansTabled ==
  \A i \in -1..4 : DetectFilesystem(i) # "unknown" =>
    \A j \in 1..Len(tableWrites) : \A k \in 0..(tableWrites[j].n - 1) :
      Holds(tableWrites[j].lba + k, tableWrites[j].what, k)

\* The two parsers of partition tables agree at every moment, half-written
\* tables included: `part print` lists exactly the partitions that
\* detectPartOffset opens.
PartPrintAgrees ==
  Under2TiB =>
    {<<p.index, p.start>> : p \in PartPrintFromImage}
      = {<<i, detectPartOffset(i)>> : i \in {j \in -1..127 : detectPartOffset(j) > 0}}
=============================================================================
