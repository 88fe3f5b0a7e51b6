------------------------------ MODULE ZfsLabel ------------------------------
(***************************************************************************)
(* The zpool and zfs commands look up the pool's name before they do         *)
(* anything else: they read the name/value list of a vdev label from the     *)
(* image file and go through it pair by pair (parseLabelNVList and           *)
(* parseNVPair), and fall back on the name of the file.  With that name they  *)
(* turn a dataset into a path.                                               *)
(*                                                                          *)
(* Offsets and lengths are the code's own, in bytes.  The bytes are not kept: *)
(* a label is the list of its pairs, and a field that is read has the value   *)
(* its pair gives it, or any value at all where the label is damaged or the   *)
(* parser reads at the wrong place.  That is exact as long as no byte is read *)
(* twice, which ReadsInOrder checks.  An int has more than 32 bits.           *)
(***************************************************************************)
EXTENDS Naturals, Sequences, FiniteSetsExt

CONSTANTS
  Names,      \* names of pools and datasets
  EmptyName,
  NoName,
  BaseNames,  \* names the image file may have (path.Base)
  Labels,     \* the name/value lists considered, sequences of pairs
  ReadLens,   \* how many bytes ReadAt may deliver
  Words,      \* what a length in a damaged label may be
  Types,      \* what a type in a damaged label may be
  Counts,     \* what a number of elements in a damaged label may be
  Datasets,   \* arguments of the commands, split at the slashes
  Faults      \* a subset of {"io", "damage"}

String == 14  \* DATA_TYPE_STRING
Uint64 == 11  \* DATA_TYPE_UINT64
Nested == 19  \* DATA_TYPE_NVLIST: a list of its own, with keys of its own

\* A pair: is its key "name", how long is the key, the type and number of
\* elements, the length of the data behind them, and the value.
PairRecords ==
  [named : BOOLEAN, nameLen : Nat \ {0}, typ : {String, Uint64, Nested}, nelem : Nat,
   dataLen : Nat, val : Names \cup {EmptyName}]

ASSUME LabelAssumption ==
  /\ Labels \subseteq Seq(PairRecords)
  \* An uint64 has one element, of eight bytes.
  /\ \A l \in Labels : \A k \in 1..Len(l) :
       l[k].typ = Uint64 => l[k].nelem >= 1 /\ l[k].dataLen >= 8
  /\ ReadLens \subseteq Nat
  /\ Words \cup Types \cup Counts \subseteq Nat
  /\ Datasets \subseteq Seq(Names) \ {<<>>}
  /\ BaseNames \subseteq Names
  /\ EmptyName \notin Names
  /\ NoName \notin Names \cup {EmptyName}
  /\ Faults \subseteq {"io", "damage"}

VARIABLES
  label,    \* the list in the image
  base,     \* the name of the image file
  pc,
  n,        \* how many bytes ReadAt delivered
  off,      \* the locals of parseLabelNVList
  pairLen,
  pos, typ, nelem,  \* those of parseNVPair: how far it is, and what it read
  found,    \* res["name"], a sequence of names: what it says may have slashes
  pool,     \* poolName
  answer,   \* what the command did: "none", "shown", "created", "refused", "absent"
  dataset,  \* its argument
  at,       \* history: the number of the pair that begins at off, while intact
  damaged,  \* history: a field did not have the value its pair gives it
  reads,    \* history: the bytes [from, to) read in the last step
  behind,   \* history: the end of all that was read in earlier steps
  last      \* history: the last dataset "zfs create" confirmed, and its path

vars == <<label, base, pc, n, off, pairLen, pos, typ, nelem, found, pool, answer,
          dataset, at, damaged, reads, behind, last>>

\* Where the parser looks for the first pair.
Header == 16
NoDataset == <<>>
NoPath == <<NoName>>

Init ==
  /\ label \in Labels
  /\ base \in BaseNames
  /\ pc = "idle"
  /\ n = 0 /\ off = 0 /\ pairLen = 0 /\ pos = 0 /\ typ = 0 /\ nelem = 0
  /\ found = <<>> /\ pool = <<>>
  /\ answer = "none" /\ dataset = NoDataset
  /\ at = 1 /\ damaged = FALSE
  /\ reads = {} /\ behind = 0
  /\ last = [dataset |-> NoDataset, path |-> NoPath]

-----------------------------------------------------------------------------
(* The format, as zfs writes it (XDR): everything is padded to four bytes. *)

\* An outer and an inner header of eight bytes each are in front of the pairs.
ListStart == 8 + 8

RoundUp(k) == ((k + 3) \div 4) * 4

\* encoded size, decoded size, length of the key, key, type, nelem, data
DataBytes(p) == IF p.typ = String THEN 4 + RoundUp(p.dataLen) ELSE p.dataLen
EncodedBytes(p) == 8 + 4 + RoundUp(p.nameLen) + 8 + DataBytes(p)

Intact == ~damaged /\ at <= Len(label)
Now == label[at]
NowEncoded == IF at <= Len(label) THEN EncodedBytes(Now) ELSE 0

\* Four bytes are read that hold w if the label is intact and the parser is where
\* it should be (right): what they may be, and whether that is damage.
Field(right, w, any) ==
  (IF right THEN {w} ELSE {})
  \cup (IF "damage" \in Faults \/ ~right THEN any ELSE {})
Notes(right, same) == damaged' = (damaged \/ (right /\ ~same))

\* Where the reads of all steps so far end.
Passed == Max({behind} \cup {w[2] : w \in reads})

-----------------------------------------------------------------------------
(* parseLabelNVList *)

\* OpenZFS, without which there is no command; then os.Open and ReadAt at the
\* label's offset.  Without any bytes, or with less than the two headers, there is
\* no list to parse.
ReadLabel ==
  /\ pc = "idle"
  /\ \/ /\ n' \in ReadLens
        /\ pc' = IF n' < Header THEN "pool" ELSE "pair"
        /\ off' = Header
        /\ UNCHANGED answer
     \/ /\ "io" \in Faults
        /\ pc' = "done"
        /\ answer' = "refused"
        /\ UNCHANGED <<n, off>>
  /\ UNCHANGED <<label, base, pairLen, pos, typ, nelem, found, pool, dataset, at,
                 damaged, reads, behind, last>>

\* Mutant: a pair may reach beyond what was read.
PairFits_Anyhow(len) == len > 0

PairFits(len) == len > 0 /\ off + 8 + len <= n

\* The encoded size of the next pair.  Parsing ends at a zero, at the end of what
\* was read, and at a pair that does not fit.
PairHeader ==
  /\ pc = "pair"
  /\ \/ /\ off + 8 > n
        /\ pc' = "pool"
        /\ UNCHANGED <<pairLen, damaged, reads, behind>>
     \/ /\ off + 8 <= n
        /\ \E encoded \in Field(~damaged, NowEncoded, Words) :
             /\ Notes(TRUE, encoded = NowEncoded)
             /\ pairLen' = IF encoded < 8 THEN 0 ELSE encoded - 8
             /\ pc' = IF encoded # 0 /\ PairFits(pairLen') THEN "name" ELSE "pool"
        /\ reads' = {<<off, off + 4>>}
        /\ behind' = Passed
  /\ pos' = 0
  /\ UNCHANGED <<label, base, n, off, typ, nelem, found, pool, answer, dataset, at, last>>

\* The end of the loop's body: off moves on, whatever parseNVPair made of the pair.
NextPair ==
  /\ off' = off + 8 + pairLen
  /\ at' = IF Intact THEN at + 1 ELSE at
  /\ pos' = 0 /\ typ' = 0 /\ nelem' = 0
  /\ pc' = "pair"

-----------------------------------------------------------------------------
(* parseNVPair: positions are counted from the start of its slice. *)

\* The bytes read in a step.
Reads(windows) ==
  /\ reads' = {<<off + 8 + w[1], off + 8 + w[2]>> : w \in windows}
  /\ behind' = Passed

GiveUp == NextPair /\ UNCHANGED found

\* Mutant: the key's padding is forgotten.
Pad_None(k) == 0

Pad(k) == (4 - (k % 4)) % 4

\* The key, without the zero byte at its end.
PairName ==
  /\ pc = "name"
  /\ \/ /\ pairLen < 4
        /\ Reads({}) /\ GiveUp
        /\ UNCHANGED damaged
     \/ /\ pairLen >= 4
        /\ \E nameLen \in Field(Intact, IF Intact THEN Now.nameLen ELSE 0, Words) :
             /\ Notes(Intact, Intact => nameLen = Now.nameLen)
             /\ \/ /\ 4 + nameLen > pairLen
                   /\ Reads({<<0, 4>>}) /\ GiveUp
                \/ /\ 4 + nameLen <= pairLen
                   /\ Reads({<<0, 4>>, <<4, 4 + nameLen>>})
                   /\ pos' = 4 + nameLen + Pad(nameLen)
                   /\ pc' = "type"
                   /\ UNCHANGED <<off, at, typ, nelem, found>>
  /\ UNCHANGED <<label, base, n, pairLen, pool, answer, dataset, last>>

\* Is the parser at the type, at the data, of an intact pair?
AtType == Intact /\ pos = 4 + RoundUp(Now.nameLen)
AtData == Intact /\ pos = 12 + RoundUp(Now.nameLen)

\* The type and the number of elements.
PairType ==
  /\ pc = "type"
  /\ \/ /\ pos + 8 > pairLen
        /\ Reads({}) /\ GiveUp
        /\ UNCHANGED damaged
     \/ /\ pos + 8 <= pairLen
        /\ Reads({<<pos, pos + 8>>})
        /\ typ' \in Field(AtType, IF AtType THEN Now.typ ELSE 0, Types)
        /\ nelem' \in Field(AtType, IF AtType THEN Now.nelem ELSE 0, Counts)
        /\ Notes(AtType, AtType => typ' = Now.typ /\ nelem' = Now.nelem)
        /\ pos' = pos + 8
        /\ pc' = "value"
        /\ UNCHANGED <<off, at, found>>
  /\ UNCHANGED <<label, base, n, pairLen, pool, answer, dataset, last>>

\* res[name] = val.  Only the key "name" is ever looked up.  In a damaged pair it
\* may be any key, with any string.
Assigned(intact) ==
  IF ~intact THEN Datasets \cup {found, <<>>}
  ELSE {IF ~Now.named THEN found
        ELSE IF Now.val = EmptyName THEN <<>> ELSE <<Now.val>>}

PairString ==
  /\ pc = "value" /\ typ = String
  /\ \/ /\ pos + 4 > pairLen
        /\ Reads({}) /\ GiveUp
        /\ UNCHANGED damaged
     \/ /\ pos + 4 <= pairLen
        /\ \E strLen \in Field(AtData, IF AtData THEN Now.dataLen ELSE 0, Words) :
             LET same == AtData /\ strLen = Now.dataLen
             IN /\ Notes(AtData, same)
                /\ \/ /\ pos + 4 + strLen > pairLen
                      /\ Reads({<<pos, pos + 4>>}) /\ GiveUp
                   \/ /\ pos + 4 + strLen <= pairLen
                      /\ Reads({<<pos, pos + 4>>, <<pos + 4, pos + 4 + strLen>>})
                      /\ found' \in Assigned(same)
                      /\ NextPair
  /\ UNCHANGED <<label, base, n, pairLen, pool, answer, dataset, last>>

PairUint64 ==
  /\ pc = "value" /\ typ = Uint64
  /\ \/ /\ nelem >= 1 /\ pos + 8 <= pairLen
        /\ Reads({<<pos, pos + 8>>})
        /\ found' \in Assigned(AtData)
        /\ NextPair
     \/ /\ ~(nelem >= 1 /\ pos + 8 <= pairLen)
        /\ Reads({}) /\ GiveUp
  /\ UNCHANGED <<label, base, n, pairLen, pool, answer, dataset, damaged, last>>

\* Mutant: a pair of a type that is not known is waited upon.
PairOther_Stays ==
  /\ pc = "value" /\ typ \notin {String, Uint64}
  /\ UNCHANGED vars

\* A nested list and everything else is passed over.
PairOther ==
  /\ pc = "value" /\ typ \notin {String, Uint64}
  /\ Reads({}) /\ GiveUp
  /\ UNCHANGED <<label, base, n, pairLen, pool, answer, dataset, damaged, last>>

-----------------------------------------------------------------------------
(* The commands *)

\* Mutant: a label without a name gives an empty pool name.
poolName_NoFallback == found

\* The name in the label, or that of the file.
poolName == IF found = <<>> THEN <<base>> ELSE found

PoolName ==
  /\ pc = "pool"
  /\ pool' = poolName
  /\ pc' = "run"
  /\ off' = 0 /\ pairLen' = 0 /\ at' = 1 /\ behind' = 0 /\ reads' = {}
  /\ UNCHANGED <<label, base, n, pos, typ, nelem, found, answer, dataset, damaged, last>>

\* The command prints, and its process ends.
Answer(a, d) ==
  /\ pc = "run"
  /\ answer' = a /\ dataset' = d
  /\ pc' = "done"
  /\ n' = 0 /\ found' = <<>> /\ pool' = <<>>
  /\ UNCHANGED <<label, base, off, pairLen, pos, typ, nelem, at, damaged, reads, behind>>

ZpoolStatusFromImage == Answer("shown", NoDataset) /\ UNCHANGED last

ZfsListFromImage == Answer("shown", NoDataset) /\ UNCHANGED last

\* The path of a dataset for zfs get and set: the pool itself is the root, and the
\* pool's name, or any other first part, is taken off.
startPath(d) ==
  IF d = pool THEN <<>>
  ELSE IF Len(pool) < Len(d) /\ SubSeq(d, 1, Len(pool)) = pool
    THEN SubSeq(d, Len(pool) + 1, Len(d))
  ELSE IF Len(d) > 1 THEN Tail(d)
  ELSE d

\* Mutant: the pool's name stays in the path.
dsPath_KeepsPool(d) == d

\* The path of a dataset for zfs create.
dsPath(d) == IF Len(d) > 1 THEN Tail(d) ELSE d

\* Prefixes of the path that zfs create made are there; of other paths nothing is
\* known.
Exists(path) == last.path # NoPath /\ \E k \in 0..Len(last.path) : path = SubSeq(last.path, 1, k)

ZfsGetQuotaFromImage ==
  \E d \in Datasets : Answer("shown", d) /\ UNCHANGED last

\* Nothing is set: the dataset only has to be there.
ZfsSetQuotaFromImage ==
  \E d \in Datasets :
    /\ \/ Answer("shown", d)
       \/ ~Exists(startPath(d)) /\ startPath(d) # <<>> /\ Answer("absent", d)
    /\ UNCHANGED last

\* Another pool's dataset is refused; MkDir may fail.
ZfsCreateFromImage ==
  \E d \in Datasets :
    \/ /\ Len(d) > 1 => <<d[1]>> = pool
       /\ Answer("created", d)
       /\ last' = [dataset |-> d, path |-> dsPath(d)]
    \/ /\ (Len(d) > 1 /\ <<d[1]>> # pool) \/ "io" \in Faults
       /\ Answer("refused", d)
       /\ UNCHANGED last

\* The next command starts afresh; by then the file may have another name.
Return ==
  /\ pc = "done"
  /\ pc' = "idle"
  /\ base' \in BaseNames
  /\ damaged' = FALSE
  /\ answer' = "none" /\ dataset' = NoDataset
  /\ UNCHANGED <<label, n, off, pairLen, pos, typ, nelem, found, pool, at, reads,
                 behind, last>>

Work ==
  \/ PairHeader \/ PairName \/ PairType \/ PairString \/ PairUint64 \/ PairOther
  \/ PoolName
  \/ ZpoolStatusFromImage \/ ZfsListFromImage \/ ZfsGetQuotaFromImage
  \/ ZfsSetQuotaFromImage \/ ZfsCreateFromImage

Next == ReadLabel \/ Work \/ Return

\* A command that was begun goes on.
Spec == Init /\ [][Next]_vars /\ WF_vars(Work)

-----------------------------------------------------------------------------
(* Properties *)

Strings == Datasets \cup {<<x>> : x \in Names} \cup {<<>>}

TypeOK ==
  /\ pc \in {"idle", "pair", "name", "type", "value", "pool", "run", "done"}
  /\ n \in ReadLens \cup {0}
  /\ off \in Nat /\ pairLen \in Nat /\ pos \in Nat
  /\ found \in Strings
  /\ pc = "run" => pool \in Strings \ {<<>>}
  /\ answer \in {"none", "shown", "created", "refused", "absent"}
  /\ last.dataset \in Datasets \cup {NoDataset}

\* Whatever the label holds, the parser stays within the bytes that were read and
\* within the pair it is at, and reads every byte at most once, from left to right.
ReadsInOrder ==
  LET limit == CASE pc = "pair" -> off
                 [] pc \in {"type", "value"} -> off + 8 + pairLen
                 [] OTHER -> n
  IN \A w \in reads :
       /\ behind <= w[1] /\ w[1] <= w[2] /\ w[2] <= limit /\ limit <= n
       /\ \A v \in reads : v = w \/ v[2] <= w[1] \/ w[2] <= v[1]

\* Reference: the pairs of the label that were read in full, and the pool's name by
\* the last of them that is called "name".
Ends ==
  LET f[k \in 0..Len(label)] == IF k = 0 THEN ListStart ELSE f[k - 1] + EncodedBytes(label[k])
  IN f
NamePairs ==
  {k \in 1..Len(label) : Ends[k] <= n /\ label[k].named /\ label[k].typ \in {String, Uint64}}
NameInLabel ==
  IF NamePairs = {} THEN EmptyName
  ELSE label[CHOOSE k \in NamePairs : \A l \in NamePairs : l <= k].val

\* From an intact label, of which any part could be read, the commands get the
\* pool's name if it was in that part, and the file's name if not: padding, pairs of
\* other types and nested lists do not throw the parser off.
PoolNameFound ==
  pc = "run" /\ ~damaged =>
    pool = IF NameInLabel = EmptyName THEN <<base>> ELSE <<NameInLabel>>

\* A dataset that zfs create confirmed is not "not found" for zfs set quota, though
\* the two split the argument differently, and though the file may have been renamed
\* and more or less of the label been read since.
ConfirmedIsFound ==
  pc = "done" /\ answer = "absent" /\ ~damaged => dataset # last.dataset

\* Every command returns: the offset moves on whatever a pair holds.
LookupReturns == (pc \notin {"idle", "done"}) ~> (pc = "done")
=============================================================================
