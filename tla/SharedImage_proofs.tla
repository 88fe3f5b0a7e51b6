------------------------- MODULE SharedImage_proofs -------------------------
(***************************************************************************)
(* For any number of processes that use one path at the same time: calls    *)
(* that may run together leave an image that opens, confirmed writes stay   *)
(* in it, a side file is left only by a process that died or a failed       *)
(* os.Remove, and none is published half written unless two shared it.      *)
(*                                                                          *)
(* BaseInv says where each process is and which files are in use; Solo,     *)
(* Kept and Sound say, each for calls that overlap in a permitted way, that *)
(* what a process found out about the image is still true when it acts.     *)
(***************************************************************************)
EXTENDS SharedImage, FiniteSetTheorems, TLAPS

-----------------------------------------------------------------------------
(* Calls and files *)

\* What a call's record holds.
LEMMA CallFields ==
  ASSUME NEW c \in Calls
  PROVE  /\ c.op \in {"convert", "write", "exec", "device", "resize", "create"}
         /\ c.op = "convert" => c.to \in Boxes
         /\ c.op = "create" => c.fs \in FsTypes /\ c.wrap \in BOOLEAN
<1>1. c \in CallRecords
  BY SharedAssumption
<1> QED
  BY <1>1 DEF CallRecords

\* The files the steps make are files.
LEMMA FileTypes ==
  /\ Empty \in Files /\ Unfilled \in Files
  /\ \A f \in Files, p \in Procs : \A g : Written(f, p, g) \in Files
  /\ \A f \in Files, b \in Boxes, w \in BOOLEAN :
       [f EXCEPT !.box = b, !.sum = TRUE, !.whole = w] \in Files
  /\ \A f \in Files, s \in BOOLEAN : [f EXCEPT !.sum = s] \in Files
  /\ \A f \in Files, w \in BOOLEAN : [f EXCEPT !.whole = w] \in Files
  /\ \A f \in Files, b \in Boxes : [f EXCEPT !.box = b] \in Files
<1>1. Empty \in Files /\ Unfilled \in Files
  BY DEF Empty, Unfilled, Files, Boxes
<1>2. ASSUME NEW f \in Files, NEW p \in Procs, NEW g PROVE Written(f, p, g) \in Files
  BY DEF Written, Files
<1>3. \A f \in Files, b \in Boxes, w \in BOOLEAN :
       [f EXCEPT !.box = b, !.sum = TRUE, !.whole = w] \in Files
  BY DEF Files
<1>4. \A f \in Files, s \in BOOLEAN : [f EXCEPT !.sum = s] \in Files
  BY DEF Files
<1>5. \A f \in Files, w \in BOOLEAN : [f EXCEPT !.whole = w] \in Files
  BY DEF Files
<1>6. \A f \in Files, b \in Boxes : [f EXCEPT !.box = b] \in Files
  BY DEF Files
<1> QED
  BY <1>1, <1>2, <1>3, <1>4, <1>5, <1>6

\* A damaged file is a file, which has lost some of its writes at most.
LEMMA DamagedFiles ==
  ASSUME NEW f \in Files, NEW g \in Damaged(f)
  PROVE  /\ g \in Files
         /\ g.box = f.box /\ g.fs = f.fs /\ g.gen = f.gen /\ g.sum = f.sum /\ g.whole = f.whole
<1> DEFINE lacking == {[f EXCEPT !.data = d] : d \in SUBSET f.data}
<1>1. ASSUME NEW h \in lacking
      PROVE  /\ h \in Files
             /\ h.box = f.box /\ h.fs = f.fs /\ h.gen = f.gen /\ h.sum = f.sum /\ h.whole = f.whole
  <2>1. PICK d \in SUBSET f.data : h = [f EXCEPT !.data = d]
    OBVIOUS
  <2>2. d \in SUBSET Procs
    BY DEF Files
  <2> QED
    BY <2>1, <2>2 DEF Files
<1>2. CASE g \in lacking
  BY <1>1, <1>2
<1>3. CASE \E h \in lacking : g = [h EXCEPT !.torn = TRUE]
  <2>1. PICK h \in lacking : g = [h EXCEPT !.torn = TRUE]
    BY <1>3
  <2>2. /\ h \in Files
        /\ h.box = f.box /\ h.fs = f.fs /\ h.gen = f.gen /\ h.sum = f.sum /\ h.whole = f.whole
    BY <1>1
  <2> HIDE DEF lacking
  <2> QED
    BY <2>1, <2>2 DEF Files
<1> QED
  BY <1>2, <1>3 DEF Damaged

-----------------------------------------------------------------------------
(* The base invariant *)

\* Where a conversion is under way.
Converting == {"read", "fill", "rename"}

\* The call a process is in, by where it is.
KindOf(l) ==
  CASE l \in {"read", "fill", "rename", "dead"} -> {"convert"}
    [] l \in {"detect", "apply"}                 -> {"write", "exec"}
    [] l = "pack"                                -> {"write", "resize"}
    [] l = "isudif"                              -> {"write", "device", "resize"}
    [] l = "open"                                -> {"write", "exec", "device"}
    [] l \in {"dwrite", "dclose", "refresh", "store"} -> {"device"}
    [] l \in {"truncate", "format", "wrap"}      -> {"create"}
    [] l = "resize"                              -> {"resize"}
    [] OTHER -> {"convert", "write", "exec", "device", "resize", "create"}

KindOK(p) ==
  /\ pc[p] = "idle" => loc[p] = NoLocals
  /\ pc[p] # "idle" => call[p] \in Calls /\ call[p].op \in KindOf(pc[p])
  /\ pc[p] = "read" => loc[p].ino = None
  /\ pc[p] = "pack" => loc[p].udif
  /\ pc[p] # "idle" /\ call[p].op = "exec" => ~loc[p].udif
Kinds == \A p \in Procs : KindOK(p)

\* Files that are or were in use: the first image, and one for each conversion.
First == CHOOSE i \in Inodes : TRUE
Took(p) == pc[p] \notin {"idle", "read"} /\ call[p].op = "convert"
Used == {First} \cup {loc[p].ino : p \in {q \in Procs : Took(q)}}
InUse ==
  /\ image \in Used
  /\ side \in Used \cup {None}
  /\ \A i \in Inodes : file[i] # Empty => i \in Used
  /\ \A p \in Procs : loc[p].ino \in Used \cup {None}

\* Two processes that are in a call at the same time are on record.
Overlaps ==
  \A p, q \in Active : p # q => {call[p].op, call[q].op} \in met

\* A process that is going to use a file has one.
Held == {"fill", "rename", "dwrite", "dclose", "refresh", "store"}
HasFileOK(p) ==
  pc[p] \in Held \/ (pc[p] = "apply" /\ ~loc[p].udif) => loc[p].ino \in Inodes
HasFile == \A p \in Procs : HasFileOK(p)

BaseInv == TypeOK /\ Kinds /\ HasFile /\ InUse /\ Overlaps

\* There is always a file left for a conversion.
LEMMA FreeInode ==
  ASSUME BaseInv, NEW p \in Procs, pc[p] = "read"
  PROVE  \E j \in Inodes : file[j] = Empty /\ j # image
<1> SUFFICES ASSUME \A j \in Inodes : file[j] # Empty \/ j = image PROVE FALSE
  OBVIOUS
<1>1. Inodes \subseteq Used
  BY DEF BaseInv, InUse
<1> DEFINE T == {q \in Procs : Took(q)}
           Got == {loc[q].ino : q \in T}
<1>2. T \subseteq Procs \ {p}
  BY DEF Took
<1>3. IsFiniteSet(Procs \ {p}) /\ Cardinality(Procs \ {p}) = Cardinality(Procs) - 1 /\ Cardinality(Procs) \in Nat
  BY SharedAssumption, FS_RemoveElement, FS_CardinalityType
<1>4. IsFiniteSet(T) /\ Cardinality(T) <= Cardinality(Procs) - 1 /\ Cardinality(T) \in Nat
  BY <1>2, <1>3, FS_Subset, FS_CardinalityType
<1>5. IsFiniteSet(Got) /\ Cardinality(Got) <= Cardinality(T) /\ Cardinality(Got) \in Nat
  <2> DEFINE f == [q \in T |-> loc[q].ino]
  <2>1. f \in Surjection(T, Got)
    BY DEF Surjection
  <2> QED
    BY <1>4, <2>1, FS_Surjection, FS_CardinalityType
<1>6. IsFiniteSet(Used) /\ Cardinality(Used) <= Cardinality(Got) + 1 /\ Cardinality(Used) \in Nat
  <2>1. Used = Got \cup {First}
    BY DEF Used
  <2> HIDE DEF Got
  <2>2. IsFiniteSet(Got \cup {First})
        /\ Cardinality(Got \cup {First}) <= Cardinality(Got) + 1
    <3>1. IsFiniteSet(Got \cup {First})
          /\ Cardinality(Got \cup {First}) =
               IF First \in Got THEN Cardinality(Got) ELSE Cardinality(Got) + 1
      BY <1>5, FS_AddElement
    <3> QED
      BY <1>5, <3>1
  <2> QED
    BY <2>1, <2>2, FS_CardinalityType
<1>7. Cardinality(Inodes) <= Cardinality(Used) /\ Cardinality(Inodes) \in Nat
  BY <1>1, <1>6, FS_Subset, FS_CardinalityType
<1> QED
  BY <1>3, <1>4, <1>5, <1>6, <1>7, SharedAssumption

\* ConvertUDIF either fails and takes the side file away, or begins to fill it.
LEMMA ReadForms ==
  ASSUME BaseInv, NEW p \in Procs, ReadSource(p)
  PROVE  \/ pc'[p] = "done" /\ side' \in {None, side} /\ UNCHANGED <<file, loc>>
         \/ /\ pc'[p] = "fill" /\ Readable(At)
            /\ side' \in Inodes \ {image}
            /\ IF side # None THEN side' = side ELSE file[side'] = Empty
            /\ file' = [file EXCEPT ![side'] = Unfilled]
            /\ loc'[p].ino = side' /\ loc'[p].copy = At
            /\ Filling(side') \subseteq {p} => loc'[p].shared = FALSE
<1> DEFINE i == IF side # None THEN side ELSE CHOOSE j \in Inodes : file[j] = Empty /\ j # image
           both == Filling(i) \cup {p}
<1>1. i \in Inodes \ {image} /\ IF side # None THEN i = side ELSE file[i] = Empty
  BY FreeInode DEF ReadSource, BaseInv, TypeOK
<1>2. CASE GoTo(p, "fill") /\ Readable(At) /\ side' = i /\ file' = [file EXCEPT ![i] = Unfilled]
           /\ loc' = [q \in Procs |->
                   IF q = p THEN [loc[p] EXCEPT !.ino = i, !.src = image, !.copy = At, !.shared = (both # {p})]
                   ELSE IF q \in both THEN [loc[q] EXCEPT !.shared = TRUE]
                   ELSE loc[q]]
  <2>1. loc'[p] = [loc[p] EXCEPT !.ino = i, !.src = image, !.copy = At, !.shared = (both # {p})]
    BY <1>2
  <2>2. pc'[p] = "fill" /\ loc[p] \in Locals
    BY <1>2 DEF GoTo, BaseInv, TypeOK
  <2> DEFINE sh == both # {p}
  <2>3. Filling(i) \subseteq {p} => sh = FALSE
    OBVIOUS
  <2> HIDE DEF sh
  <2>4. loc'[p].ino = i /\ loc'[p].copy = At /\ loc'[p].shared = sh
    BY <2>1, <2>2 DEF Locals, sh
  <2>5. Filling(i) \subseteq {p} => loc'[p].shared = FALSE
    BY <2>3, <2>4
  <2> QED
    BY <1>1, <1>2, <2>2, <2>4, <2>5
<1>3. CASE Fail(p) /\ RemoveSide /\ UNCHANGED <<file, loc>>
  BY <1>3 DEF RemoveSide, Fail, GoTo, BaseInv, TypeOK
<1> QED
  BY <1>2, <1>3 DEF ReadSource

StepOf(p) ==
  \/ Begin(p) \/ ReadSource(p) \/ Fill(p) \/ Rename(p)
  \/ DetectFilesystem(p) \/ IsUDIF(p) \/ OpenDriver(p) \/ Apply(p) \/ Pack(p)
  \/ OpenDevice(p) \/ WriteAt(p) \/ CloseDevice(p) \/ RefreshRead(p) \/ RefreshStore(p)
  \/ Truncate(p) \/ Format(p) \/ WrapRaw(p) \/ Resize(p) \/ Crash(p)

\* A step of p moves p alone, along the control flow of its call.
LEMMA Moves ==
  ASSUME TypeOK, NEW p \in Procs, StepOf(p)
  PROVE  /\ pc' \in [Procs -> PCs]
         /\ \A q \in Procs \ {p} : pc'[q] = pc[q] /\ call'[q] = call[q] /\ res'[q] = res[q]
         /\ pc'[p] \notin {"idle", pc[p]}
<1> USE DEF GoTo, Fail, Succeed, TypeOK
<1>1. CASE Begin(p)
  BY <1>1, CallFields DEF Begin, PCs, FirstStep
<1>2. CASE ReadSource(p)
  BY <1>2 DEF ReadSource, PCs
<1>3. CASE Fill(p)
  BY <1>3 DEF Fill, PCs
<1>4. CASE Rename(p)
  BY <1>4 DEF Rename, PCs
<1>5. CASE DetectFilesystem(p)
  BY <1>5 DEF DetectFilesystem, PCs
<1>6. CASE IsUDIF(p)
  BY <1>6 DEF IsUDIF, PCs
<1>7. CASE OpenDriver(p)
  BY <1>7 DEF OpenDriver, PCs
<1>8. CASE Apply(p)
  BY <1>8 DEF Apply, PCs
<1>9. CASE Pack(p)
  BY <1>9 DEF Pack, PCs
<1>10. CASE OpenDevice(p)
  BY <1>10 DEF OpenDevice, PCs
<1>11. CASE WriteAt(p)
  BY <1>11 DEF WriteAt, PCs
<1>12. CASE CloseDevice(p)
  BY <1>12 DEF CloseDevice, PCs
<1>13. CASE RefreshRead(p)
  BY <1>13 DEF RefreshRead, PCs
<1>14. CASE RefreshStore(p)
  BY <1>14 DEF RefreshStore, PCs
<1>15. CASE Truncate(p)
  BY <1>15 DEF Truncate, PCs
<1>16. CASE Format(p)
  BY <1>16 DEF Format, PCs
<1>17. CASE WrapRaw(p)
  BY <1>17 DEF WrapRaw, PCs
<1>18. CASE Resize(p)
  BY <1>18 DEF Resize, PCs
<1>19. CASE Crash(p)
  BY <1>19 DEF Crash, PCs
<1> QED
  BY <1>1, <1>2, <1>3, <1>4, <1>5, <1>6, <1>7, <1>8, <1>9, <1>10, <1>11, <1>12, <1>13, <1>14, <1>15, <1>16, <1>17, <1>18, <1>19 DEF StepOf

\* What each step that writes a file makes of it.
Grown(f) == [f EXCEPT !.box = "raw", !.whole = f.whole /\ f.box = "raw"]
Stored(f, c) ==
  IF f.box = "plain" THEN [f EXCEPT !.sum = (f.data = c.data /\ f.gen = c.gen)]
  ELSE [f EXCEPT !.whole = FALSE]
Formatted(f, p, t) ==
  IF f.box = "raw" THEN [Empty EXCEPT !.whole = f.whole, !.gen = p, !.fs = t]
  ELSE [f EXCEPT !.whole = FALSE]

\* Those are files, too.
LEMMA MoreFileTypes ==
  /\ \A f \in Files : Grown(f) \in Files
  /\ \A f, c \in Files : Stored(f, c) \in Files
  /\ \A f \in Files, p \in Procs, t \in FsTypes : Formatted(f, p, t) \in Files
  /\ \A p \in Procs : [Empty EXCEPT !.whole = TRUE, !.gen = p] \in Files
<1>1. \A f \in Files : Grown(f) \in Files
  BY DEF Grown, Files, Boxes
<1>2. ASSUME NEW f \in Files, NEW c \in Files PROVE Stored(f, c) \in Files
  <2>1. (f.data = c.data /\ f.gen = c.gen) \in BOOLEAN
    OBVIOUS
  <2> QED
    BY <2>1, FileTypes DEF Stored
<1>3. ASSUME NEW f \in Files, NEW p \in Procs, NEW t \in FsTypes PROVE Formatted(f, p, t) \in Files
  <2>1. [Empty EXCEPT !.whole = f.whole, !.gen = p, !.fs = t] \in Files
    BY DEF Files, Empty, Boxes
  <2> QED
    BY <2>1, FileTypes DEF Formatted
<1>4. \A p \in Procs : [Empty EXCEPT !.whole = TRUE, !.gen = p] \in Files
  BY DEF Files, Empty, Boxes
<1> QED
  BY <1>1, <1>2, <1>3, <1>4

\* Grow drops the trailer of the file at the path.
LEMMA ResizeWrites ==
  ASSUME TypeOK, NEW p \in Procs, Resize(p), ~loc[p].udif
  PROVE  \E f \in Resized(p, At) \cap Files : file' = [file EXCEPT ![image] = Grown(f)]
<1>1. PICK f \in Resized(p, At) :
        file' = [file EXCEPT ![image] = [f EXCEPT !.box = "raw", !.whole = @ /\ At.box = "raw"]]
  BY DEF Resize
<1>2. At \in Files
  BY DEF TypeOK, At
<1>3. f \in Files /\ f.box = At.box
  BY <1>2, DamagedFiles DEF Resized
<1> QED
  BY <1>1, <1>3 DEF Grown

\* ResizeUDRW keeps what it read as the copy it puts back.
LEMMA ResizeReads ==
  ASSUME TypeOK, NEW p \in Procs, Resize(p)
  PROVE  /\ loc' = loc \/ \E c \in Resized(p, At) \cap Files : loc' = [loc EXCEPT ![p].copy = c]
         /\ pc'[p] = "pack" =>
              \E c \in Resized(p, At) \cap Files : loc' = [loc EXCEPT ![p].copy = c]
<1>1. At \in Files
  BY DEF TypeOK, At
<1>2. Resized(p, At) \subseteq Files
  BY <1>1, DamagedFiles DEF Resized
<1>3. CASE \E c \in Resized(p, At) : loc' = [loc EXCEPT ![p].copy = c]
  BY <1>2, <1>3
<1>4. CASE UNCHANGED loc /\ pc'[p] = "done"
  BY <1>4
<1> QED
  BY <1>3, <1>4 DEF Resize, Succeed, Fail, GoTo, TypeOK

\* WrapRaw puts a container around the file at the path, or leaves it alone.
LEMMA WrapWrites ==
  ASSUME TypeOK, NEW p \in Procs, WrapRaw(p)
  PROVE  file' = file \/ file' = [file EXCEPT ![image] = [At EXCEPT !.box = "plain"]]
<1>2. file \in [Inodes -> Files] /\ image \in Inodes
  BY DEF TypeOK
<1> QED
  BY <1>2 DEF At, WrapRaw

\* RefreshChecksums writes to the file it read.
LEMMA StoreWrites ==
  ASSUME TypeOK, NEW p \in Procs, RefreshStore(p)
  PROVE  file' = [file EXCEPT ![loc[p].ino] = Stored(file[loc[p].ino], loc[p].copy)]
BY DEF RefreshStore, Stored

\* formatFilesystem writes to the file at the path.
LEMMA FormatWrites ==
  ASSUME TypeOK, NEW p \in Procs, Format(p)
  PROVE  file' = [file EXCEPT ![image] = Formatted(At, p, call[p].fs)]
BY DEF Format, Formatted

\* A driver that works in place writes what it was asked to.  If the file is not as
\* the driver found it, that may do damage, and it is on record.
LEMMA ApplyForms ==
  ASSUME NEW p \in Procs, Apply(p), ~loc[p].udif
  PROVE  \E h : /\ file' = [file EXCEPT ![loc[p].ino] = h]
                /\ \/ h = Written(file[loc[p].ino], p, loc[p].gen)
                   \/ /\ h \in Damaged(Written(file[loc[p].ino], p, loc[p].gen))
                      /\ {"mixed"} \in met'
BY DEF Apply

\* Which file a step writes, and that it stays one.
LEMMA FileStep ==
  ASSUME BaseInv, NEW p \in Procs, StepOf(p)
  PROVE  \/ file' = file
         \/ \E i \in Inodes, f \in Files : file' = [file EXCEPT ![i] = f]
<1> USE DEF GoTo, Fail, Succeed
<1>0. At \in Files /\ image \in Inodes /\ loc[p] \in Locals /\ TypeOK /\ Kinds /\ HasFile
  BY DEF BaseInv, TypeOK, At
<1>1. CASE UNCHANGED file
  BY <1>1
<1>2. CASE ReadSource(p)
  BY <1>1, <1>2, ReadForms, FileTypes
<1>3. CASE Fill(p)
  <2>1. call[p].to \in Boxes /\ loc[p].ino \in Inodes /\ loc[p].copy \in Files /\ loc[p].shared \in BOOLEAN
    BY <1>0, <1>3, CallFields DEF Fill, Kinds, KindOK, KindOf, HasFile, HasFileOK, Held, Locals
  <2>2. \A c \in IF Mixed(p) = {} THEN {loc[p].copy} ELSE Damaged(loc[p].copy) : c \in Files
    BY <2>1, DamagedFiles
  <2> QED
    BY <1>1, <1>3, <2>1, <2>2, FileTypes DEF Fill
<1>4. CASE Apply(p)
  <2>1. CASE ~loc[p].udif
    <3>1. loc[p].ino \in Inodes /\ file[loc[p].ino] \in Files
      BY <1>0, <1>4, <2>1 DEF Apply, HasFile, HasFileOK, BaseInv, TypeOK
    <3>2. PICK h : /\ file' = [file EXCEPT ![loc[p].ino] = h]
                   /\ \/ h = Written(file[loc[p].ino], p, loc[p].gen)
                      \/ h \in Damaged(Written(file[loc[p].ino], p, loc[p].gen))
      BY <1>4, <2>1, ApplyForms
    <3>3. Written(file[loc[p].ino], p, loc[p].gen) \in Files
      BY <3>1, FileTypes
    <3>4. h \in Files
      BY <3>2, <3>3, DamagedFiles
    <3> QED
      BY <3>1, <3>2, <3>4
  <2> QED
    BY <1>1, <1>4, <2>1 DEF Apply
<1>5. CASE Pack(p)
  BY <1>0, <1>1, <1>5, FileTypes DEF Pack, TypeOK, Locals
<1>6. CASE WriteAt(p)
  BY <1>0, <1>1, <1>6, FileTypes DEF WriteAt, TypeOK, Locals, HasFile, HasFileOK, Held
<1>7. CASE RefreshStore(p)
  <2>1. loc[p].ino \in Inodes /\ loc[p].copy \in Files /\ file[loc[p].ino] \in Files
    BY <1>0, <1>7 DEF RefreshStore, HasFile, HasFileOK, Held, Locals, TypeOK
  <2> QED
    BY <1>0, <1>7, <2>1, StoreWrites, MoreFileTypes
<1>8. CASE Truncate(p)
  BY <1>0, <1>8, MoreFileTypes DEF Truncate
<1>9. CASE Format(p)
  <2>1. call[p].fs \in FsTypes
    BY <1>0, <1>9, CallFields DEF Format, Kinds, KindOK, KindOf
  <2> QED
    BY <1>0, <1>9, <2>1, FormatWrites, MoreFileTypes
<1>10. CASE WrapRaw(p)
  <2>1. [At EXCEPT !.box = "plain"] \in Files
    BY <1>0, FileTypes DEF Boxes
  <2> QED
    BY <1>0, <1>10, <2>1, WrapWrites
<1>11. CASE Resize(p)
  BY <1>0, <1>1, <1>11, ResizeWrites, MoreFileTypes DEF Resize
<1> QED
  BY <1>1, <1>2, <1>3, <1>4, <1>5, <1>6, <1>7, <1>8, <1>9, <1>10, <1>11
  DEF StepOf, Begin, Rename, DetectFilesystem, IsUDIF, OpenDriver, OpenDevice, CloseDevice,
      RefreshRead, Crash

\* Whatever p does, the others keep their locals; another conversion may only
\* learn that it shares its file.
LEMMA LocalsStep ==
  ASSUME BaseInv, NEW p \in Procs, StepOf(p)
  PROVE  /\ loc' \in [Procs -> Locals]
         /\ \A q \in Procs \ {p} :
              \/ loc'[q] = loc[q]
              \/ pc[q] = "fill" /\ pc[p] = "read" /\ loc'[q] = [loc[q] EXCEPT !.shared = TRUE]
<1>0. At \in Files /\ image \in Inodes /\ loc \in [Procs -> Locals] /\ TypeOK /\ Kinds
  BY DEF BaseInv, TypeOK, At
<1>1. CASE UNCHANGED loc
  BY <1>0, <1>1
<1>2. CASE ReadSource(p) /\ loc' # loc
  <2> DEFINE i == IF side # None THEN side ELSE CHOOSE j \in Inodes : file[j] = Empty /\ j # image
             both == Filling(i) \cup {p}
  <2>1. i \in Inodes
    BY <1>0, <1>2, FreeInode DEF ReadSource, TypeOK
  <2>2. loc' = [q \in Procs |->
                   IF q = p THEN [loc[p] EXCEPT !.ino = i, !.src = image, !.copy = At, !.shared = (both # {p})]
                   ELSE IF q \in both THEN [loc[q] EXCEPT !.shared = TRUE]
                   ELSE loc[q]]
    BY <1>2 DEF ReadSource
  <2>3. pc[p] = "read" /\ \A q \in both : q # p => pc[q] = "fill"
    BY <1>2 DEF ReadSource, Filling
  <2>4. (both # {p}) \in BOOLEAN
    OBVIOUS
  <2> HIDE DEF both, i
  <2>5. [loc[p] EXCEPT !.ino = i, !.src = image, !.copy = At, !.shared = (both # {p})] \in Locals
    BY <1>0, <2>1, <2>4 DEF Locals
  <2>6. \A q \in Procs : [loc[q] EXCEPT !.shared = TRUE] \in Locals
    BY <1>0 DEF Locals
  <2> QED
    BY <1>0, <2>2, <2>3, <2>5, <2>6
<1>3. CASE DetectFilesystem(p)
  BY <1>0, <1>1, <1>3 DEF DetectFilesystem, Locals, Files
<1>4. CASE IsUDIF(p)
  BY ZenonT(60), <1>0, <1>4 DEF IsUDIF, Locals
<1>5. CASE OpenDriver(p) \/ OpenDevice(p)
  <2>1. CASE loc' = [loc EXCEPT ![p].copy = At]
    BY <1>0, <2>1 DEF Locals
  <2>2. CASE loc' = [loc EXCEPT ![p].ino = image, ![p].gen = At.gen]
    <3>1. At.gen \in Procs \cup {None}
      BY <1>0 DEF Files
    <3>2. loc' = [loc EXCEPT ![p] = [loc[p] EXCEPT !.ino = image, !.gen = At.gen]]
      BY <1>0, <2>2 DEF Locals
    <3>3. [loc[p] EXCEPT !.ino = image, !.gen = At.gen] \in Locals
      BY <1>0, <3>1 DEF Locals
    <3> QED
      BY <1>0, <3>2, <3>3
  <2>3. CASE loc' = [loc EXCEPT ![p].ino = image, ![p].gen = At.gen, ![p].copy = At]
    <3>1. At.gen \in Procs \cup {None}
      BY <1>0 DEF Files
    <3>2. loc' = [loc EXCEPT ![p] = [loc[p] EXCEPT !.ino = image, !.gen = At.gen, !.copy = At]]
      BY <1>0, <2>3 DEF Locals
    <3>3. [loc[p] EXCEPT !.ino = image, !.gen = At.gen, !.copy = At] \in Locals
      BY <1>0, <3>1 DEF Locals
    <3> QED
      BY <1>0, <3>2, <3>3
  <2> QED
    BY <1>1, <1>5, <2>1, <2>2, <2>3 DEF OpenDriver, OpenDevice
<1>6. CASE Apply(p) /\ loc' # loc
  <2>1. loc' = [loc EXCEPT ![p].copy.data = @ \cup {p}]
    BY <1>6 DEF Apply
  <2> QED
    BY SMTT(30), <1>0, <2>1 DEF Locals, Files
<1>7. CASE RefreshRead(p)
  BY <1>0, <1>1, <1>7 DEF RefreshRead, Locals
<1>8. CASE Resize(p)
  BY <1>0, <1>8, ResizeReads DEF Locals
<1> QED
  BY <1>1, <1>2, <1>3, <1>4, <1>5, <1>6, <1>7, <1>8
  DEF StepOf, Begin, Fill, Rename, Pack, WriteAt, CloseDevice, RefreshStore,
      Truncate, Format, WrapRaw, Crash

\* Only a conversion takes a file of its own; the other calls use the image.
LEMMA InoStep ==
  ASSUME BaseInv, NEW p \in Procs, StepOf(p), pc[p] # "read"
  PROVE  loc'[p].ino \in {loc[p].ino, image}
<1>0. TypeOK /\ loc \in [Procs -> Locals]
  BY DEF BaseInv, TypeOK
<1>1. CASE UNCHANGED loc
  BY <1>1
<1>2. CASE DetectFilesystem(p) \/ IsUDIF(p) \/ Apply(p)
  BY <1>0, <1>2 DEF DetectFilesystem, IsUDIF, Apply, TypeOK, Locals
<1>4. CASE Resize(p)
  BY <1>0, <1>4, ResizeReads DEF Locals
<1>3. CASE OpenDriver(p) \/ OpenDevice(p) \/ RefreshRead(p)
  BY <1>0, <1>3 DEF OpenDriver, OpenDevice, RefreshRead, TypeOK, Locals
<1> QED
  BY <1>1, <1>2, <1>3, <1>4 DEF StepOf, Begin, ReadSource, Fill, Rename, Pack, WriteAt, CloseDevice,
     RefreshStore, Truncate, Format, WrapRaw, Crash

\* Where the steps of a conversion and of a session lead.
LEMMA WhereTo ==
  ASSUME TypeOK, NEW p \in Procs, StepOf(p)
  PROVE  /\ pc'[p] = "fill" => ReadSource(p)
         /\ pc'[p] = "rename" => Fill(p)
         /\ pc'[p] = "apply" => OpenDriver(p)
         /\ pc'[p] = "pack" => Apply(p) \/ Resize(p)
<1> USE DEF GoTo, Fail, Succeed
<1>1. CASE Begin(p)
  BY <1>1, CallFields DEF Begin, FirstStep, TypeOK
<1>2. CASE ~Begin(p)
  BY ZenonT(60), <1>2 DEF StepOf, TypeOK, ReadSource, Fill, Rename, DetectFilesystem, IsUDIF, OpenDriver, Apply,
     Pack, OpenDevice, WriteAt, CloseDevice, RefreshRead, RefreshStore, Truncate, Format, WrapRaw,
     Resize, Crash
<1> QED
  BY <1>1, <1>2

\* Where a process is tells its call; what it is going to use, it has.
LEMMA ControlStep ==
  ASSUME BaseInv, NEW p \in Procs, StepOf(p)
  PROVE  Kinds' /\ HasFile'
<1>0. /\ At \in Files /\ image \in Inodes /\ loc \in [Procs -> Locals] /\ TypeOK
      /\ KindOK(p) /\ HasFileOK(p)
  BY DEF BaseInv, TypeOK, At, Kinds, HasFile
<1>1. ASSUME NEW q \in Procs \ {p} PROVE KindOK(q)' /\ HasFileOK(q)'
  <2>1. pc'[q] = pc[q] /\ call'[q] = call[q]
    BY <1>0, <1>1, Moves
  <2>2. \/ loc'[q] = loc[q]
        \/ pc[q] = "fill" /\ loc'[q] = [loc[q] EXCEPT !.shared = TRUE]
    BY <1>1, LocalsStep
  <2>3. loc'[q].ino = loc[q].ino /\ loc'[q].udif = loc[q].udif
        /\ (pc[q] # "fill" => loc'[q] = loc[q])
    BY <1>0, <2>2 DEF Locals
  <2> QED
    BY <2>1, <2>3 DEF BaseInv, Kinds, HasFile, KindOK, HasFileOK
<1> USE DEF GoTo, Fail, Succeed
<1>2. KindOK(p)' /\ HasFileOK(p)'
  <2>1. CASE Begin(p)
    BY <1>0, <2>1, CallFields DEF Begin, TypeOK, Locals, KindOK, HasFileOK, KindOf, Held, FirstStep, NoLocals
  <2>2. CASE ReadSource(p)
    <3>1. pc'[p] \in {"fill", "done"} /\ call'[p] = call[p] /\ call[p].op = "convert" /\ call[p] \in Calls
      BY <1>0, <2>2 DEF ReadSource, TypeOK, KindOK, KindOf
    <3>2. pc'[p] = "fill" => loc'[p].ino \in Inodes
      BY <2>2, ReadForms
    <3> QED
      BY <3>1, <3>2 DEF KindOK, HasFileOK, KindOf, Held
  <2>3. CASE Fill(p)
    <3>1. /\ pc'[p] \in {"rename", "done"} /\ pc[p] = "fill"
          /\ loc'[p] = loc[p] /\ call'[p] = call[p]
      BY <1>0, <2>3 DEF Fill, TypeOK
    <3> QED
      BY <1>0, <3>1 DEF KindOK, HasFileOK, KindOf, Held
  <2>4. CASE Rename(p)
    BY <1>0, <2>4 DEF Rename, TypeOK, Locals, KindOK, HasFileOK, KindOf, Held
  <2>5. CASE DetectFilesystem(p)
    BY <1>0, <2>5 DEF DetectFilesystem, TypeOK, Locals, KindOK, HasFileOK, KindOf, Held
  <2>6. CASE IsUDIF(p)
    BY <1>0, <2>6 DEF IsUDIF, TypeOK, Locals, KindOK, HasFileOK, KindOf, Held
  <2>7. CASE OpenDriver(p)
    BY <1>0, <2>7 DEF OpenDriver, TypeOK, Locals, KindOK, HasFileOK, KindOf, Held
  <2>8. CASE Apply(p)
    BY <1>0, <2>8 DEF Apply, TypeOK, Locals, KindOK, HasFileOK, KindOf, Held
  <2>9. CASE Pack(p)
    BY <1>0, <2>9 DEF Pack, TypeOK, Locals, KindOK, HasFileOK, KindOf, Held
  <2>10. CASE OpenDevice(p)
    BY <1>0, <2>10 DEF OpenDevice, TypeOK, Locals, KindOK, HasFileOK, KindOf, Held
  <2>11. CASE WriteAt(p)
    BY <1>0, <2>11 DEF WriteAt, TypeOK, Locals, KindOK, HasFileOK, KindOf, Held
  <2>12. CASE CloseDevice(p)
    BY <1>0, <2>12 DEF CloseDevice, TypeOK, Locals, KindOK, HasFileOK, KindOf, Held
  <2>13. CASE RefreshRead(p)
    BY <1>0, <2>13 DEF RefreshRead, TypeOK, Locals, KindOK, HasFileOK, KindOf, Held
  <2>14. CASE RefreshStore(p)
    BY <1>0, <2>14 DEF RefreshStore, TypeOK, Locals, KindOK, HasFileOK, KindOf, Held
  <2>15. CASE Truncate(p)
    BY <1>0, <2>15 DEF Truncate, TypeOK, Locals, KindOK, HasFileOK, KindOf, Held
  <2>16. CASE Format(p)
    BY <1>0, <2>16 DEF Format, TypeOK, Locals, KindOK, HasFileOK, KindOf, Held
  <2>17. CASE WrapRaw(p)
    BY <1>0, <2>17 DEF WrapRaw, TypeOK, Locals, KindOK, HasFileOK, KindOf, Held
  <2>18. CASE Resize(p)
    <3>1. /\ pc'[p] \in {"done", "pack"} /\ call' = call /\ pc[p] = "resize"
          /\ pc'[p] = "pack" => loc[p].udif
      BY <1>0, <2>18 DEF Resize, TypeOK
    <3>2. loc'[p].udif = loc[p].udif
      BY <1>0, <2>18, ResizeReads DEF Locals
    <3> QED
      BY <1>0, <3>1, <3>2 DEF KindOK, HasFileOK, KindOf, Held
  <2>19. CASE Crash(p)
    BY <1>0, <2>19 DEF Crash, TypeOK, Locals, KindOK, HasFileOK, KindOf, Held
  <2> QED
    BY <2>1, <2>2, <2>3, <2>4, <2>5, <2>6, <2>7, <2>8, <2>9, <2>10, <2>11, <2>12, <2>13, <2>14, <2>15, <2>16, <2>17, <2>18, <2>19 DEF StepOf
<1> QED
  BY <1>1, <1>2 DEF Kinds, HasFile

\* The names: the path always has a file, and never the side file's.
LEMMA NamesStep ==
  ASSUME BaseInv, NEW p \in Procs, StepOf(p)
  PROVE  /\ image' \in Inodes /\ side' \in (Inodes \cup {None}) \ {image'}
         /\ image' # image => Rename(p) /\ image' = side /\ side' = None
         /\ side' # side => Rename(p) \/ ReadSource(p) \/ Fill(p)
         /\ unremoved' # unremoved => Rename(p) \/ ReadSource(p) \/ Fill(p)
         /\ unremoved' \subseteq Inodes
<1>0. TypeOK /\ None \notin Inodes
  BY SharedAssumption DEF BaseInv
<1>1. CASE UNCHANGED <<image, side, unremoved>>
  BY <1>0, <1>1 DEF TypeOK
<1>2. CASE ReadSource(p)
  <2>1. UNCHANGED image /\ (UNCHANGED unremoved \/ RemoveSide)
    BY <1>2 DEF ReadSource
  <2>2. unremoved' \subseteq Inodes
    BY <1>0, <2>1 DEF RemoveSide, TypeOK
  <2> QED
    BY <1>0, <1>2, <2>1, <2>2, ReadForms DEF TypeOK
<1>3. CASE Fill(p)
  BY <1>0, <1>3 DEF Fill, RemoveSide, TypeOK
<1>4. CASE Rename(p)
  BY <1>0, <1>4 DEF Rename, RemoveSide, TypeOK
<1> QED
  BY <1>1, <1>2, <1>3, <1>4
  DEF StepOf, Begin, DetectFilesystem, IsUDIF, OpenDriver, Apply, Pack, OpenDevice, WriteAt,
      CloseDevice, RefreshRead, RefreshStore, Truncate, Format, WrapRaw, Resize, Crash

\* Every step keeps the types.
LEMMA TypeStep ==
  ASSUME BaseInv, NEW p \in Procs, StepOf(p)
  PROVE  TypeOK'
<1> USE DEF GoTo, Fail, Succeed
<1>0. TypeOK
  BY DEF BaseInv
<1>1. image' \in Inodes /\ side' \in (Inodes \cup {None}) \ {image'} /\ unremoved' \subseteq Inodes
  BY NamesStep
<1>2. file' \in [Inodes -> Files]
  BY <1>0, FileStep DEF TypeOK
<1>3. pc' \in [Procs -> PCs]
  BY <1>0, Moves
<1>4. loc' \in [Procs -> Locals]
  BY LocalsStep
<1>5. call' \in [Procs -> Calls \cup {None}]
  BY <1>0 DEF TypeOK, StepOf, Begin, ReadSource, Fill, Rename, DetectFilesystem, IsUDIF, OpenDriver,
     Apply, Pack, OpenDevice, WriteAt, CloseDevice, RefreshRead, RefreshStore, Truncate, Format,
     WrapRaw, Resize, Crash
<1>6. res' \in [Procs -> {"nil", "err"}]
  BY <1>0 DEF TypeOK, StepOf, Begin, ReadSource, Fill, Rename, DetectFilesystem, IsUDIF, OpenDriver,
     Apply, Pack, OpenDevice, WriteAt, CloseDevice, RefreshRead, RefreshStore, Truncate, Format,
     WrapRaw, Resize, Crash
<1>7. acked' \subseteq Procs
  BY <1>0 DEF TypeOK, Confirm, StepOf, Begin, ReadSource, Fill, Rename, DetectFilesystem, IsUDIF, OpenDriver,
     Apply, Pack, OpenDevice, WriteAt, CloseDevice, RefreshRead, RefreshStore, Truncate, Format,
     WrapRaw, Resize, Crash
<1>8. HasFile'
  BY ControlStep
<1> QED
  BY <1>1, <1>2, <1>3, <1>4, <1>5, <1>6, <1>7, <1>8 DEF TypeOK, HasFile, HasFileOK, Held

\* Files in use stay known, and a step writes only to those.
LEMMA InUseStep ==
  ASSUME BaseInv, NEW p \in Procs, StepOf(p)
  PROVE  InUse'
<1>0. TypeOK /\ Kinds /\ InUse /\ image \in Inodes /\ None \notin Inodes
  BY SharedAssumption DEF BaseInv, TypeOK
<1>1. Used \subseteq Used'
  <2>1. ASSUME NEW q \in Procs, Took(q) PROVE Took(q)' /\ loc'[q].ino = loc[q].ino
    <3>1. CASE q # p
      <4>1. pc'[q] = pc[q] /\ call'[q] = call[q]
        BY <1>0, <3>1, Moves
      <4>2. \/ loc'[q] = loc[q]
            \/ loc'[q] = [loc[q] EXCEPT !.shared = TRUE]
        BY <3>1, LocalsStep
      <4>3. loc'[q].ino = loc[q].ino
        BY <1>0, <4>2 DEF TypeOK, Locals
      <4> QED
        BY <2>1, <4>1, <4>3 DEF Took
    <3>2. CASE q = p
      <4>1. pc[p] \in {"fill", "rename", "dead", "done"}
        BY <1>0, <2>1, <3>2 DEF Took, Kinds, KindOK, KindOf, TypeOK, PCs
      <4>2. Fill(p) \/ Rename(p) \/ Crash(p)
        BY <4>1 DEF StepOf, Begin, ReadSource, DetectFilesystem, IsUDIF, OpenDriver,
             Apply, Pack, OpenDevice, WriteAt, CloseDevice, RefreshRead, RefreshStore, Truncate, Format,
             WrapRaw, Resize
      <4>3. UNCHANGED <<loc, call>>
        BY <4>2 DEF Fill, Rename, Crash
      <4>4. pc'[p] \notin {"idle", "read"}
        BY <1>0, <4>2 DEF Fill, Rename, Crash, GoTo, Fail, Succeed, TypeOK
      <4> QED
        BY <2>1, <3>2, <4>3, <4>4 DEF Took
    <3> QED
      BY <3>1, <3>2
  <2> QED
    BY <2>1 DEF Used
<1>2. ASSUME NEW q \in Procs, loc'[q].ino \in Used' \cup {None, image}
      PROVE  loc'[q].ino \in Used' \cup {None}
  BY <1>0, <1>1, <1>2 DEF InUse
<1>3. \A q \in Procs : loc'[q].ino \in Used' \cup {None}
  <2>1. ASSUME NEW q \in Procs, q # p PROVE loc'[q].ino \in Used' \cup {None}
    <3>1. \/ loc'[q] = loc[q]
          \/ loc'[q] = [loc[q] EXCEPT !.shared = TRUE]
      BY <2>1, LocalsStep
    <3>2. loc'[q].ino = loc[q].ino
      BY <1>0, <3>1 DEF TypeOK, Locals
    <3> QED
      BY <1>0, <1>1, <3>2 DEF InUse
  <2>2. loc'[p].ino \in Used' \cup {None}
    <3>1. CASE loc' = loc \/ loc'[p].ino = loc[p].ino \/ loc'[p].ino = image
      BY <1>0, <1>1, <1>2, <3>1 DEF InUse
    <3>2. CASE ReadSource(p) /\ loc' # loc
      <4>1. pc'[p] = "fill"
        BY <3>2, ReadForms
      <4>2. Took(p)'
        BY <1>0, <3>2, <4>1 DEF Took, ReadSource, Kinds, KindOK, KindOf
      <4> QED
        BY <4>2 DEF Used
    <3>3. CASE DetectFilesystem(p) \/ IsUDIF(p) \/ Apply(p) \/ Resize(p)
      <4>1. loc'[p].ino = loc[p].ino
        BY <1>0, <3>3, ResizeReads DEF DetectFilesystem, IsUDIF, Apply, TypeOK, Locals
      <4> QED
        BY <3>1, <4>1
    <3>4. CASE OpenDriver(p) \/ OpenDevice(p) \/ RefreshRead(p)
      <4>1. loc'[p].ino \in {loc[p].ino, image}
        BY <1>0, <3>4 DEF OpenDriver, OpenDevice, RefreshRead, TypeOK, Locals
      <4> QED
        BY <3>1, <4>1
    <3> QED
      BY <3>1, <3>2, <3>3, <3>4
      DEF StepOf, Begin, Fill, Rename, Pack, WriteAt, CloseDevice, RefreshStore,
          Truncate, Format, WrapRaw, Crash
  <2> QED
    BY <2>1, <2>2
<1>4. CASE ReadSource(p) /\ pc'[p] = "fill"
  <2>1. /\ side' \in Inodes
        /\ file' = [file EXCEPT ![side'] = Unfilled]
        /\ loc'[p].ino = side'
    BY <1>4, ReadForms
  <2>2. Took(p)'
    BY <1>0, <1>4 DEF Took, ReadSource, Kinds, KindOK, KindOf
  <2>3. side' \in Used'
    BY <2>1, <2>2 DEF Used
  <2>4. UNCHANGED image
    BY <1>4 DEF ReadSource
  <2> QED
    BY <1>0, <1>1, <1>3, <2>1, <2>3, <2>4 DEF InUse, TypeOK
<1>5. CASE ~(ReadSource(p) /\ pc'[p] = "fill")
  <2>1. image' \in Used /\ side' \in Used \cup {None}
    <3>1. CASE Rename(p)
      BY <1>0, <3>1 DEF Rename, RemoveSide, InUse
    <3>2. CASE ReadSource(p)
      BY <1>0, <1>5, <3>2, ReadForms DEF InUse, ReadSource
    <3>3. CASE Fill(p)
      BY <1>0, <3>3 DEF Fill, RemoveSide, InUse
    <3> QED
      BY <1>0, <3>1, <3>2, <3>3, NamesStep DEF InUse
  <2>2. file' = file \/ \E i \in Used \cup {None} : \E f : file' = [file EXCEPT ![i] = f]
    <3>1. loc[p].ino \in Used \cup {None} /\ image \in Used \cup {None}
      BY <1>0 DEF InUse
    <3>2. CASE ReadSource(p)
      BY <1>5, <3>2, ReadForms
    <3>3. CASE Fill(p) \/ Apply(p) \/ WriteAt(p) \/ RefreshStore(p)
      BY <3>1, <3>3 DEF Fill, Apply, WriteAt, RefreshStore
    <3>4. CASE Pack(p) \/ Truncate(p) \/ Format(p)
      BY <3>1, <3>4 DEF Pack, Truncate, Format
    <3>5. CASE WrapRaw(p) \/ Resize(p)
      BY <1>0, <3>1, <3>5, WrapWrites, ResizeWrites DEF Resize
    <3> QED
      BY <3>2, <3>3, <3>4, <3>5
      DEF StepOf, Begin, Rename, DetectFilesystem, IsUDIF, OpenDriver, OpenDevice, CloseDevice,
          RefreshRead, Crash
  <2>3. \A i \in Inodes : file'[i] # Empty => i \in Used
    BY <1>0, <2>2 DEF InUse, TypeOK
  <2> QED
    BY <1>0, <1>1, <1>3, <2>1, <2>3 DEF InUse
<1> QED
  BY <1>4, <1>5

\* A call that begins meets every call under way.
LEMMA OverlapsStep ==
  ASSUME BaseInv, NEW p \in Procs, StepOf(p)
  PROVE  Overlaps' /\ met \subseteq met'
<1>0. TypeOK
  BY DEF BaseInv
<1>1. met \subseteq met'
  BY DEF StepOf, Begin, ReadSource, Fill, Rename, DetectFilesystem, IsUDIF, OpenDriver,
     Apply, Pack, OpenDevice, WriteAt, CloseDevice, RefreshRead, RefreshStore, Truncate, Format,
     WrapRaw, Resize, Crash
<1>2. \A q \in Procs \ {p} : pc'[q] = pc[q] /\ call'[q] = call[q]
  BY <1>0, Moves
<1>3. CASE Begin(p)
  <2>1. PICK c \in Calls : /\ call' = [call EXCEPT ![p] = c]
                           /\ met' = met \cup {{c.op, call[q].op} : q \in Active}
    BY <1>3 DEF Begin
  <2>2. call'[p] = c
    BY <1>0, <2>1 DEF TypeOK
  <2>3. ASSUME NEW q \in Active', q # p
        PROVE  {call'[p].op, call'[q].op} \in met' /\ {call'[q].op, call'[p].op} \in met'
    <3>1. q \in Active /\ call'[q] = call[q]
      BY <1>2, <2>3 DEF Active
    <3>2. {c.op, call[q].op} \in met' /\ {c.op, call[q].op} = {call[q].op, c.op}
      BY <2>1, <3>1
    <3> QED
      BY <2>2, <3>1, <3>2
  <2>4. ASSUME NEW q \in Active', NEW r \in Active', q # p, r # p, q # r
        PROVE  {call'[q].op, call'[r].op} \in met'
    BY <1>1, <1>2, <2>4 DEF BaseInv, Overlaps, Active
  <2> QED
    BY <1>1, <2>3, <2>4 DEF Overlaps
<1>4. CASE ~Begin(p)
  <2>1. pc[p] # "idle" /\ UNCHANGED call
    BY <1>4 DEF StepOf, ReadSource, Fill, Rename, DetectFilesystem, IsUDIF, OpenDriver,
       Apply, Pack, OpenDevice, WriteAt, CloseDevice, RefreshRead, RefreshStore, Truncate, Format,
       WrapRaw, Resize, Crash
  <2>2. pc[p] \notin {"done", "dead"}
    BY <1>4 DEF StepOf, ReadSource, Fill, Rename, DetectFilesystem, IsUDIF, OpenDriver,
       Apply, Pack, OpenDevice, WriteAt, CloseDevice, RefreshRead, RefreshStore, Truncate, Format,
       WrapRaw, Resize, Crash
  <2>3. Active' \subseteq Active
    BY <1>2, <2>1, <2>2 DEF Active
  <2> QED
    BY <1>1, <2>1, <2>3 DEF BaseInv, Overlaps
<1> QED
  BY <1>1, <1>3, <1>4

\* Every step keeps the base invariant.
LEMMA BaseStep == BaseInv /\ [Next]_vars => BaseInv'
<1> SUFFICES ASSUME BaseInv, [Next]_vars PROVE BaseInv'
  OBVIOUS
<1>1. CASE UNCHANGED vars
  BY <1>1 DEF vars, BaseInv, TypeOK, Kinds, KindOK, HasFile, HasFileOK, InUse, Used, Took, Overlaps, Active
<1>2. ASSUME NEW p \in Procs, StepOf(p) PROVE BaseInv'
  BY <1>2, TypeStep, ControlStep, InUseStep, OverlapsStep DEF BaseInv
<1> QED
  BY <1>1, <1>2 DEF Next, StepOf

\* It holds before the first call.
LEMMA InitBase == Init => BaseInv
<1> SUFFICES ASSUME Init PROVE BaseInv
  OBVIOUS
<1>1. PICK b \in Boxes, t \in FsTypes :
        file = [i \in Inodes |->
                 IF i = image THEN [Empty EXCEPT !.box = b, !.fs = t, !.whole = TRUE]
                 ELSE Empty]
  BY DEF Init
<1>2. [Empty EXCEPT !.box = b, !.fs = t, !.whole = TRUE] \in Files /\ Empty \in Files
  BY DEF Empty, Files, Boxes
<1>3. NoLocals \in Locals
  BY FileTypes DEF NoLocals, Locals
<1>4. TypeOK
  BY <1>1, <1>2, <1>3, SharedAssumption DEF Init, TypeOK, PCs
<1>5. Kinds /\ HasFile
  BY DEF Init, Kinds, KindOK, HasFile, HasFileOK, Held, NoLocals
<1>6. InUse
  BY <1>1 DEF Init, InUse, Used, Took, First, NoLocals
<1>7. Overlaps
  BY DEF Init, Overlaps, Active
<1> QED
  BY <1>4, <1>5, <1>6, <1>7 DEF BaseInv

\* Where each process is tells its call and the files it has; there is always a file
\* for the next conversion, and calls that overlap are on record.
THEOREM BaseInvariant == Spec => []BaseInv
  BY InitBase, BaseStep, PTL DEF Spec

\* No process acts on a file it does not have.
THEOREM TypeCorrect == Spec => []TypeOK
<1>1. BaseInv => TypeOK
  BY DEF BaseInv
<1> QED
  BY <1>1, BaseInvariant, PTL

\* ConvertImageFormat leaves no side file behind, however many conversions share the
\* name and whichever of them fail, except the one of a process that died and one
\* that os.Remove could not remove.
THEOREM NoSideFileLeft == Spec => []SideFileGone
<1>1. Init => SideFileGone
  BY DEF Init, SideFileGone
<1>2. BaseInv /\ SideFileGone /\ [Next]_vars => SideFileGone'
  <2> DEFINE Has(q) == pc[q] \in {"fill", "rename", "dead"} /\ loc[q].ino = side
  <2> SUFFICES ASSUME BaseInv, SideFileGone, [Next]_vars, side' # None
               PROVE  side' \in unremoved' \/ \E q \in Procs : Has(q)'
    BY DEF SideFileGone
  <2>1. CASE UNCHANGED vars
    BY <2>1 DEF vars, SideFileGone
  <2>2. ASSUME NEW p \in Procs, StepOf(p)
        PROVE  side' \in unremoved' \/ \E q \in Procs : Has(q)'
    <3>1. TypeOK
      BY DEF BaseInv
    <3>2. CASE RemoveSide
      BY <3>2 DEF RemoveSide
    <3>3. CASE ReadSource(p) /\ pc'[p] = "fill"
      BY <3>3, ReadForms
    <3>4. CASE UNCHANGED <<side, unremoved, loc>> /\ pc'[p] \in {"rename", "dead"}
      BY <2>2, <3>1, <3>4, Moves DEF SideFileGone
    <3>5. CASE UNCHANGED <<side, unremoved>> /\ pc[p] \notin {"read", "fill", "rename", "dead"}
      <4>1. ASSUME NEW q \in Procs, Has(q) PROVE Has(q)'
        <5>1. q # p /\ loc'[q] = loc[q]
          BY <2>2, <3>5, <4>1, LocalsStep
        <5>2. pc'[q] = pc[q]
          BY <2>2, <3>1, <5>1, Moves
        <5> QED
          BY <3>5, <4>1, <5>1, <5>2
      <4> QED
        BY <3>5, <4>1 DEF SideFileGone
    <3>6. CASE ReadSource(p)
      BY <3>1, <3>2, <3>3, <3>6 DEF ReadSource, GoTo, TypeOK
    <3>7. CASE Fill(p)
      BY <3>1, <3>2, <3>4, <3>7 DEF Fill, GoTo, TypeOK
    <3>8. CASE Rename(p)
      BY <3>2, <3>8 DEF Rename
    <3>9. CASE Crash(p)
      BY <3>1, <3>4, <3>9 DEF Crash, GoTo, TypeOK
    <3> QED
      BY <2>2, <3>5, <3>6, <3>7, <3>8, <3>9
      DEF StepOf, Begin, DetectFilesystem, IsUDIF, OpenDriver, Apply, Pack, OpenDevice,
          WriteAt, CloseDevice, RefreshRead, RefreshStore, Truncate, Format, WrapRaw, Resize
  <2> QED
    BY <2>1, <2>2 DEF Next, StepOf
<1> QED
  BY <1>1, <1>2, BaseInvariant, PTL DEF Spec

-----------------------------------------------------------------------------
(* Conversions that do not overlap *)

\* Something was formatted here.
Real(f) == f.gen # None \/ f.fs # "none"

\* No two conversions were under way at once: the file that is being converted to is
\* the side file, nobody else has it open, and what has been filled is whole.
Solo ==
  /\ Real(At)
  /\ \A p \in Procs :
       /\ pc[p] # "idle" /\ call[p].op # "convert" /\ loc[p].ino # None =>
            loc[p].ino # side /\ Real(file[loc[p].ino])
       /\ pc[p] \in {"apply", "pack"} /\ loc[p].udif => Real(loc[p].copy)
       /\ pc[p] = "fill" =>
            side = loc[p].ino /\ ~loc[p].shared /\ loc[p].copy.whole /\ Real(loc[p].copy)
       /\ pc[p] = "rename" => side = loc[p].ino /\ file[side].whole /\ Real(file[side])

\* With no overlap on record, a conversion is the only one.
LEMMA OneConversion ==
  ASSUME BaseInv, {"convert"} \notin met, NEW p \in Procs, NEW q \in Procs,
         pc[p] \in Converting, pc[q] \in Converting
  PROVE  p = q
<1>1. p \in Active /\ q \in Active
  BY DEF Active, Converting
<1>2. call[p].op = "convert" /\ call[q].op = "convert"
  BY DEF BaseInv, Kinds, KindOK, KindOf, Converting
<1>3. {call[p].op, call[q].op} = {"convert"}
  BY <1>2
<1> QED
  BY <1>1, <1>3 DEF BaseInv, Overlaps

\* Steps that are no part of a conversion leave the side file alone and what was
\* formatted formatted.
LEMMA BesideConversion ==
  ASSUME BaseInv, Solo, NEW p \in Procs, StepOf(p), pc[p] \notin Converting
  PROVE  /\ UNCHANGED <<image, side>>
         /\ \A j \in Inodes : Real(file[j]) => Real(file'[j])
         /\ side # None => file'[side] = file[side]
<1> USE DEF GoTo, Fail, Succeed
<1>0. /\ TypeOK /\ Kinds /\ HasFile /\ At \in Files /\ image \in Inodes /\ image # side
      /\ loc[p] \in Locals /\ None \notin Inodes /\ None \notin Procs
  BY SharedAssumption DEF BaseInv, TypeOK, At
<1>1. ~ReadSource(p) /\ ~Fill(p) /\ ~Rename(p) /\ ~Crash(p)
  BY DEF Converting, ReadSource, Fill, Rename, Crash
<1>2. UNCHANGED <<image, side>>
  BY <1>1, NamesStep
<1>3. ASSUME NEW i \in Inodes, i # side, NEW f, file' = [file EXCEPT ![i] = f],
             Real(file[i]) => Real(f)
      PROVE  /\ \A j \in Inodes : Real(file[j]) => Real(file'[j])
             /\ side # None => file'[side] = file[side]
  BY <1>0, <1>3 DEF TypeOK
<1>4. CASE Apply(p) /\ ~loc[p].udif
  <2>1. /\ loc[p].ino \in Inodes /\ loc[p].ino # side
        /\ file[loc[p].ino] \in Files
    BY <1>0, <1>4 DEF Apply, HasFile, HasFileOK, Solo, Kinds, KindOK, KindOf, TypeOK
  <2> DEFINE g == Written(file[loc[p].ino], p, loc[p].gen)
  <2>2. g \in Files /\ (Real(file[loc[p].ino]) => Real(g))
    <3>1. g \in Files
      BY <2>1, FileTypes
    <3>2. Real(file[loc[p].ino]) => Real(g)
      BY <2>1 DEF Real, Written, Files
    <3> QED
      BY <3>1, <3>2
  <2>3. PICK h : file' = [file EXCEPT ![loc[p].ino] = h] /\ (h = g \/ h \in Damaged(g))
    BY <1>4, ApplyForms
  <2> HIDE DEF g
  <2>4. Real(g) => Real(h)
    BY <2>2, <2>3, DamagedFiles DEF Real
  <2> QED
    BY <1>2, <1>3, <2>1, <2>2, <2>3, <2>4
<1>5. CASE WriteAt(p)
  <2>1. /\ loc[p].ino \in Inodes /\ loc[p].ino # side
        /\ file[loc[p].ino] \in Files
        /\ file' = [file EXCEPT ![loc[p].ino] = Written(file[loc[p].ino], p, loc[p].gen)]
    BY <1>0, <1>5 DEF WriteAt, HasFile, HasFileOK, Held, Solo, Kinds, KindOK, KindOf, TypeOK
  <2>2. Real(file[loc[p].ino]) => Real(Written(file[loc[p].ino], p, loc[p].gen))
    BY <2>1 DEF Real, Written, Files
  <2> QED
    BY <1>2, <1>3, <2>1, <2>2
<1>6. CASE RefreshStore(p)
  <2>1. /\ loc[p].ino \in Inodes /\ loc[p].ino # side
        /\ file[loc[p].ino] \in Files
    BY <1>0, <1>6 DEF RefreshStore, HasFile, HasFileOK, Held, Solo, Kinds, KindOK, KindOf, TypeOK
  <2>2. Real(file[loc[p].ino]) => Real(Stored(file[loc[p].ino], loc[p].copy))
    BY <2>1 DEF Real, Stored, Files
  <2> QED
    BY <1>0, <1>2, <1>3, <1>6, <2>1, <2>2, StoreWrites
<1>7. CASE Pack(p)
  <2>1. CASE file' = [file EXCEPT ![image] = [loc[p].copy EXCEPT !.sum = TRUE]]
    <3>1. Real([loc[p].copy EXCEPT !.sum = TRUE])
      <4>1. Real(loc[p].copy)
        BY <1>0, <1>7 DEF Pack, Solo, Kinds, KindOK
      <4> QED
        BY <1>0, <4>1 DEF Real, Locals, Files
    <3> QED
      BY <1>0, <1>2, <1>3, <2>1, <3>1
  <2> QED
    BY <1>2, <1>7, <2>1 DEF Pack
<1>8. CASE Truncate(p)
  <2>1. Real([Empty EXCEPT !.whole = TRUE, !.gen = p])
    BY <1>0 DEF Real, Empty
  <2> QED
    BY <1>0, <1>2, <1>3, <1>8, <2>1 DEF Truncate
<1>9. CASE Format(p)
  <2>1. Real(At) => Real(Formatted(At, p, call[p].fs))
    BY <1>0 DEF Real, Formatted, Empty, Files
  <2> QED
    BY <1>0, <1>2, <1>3, <1>9, <2>1, FormatWrites DEF At
<1>10. CASE WrapRaw(p)
  <2>1. Real(At) => Real([At EXCEPT !.box = "plain"])
    BY <1>0 DEF Real, Files
  <2> QED
    BY <1>0, <1>2, <1>3, <1>10, <2>1, WrapWrites DEF At
<1>11. CASE Resize(p) /\ ~loc[p].udif
  <2>1. PICK f \in Resized(p, At) \cap Files : file' = [file EXCEPT ![image] = Grown(f)]
    BY <1>0, <1>11, ResizeWrites
  <2>2. f.gen = At.gen /\ f.fs = At.fs
    BY <1>0, DamagedFiles DEF Resized
  <2>3. Real(At) => Real(Grown(f))
    BY <2>2 DEF Real, Grown, Files
  <2> QED
    BY <1>0, <1>2, <1>3, <2>1, <2>3 DEF At
<1>12. CASE UNCHANGED file
  BY <1>2, <1>12
<1> QED
  BY <1>1, <1>4, <1>5, <1>6, <1>7, <1>8, <1>9, <1>10, <1>11, <1>12
  DEF StepOf, Begin, DetectFilesystem, IsUDIF, OpenDriver, OpenDevice, CloseDevice, RefreshRead,
      Apply, Resize

\* Solo is kept as long as no two conversions overlap.
LEMMA SoloStep ==
  ASSUME BaseInv, Solo, NEW p \in Procs, StepOf(p), {"convert"} \notin met'
  PROVE  Solo'
<1> USE DEF GoTo, Fail, Succeed
<1>0. /\ TypeOK /\ Kinds /\ HasFile /\ At \in Files /\ image \in Inodes /\ image # side
      /\ loc \in [Procs -> Locals] /\ None \notin Inodes /\ None \notin Procs
      /\ {"convert"} \notin met
  BY SharedAssumption, OverlapsStep DEF BaseInv, TypeOK, At
<1>1. \A q \in Procs \ {p} :
        /\ pc'[q] = pc[q] /\ call'[q] = call[q]
        /\ loc'[q].ino = loc[q].ino /\ loc'[q].udif = loc[q].udif /\ loc'[q].copy = loc[q].copy
        /\ pc[p] # "read" => loc'[q].shared = loc[q].shared
  <2>1. ASSUME NEW q \in Procs \ {p}
        PROVE  /\ loc'[q].ino = loc[q].ino /\ loc'[q].udif = loc[q].udif /\ loc'[q].copy = loc[q].copy
               /\ pc[p] # "read" => loc'[q].shared = loc[q].shared
    <3>1. \/ loc'[q] = loc[q]
          \/ pc[p] = "read" /\ loc'[q] = [loc[q] EXCEPT !.shared = TRUE]
      BY <2>1, LocalsStep
    <3> QED
      BY <1>0, <3>1 DEF Locals
  <2> QED
    BY <1>0, <2>1, Moves
<1>2. CASE pc[p] \notin Converting
  <2>1. /\ UNCHANGED <<image, side>>
        /\ \A j \in Inodes : Real(file[j]) => Real(file'[j])
        /\ side # None => file'[side] = file[side]
    BY <1>2, BesideConversion
  <2>2. Real(At')
    BY <1>0, <2>1 DEF Solo, At
  <2>3. ASSUME NEW q \in Procs, q # p
        PROVE  /\ pc'[q] # "idle" /\ call'[q].op # "convert" /\ loc'[q].ino # None =>
                    loc'[q].ino # side' /\ Real(file'[loc'[q].ino])
               /\ pc'[q] \in {"apply", "pack"} /\ loc'[q].udif => Real(loc'[q].copy)
               /\ pc'[q] = "fill" =>
                    side' = loc'[q].ino /\ ~loc'[q].shared /\ loc'[q].copy.whole /\ Real(loc'[q].copy)
               /\ pc'[q] = "rename" => side' = loc'[q].ino /\ file'[side'].whole /\ Real(file'[side'])
    <3>1. loc[q].ino # None => loc[q].ino \in Inodes
      BY <1>0 DEF Locals
    <3>2. pc[q] = "rename" => side # None
      BY <1>0 DEF Solo, HasFile, HasFileOK, Held
    <3> QED
      BY <1>1, <1>2, <2>1, <2>3, <3>1, <3>2 DEF Solo, Converting
  <2>4. pc'[p] \notin {"fill", "rename"}
    BY <1>0, <1>2, WhereTo DEF Converting, ReadSource, Fill
  <2>5. loc'[p].ino # None => loc'[p].ino # side' /\ Real(file'[loc'[p].ino])
    <3>1. pc[p] = "idle" \/ call[p].op # "convert"
      <4>1. pc[p] \notin {"done", "dead"}
        BY DEF StepOf, Begin, ReadSource, Fill, Rename,
         DetectFilesystem, IsUDIF, OpenDriver, Apply, Pack, OpenDevice, WriteAt, CloseDevice, RefreshRead,
         RefreshStore, Truncate, Format, WrapRaw, Resize, Crash
      <4> QED
        BY <1>0, <1>2, <4>1 DEF Converting, Kinds, KindOK, KindOf, TypeOK, PCs
    <3>2. loc'[p].ino \in {loc[p].ino, image}
      BY <1>0, <1>2, InoStep DEF Converting
    <3>3. pc[p] = "idle" => loc[p].ino = None
      BY <1>0 DEF Kinds, KindOK, NoLocals
    <3>4. loc[p].ino # None => loc[p].ino # side /\ loc[p].ino \in Inodes /\ Real(file[loc[p].ino])
      BY <1>0, <3>1, <3>3 DEF Solo, Locals
    <3> QED
      BY <1>0, <2>1, <2>2, <3>2, <3>4 DEF At
  <2>6. pc'[p] \in {"apply", "pack"} /\ loc'[p].udif => Real(loc'[p].copy)
    <3>1. CASE OpenDriver(p)
      BY <1>0, <3>1 DEF OpenDriver, TypeOK, Locals, Solo
    <3>2. CASE Apply(p)
      BY <1>0, <3>2 DEF Apply, TypeOK, Locals, Files, Solo, Real
    <3>3. CASE Resize(p) /\ pc'[p] = "pack"
      <4>1. PICK c \in Resized(p, At) \cap Files : loc' = [loc EXCEPT ![p].copy = c]
        BY <1>0, <3>3, ResizeReads
      <4>2. Real(c)
        BY <1>0, DamagedFiles DEF Resized, Solo, Real
      <4> QED
        BY <1>0, <4>1, <4>2 DEF Locals
    <3>4. CASE Resize(p) /\ pc'[p] # "pack"
      BY <1>0, <3>4, WhereTo DEF OpenDriver, Resize
    <3>5. CASE ~OpenDriver(p) /\ ~Apply(p) /\ ~Resize(p)
      BY <1>0, <3>5, WhereTo
    <3> QED
      BY <3>1, <3>2, <3>3, <3>4, <3>5
  <2> QED
    BY <2>2, <2>3, <2>4, <2>5, <2>6 DEF Solo, At
<1>3. CASE pc[p] \in Converting
  <2>1. \A q \in Procs \ {p} : pc[q] \notin Converting
    BY <1>0, <1>3, OneConversion
  <2>2. call[p].op = "convert" /\ call' = call
    BY <1>0, <1>3 DEF Converting, Kinds, KindOK, KindOf, StepOf, Begin, ReadSource, Fill, Rename,
       DetectFilesystem, IsUDIF, OpenDriver, Apply, Pack, OpenDevice, WriteAt, CloseDevice, RefreshRead,
       RefreshStore, Truncate, Format, WrapRaw, Resize, Crash
  <2>3. ReadSource(p) \/ Fill(p) \/ Rename(p) \/ Crash(p)
    BY <1>3 DEF Converting, StepOf, Begin, 
       DetectFilesystem, IsUDIF, OpenDriver, Apply, Pack, OpenDevice, WriteAt, CloseDevice, RefreshRead,
       RefreshStore, Truncate, Format, WrapRaw, Resize
  \* the others, when the file of none of them is touched
  <2>4. ASSUME Real(At'),
               \A q \in Procs \ {p} : pc[q] # "idle" /\ call[q].op # "convert" /\ loc[q].ino # None =>
                 loc[q].ino # side' /\ file'[loc[q].ino] = file[loc[q].ino],
               pc'[p] \notin {"apply", "pack"},
               pc'[p] = "fill" =>
                 side' = loc'[p].ino /\ ~loc'[p].shared /\ loc'[p].copy.whole /\ Real(loc'[p].copy),
               pc'[p] = "rename" => side' = loc'[p].ino /\ file'[side'].whole /\ Real(file'[side'])
        PROVE  Solo'
    BY <1>1, <2>1, <2>2, <2>4 DEF Solo, Converting
  <2>5. CASE ReadSource(p)
    <3>1. UNCHANGED image
      BY <2>5 DEF ReadSource
    <3>2. CASE pc'[p] = "done"
      <4>1. side' \in {None, side} /\ UNCHANGED file
        BY <2>5, <3>2, ReadForms
      <4> QED
        BY <2>4, <3>1, <3>2, <4>1 DEF Solo, At
    <3>3. CASE pc'[p] # "done"
      <4>1. /\ pc'[p] = "fill" /\ Readable(At)
            /\ side' \in Inodes \ {image}
            /\ IF side # None THEN side' = side ELSE file[side'] = Empty
            /\ file' = [file EXCEPT ![side'] = Unfilled]
            /\ loc'[p].ino = side' /\ loc'[p].copy = At
            /\ Filling(side') \subseteq {p} => loc'[p].shared = FALSE
        BY <2>5, <3>3, ReadForms
      <4>2. Filling(side') \subseteq {p}
        BY <2>1 DEF Filling, Converting
      <4>3. ~Real(Empty)
        BY DEF Real, Empty
      <4>4. \A q \in Procs \ {p} : pc[q] # "idle" /\ call[q].op # "convert" /\ loc[q].ino # None =>
                 loc[q].ino # side' /\ file'[loc[q].ino] = file[loc[q].ino]
        BY <1>0, <4>1, <4>3 DEF Solo, TypeOK, Locals
      <4>5. At' = At
        BY <1>0, <3>1, <4>1 DEF At, TypeOK
      <4>6. Real(At) /\ At.whole
        BY <4>1 DEF Solo, Readable
      <4> QED
        BY <2>4, <4>1, <4>2, <4>4, <4>5, <4>6
    <3> QED
      BY <3>2, <3>3
  <2>6. CASE Fill(p)
    <3>1. /\ UNCHANGED <<image, loc>> /\ pc[p] = "fill" /\ side = loc[p].ino /\ side \in Inodes
          /\ ~loc[p].shared /\ loc[p].copy.whole /\ Real(loc[p].copy) /\ loc[p].copy \in Files
      BY <1>0, <2>6 DEF Fill, Solo, HasFile, HasFileOK, Held, Locals
    <3>2. CASE side' \in {None, side} /\ UNCHANGED file /\ pc'[p] = "done"
      BY <2>4, <3>1, <3>2 DEF Solo, At
    <3>3. CASE pc'[p] = "rename" /\ UNCHANGED side
               /\ \E w \in {TRUE, ~loc[p].shared},
                     c \in IF Mixed(p) = {} THEN {loc[p].copy} ELSE Damaged(loc[p].copy) :
                    file' = [file EXCEPT ![loc[p].ino] =
                       [c EXCEPT !.box = call[p].to, !.sum = TRUE, !.whole = w]]
      <4>0. PICK c \in IF Mixed(p) = {} THEN {loc[p].copy} ELSE Damaged(loc[p].copy) :
              file' = [file EXCEPT ![side] =
                       [c EXCEPT !.box = call[p].to, !.sum = TRUE, !.whole = TRUE]]
        BY <3>1, <3>3
      <4>1. c \in Files /\ c.gen = loc[p].copy.gen /\ c.fs = loc[p].copy.fs
        BY <3>1, DamagedFiles
      <4>2. file'[side].whole /\ Real(file'[side])
        BY <1>0, <3>1, <4>0, <4>1 DEF TypeOK, Real, Files
      <4>3. At' = At
        BY <1>0, <3>1, <4>0 DEF At, TypeOK
      <4>4. \A q \in Procs \ {p} : pc[q] # "idle" /\ call[q].op # "convert" /\ loc[q].ino # None =>
                 loc[q].ino # side' /\ file'[loc[q].ino] = file[loc[q].ino]
        BY <1>0, <3>3, <4>0 DEF Solo, TypeOK, Locals
      <4>5. Real(At)
        BY DEF Solo
      <4> QED
        BY <2>4, <3>1, <3>3, <4>2, <4>3, <4>4, <4>5
    <3> QED
      BY <1>0, <2>6, <3>2, <3>3 DEF Fill, RemoveSide, TypeOK
  <2>7. CASE Rename(p)
    <3>1. /\ UNCHANGED <<file, loc>> /\ side' \in {None, side} /\ pc'[p] = "done"
          /\ image' \in {image, side}
      BY <1>0, <2>7 DEF Rename, RemoveSide, TypeOK
    <3>2. Real(file[side]) /\ Real(file[image])
      BY <2>7 DEF Rename, Solo, At
    <3> QED
      BY <2>4, <3>1, <3>2 DEF Solo, At
  <2>8. CASE Crash(p)
    <3>1. UNCHANGED <<file, loc, side, image>> /\ pc'[p] = "dead"
      BY <1>0, <2>8 DEF Crash, TypeOK
    <3> QED
      BY <2>4, <3>1 DEF Solo, At
  <2> QED
    BY <2>3, <2>5, <2>6, <2>7, <2>8
<1> QED
  BY <1>2, <1>3

\* It holds before the first call.
LEMMA InitSolo == Init => Solo
<1> SUFFICES ASSUME Init PROVE Solo
  OBVIOUS
<1>1. PICK b \in Boxes, t \in FsTypes :
        file = [i \in Inodes |->
                 IF i = image THEN [Empty EXCEPT !.box = b, !.fs = t, !.whole = TRUE]
                 ELSE Empty]
  BY DEF Init
<1>2. Real(At)
  BY <1>1, SharedAssumption DEF Init, Real, At, Empty
<1> QED
  BY <1>2 DEF Init, Solo, NoLocals

\* Solo, as long as the history has no two conversions at once.
SoloInv == {"convert"} \in met \/ Solo

\* Every step keeps that.
LEMMA SoloInvStep == BaseInv /\ SoloInv /\ [Next]_vars => SoloInv'
<1> SUFFICES ASSUME BaseInv, SoloInv, [Next]_vars PROVE SoloInv'
  OBVIOUS
<1>1. CASE UNCHANGED vars
  BY <1>1 DEF vars, SoloInv, Solo, At
<1>2. ASSUME NEW p \in Procs, StepOf(p) PROVE SoloInv'
  BY <1>2, SoloStep, OverlapsStep DEF SoloInv
<1> QED
  BY <1>1, <1>2 DEF Next, StepOf

\* os.Rename never publishes a file that is still being written, unless two conversions
\* shared the side file.
THEOREM PublishesWhole == Spec => PublishedWhole
<1>1. Spec => []SoloInv
  <2>1. Init => SoloInv
    BY InitSolo DEF SoloInv
  <2> QED
    BY <2>1, SoloInvStep, BaseInvariant, PTL DEF Spec
<1>2. BaseInv /\ SoloInv /\ [Next]_vars
        => [image' # image => file'[image'].whole \/ {"convert"} \in met]_vars
  <2> SUFFICES ASSUME BaseInv, SoloInv, [Next]_vars, image' # image
               PROVE  file'[image'].whole \/ {"convert"} \in met
    OBVIOUS
  <2>1. PICK p \in Procs : StepOf(p)
    BY DEF vars, Next, StepOf
  <2>2. Rename(p) /\ image' = side
    BY <2>1, NamesStep
  <2>3. UNCHANGED file /\ pc[p] = "rename"
    BY <2>2 DEF Rename
  <2> QED
    BY <2>2, <2>3 DEF SoloInv, Solo
<1> QED
  BY <1>1, <1>2, BaseInvariant, PTL DEF Spec, PublishedWhole

-----------------------------------------------------------------------------
(* Confirmed writes *)

\* Calls that keep each other's writes: none of them converts, creates or cuts, a
\* session does not meet another session, a resize or a device, nor a resize a device.
LEMMA ConsiderateApart ==
  /\ \A x, y : {x, y} \in Considerate =>
       /\ x \notin {"convert", "create"} /\ y \notin {"convert", "create"}
       /\ x = "write" => y \notin {"write", "device", "resize"}
       /\ y = "write" => x \notin {"write", "device", "resize"}
       /\ x = "resize" => y \notin {"write", "device"}
       /\ y = "resize" => x \notin {"write", "device"}
  /\ {"convert"} \notin Considerate
  /\ {"exec", "udif"} \notin Considerate /\ {"mixed"} \notin Considerate /\ {"cut"} \notin Considerate
<1>1. ASSUME NEW x, NEW y, {x, y} \in Considerate
      PROVE  /\ x \notin {"convert", "create"} /\ y \notin {"convert", "create"}
             /\ x = "write" => y \notin {"write", "device", "resize"}
             /\ y = "write" => x \notin {"write", "device", "resize"}
             /\ x = "resize" => y \notin {"write", "device"}
             /\ y = "resize" => x \notin {"write", "device"}
  <2>1. x \in {x, y} /\ y \in {x, y}
    OBVIOUS
  <2>2. \A a, b : {x, y} = {a, b} => a \in {x, y} /\ b \in {x, y}
    OBVIOUS
  <2> QED
    BY <1>1, <2>1, <2>2 DEF Considerate
<1>2. {"convert"} = {"convert", "convert"}
  OBVIOUS
<1>3. {"exec", "udif"} \notin Considerate
  <2>1. "exec" \in {"exec", "udif"} /\ "udif" \in {"exec", "udif"} /\ "raw" \notin {"exec", "udif"}
    OBVIOUS
  <2> QED
    BY <2>1 DEF Considerate
<1>4. {"mixed"} \notin Considerate /\ {"cut"} \notin Considerate
  <2>1. "mixed" \in {"mixed"} /\ "cut" \in {"cut"}
    OBVIOUS
  <2> QED
    BY <2>1 DEF Considerate
<1> QED
  BY <1>1, <1>2, <1>3, <1>4

\* p is about to write to an open file, or has done so.
Uses(p) == (pc[p] = "apply" /\ ~loc[p].udif) \/ pc[p] \in {"dwrite", "dclose", "refresh", "store"}

\* What p found out is still true of the image, and what it will put at the path has
\* every confirmed write in it.
KeptOK(p) ==
  /\ \/ pc[p] \in {"apply", "pack", "dwrite", "dclose", "refresh", "store", "resize"}
     \/ pc[p] = "open" /\ call[p].op # "exec"
     => (loc[p].udif <=> At.box # "raw")
  /\ pc[p] = "dwrite" \/ (pc[p] = "apply" /\ ~loc[p].udif) => loc[p].ino = image /\ loc[p].gen = At.gen
  /\ pc[p] \in {"dwrite", "dclose", "refresh", "store"} => At.box # "packed"
  /\ pc[p] \in {"dclose", "refresh", "store"} => p \in At.data
  /\ pc[p] \in {"refresh", "store"} => loc[p].udif
  /\ pc[p] = "store" => loc[p].ino = image
  /\ pc[p] \in {"apply", "pack"} /\ loc[p].udif =>
       loc[p].copy.whole /\ loc[p].copy.box # "raw" /\ acked \subseteq loc[p].copy.data
  /\ pc[p] = "pack" /\ call[p].op = "write" => p \in loc[p].copy.data
  /\ pc[p] = "fill" => acked \subseteq loc[p].copy.data
  /\ pc[p] = "rename" => acked \subseteq file[side].data
  /\ pc[p] \in {"format", "wrap"} => acked = {} /\ At.box = "raw"
Kept == At.whole /\ acked \subseteq At.data /\ \A p \in Procs : KeptOK(p)

\* Who is under way while p takes a step.
LEMMA Company ==
  ASSUME BaseInv, BaseInv', met' \subseteq Considerate, NEW p \in Procs, StepOf(p),
         NEW q \in Procs \ {p}, q \in Active
  PROVE  /\ pc[q] \notin {"read", "fill", "rename", "truncate", "format", "wrap"}
         /\ pc[p] \notin {"read", "fill", "rename", "truncate", "format", "wrap"}
         /\ pc[p] # "idle" /\ call[p].op = "write" => call[q].op \notin {"write", "device", "resize"}
         /\ pc[p] # "idle" /\ call[p].op = "resize" => call[q].op \notin {"write", "device"}
         /\ pc[p] # "idle" /\ call[p].op = "device" => call[q].op \notin {"write", "resize"}
<1>0. TypeOK /\ Kinds
  BY DEF BaseInv
<1>1. pc'[q] = pc[q] /\ call'[q] = call[q]
  BY <1>0, Moves
<1>2. CASE pc[p] = "idle"
  <2>1. p \in Active'
    <3>1. Begin(p)
      BY <1>2 DEF StepOf, Begin, ReadSource, Fill, Rename, DetectFilesystem, IsUDIF, OpenDriver, Apply, Pack,
     OpenDevice, WriteAt, CloseDevice, RefreshRead, RefreshStore, Truncate, Format, WrapRaw, Resize, Crash
    <3> QED
      BY <1>0, <3>1, CallFields DEF Begin, GoTo, FirstStep, TypeOK, Active
  <2>2. {call'[p].op, call'[q].op} \in Considerate
    BY <1>1, <2>1 DEF BaseInv, Overlaps, Active
  <2>3. call[q].op \notin {"convert", "create"}
    BY <1>1, <2>2, ConsiderateApart
  <2> QED
    BY <1>0, <1>2, <2>3 DEF Kinds, KindOK, KindOf
<1>3. CASE pc[p] # "idle"
  <2>1. p \in Active
    BY <1>3 DEF Active, StepOf, Begin, ReadSource, Fill, Rename, DetectFilesystem, IsUDIF, OpenDriver, Apply, Pack,
     OpenDevice, WriteAt, CloseDevice, RefreshRead, RefreshStore, Truncate, Format, WrapRaw, Resize, Crash
  <2>2. {call[p].op, call[q].op} \in Considerate
    BY <2>1, OverlapsStep DEF BaseInv, Overlaps
  <2> QED
    BY <1>0, <1>3, <2>2, ConsiderateApart DEF Kinds, KindOK, KindOf
<1> QED
  BY <1>2, <1>3

\* What the others found out stays true, as long as p's step leaves the image alike.
LEMMA OtherKept ==
  ASSUME BaseInv, BaseInv', Kept, met' \subseteq Considerate, NEW p \in Procs, StepOf(p),
         NEW q \in Procs \ {p},
         q \in Active =>
           /\ image' = image
           /\ At'.box = "raw" <=> At.box = "raw"
           /\ Uses(q) => /\ At'.gen = At.gen /\ At.data \subseteq At'.data
                         /\ At.box # "packed" => At'.box # "packed"
           /\ pc[q] \in {"apply", "pack"} /\ loc[q].udif => acked' \subseteq acked
  PROVE  KeptOK(q)'
<1>0. TypeOK /\ loc \in [Procs -> Locals] /\ KeptOK(q)
  BY DEF BaseInv, TypeOK, Kept
<1>1. pc'[q] = pc[q] /\ call'[q] = call[q]
  BY <1>0, Moves
<1>2. CASE q \notin Active
  BY <1>0, <1>1, <1>2 DEF Active, KeptOK
<1>3. CASE q \in Active
  <2>1. pc[q] \notin {"read", "fill", "rename", "truncate", "format", "wrap"}
    BY <1>3, Company
  <2>2. loc'[q] = loc[q]
    BY <2>1, LocalsStep
  <2> QED
    BY <1>0, <1>1, <1>3, <2>1, <2>2 DEF KeptOK, Uses
<1> QED
  BY <1>2, <1>3

\* The same when p leaves the image and the confirmed writes alone.
LEMMA KeptStill ==
  ASSUME BaseInv, BaseInv', Kept, met' \subseteq Considerate, NEW p \in Procs, StepOf(p),
         image' = image, At' = At, acked' = acked, KeptOK(p)'
  PROVE  Kept'
<1>1. \A q \in Procs \ {p} : KeptOK(q)'
  BY OtherKept
<1> QED
  BY <1>1 DEF Kept

\* A write through an open file: it lands in the image, which keeps its container.
LEMMA WrittenImage ==
  ASSUME BaseInv, At.whole, NEW p \in Procs,
         loc[p].ino = image, loc[p].gen = At.gen, At.box # "packed",
         file' = [file EXCEPT ![loc[p].ino] = Written(@, p, loc[p].gen)], image' = image
  PROVE  /\ At'.whole /\ At'.box = At.box /\ At'.gen = At.gen /\ At'.fs = At.fs
         /\ At.box = "raw" => At'.sum
         /\ At'.torn = At.torn /\ At.data \subseteq At'.data /\ p \in At'.data
<1>1. At \in Files /\ image \in Inodes /\ At.whole
  BY DEF BaseInv, TypeOK, At
<1>2. At' = Written(At, p, At.gen)
  BY <1>1 DEF At, BaseInv, TypeOK
<1>3. InPlace(At)
  BY <1>1 DEF InPlace, Files, Boxes
<1> DEFINE s == At.box = "raw"
<1>4. At' = [At EXCEPT !.data = @ \cup {p}, !.sum = s] /\ (At.box = "raw" => s)
  BY <1>2, <1>3 DEF Written
<1> HIDE DEF At, s
<1> QED
  BY <1>1, <1>4 DEF Files

\* A driver that found the file as it left it, and a conversion of a file that did
\* not change, write what they should.
LEMMA Undisturbed ==
  ASSUME TypeOK, {"mixed"} \notin met', NEW p \in Procs
  PROVE  /\ Apply(p) /\ ~loc[p].udif =>
              file' = [file EXCEPT ![loc[p].ino] = Written(@, p, loc[p].gen)]
         /\ Fill(p) /\ pc'[p] = "rename" => Mixed(p) = {}
<1>1. ASSUME Apply(p), ~loc[p].udif
      PROVE  file' = [file EXCEPT ![loc[p].ino] = Written(@, p, loc[p].gen)]
  BY <1>1, ApplyForms
<1>2. ASSUME Fill(p), pc'[p] = "rename" PROVE Mixed(p) = {}
  BY <1>2 DEF Fill, Mixed, Fail, GoTo, TypeOK
<1> QED
  BY <1>1, <1>2

\* Calls that keep each other's writes leave every confirmed write in the image.
LEMMA KeptStep ==
  ASSUME BaseInv, BaseInv', Solo, Kept, met' \subseteq Considerate, NEW p \in Procs, StepOf(p)
  PROVE  Kept'
<1> USE DEF GoTo, Fail, Succeed
<1>0. /\ TypeOK /\ At \in Files /\ image \in Inodes /\ image # side
      /\ loc \in [Procs -> Locals] /\ pc \in [Procs -> PCs] /\ file \in [Inodes -> Files]
      /\ KindOK(p) /\ HasFileOK(p) /\ KeptOK(p) /\ At.whole /\ acked \subseteq At.data
  BY DEF BaseInv, TypeOK, At, Kinds, HasFile, Kept
<1>a. ASSUME \A q \in Procs \ {p} : q \notin Active,
             At'.whole, acked' \subseteq At'.data, KeptOK(p)'
      PROVE  Kept'
  <2>1. \A q \in Procs \ {p} : KeptOK(q)'
    BY <1>a, OtherKept
  <2> QED
    BY <1>a, <2>1 DEF Kept
<1>b. pc[p] \in {"read", "fill", "rename", "truncate", "format", "wrap"} =>
        \A q \in Procs \ {p} : q \notin Active
  BY Company
<1>1. CASE Begin(p)
  <2>1. pc'[p] \in {"read", "detect", "isudif", "truncate"}
    BY <1>0, <1>1, CallFields DEF Begin, FirstStep
  <2>2. image' = image /\ At' = At /\ acked' = acked
    BY <1>1 DEF Begin, At
  <2>3. KeptOK(p)'
    BY <2>1 DEF KeptOK
  <2> QED
    BY <2>2, <2>3, KeptStill
<1>2. CASE ReadSource(p)
  <2>1. image' = image /\ acked' = acked
    BY <1>2 DEF ReadSource
  <2>2. CASE pc'[p] = "done"
    <3>1. At' = At
      BY <1>2, <2>1, <2>2, ReadForms DEF At
    <3>2. KeptOK(p)'
      BY <2>2 DEF KeptOK
    <3> QED
      BY <2>1, <3>1, <3>2, KeptStill
  <2>3. CASE pc'[p] # "done"
    <3>1. /\ pc'[p] = "fill" /\ side' \in Inodes \ {image}
          /\ file' = [file EXCEPT ![side'] = Unfilled] /\ loc'[p].copy = At
      BY <1>2, <2>3, ReadForms
    <3>2. At' = At
      BY <1>0, <2>1, <3>1 DEF At
    <3>3. KeptOK(p)'
      BY <1>0, <2>1, <3>1 DEF KeptOK
    <3> QED
      BY <2>1, <3>2, <3>3, KeptStill
  <2> QED
    BY <2>2, <2>3
<1>3. CASE Fill(p)
  <2>1. /\ UNCHANGED <<image, loc, acked>> /\ side = loc[p].ino /\ side \in Inodes
        /\ loc[p].copy \in Files /\ acked \subseteq loc[p].copy.data
    BY <1>0, <1>3 DEF Fill, Solo, HasFileOK, Held, Locals, KeptOK
  <2>2. CASE pc'[p] = "done" /\ UNCHANGED file
    <3>1. KeptOK(p)' /\ At' = At
      BY <2>1, <2>2 DEF KeptOK, At
    <3> QED
      BY <2>1, <3>1, KeptStill
  <2>3. CASE pc'[p] = "rename" /\ UNCHANGED side
             /\ \E w \in {TRUE, ~loc[p].shared} :
                  file' = [file EXCEPT ![loc[p].ino] =
                     [loc[p].copy EXCEPT !.box = call[p].to, !.sum = TRUE, !.whole = w]]
    <3>1. At' = At
      BY <1>0, <2>1, <2>3 DEF At
    <3>2. file'[side'].data = loc[p].copy.data
      BY <1>0, <2>1, <2>3 DEF Files
    <3>3. KeptOK(p)'
      BY <2>1, <2>3, <3>2 DEF KeptOK
    <3> QED
      BY <2>1, <3>1, <3>3, KeptStill
  <2>4. {"mixed"} \notin met'
    BY ConsiderateApart
  <2> QED
    BY <1>0, <1>3, <2>2, <2>3, <2>4, Undisturbed DEF Fill
<1>4. CASE Rename(p)
  <2>1. UNCHANGED <<file, acked>> /\ pc'[p] = "done" /\ image' \in {image, side}
    BY <1>0, <1>4 DEF Rename
  <2>2. file[side].whole /\ acked \subseteq file[side].data
    BY <1>0, <1>4 DEF Rename, Solo, KeptOK
  <2>3. At'.whole /\ acked' \subseteq At'.data
    BY <1>0, <2>1, <2>2 DEF At
  <2>4. KeptOK(p)'
    BY <2>1 DEF KeptOK
  <2> QED
    BY <1>a, <1>b, <1>4, <2>3, <2>4 DEF Rename
<1>5. CASE DetectFilesystem(p)
  <2>1. image' = image /\ At' = At /\ acked' = acked /\ call' = call
    BY <1>5 DEF DetectFilesystem, At
  <2>2. pc'[p] \in {"isudif", "done"} \/ (pc'[p] = "open" /\ call[p].op = "exec")
    <3>1. CASE pc' = [pc EXCEPT ![p] = IF call[p].op = "exec" THEN "open" ELSE "isudif"]
      <4>1. CASE call[p].op = "exec"
        BY <1>0, <3>1, <4>1
      <4>2. CASE call[p].op # "exec"
        BY <1>0, <3>1, <4>2
      <4> QED
        BY <4>1, <4>2
    <3>2. CASE pc' = [pc EXCEPT ![p] = "done"]
      BY <1>0, <3>2
    <3> QED
      BY <1>5, <3>1, <3>2 DEF DetectFilesystem
  <2>3. KeptOK(p)'
    BY <2>1, <2>2 DEF KeptOK
  <2> QED
    BY <2>1, <2>3, KeptStill
<1>6. CASE IsUDIF(p)
  <2>1. image' = image /\ At' = At /\ acked' = acked
    BY <1>6 DEF IsUDIF, At
  <2>2. pc'[p] \in {"open", "resize"}
    BY <1>0, <1>6 DEF IsUDIF
  <2> DEFINE u == At.box # "raw"
  <2>3. u \in BOOLEAN /\ loc' = [loc EXCEPT ![p].udif = u]
    BY <1>6 DEF IsUDIF
  <2> HIDE DEF u
  <2>4. loc'[p].udif = u
    BY <1>0, <2>3 DEF Locals
  <2>5. loc'[p].udif <=> At'.box # "raw"
    BY <2>1, <2>4 DEF u
  <2>6. KeptOK(p)'
    BY <2>2, <2>5 DEF KeptOK
  <2> QED
    BY <2>1, <2>6, KeptStill
<1>7. CASE OpenDriver(p)
  <2>1. image' = image /\ At' = At /\ acked' = acked
    BY <1>7 DEF OpenDriver, At
  <2>2. CASE loc[p].udif /\ Readable(At) /\ At.box # "raw" /\ pc'[p] = "apply"
             /\ loc' = [loc EXCEPT ![p].copy = At]
    <3>1. loc'[p].udif = loc[p].udif /\ loc'[p].copy = At
      BY <1>0, <2>2 DEF Locals
    <3>2. KeptOK(p)'
      BY <1>0, <2>1, <2>2, <3>1 DEF KeptOK
    <3> QED
      BY <2>1, <3>2, KeptStill
  <2>3. CASE ~loc[p].udif /\ pc'[p] = "apply" /\ loc' = [loc EXCEPT ![p].ino = image, ![p].gen = At.gen, ![p].copy = At]
             /\ met' = IF call[p].op = "exec" /\ At.box # "raw"
                    THEN met \cup {{"exec", "udif"}} ELSE met
    <3>1. loc'[p].udif = loc[p].udif /\ loc'[p].ino = image /\ loc'[p].gen = At.gen
      BY <1>0, <2>3 DEF Locals
    <3>2. call[p].op = "exec" => At.box = "raw"
      BY <2>3, ConsiderateApart
    <3>3. call[p].op # "exec" => At.box = "raw"
      BY <1>0, <1>7, <2>3 DEF OpenDriver, KeptOK
    <3>4. KeptOK(p)'
      BY <2>1, <2>3, <3>1, <3>2, <3>3 DEF KeptOK
    <3> QED
      BY <2>1, <3>4, KeptStill
  <2>4. CASE pc'[p] = "done"
    BY <2>1, <2>4, KeptStill DEF KeptOK
  <2> QED
    BY <1>0, <1>7, <2>2, <2>3, <2>4 DEF OpenDriver
<1>8. CASE Apply(p) /\ loc[p].udif
  <2>1. image' = image /\ At' = At /\ acked' = acked /\ pc[p] = "apply" /\ pc'[p] = "pack"
    BY <1>0, <1>8 DEF Apply, At
  <2>2. loc' = [loc EXCEPT ![p].copy.data = @ \cup {p}]
    BY <1>8 DEF Apply
  <2>3. /\ loc'[p].udif = loc[p].udif /\ loc'[p].copy.whole = loc[p].copy.whole
        /\ loc'[p].copy.box = loc[p].copy.box /\ loc'[p].copy.data = loc[p].copy.data \cup {p}
    BY <1>0, <2>2 DEF Locals, Files
  <2>4. KeptOK(p)'
    BY <1>0, <1>8, <2>1, <2>3 DEF KeptOK
  <2> QED
    BY <2>1, <2>4, KeptStill
<1>9. CASE Apply(p) /\ ~loc[p].udif
  <2>1. /\ image' = image /\ pc[p] = "apply" /\ pc'[p] = "done" /\ acked' = acked \cup {p}
        /\ file' = [file EXCEPT ![loc[p].ino] = Written(@, p, loc[p].gen)]
    BY <1>0, <1>9, ConsiderateApart, Undisturbed DEF Apply
  <2>2. loc[p].ino = image /\ loc[p].gen = At.gen /\ At.box = "raw"
    BY <1>0, <1>9, <2>1 DEF KeptOK
  <2>3. /\ At'.whole /\ At'.box = At.box /\ At'.gen = At.gen
        /\ At.data \subseteq At'.data /\ p \in At'.data
    BY <1>0, <2>1, <2>2, WrittenImage
  <2>4. \A q \in Procs \ {p} : pc[q] \in {"apply", "pack"} => ~loc[q].udif
    BY <2>2 DEF Kept, KeptOK
  <2>5. \A q \in Procs \ {p} : KeptOK(q)'
    BY <2>1, <2>3, <2>4, OtherKept
  <2>6. KeptOK(p)'
    BY <2>1 DEF KeptOK
  <2> QED
    BY <1>0, <2>1, <2>3, <2>5, <2>6 DEF Kept
<1>10. CASE WriteAt(p)
  <2>1. /\ image' = image /\ pc[p] = "dwrite" /\ pc'[p] = "dclose" /\ acked' = acked
        /\ file' = [file EXCEPT ![loc[p].ino] = Written(@, p, loc[p].gen)] /\ loc' = loc
    BY <1>0, <1>10 DEF WriteAt
  <2>2. loc[p].ino = image /\ loc[p].gen = At.gen /\ At.box # "packed"
    BY <1>0, <2>1 DEF KeptOK
  <2>3. /\ At'.whole /\ At'.box = At.box /\ At'.gen = At.gen
        /\ At.data \subseteq At'.data /\ p \in At'.data
    BY <1>0, <2>1, <2>2, WrittenImage
  <2>4. \A q \in Procs \ {p} : KeptOK(q)'
    BY <2>1, <2>3, OtherKept
  <2>5. KeptOK(p)'
    BY <1>0, <2>1, <2>2, <2>3 DEF KeptOK
  <2> QED
    BY <1>0, <2>1, <2>3, <2>4, <2>5 DEF Kept
<1>11. CASE Pack(p)
  <2>1. pc[p] = "pack" /\ pc'[p] = "done" /\ image' = image /\ loc[p].udif
    BY <1>0, <1>11 DEF Pack, KindOK
  <2>2. /\ loc[p].copy \in Files /\ loc[p].copy.whole /\ loc[p].copy.box # "raw" /\ At.box # "raw"
        /\ acked \subseteq loc[p].copy.data
        /\ call[p].op = "write" => p \in loc[p].copy.data
    BY <1>0, <2>1 DEF KeptOK, Locals
  <2>3. /\ file' = [file EXCEPT ![image] = [loc[p].copy EXCEPT !.sum = TRUE]]
        /\ acked' = IF call[p].op = "write" THEN acked \cup {p} ELSE acked
    BY <1>11, <2>2 DEF Pack, Confirm
  <2>4. At'.whole /\ At'.box # "raw" /\ acked' \subseteq At'.data
    BY <1>0, <2>1, <2>2, <2>3 DEF At, Files
  <2>5. ASSUME NEW q \in Procs \ {p}, q \in Active
        PROVE  /\ ~Uses(q)
               /\ pc[q] \in {"apply", "pack"} /\ loc[q].udif => acked' \subseteq acked
    <3>1. call[p].op \in {"write", "resize"}
      BY <1>0, <2>1 DEF KindOK, KindOf
    <3>2. call[q].op \notin {"write", "device"} /\ (call[p].op = "write" => call[q].op # "resize")
      BY <2>1, <2>5, <3>1, Company
    <3>3. pc[q] \notin {"dwrite", "dclose", "refresh", "store"}
          /\ (pc[q] \in {"apply", "pack"} /\ loc[q].udif => call[q].op = "resize")
      BY <2>5, <3>2 DEF BaseInv, Kinds, KindOK, KindOf
    <3>4. pc[q] \in {"apply", "pack"} => loc[q].udif
      BY <2>2, <2>5 DEF Kept, KeptOK
    <3>5. pc[q] # "apply"
      BY <2>5, <3>2, <3>3, <3>4 DEF BaseInv, Kinds, KindOK, KindOf
    <3> QED
      BY <2>3, <3>1, <3>2, <3>3, <3>5 DEF Uses
  <2>6. \A q \in Procs \ {p} : KeptOK(q)'
    BY <2>1, <2>2, <2>4, <2>5, OtherKept
  <2>7. KeptOK(p)'
    BY <2>1 DEF KeptOK
  <2> QED
    BY <2>4, <2>6, <2>7 DEF Kept
<1>12. CASE OpenDevice(p)
  <2>1. image' = image /\ At' = At /\ acked' = acked
    BY <1>12 DEF OpenDevice, At
  <2>2. CASE pc'[p] = "dwrite" /\ (loc[p].udif => At.box = "plain")
             /\ loc' = [loc EXCEPT ![p].ino = image, ![p].gen = At.gen]
    <3>1. loc'[p].udif = loc[p].udif /\ loc'[p].ino = image /\ loc'[p].gen = At.gen
      BY <1>0, <2>2 DEF Locals
    <3>2. loc[p].udif <=> At.box # "raw"
      BY <1>0, <1>12 DEF OpenDevice, KeptOK
    <3>3. KeptOK(p)'
      BY <2>1, <2>2, <3>1, <3>2 DEF KeptOK
    <3> QED
      BY <2>1, <3>3, KeptStill
  <2>3. CASE pc'[p] = "done"
    BY <2>1, <2>3, KeptStill DEF KeptOK
  <2> QED
    BY <1>0, <1>12, <2>2, <2>3 DEF OpenDevice
<1>c. ASSUME image' = image, acked' = acked \cup {p}, pc[p] \in {"dclose", "refresh", "store"},
             pc'[p] = "done", At'.whole, At'.box = At.box, At'.gen = At.gen, At'.data = At.data
      PROVE  Kept'
  <2>1. p \in At.data
    BY <1>0, <1>c DEF KeptOK
  <2>2. ASSUME NEW q \in Procs \ {p}, q \in Active
        PROVE  ~(pc[q] \in {"apply", "pack"} /\ loc[q].udif)
    <3>1. call[p].op = "device"
      BY <1>0, <1>c DEF KindOK, KindOf
    <3>2. call[q].op \notin {"write", "resize"}
      BY <1>c, <2>2, <3>1, Company
    <3> QED
      BY <2>2, <3>2 DEF BaseInv, Kinds, KindOK, KindOf
  <2>3. \A q \in Procs \ {p} : KeptOK(q)'
    BY <1>c, <2>2, OtherKept
  <2>4. KeptOK(p)'
    BY <1>c DEF KeptOK
  <2> QED
    BY <1>0, <1>c, <2>1, <2>3, <2>4 DEF Kept
<1>13. CASE CloseDevice(p)
  <2>1. image' = image /\ At' = At /\ pc[p] = "dclose" /\ loc' = loc
    BY <1>13 DEF CloseDevice, At
  <2>2. CASE pc'[p] = "refresh" /\ loc[p].udif /\ acked' = acked
    <3>1. KeptOK(p)'
      BY <1>0, <2>1, <2>2 DEF KeptOK
    <3> QED
      BY <2>1, <2>2, <3>1, KeptStill
  <2>3. CASE pc'[p] = "done" /\ acked' = acked \cup {p}
    BY <1>0, <1>c, <2>1, <2>3
  <2> QED
    BY <1>0, <1>13, <2>2, <2>3 DEF CloseDevice
<1>14. CASE RefreshRead(p)
  <2>1. image' = image /\ At' = At /\ pc[p] = "refresh"
    BY <1>14 DEF RefreshRead, At
  <2>2. CASE pc'[p] = "store" /\ acked' = acked /\ loc' = [loc EXCEPT ![p].ino = image, ![p].copy = At]
    <3>1. loc'[p].udif = loc[p].udif /\ loc'[p].ino = image
      BY <1>0, <2>2 DEF Locals
    <3>2. KeptOK(p)'
      BY <1>0, <2>1, <2>2, <3>1 DEF KeptOK
    <3> QED
      BY <2>1, <2>2, <3>2, KeptStill
  <2>3. CASE pc'[p] = "done" /\ acked' = acked
    BY <2>1, <2>3, KeptStill DEF KeptOK
  <2>4. CASE pc'[p] = "done" /\ acked' = acked \cup {p}
    BY <1>0, <1>c, <2>1, <2>4
  <2> QED
    BY <1>0, <1>14, <2>2, <2>3, <2>4 DEF RefreshRead
<1>15. CASE RefreshStore(p)
  <2>1. /\ image' = image /\ pc[p] = "store" /\ pc'[p] = "done" /\ acked' = acked \cup {p}
    BY <1>0, <1>15 DEF RefreshStore
  <2>2. loc[p].ino = image /\ At.box # "packed" /\ (loc[p].udif <=> At.box # "raw")
    BY <1>0, <2>1 DEF KeptOK
  <2>3. CASE At.box = "plain"
    <3> DEFINE s == At.data = loc[p].copy.data /\ At.gen = loc[p].copy.gen
    <3>1. At' = [At EXCEPT !.sum = s]
      BY <1>0, <1>15, <2>1, <2>2, <2>3, StoreWrites DEF Stored, At
    <3> HIDE DEF s
    <3>2. At'.whole = At.whole /\ At'.box = At.box /\ At'.gen = At.gen /\ At'.data = At.data
      BY <1>0, <3>1 DEF Files
    <3> QED
      BY <1>0, <1>c, <2>1, <3>2
  <2>4. loc[p].udif
    BY <1>0, <2>1 DEF KeptOK
  <2> QED
    BY <1>0, <2>2, <2>3, <2>4 DEF Files, Boxes
<1>16. CASE Truncate(p)
  <2>1. /\ image' = image /\ pc[p] = "truncate" /\ pc'[p] = "format" /\ acked' = {}
        /\ file' = [file EXCEPT ![image] = [Empty EXCEPT !.whole = TRUE, !.gen = p]]
    BY <1>0, <1>16 DEF Truncate
  <2>2. At'.whole /\ At'.box = "raw"
    BY <1>0, <2>1 DEF At, Empty
  <2>3. KeptOK(p)'
    BY <2>1, <2>2 DEF KeptOK
  <2> QED
    BY <1>a, <1>b, <2>1, <2>2, <2>3
<1>17. CASE Format(p)
  <2>1. image' = image /\ pc[p] = "format" /\ pc'[p] \in {"wrap", "done"} /\ acked' = acked
    BY <1>0, <1>17 DEF Format
  <2>2. acked = {} /\ At.box = "raw"
    BY <1>0, <2>1 DEF KeptOK
  <2>3. At' = [Empty EXCEPT !.whole = At.whole, !.gen = p, !.fs = call[p].fs]
    BY <1>0, <1>17, <2>1, <2>2, FormatWrites DEF Formatted, At
  <2>4. At'.whole /\ At'.box = "raw"
    BY <1>0, <2>3 DEF Empty
  <2>5. KeptOK(p)'
    BY <2>1, <2>2, <2>4 DEF KeptOK
  <2> QED
    BY <1>a, <1>b, <2>1, <2>2, <2>4, <2>5
<1>18. CASE WrapRaw(p)
  <2>1. image' = image /\ pc[p] = "wrap" /\ pc'[p] = "done" /\ acked' = acked
    BY <1>0, <1>18 DEF WrapRaw
  <2>2. acked = {}
    BY <1>0, <2>1 DEF KeptOK
  <2>3. At' = At \/ At' = [At EXCEPT !.box = "plain"]
    BY <1>0, <1>18, <2>1, WrapWrites DEF At
  <2>4. At'.whole
    BY <1>0, <2>3 DEF Files
  <2>5. KeptOK(p)'
    BY <2>1 DEF KeptOK
  <2> QED
    BY <1>a, <1>b, <2>1, <2>2, <2>4, <2>5
<1>19. CASE Resize(p)
  <2>1. image' = image /\ pc[p] = "resize" /\ pc'[p] \in {"done", "pack"} /\ acked' = acked /\ call' = call
    BY <1>0, <1>19 DEF Resize
  <2>0. {"cut"} \notin met' /\ call[p].op = "resize"
    BY <1>0, <2>1, ConsiderateApart DEF KindOK, KindOf
  <2>2. CASE loc[p].udif
    <3>1. At' = At
      BY <1>19, <2>2 DEF Resize, At
    <3>2. CASE pc'[p] = "done"
      BY <2>1, <3>1, <3>2, KeptStill DEF KeptOK
    <3>3. CASE pc'[p] = "pack"
      <4>1. /\ At.box # "raw" /\ ~call[p].cut
            /\ \E c \in Resized(p, At) : loc' = [loc EXCEPT ![p].copy = c]
        BY <1>0, <1>19, <2>0, <2>2, <3>3 DEF Resize
      <4>2. loc' = [loc EXCEPT ![p].copy = At]
        BY <4>1 DEF Resized
      <4>3. loc'[p].udif = loc[p].udif /\ loc'[p].copy = At
        BY <1>0, <4>2 DEF Locals
      <4>4. KeptOK(p)'
        BY <1>0, <2>0, <2>1, <2>2, <3>1, <3>3, <4>1, <4>3 DEF KeptOK
      <4> QED
        BY <2>1, <3>1, <4>4, KeptStill
    <3> QED
      BY <2>1, <3>2, <3>3
  <2>3. CASE ~loc[p].udif
    <3>1. At.box = "raw"
      BY <1>0, <2>1, <2>3 DEF KeptOK
    <3>2. pc'[p] = "done" /\ ~call[p].cut
      BY <1>0, <1>19, <2>0, <2>3 DEF Resize
    <3>3. At' = Grown(At)
      BY <1>0, <1>19, <2>1, <2>3, <3>2, ResizeWrites DEF At, Resized
    <3>4. Grown(At) = At
      BY <1>0, <3>1 DEF Grown, Files
    <3> QED
      BY <2>1, <3>2, <3>3, <3>4, KeptStill DEF KeptOK
  <2> QED
    BY <2>2, <2>3
<1>20. CASE Crash(p)
  <2>1. image' = image /\ At' = At /\ pc'[p] = "dead" /\ acked' = acked
    BY <1>0, <1>20 DEF Crash, At
  <2> QED
    BY <2>1, KeptStill DEF KeptOK
<1> QED
  BY <1>1, <1>2, <1>3, <1>4, <1>5, <1>6, <1>7, <1>8, <1>9, <1>10, <1>11, <1>12, <1>13, <1>14, <1>15,
     <1>16, <1>17, <1>18, <1>19, <1>20 DEF StepOf

\* Kept, for calls that keep each other's writes.
KeptInv == SoloInv /\ (met \subseteq Considerate => Kept)

\* A confirmed write is in the image from then on, for every interleaving of calls
\* that keep each other's writes.
THEOREM WritesKept == Spec => []ConfirmedWritesKept
<1>1. Init => KeptInv
  <2> SUFFICES ASSUME Init PROVE KeptInv
    OBVIOUS
  <2>1. PICK b \in Boxes, t \in FsTypes :
          file = [i \in Inodes |->
                   IF i = image THEN [Empty EXCEPT !.box = b, !.fs = t, !.whole = TRUE]
                   ELSE Empty]
    BY DEF Init
  <2>2. At.whole /\ acked = {}
    BY <2>1 DEF Init, At, Empty
  <2>3. Kept
    BY <2>2 DEF Init, Kept, KeptOK
  <2> QED
    BY <2>3, InitSolo DEF KeptInv, SoloInv
<1>2. BaseInv /\ BaseInv' /\ KeptInv /\ [Next]_vars => KeptInv'
  <2> SUFFICES ASSUME BaseInv, BaseInv', KeptInv, [Next]_vars PROVE KeptInv'
    OBVIOUS
  <2>1. SoloInv'
    BY SoloInvStep DEF KeptInv
  <2>2. CASE UNCHANGED vars
    BY <2>1, <2>2 DEF vars, KeptInv, Kept, KeptOK, At
  <2>3. ASSUME NEW p \in Procs, StepOf(p), met' \subseteq Considerate PROVE Kept'
    <3>1. met \subseteq Considerate
      BY <2>3, OverlapsStep
    <3>2. Solo
      BY <3>1, ConsiderateApart DEF KeptInv, SoloInv
    <3> QED
      BY <2>3, <3>1, <3>2, KeptStep DEF KeptInv
  <2> QED
    BY <2>1, <2>2, <2>3 DEF Next, StepOf, KeptInv
<1>3. KeptInv => ConfirmedWritesKept
  BY DEF KeptInv, Kept, ConfirmedWritesKept
<1> QED
  BY <1>1, <1>2, <1>3, BaseInvariant, PTL DEF Spec

-----------------------------------------------------------------------------
(* Calls that may run together *)

\* The calls that were under way together may run together.
Safe(m) ==
  m \subseteq Compatible \cup
    (IF {"raw", "udif"} \in m THEN {{"raw", "udif"}} ELSE CompatibleInUDIF)

\* A device that has not yet refreshed the checksum of the image.
Dirty(p) ==
  \/ pc[p] \in {"dclose", "refresh"} /\ loc[p].udif
  \/ pc[p] = "store" /\ loc[p].ino = image

\* What p found out is still true of the image if p works on it by its path, or has
\* it open; what it will put at the path opens.
SoundOK(p) ==
  /\ /\ pc[p] \in {"open", "apply", "pack", "dwrite", "dclose", "refresh", "store", "resize"}
     /\ call[p].op # "exec"
     => (loc[p].udif <=> At.box # "raw")
  /\ pc[p] = "apply" /\ ~loc[p].udif /\ loc[p].ino = image => loc[p].gen = At.gen /\ At.box = "raw"
  /\ pc[p] = "dwrite" /\ loc[p].ino = image => loc[p].gen = At.gen /\ At.box # "packed"
  /\ pc[p] \in {"refresh", "store"} => loc[p].udif
  /\ pc[p] = "store" /\ loc[p].ino = image =>
       At.box = "plain" /\ loc[p].copy.data = At.data /\ loc[p].copy.gen = At.gen
  /\ pc[p] \in {"apply", "pack"} /\ loc[p].udif =>
       loc[p].copy.whole /\ loc[p].copy.box # "raw" /\ loc[p].copy.fs # "none" /\ ~loc[p].copy.torn
  /\ pc[p] = "fill" => loc[p].copy.fs # "none" /\ ~loc[p].copy.torn
  /\ pc[p] = "rename" => file[side].fs # "none" /\ ~file[side].torn /\ file[side].sum
  /\ pc[p] \in {"format", "wrap"} => At.box = "raw"
Sound ==
  /\ At.whole /\ ~At.torn
  /\ At.sum \/ (At.box = "plain" /\ \E p \in Procs : Dirty(p))
  /\ At.fs # "none" \/ \E p \in Procs : pc[p] = "format"
  /\ \A p \in Procs : SoundOK(p)

\* Such calls: a creation runs alone, conversions do not overlap, nor does a device
\* with a session, a resize or a device, and nothing but exec commands runs beside a
\* conversion that goes from raw to UDIF or back.
LEMMA SafeApart ==
  ASSUME NEW m, Safe(m)
  PROVE  /\ \A x, y : {x, y} \in m =>
              /\ x # "create" /\ y # "create"
              /\ ~(x = "convert" /\ y = "convert")
              /\ x = "device" => y \notin {"write", "device", "resize"}
              /\ y = "device" => x \notin {"write", "device", "resize"}
              /\ x = "convert" /\ y \in {"write", "device", "resize"} => {"raw", "udif"} \notin m
         /\ {"convert"} \notin m /\ {"exec", "udif"} \notin m
         /\ {"mixed"} \notin m /\ {"cut"} \notin m
<1>1. ASSUME NEW x, NEW y, {x, y} \in m
      PROVE  /\ x # "create" /\ y # "create"
             /\ ~(x = "convert" /\ y = "convert")
             /\ x = "device" => y \notin {"write", "device", "resize"}
             /\ y = "device" => x \notin {"write", "device", "resize"}
             /\ x = "convert" /\ y \in {"write", "device", "resize"} => {"raw", "udif"} \notin m
  <2>1. CASE {x, y} \in Compatible \cup {{"raw", "udif"}}
    <3>1. x \in {x, y} /\ y \in {x, y}
      OBVIOUS
    <3>2. \A a, b : {x, y} = {a, b} => a \in {x, y} /\ b \in {x, y}
      OBVIOUS
    <3> QED
      BY <2>1, <3>1, <3>2 DEF Compatible
  <2>2. CASE {"raw", "udif"} \notin m /\ \E k \in {"write", "device", "resize"} : {x, y} = {"convert", k}
    <3>1. PICK k \in {"write", "device", "resize"} : {x, y} = {"convert", k}
      BY <2>2
    <3>2. x \in {"convert", k} /\ y \in {"convert", k} /\ "convert" \in {x, y} /\ k \in {x, y}
      BY <3>1
    <3> QED
      BY <2>2, <3>1, <3>2
  <2> QED
    BY <1>1, <2>1, <2>2 DEF Safe, CompatibleInUDIF
<1>2. {"convert"} = {"convert", "convert"}
  OBVIOUS
<1>3. {"exec", "udif"} \notin m
  <2>1. "exec" \in {"exec", "udif"} /\ "udif" \in {"exec", "udif"} /\ "raw" \notin {"exec", "udif"}
    OBVIOUS
  <2> QED
    BY <2>1 DEF Safe, Compatible, CompatibleInUDIF
<1>4. {"mixed"} \notin m /\ {"cut"} \notin m
  <2>1. /\ "mixed" \in {"mixed"} /\ "cut" \in {"cut"}
        /\ \A a, b : a # b => {a, b} # {"mixed"} /\ {a, b} # {"cut"}
    OBVIOUS
  <2> QED
    BY <2>1 DEF Safe, Compatible, CompatibleInUDIF
<1> QED
  BY <1>1, <1>2, <1>3, <1>4

\* What may have run together may have done so before.
LEMMA SafeBefore ==
  ASSUME NEW m, NEW n, m \subseteq n, Safe(n)
  PROVE  Safe(m)
<1>1. CASE {"raw", "udif"} \in m
  BY <1>1 DEF Safe
<1>2. CASE {"raw", "udif"} \notin m
  <2>1. ASSUME NEW z \in m PROVE z \in Compatible \cup CompatibleInUDIF
    BY <1>2, <2>1 DEF Safe
  <2> QED
    BY <1>2, <2>1 DEF Safe
<1> QED
  BY <1>1, <1>2

\* Who is under way while p takes a step.
LEMMA SafeCompany ==
  ASSUME BaseInv, BaseInv', Safe(met'), NEW p \in Procs, StepOf(p),
         NEW q \in Procs \ {p}, q \in Active
  PROVE  /\ pc[q] \notin {"truncate", "format", "wrap"}
         /\ pc[p] \notin {"truncate", "format", "wrap"}
         /\ ~(pc[p] \in Converting /\ pc[q] \in Converting)
         /\ pc[p] # "idle" /\ call[p].op = "device" => call[q].op \notin {"write", "device", "resize"}
         /\ pc[p] # "idle" /\ call[q].op = "device" => call[p].op \notin {"write", "device", "resize"}
         /\ pc[p] \in Converting /\ call[q].op \in {"write", "device", "resize"} =>
              {"raw", "udif"} \notin met'
<1>0. TypeOK /\ Kinds
  BY DEF BaseInv
<1>1. pc'[q] = pc[q] /\ call'[q] = call[q]
  BY <1>0, Moves
<1>2. CASE pc[p] = "idle"
  <2>1. p \in Active'
    <3>1. Begin(p)
      BY <1>2 DEF StepOf, Begin, ReadSource, Fill, Rename, DetectFilesystem, IsUDIF, OpenDriver, Apply, Pack,
     OpenDevice, WriteAt, CloseDevice, RefreshRead, RefreshStore, Truncate, Format, WrapRaw, Resize, Crash
    <3> QED
      BY <1>0, <3>1, CallFields DEF Begin, GoTo, FirstStep, TypeOK, Active
  <2>2. {call'[p].op, call'[q].op} \in met'
    BY <1>1, <2>1 DEF BaseInv, Overlaps, Active
  <2>3. call[q].op # "create"
    BY <1>1, <2>2, SafeApart
  <2> QED
    BY <1>0, <1>2, <2>3 DEF Kinds, KindOK, KindOf, Converting
<1>3. CASE pc[p] # "idle"
  <2>1. p \in Active
    BY <1>3 DEF Active, StepOf, Begin, ReadSource, Fill, Rename, DetectFilesystem, IsUDIF, OpenDriver, Apply, Pack,
     OpenDevice, WriteAt, CloseDevice, RefreshRead, RefreshStore, Truncate, Format, WrapRaw, Resize, Crash
  <2>2. {call[p].op, call[q].op} \in met'
    BY <2>1, OverlapsStep DEF BaseInv, Overlaps
  <2>3. pc[q] # "idle"
    BY DEF Active
  <2>4. /\ pc[p] \in Converting => call[p].op = "convert"
        /\ pc[q] \in Converting => call[q].op = "convert"
        /\ pc[p] \in {"truncate", "format", "wrap"} => call[p].op = "create"
        /\ pc[q] \in {"truncate", "format", "wrap"} => call[q].op = "create"
    BY <1>0, <1>3, <2>3 DEF Kinds, KindOK, KindOf, Converting
  <2> QED
    BY <1>3, <2>2, <2>4, SafeApart
<1> QED
  BY <1>2, <1>3

\* p's step changes no other process, except that a conversion may learn that it
\* shares its file.
LEMMA OthersSame ==
  ASSUME BaseInv, NEW p \in Procs, StepOf(p), NEW q \in Procs \ {p}
  PROVE  /\ pc'[q] = pc[q] /\ call'[q] = call[q]
         /\ loc'[q].ino = loc[q].ino /\ loc'[q].udif = loc[q].udif
         /\ loc'[q].copy = loc[q].copy /\ loc'[q].gen = loc[q].gen
<1>0. TypeOK /\ loc \in [Procs -> Locals]
  BY DEF BaseInv, TypeOK
<1>1. \/ loc'[q] = loc[q]
      \/ loc'[q] = [loc[q] EXCEPT !.shared = TRUE]
  BY LocalsStep
<1>2. /\ loc'[q].ino = loc[q].ino /\ loc'[q].udif = loc[q].udif
      /\ loc'[q].copy = loc[q].copy /\ loc'[q].gen = loc[q].gen
  BY <1>0, <1>1 DEF Locals
<1> QED
  BY <1>0, <1>2, Moves

\* What q relies on stays so, as long as p's step leaves alone what q goes by.
LEMMA OtherSound ==
  ASSUME BaseInv, BaseInv', Solo, Sound, Safe(met'), NEW p \in Procs, StepOf(p),
         NEW q \in Procs \ {p},
         q \in Active =>
           /\ call[q].op \in {"write", "device", "resize"} => (At'.box = "raw" <=> At.box = "raw")
           /\ image' # image /\ call[q].op # "convert" => loc[q].ino # image'
           /\ image' = image /\ loc[q].ino = image /\ Uses(q) => At'.gen = At.gen /\ At'.box = At.box
           /\ image' = image /\ loc[q].ino = image /\ pc[q] = "store" => At'.data = At.data
  PROVE  SoundOK(q)'
<1>0. TypeOK /\ SoundOK(q) /\ KindOK(q)
  BY DEF BaseInv, Sound, Kinds
<1>1. /\ pc'[q] = pc[q] /\ call'[q] = call[q]
      /\ loc'[q].ino = loc[q].ino /\ loc'[q].udif = loc[q].udif
      /\ loc'[q].copy = loc[q].copy /\ loc'[q].gen = loc[q].gen
  BY OthersSame
<1>2. CASE q \notin Active
  BY <1>0, <1>1, <1>2 DEF Active, SoundOK
<1>3. CASE q \in Active
  <2>1. pc[q] \notin {"truncate", "format", "wrap"} /\ ~(pc[p] \in Converting /\ pc[q] \in Converting)
    BY <1>3, SafeCompany
  <2>2. pc[q] = "rename" => side' = side /\ file'[side'] = file[side]
    <3> SUFFICES ASSUME pc[q] = "rename" PROVE side' = side /\ file'[side'] = file[side]
      OBVIOUS
    <3>1. pc[p] \notin Converting
      BY <2>1 DEF Converting
    <3>2. side # None
      BY SharedAssumption DEF Solo, BaseInv, HasFile, HasFileOK, Held
    <3> QED
      BY <3>1, <3>2, BesideConversion
  <2>3. pc[q] \in {"open", "apply", "pack", "dwrite", "dclose", "refresh", "store", "resize"}
        /\ call[q].op # "exec" => call[q].op \in {"write", "device", "resize"}
    BY <1>0 DEF KindOK, KindOf
  <2>4. pc[q] \in {"apply", "dwrite", "store"} => call[q].op # "convert"
    BY <1>0 DEF KindOK, KindOf
  <2> QED
    BY <1>0, <1>1, <1>3, <2>1, <2>2, <2>3, <2>4 DEF SoundOK, Uses
<1> QED
  BY <1>2, <1>3

\* A step that leaves the image alone.
LEMMA SoundStill ==
  ASSUME BaseInv, BaseInv', Solo, Sound, Safe(met'), NEW p \in Procs, StepOf(p),
         image' = image, At' = At, SoundOK(p)', pc[p] # "format",
         Dirty(p) => At.sum \/ Dirty(p)'
  PROVE  Sound'
<1>1. \A q \in Procs \ {p} : SoundOK(q)'
  BY OtherSound
<1>2. At'.fs # "none" \/ \E q \in Procs : pc'[q] = "format"
  BY OthersSame DEF Sound
<1>3. ASSUME NEW q \in Procs \ {p}, Dirty(q) PROVE Dirty(q)'
  BY <1>3, OthersSame DEF Dirty
<1>4. At'.sum \/ (At'.box = "plain" /\ \E q \in Procs : Dirty(q)')
  BY <1>3 DEF Sound
<1> QED
  BY <1>1, <1>2, <1>4 DEF Sound

\* Calls that may run together leave an image that opens.
LEMMA SoundStep ==
  ASSUME BaseInv, BaseInv', Solo, Sound, Safe(met'), NEW p \in Procs, StepOf(p)
  PROVE  Sound'
<1> USE DEF GoTo, Fail, Succeed
<1>0. /\ TypeOK /\ At \in Files /\ image \in Inodes /\ image # side
      /\ loc \in [Procs -> Locals] /\ pc \in [Procs -> PCs] /\ file \in [Inodes -> Files]
      /\ KindOK(p) /\ HasFileOK(p) /\ SoundOK(p) /\ At.whole /\ ~At.torn
      /\ (At.box # "plain" => At.sum)
  BY DEF BaseInv, TypeOK, At, Kinds, HasFile, Sound
<1>a. ASSUME \A q \in Procs \ {p} : q \notin Active,
             At'.whole, ~At'.torn, At'.sum, At'.fs # "none" \/ pc'[p] = "format", SoundOK(p)'
      PROVE  Sound'
  <2>1. \A q \in Procs \ {p} : SoundOK(q)'
    BY <1>a, OtherSound
  <2> QED
    BY <1>a, <2>1 DEF Sound
<1>b. pc[p] \in {"truncate", "format", "wrap"} => \A q \in Procs \ {p} : q \notin Active
  BY SafeCompany
<1>c. pc[p] # "format" => At.fs # "none"
  BY SafeCompany DEF Sound, Active
<1>1. CASE Begin(p)
  <2>1. pc'[p] \in {"read", "detect", "isudif", "truncate"} /\ pc[p] = "idle"
    BY <1>0, <1>1, CallFields DEF Begin, FirstStep
  <2>2. image' = image /\ At' = At
    BY <1>1 DEF Begin, At
  <2>3. SoundOK(p)'
    BY <2>1 DEF SoundOK
  <2>4. ~Dirty(p)
    BY <2>1 DEF Dirty
  <2> QED
    BY <2>1, <2>2, <2>3, <2>4, SoundStill
<1>2. CASE ReadSource(p)
  <2>1. image' = image /\ pc[p] = "read" /\ ~Dirty(p)
    BY <1>2 DEF ReadSource, Dirty
  <2>2. CASE pc'[p] = "done"
    <3>1. At' = At
      BY <1>2, <2>1, <2>2, ReadForms DEF At
    <3>2. SoundOK(p)'
      BY <2>2 DEF SoundOK
    <3> QED
      BY <2>1, <3>1, <3>2, SoundStill
  <2>3. CASE pc'[p] # "done"
    <3>1. /\ pc'[p] = "fill" /\ side' \in Inodes \ {image}
          /\ file' = [file EXCEPT ![side'] = Unfilled] /\ loc'[p].copy = At
      BY <1>2, <2>3, ReadForms
    <3>2. At' = At
      BY <1>0, <2>1, <3>1 DEF At
    <3>3. SoundOK(p)'
      BY <1>0, <1>c, <2>1, <3>1 DEF SoundOK
    <3> QED
      BY <2>1, <3>2, <3>3, SoundStill
  <2> QED
    BY <2>2, <2>3
<1>3. CASE Fill(p)
  <2>1. /\ UNCHANGED <<image, loc>> /\ side = loc[p].ino /\ side \in Inodes
        /\ loc[p].copy \in Files /\ loc[p].copy.fs # "none" /\ ~loc[p].copy.torn
        /\ pc[p] = "fill" /\ ~Dirty(p)
    BY <1>0, <1>3 DEF Fill, Solo, HasFileOK, Held, Locals, SoundOK, Dirty
  <2>2. CASE pc'[p] = "done" /\ UNCHANGED file
    <3>1. SoundOK(p)' /\ At' = At
      BY <2>1, <2>2 DEF SoundOK, At
    <3> QED
      BY <2>1, <3>1, SoundStill
  <2>3. CASE pc'[p] = "rename" /\ UNCHANGED side
             /\ \E w \in {TRUE, ~loc[p].shared} :
                  file' = [file EXCEPT ![loc[p].ino] =
                     [loc[p].copy EXCEPT !.box = call[p].to, !.sum = TRUE, !.whole = w]]
    <3>1. At' = At
      BY <1>0, <2>1, <2>3 DEF At
    <3>2. file'[side'].fs = loc[p].copy.fs /\ file'[side'].torn = loc[p].copy.torn /\ file'[side'].sum
      BY <1>0, <2>1, <2>3 DEF Files
    <3>3. SoundOK(p)'
      BY <2>1, <2>3, <3>2 DEF SoundOK
    <3> QED
      BY <2>1, <3>1, <3>3, SoundStill
  <2>4. {"mixed"} \notin met'
    BY SafeApart
  <2> QED
    BY <1>0, <1>3, <2>2, <2>3, <2>4, Undisturbed DEF Fill
<1>4. CASE Rename(p)
  <2>1. UNCHANGED file /\ pc[p] = "rename" /\ pc'[p] = "done" /\ ~Dirty(p)
    BY <1>0, <1>4 DEF Rename, Dirty
  <2>2. SoundOK(p)'
    BY <2>1 DEF SoundOK
  <2>3. CASE image' = image
    BY <2>1, <2>2, <2>3, SoundStill DEF At
  <2>4. CASE side # None /\ image' = side /\ met' = met \cup Crossing(At, file[side])
    <3>1. file[side].whole /\ file[side].fs # "none" /\ ~file[side].torn /\ file[side].sum
      BY <1>0, <2>1 DEF Solo, SoundOK
    <3>2. At' = file[side]
      BY <2>1, <2>4 DEF At
    <3>3. ASSUME NEW q \in Procs \ {p}, q \in Active, call[q].op \in {"write", "device", "resize"}
          PROVE  At'.box = "raw" <=> At.box = "raw"
      <4>1. {"raw", "udif"} \notin met'
        BY <2>1, <3>3, SafeCompany DEF Converting
      <4> QED
        BY <2>4, <3>2, <4>1 DEF Crossing
    <3>4. ASSUME NEW q \in Procs \ {p}, q \in Active, call[q].op # "convert"
          PROVE  loc[q].ino # image'
      BY <2>4, <3>4 DEF Solo, Active
    <3>5. \A q \in Procs \ {p} : SoundOK(q)'
      BY <1>0, <2>4, <3>3, <3>4, OtherSound
    <3> QED
      BY <2>2, <3>1, <3>2, <3>5 DEF Sound
  <2> QED
    BY <1>4, <2>3, <2>4 DEF Rename
<1>5. CASE DetectFilesystem(p)
  <2>1. image' = image /\ At' = At /\ call' = call /\ pc[p] = "detect" /\ ~Dirty(p)
    BY <1>5 DEF DetectFilesystem, At, Dirty
  <2>2. pc'[p] \in {"isudif", "done"} \/ (pc'[p] = "open" /\ call[p].op = "exec")
    BY <1>0, <1>5 DEF DetectFilesystem
  <2>3. SoundOK(p)'
    BY <2>1, <2>2 DEF SoundOK
  <2> QED
    BY <2>1, <2>3, SoundStill
<1>6. CASE IsUDIF(p)
  <2>1. image' = image /\ At' = At /\ pc[p] = "isudif" /\ ~Dirty(p)
    BY <1>6 DEF IsUDIF, At, Dirty
  <2>2. pc'[p] \in {"open", "resize"}
    BY <1>0, <1>6 DEF IsUDIF
  <2> DEFINE u == At.box # "raw"
  <2>3. u \in BOOLEAN /\ loc' = [loc EXCEPT ![p].udif = u]
    BY <1>6 DEF IsUDIF
  <2> HIDE DEF u
  <2>4. loc'[p].udif = u
    BY <1>0, <2>3 DEF Locals
  <2>5. loc'[p].udif <=> At'.box # "raw"
    BY <2>1, <2>4 DEF u
  <2>6. SoundOK(p)'
    BY <2>2, <2>5 DEF SoundOK
  <2> QED
    BY <2>1, <2>6, SoundStill
<1>7. CASE OpenDriver(p)
  <2>1. image' = image /\ At' = At /\ call' = call /\ pc[p] = "open" /\ ~Dirty(p)
    BY <1>7 DEF OpenDriver, At, Dirty
  <2>2. CASE loc[p].udif /\ Readable(At) /\ At.box # "raw" /\ pc'[p] = "apply"
             /\ loc' = [loc EXCEPT ![p].copy = At]
    <3>1. loc'[p].udif = loc[p].udif /\ loc'[p].copy = At
      BY <1>0, <2>2 DEF Locals
    <3>2. SoundOK(p)'
      BY <1>0, <1>c, <2>1, <2>2, <3>1 DEF SoundOK
    <3> QED
      BY <2>1, <3>2, SoundStill
  <2>3. CASE ~loc[p].udif /\ pc'[p] = "apply" /\ loc' = [loc EXCEPT ![p].ino = image, ![p].gen = At.gen, ![p].copy = At]
             /\ met' = IF call[p].op = "exec" /\ At.box # "raw"
                    THEN met \cup {{"exec", "udif"}} ELSE met
    <3>1. loc'[p].udif = loc[p].udif /\ loc'[p].ino = image /\ loc'[p].gen = At.gen
      BY <1>0, <2>3 DEF Locals
    <3>2. call[p].op = "exec" => At.box = "raw"
      <4>1. {"exec", "udif"} \notin met'
        BY SafeApart
      <4> QED
        BY <2>3, <4>1
    <3>3. call[p].op # "exec" => At.box = "raw"
      BY <1>0, <2>1, <2>3 DEF SoundOK
    <3>4. SoundOK(p)'
      BY <2>1, <2>3, <3>1, <3>2, <3>3 DEF SoundOK
    <3> QED
      BY <2>1, <3>4, SoundStill
  <2>4. CASE pc'[p] = "done"
    BY <2>1, <2>4, SoundStill DEF SoundOK
  <2> QED
    BY <1>0, <1>7, <2>2, <2>3, <2>4 DEF OpenDriver
<1>8. CASE Apply(p) /\ loc[p].udif
  <2>1. image' = image /\ At' = At /\ call' = call /\ pc[p] = "apply" /\ pc'[p] = "pack" /\ ~Dirty(p)
    BY <1>0, <1>8 DEF Apply, At, Dirty
  <2>2. loc' = [loc EXCEPT ![p].copy.data = @ \cup {p}]
    BY <1>8 DEF Apply
  <2>3. /\ loc'[p].udif = loc[p].udif /\ loc'[p].copy.whole = loc[p].copy.whole
        /\ loc'[p].copy.box = loc[p].copy.box /\ loc'[p].copy.fs = loc[p].copy.fs
        /\ loc'[p].copy.torn = loc[p].copy.torn
    BY <1>0, <2>2 DEF Locals, Files
  <2>4. SoundOK(p)'
    BY <1>0, <1>8, <2>1, <2>3 DEF SoundOK
  <2> QED
    BY <2>1, <2>4, SoundStill
<1>9. CASE Apply(p) /\ ~loc[p].udif
  <2>1. /\ image' = image /\ pc[p] = "apply" /\ pc'[p] = "done" /\ ~Dirty(p)
        /\ file' = [file EXCEPT ![loc[p].ino] = Written(@, p, loc[p].gen)]
    BY <1>0, <1>9, SafeApart, Undisturbed DEF Apply, Dirty
  <2>2. SoundOK(p)'
    BY <2>1 DEF SoundOK
  <2>3. CASE loc[p].ino # image
    <3>1. At' = At
      BY <1>0, <2>1, <2>3 DEF At
    <3> QED
      BY <2>1, <2>2, <3>1, SoundStill
  <2>4. CASE loc[p].ino = image
    <3>1. loc[p].gen = At.gen /\ At.box = "raw"
      BY <1>0, <1>9, <2>1, <2>4 DEF SoundOK
    <3>2. At'.whole /\ At'.box = At.box /\ At'.gen = At.gen /\ At'.fs = At.fs /\ At'.sum
          /\ ~At'.torn
      BY <1>0, <2>1, <2>4, <3>1, WrittenImage
    <3>3. \A q \in Procs \ {p} : ~(pc[q] = "store" /\ loc[q].ino = image)
      BY <3>1 DEF Sound, SoundOK
    <3>4. \A q \in Procs \ {p} : SoundOK(q)'
      BY <2>1, <3>2, <3>3, OtherSound
    <3> QED
      BY <1>c, <2>1, <2>2, <3>2, <3>4 DEF Sound
  <2> QED
    BY <2>3, <2>4
<1>10. CASE WriteAt(p)
  <2>1. /\ image' = image /\ call' = call /\ pc[p] = "dwrite" /\ pc'[p] = "dclose" /\ ~Dirty(p)
        /\ file' = [file EXCEPT ![loc[p].ino] = Written(@, p, loc[p].gen)] /\ loc' = loc
    BY <1>0, <1>10 DEF WriteAt, Dirty
  <2>2. call[p].op = "device"
    BY <1>0, <2>1 DEF KindOK, KindOf
  <2>3. loc[p].udif <=> At.box # "raw"
    BY <1>0, <2>1, <2>2 DEF SoundOK
  <2>4. CASE loc[p].ino # image
    <3>1. At' = At
      BY <1>0, <2>1, <2>4 DEF At
    <3>2. SoundOK(p)'
      BY <2>1, <2>3, <3>1 DEF SoundOK
    <3> QED
      BY <2>1, <3>1, <3>2, SoundStill
  <2>5. CASE loc[p].ino = image
    <3>1. loc[p].gen = At.gen /\ At.box # "packed"
      BY <1>0, <2>1, <2>5 DEF SoundOK
    <3>2. /\ At'.whole /\ At'.box = At.box /\ At'.gen = At.gen /\ At'.fs = At.fs
          /\ ~At'.torn /\ (At.box = "raw" => At'.sum)
      BY <1>0, <2>1, <2>5, <3>1, WrittenImage
    <3>3. ASSUME NEW q \in Procs \ {p}, q \in Active PROVE pc[q] # "store"
      <4>1. call[q].op # "device"
        BY <2>1, <2>2, <3>3, SafeCompany
      <4> QED
        BY <4>1 DEF BaseInv, Kinds, KindOK, KindOf
    <3>4. \A q \in Procs \ {p} : SoundOK(q)'
      BY <2>1, <3>2, <3>3, OtherSound
    <3>5. SoundOK(p)'
      BY <2>1, <2>3, <3>2 DEF SoundOK
    <3>6. At'.sum \/ (At'.box = "plain" /\ Dirty(p)')
      BY <1>0, <2>1, <2>3, <3>1, <3>2 DEF Dirty, Files, Boxes
    <3> QED
      BY <1>c, <2>1, <3>2, <3>4, <3>5, <3>6 DEF Sound
  <2> QED
    BY <2>4, <2>5
<1>11. CASE Pack(p)
  <2>1. pc[p] = "pack" /\ pc'[p] = "done" /\ image' = image /\ loc[p].udif
    BY <1>0, <1>11 DEF Pack, KindOK
  <2>2. call[p].op \in {"write", "resize"}
    BY <1>0, <2>1 DEF KindOK, KindOf
  <2>3. /\ loc[p].copy \in Files /\ loc[p].copy.whole /\ loc[p].copy.box # "raw" /\ At.box # "raw"
        /\ loc[p].copy.fs # "none" /\ ~loc[p].copy.torn
    BY <1>0, <2>1, <2>2 DEF SoundOK, Locals
  <2>4. file' = [file EXCEPT ![image] = [loc[p].copy EXCEPT !.sum = TRUE]]
    BY <1>11, <2>3 DEF Pack
  <2>5. At'.whole /\ At'.box # "raw" /\ At'.sum /\ At'.fs # "none" /\ ~At'.torn
    BY <1>0, <2>1, <2>3, <2>4 DEF At, Files
  <2>6. ASSUME NEW q \in Procs \ {p}, q \in Active
        PROVE  ~(Uses(q) /\ loc[q].ino = image)
    <3>1. call[q].op # "device"
      BY <2>1, <2>2, <2>6, SafeCompany
    <3>2. pc[q] \notin {"dwrite", "dclose", "refresh", "store"}
      BY <2>6, <3>1 DEF BaseInv, Kinds, KindOK, KindOf
    <3>3. ~(pc[q] = "apply" /\ ~loc[q].udif /\ loc[q].ino = image)
      BY <2>3, <2>6 DEF Sound, SoundOK
    <3> QED
      BY <3>2, <3>3 DEF Uses
  <2>7. \A q \in Procs \ {p} : SoundOK(q)'
    BY <2>1, <2>3, <2>5, <2>6, OtherSound DEF Uses
  <2>8. SoundOK(p)'
    BY <2>1 DEF SoundOK
  <2> QED
    BY <2>5, <2>7, <2>8 DEF Sound
<1>12. CASE OpenDevice(p)
  <2>1. image' = image /\ At' = At /\ call' = call /\ pc[p] = "open" /\ ~Dirty(p) /\ call[p].op = "device"
    BY <1>12 DEF OpenDevice, At, Dirty
  <2>2. CASE pc'[p] = "dwrite" /\ (loc[p].udif => At.box = "plain")
             /\ loc' = [loc EXCEPT ![p].ino = image, ![p].gen = At.gen]
    <3>1. loc'[p].udif = loc[p].udif /\ loc'[p].ino = image /\ loc'[p].gen = At.gen
      BY <1>0, <2>2 DEF Locals
    <3>2. loc[p].udif <=> At.box # "raw"
      BY <1>0, <2>1 DEF SoundOK
    <3>3. SoundOK(p)'
      BY <2>1, <2>2, <3>1, <3>2 DEF SoundOK
    <3> QED
      BY <2>1, <3>3, SoundStill
  <2>3. CASE pc'[p] = "done"
    BY <2>1, <2>3, SoundStill DEF SoundOK
  <2> QED
    BY <1>0, <1>12, <2>2, <2>3 DEF OpenDevice
<1>d. pc[p] \in {"dclose", "refresh", "store"} => (loc[p].udif <=> At.box # "raw")
  BY <1>0 DEF SoundOK, KindOK, KindOf
<1>13. CASE CloseDevice(p)
  <2>1. image' = image /\ At' = At /\ call' = call /\ pc[p] = "dclose" /\ loc' = loc
    BY <1>13 DEF CloseDevice, At
  <2>2. CASE pc'[p] = "refresh" /\ loc[p].udif
    <3>1. SoundOK(p)' /\ Dirty(p)'
      BY <1>d, <2>1, <2>2 DEF SoundOK, Dirty
    <3> QED
      BY <2>1, <3>1, SoundStill
  <2>3. CASE pc'[p] = "done" /\ ~loc[p].udif
    <3>1. SoundOK(p)' /\ ~Dirty(p)
      BY <2>1, <2>3 DEF SoundOK, Dirty
    <3> QED
      BY <2>1, <3>1, SoundStill
  <2> QED
    BY <1>0, <1>13, <2>2, <2>3 DEF CloseDevice
<1>14. CASE RefreshRead(p)
  <2>1. image' = image /\ At' = At /\ call' = call /\ pc[p] = "refresh" /\ loc[p].udif
    BY <1>0, <1>14 DEF RefreshRead, At, SoundOK
  <2>2. CASE pc'[p] = "store" /\ At.box = "plain" /\ loc' = [loc EXCEPT ![p].ino = image, ![p].copy = At]
    <3>1. loc'[p].udif = loc[p].udif /\ loc'[p].ino = image /\ loc'[p].copy = At
      BY <1>0, <2>2 DEF Locals
    <3>2. SoundOK(p)' /\ Dirty(p)'
      BY <1>0, <2>1, <2>2, <3>1 DEF SoundOK, Dirty
    <3> QED
      BY <2>1, <3>2, SoundStill
  <2>3. CASE pc'[p] = "done" /\ At.box # "plain"
    <3>1. At.sum /\ SoundOK(p)'
      BY <1>0, <2>3 DEF SoundOK
    <3> QED
      BY <2>1, <3>1, SoundStill
  <2> QED
    BY <1>0, <1>14, <2>2, <2>3 DEF RefreshRead
<1>15. CASE RefreshStore(p)
  <2>1. image' = image /\ pc[p] = "store" /\ pc'[p] = "done" /\ call[p].op = "device"
    BY <1>0, <1>15 DEF RefreshStore, KindOK, KindOf
  <2>2. SoundOK(p)'
    BY <2>1 DEF SoundOK
  <2>3. CASE loc[p].ino # image
    <3>1. At' = At
      BY <1>0, <1>15, <2>1, <2>3, StoreWrites DEF At
    <3>2. ~Dirty(p)
      BY <2>1, <2>3 DEF Dirty
    <3> QED
      BY <2>1, <2>2, <3>1, <3>2, SoundStill
  <2>4. CASE loc[p].ino = image
    <3>1. At.box = "plain" /\ loc[p].copy.data = At.data /\ loc[p].copy.gen = At.gen
      BY <1>0, <2>1, <2>4 DEF SoundOK
    <3> DEFINE s == At.data = loc[p].copy.data /\ At.gen = loc[p].copy.gen
    <3>2. At' = [At EXCEPT !.sum = s] /\ s
      BY <1>0, <1>15, <2>1, <2>4, <3>1, StoreWrites DEF Stored, At
    <3> HIDE DEF s
    <3>3. /\ At'.whole = At.whole /\ At'.box = At.box /\ At'.gen = At.gen /\ At'.data = At.data
          /\ At'.fs = At.fs /\ At'.torn = At.torn /\ At'.sum
      BY <1>0, <3>2 DEF Files
    <3>4. \A q \in Procs \ {p} : SoundOK(q)'
      BY <2>1, <3>3, OtherSound
    <3> QED
      BY <1>0, <1>c, <2>1, <2>2, <3>3, <3>4 DEF Sound
  <2> QED
    BY <2>3, <2>4
<1>16. CASE Truncate(p)
  <2>1. /\ image' = image /\ pc[p] = "truncate" /\ pc'[p] = "format"
        /\ file' = [file EXCEPT ![image] = [Empty EXCEPT !.whole = TRUE, !.gen = p]]
    BY <1>0, <1>16 DEF Truncate
  <2>2. At'.whole /\ At'.box = "raw" /\ At'.sum /\ ~At'.torn
    BY <1>0, <2>1 DEF At, Empty
  <2>3. SoundOK(p)'
    BY <2>1, <2>2 DEF SoundOK
  <2> QED
    BY <1>a, <1>b, <2>1, <2>2, <2>3
<1>17. CASE Format(p)
  <2>1. image' = image /\ pc[p] = "format" /\ pc'[p] \in {"wrap", "done"}
    BY <1>0, <1>17 DEF Format
  <2>2. At.box = "raw" /\ call[p].fs # "none"
    BY <1>0, <2>1, CallFields, SharedAssumption DEF SoundOK, KindOK, KindOf
  <2>3. At' = [Empty EXCEPT !.whole = At.whole, !.gen = p, !.fs = call[p].fs]
    BY <1>0, <1>17, <2>1, <2>2, FormatWrites DEF Formatted, At
  <2>4. At'.whole /\ At'.box = "raw" /\ At'.sum /\ At'.fs # "none" /\ ~At'.torn
    BY <1>0, <2>2, <2>3 DEF Empty
  <2>5. SoundOK(p)'
    BY <2>1, <2>4 DEF SoundOK
  <2> QED
    BY <1>a, <1>b, <2>1, <2>4, <2>5
<1>18. CASE WrapRaw(p)
  <2>1. image' = image /\ pc[p] = "wrap" /\ pc'[p] = "done" /\ At.box = "raw"
    BY <1>0, <1>18 DEF WrapRaw, SoundOK
  <2>2. At' = At \/ At' = [At EXCEPT !.box = "plain"]
    BY <1>0, <1>18, <2>1, WrapWrites DEF At
  <2>3. At'.whole /\ At'.sum /\ At'.fs # "none" /\ ~At'.torn
    BY <1>0, <1>c, <2>1, <2>2 DEF Files
  <2>4. SoundOK(p)'
    BY <2>1 DEF SoundOK
  <2> QED
    BY <1>a, <1>b, <2>1, <2>3, <2>4
<1>19. CASE Resize(p)
  <2>1. image' = image /\ pc[p] = "resize" /\ pc'[p] \in {"done", "pack"} /\ ~Dirty(p) /\ call' = call
    BY <1>0, <1>19 DEF Resize, Dirty
  <2>2. {"cut"} \notin met' /\ call[p].op = "resize"
    BY <1>0, <2>1, SafeApart DEF KindOK, KindOf
  <2>3. CASE loc[p].udif
    <3>1. At' = At
      BY <1>19, <2>3 DEF Resize, At
    <3>2. CASE pc'[p] = "done"
      BY <2>1, <3>1, <3>2, SoundStill DEF SoundOK
    <3>3. CASE pc'[p] = "pack"
      <4>1. /\ At.box # "raw" /\ ~call[p].cut
            /\ \E c \in Resized(p, At) : loc' = [loc EXCEPT ![p].copy = c]
        BY <1>0, <1>19, <2>2, <2>3, <3>3 DEF Resize
      <4>2. loc' = [loc EXCEPT ![p].copy = At]
        BY <4>1 DEF Resized
      <4>3. loc'[p].udif = loc[p].udif /\ loc'[p].copy = At
        BY <1>0, <4>2 DEF Locals
      <4>4. SoundOK(p)'
        BY <1>0, <1>c, <2>1, <2>3, <3>1, <3>3, <4>1, <4>3 DEF SoundOK
      <4> QED
        BY <2>1, <3>1, <4>4, SoundStill
    <3> QED
      BY <2>1, <3>2, <3>3
  <2>4. CASE ~loc[p].udif
    <3>1. At.box = "raw"
      BY <1>0, <2>1, <2>2, <2>4 DEF SoundOK
    <3>2. pc'[p] = "done" /\ ~call[p].cut
      BY <1>0, <1>19, <2>2, <2>4 DEF Resize
    <3>3. At' = Grown(At)
      BY <1>0, <1>19, <2>1, <2>4, <3>2, ResizeWrites DEF At, Resized
    <3>4. Grown(At) = At
      BY <1>0, <3>1 DEF Grown, Files
    <3> QED
      BY <2>1, <3>2, <3>3, <3>4, SoundStill DEF SoundOK
  <2> QED
    BY <2>3, <2>4
<1>20. CASE Crash(p)
  <2>1. image' = image /\ At' = At /\ pc'[p] = "dead" /\ pc[p] # "format" /\ ~Dirty(p)
    BY <1>0, <1>20 DEF Crash, At, Dirty
  <2> QED
    BY <2>1, SoundStill DEF SoundOK
<1> QED
  BY <1>1, <1>2, <1>3, <1>4, <1>5, <1>6, <1>7, <1>8, <1>9, <1>10, <1>11, <1>12, <1>13, <1>14, <1>15,
     <1>16, <1>17, <1>18, <1>19, <1>20 DEF StepOf

\* Sound, for calls that may run together.
SoundInv == SoloInv /\ (Safe(met) => Sound)

\* Calls that may run together leave an image that opens, however many there are of
\* them and however they interleave.
THEOREM CompatibleCalls == Spec => []CompatibleCallsLeaveItIntact
<1>1. Init => SoundInv
  <2> SUFFICES ASSUME Init PROVE SoundInv
    OBVIOUS
  <2>1. PICK b \in Boxes, t \in FsTypes :
          file = [i \in Inodes |->
                   IF i = image THEN [Empty EXCEPT !.box = b, !.fs = t, !.whole = TRUE]
                   ELSE Empty]
    BY DEF Init
  <2>2. At.whole /\ At.sum /\ At.fs # "none" /\ ~At.torn
    BY <2>1, SharedAssumption DEF Init, At, Empty
  <2>3. Sound
    BY <2>2 DEF Init, Sound, SoundOK
  <2> QED
    BY <2>3, InitSolo DEF SoundInv, SoloInv
<1>2. BaseInv /\ BaseInv' /\ SoundInv /\ [Next]_vars => SoundInv'
  <2> SUFFICES ASSUME BaseInv, BaseInv', SoundInv, [Next]_vars PROVE SoundInv'
    OBVIOUS
  <2>1. SoloInv'
    BY SoloInvStep DEF SoundInv
  <2>2. CASE UNCHANGED vars
    BY <2>1, <2>2 DEF vars, SoundInv, Sound, SoundOK, Dirty, At
  <2>3. ASSUME NEW p \in Procs, StepOf(p), Safe(met') PROVE Sound'
    <3>1. Safe(met)
      BY <2>3, OverlapsStep, SafeBefore
    <3>2. Solo
      BY <3>1, SafeApart DEF SoundInv, SoloInv
    <3> QED
      BY <2>3, <3>1, <3>2, SoundStep DEF SoundInv
  <2> QED
    BY <2>1, <2>2, <2>3 DEF Next, StepOf, SoundInv
<1>3. SoundInv => CompatibleCallsLeaveItIntact
  <2> SUFFICES ASSUME SoundInv, Active = {}, Safe(met) PROVE Readable(At) /\ At.fs # "none" /\ ~At.torn
    BY DEF CompatibleCallsLeaveItIntact, Safe
  <2>1. \A p \in Procs : pc[p] \in {"idle", "done", "dead"}
    BY DEF Active
  <2>2. \A p \in Procs : ~Dirty(p)
    BY <2>1 DEF Dirty
  <2> QED
    BY <2>1, <2>2 DEF SoundInv, Sound, Readable
<1> QED
  BY <1>1, <1>2, <1>3, BaseInvariant, PTL DEF Spec
=============================================================================
