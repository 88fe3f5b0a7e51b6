------------------------ MODULE ImageLifecycle_proofs ------------------------
(***************************************************************************)
(* For all sizes, filesystems and faults, and however many calls were made  *)
(* before: a Create that returns nil is complete, a conversion is atomic,   *)
(* only a truncation destroys, and only a crash or a failed os.Remove       *)
(* leaves a file behind.                                                    *)
(***************************************************************************)
EXTENDS ImageLifecycle, TLAPS

------------------------------------------------------------------------------
(* The invariant *)

Creating == {"open", "size", "table", "format", "splice", "fde", "wrap"}
Converting == {"convert", "fill", "rename"}

\* Which call is running, by where it is; and that it has an image to work on.
Stage ==
  /\ pc = "idle" => call = NoFile
  /\ pc # "idle" => call \in Calls
  /\ pc \in Creating => call \in CreateCalls /\ ValidCreate(call)
  /\ pc \in Converting => call.op \in {"Create", "ConvertImageFormat"}
  /\ pc \in Converting /\ call.op = "Create" =>
       ~call.pass /\ call.udif # "" /\ call.format = "dmg"
  /\ pc = "resize" => call.op \in {"ResizeImage", "Grow"}
  /\ pc \notin {"idle", "open", "done"} => img \in Images

\* How much of what Create was asked for is there.
Progress ==
  /\ pc = "size" => img = Blank
  /\ pc \in Creating \ {"open", "size"} \/ (pc \in Converting /\ call.op = "Create") =>
       ~img.lost /\ img.size = call.size
  /\ pc \in {"table", "format", "splice"} =>
       ~img.enc /\ ~call.pass /\ img.shape = "raw" /\ img.fs = "none"
  /\ pc \in {"format", "splice"} => img.part = call.part
  /\ pc = "fde" => call.pass
  /\ pc = "wrap" =>
       /\ img.fs = call.fs /\ img.enc = call.pass
       /\ ~call.pass => img.part = call.part
       /\ call.format = "dmg"
  /\ pc \in Converting /\ call.op = "Create" =>
       img.fs = call.fs /\ ~img.enc /\ img.part = call.part

\* The side file that is about to be renamed is the image in its new shape.
SideFull == pc = "rename" => side[SideFile] = [img EXCEPT !.shape = ShapeOf(call.udif)]

\* A side file is that of the running conversion or was left by a crash or a failed
\* os.Remove; the scratch file is there only while it is spliced in; a conversion that
\* returns nil has renamed its side file.
Tidy ==
  /\ \A f \in SideFiles : side[f] # NoFile =>
       f \in debris \cup unremoved \/ (pc \in {"fill", "rename"} /\ f = SideFile)
  /\ scratch = "live" => pc = "splice"
  /\ scratch = "left" => "scratch" \in debris \cup unremoved
  /\ pc = "done" /\ res = "nil" /\ Converts(call) => side[SideFile] = NoFile

IndInv == TypeOK /\ Stage /\ Progress /\ SideFull /\ Tidy /\ CreatedMeansComplete

------------------------------------------------------------------------------
(* What the calls and the images hold *)

\* A call's arguments.
LEMMA CallFields ==
  ASSUME NEW c \in Calls
  PROVE  /\ c.op \in {"Create", "ConvertImageFormat", "ResizeImage", "Grow"}
         /\ c.op = "Create" => c \in CreateCalls
         /\ c.op = "ConvertImageFormat" => c \in ConvertCalls
         /\ c.op \in {"ResizeImage", "Grow"} => c \in SizeCalls
         /\ c # NoFile
BY LifecycleAssumption DEF Calls, CreateCalls, ConvertCalls, SizeCalls

\* The images the steps make of an image.
LEMMA ImageFields ==
  ASSUME NEW i \in Images
  PROVE  /\ i # NoFile
         /\ \A s \in Shapes : [i EXCEPT !.shape = s] \in Images
         /\ \A p \in PartStates : [i EXCEPT !.part = p] \in Images
         /\ \A f \in Filesystems \cup {"cut"} : [i EXCEPT !.fs = f] \in Images
         /\ \A n \in Sizes : [i EXCEPT !.size = n] \in Images
         /\ [i EXCEPT !.fs = "apfs", !.enc = TRUE] \in Images
         /\ \A n \in Sizes : Truncated(i, n) \in Images
<1>1. i # NoFile
  BY LifecycleAssumption
<1>2. /\ \A s \in Shapes : [i EXCEPT !.shape = s] \in Images
      /\ \A p \in PartStates : [i EXCEPT !.part = p] \in Images
      /\ \A f \in Filesystems \cup {"cut"} : [i EXCEPT !.fs = f] \in Images
      /\ \A n \in Sizes : [i EXCEPT !.size = n] \in Images
      /\ [i EXCEPT !.fs = "apfs", !.enc = TRUE] \in Images
  BY DEF Images, Filesystems
<1>3. ASSUME NEW n \in Sizes PROVE Truncated(i, n) \in Images
  <2> DEFINE l == i.lost \/ n < i.size \/ i.shape # "raw"
  <2>1. l \in BOOLEAN
    BY DEF Images
  <2>2. Truncated(i, n) = [i EXCEPT !.shape = "raw", !.size = n, !.lost = l]
    BY DEF Truncated, Images
  <2> HIDE DEF l
  <2> QED
    BY <2>1, <2>2 DEF Images, Shapes
<1> QED
  BY <1>1, <1>2, <1>3

------------------------------------------------------------------------------
(* Every step keeps it *)

\* The arguments of Create.
LEMMA CreateFields ==
  ASSUME NEW c \in CreateCalls
  PROVE  /\ c.op = "Create" /\ c.size \in Sizes /\ c.fs \in Filesystems
         /\ c.part \in {"none", "mbr", "gpt", "other"} /\ c.pass \in BOOLEAN
         /\ c.format \in {"raw", "dmg"} /\ c.udif \in {"", "UDRW", "UDZO"}
         /\ c \in Calls /\ c # NoFile
BY LifecycleAssumption DEF CreateCalls, Calls

\* What a step of Create may do to the temporary files.
KeepsNames ==
  /\ UNCHANGED <<side, call>>
  /\ debris' \in SUBSET TempFiles /\ unremoved' \in SUBSET TempFiles
  /\ \A f \in SideFiles : f \in debris \cup unremoved => f \in debris' \cup unremoved'
  /\ scratch' \in {"none", "left"} \/ (scratch' = "live" /\ pc' = "splice")
  /\ scratch' = "left" => "scratch" \in debris' \cup unremoved'

\* A step that does nothing to them.
LEMMA NamesKept ==
  ASSUME IndInv, pc \in Creating, pc # "splice", UNCHANGED <<side, call, scratch, history>>
  PROVE  KeepsNames
<1>1. scratch \in {"none", "left"} /\ scratch' = scratch
  BY DEF IndInv, TypeOK, Tidy
<1>2. debris' = debris /\ unremoved' = unremoved
  BY DEF history
<1> QED
  BY <1>1, <1>2 DEF KeepsNames, IndInv, TypeOK, Tidy

\* What a step of Create has to show.
LEMMA CreateOn ==
  ASSUME IndInv, pc \in Creating, KeepsNames,
         pc' \in {"size", "table", "format", "splice", "fde", "wrap", "convert", "done"},
         res' \in {"nil", "err"}, img' \in Images \cup {NoFile}, pc' # "done" => img' \in Images,
         pc' = "convert" => ~call.pass /\ call.udif # "" /\ call.format = "dmg",
         pc' = "done" /\ res' = "nil" => ~Converts(call),
         Progress', CreatedMeansComplete'
  PROVE  IndInv'
<1>1. TypeOK'
  BY DEF IndInv, TypeOK, PCs, KeepsNames
<1>2. call \in CreateCalls /\ call.op = "Create" /\ call \in Calls /\ call' = call
  BY CreateFields DEF IndInv, Stage, KeepsNames
<1>3. Stage'
  BY <1>2 DEF IndInv, Stage, Creating, Converting
<1>4. SideFull'
  BY DEF SideFull
<1>5. Tidy'
  <2>1. \A f \in SideFiles : side'[f] # NoFile => f \in debris' \cup unremoved'
    BY DEF IndInv, Tidy, Creating, KeepsNames
  <2>2. pc' = "done" /\ res' = "nil" => ~Converts(call')
    BY <1>2
  <2>3. /\ scratch' = "live" => pc' = "splice"
        /\ scratch' = "left" => "scratch" \in debris' \cup unremoved'
    BY DEF KeepsNames
  <2> QED
    BY <2>1, <2>2, <2>3 DEF Tidy
<1> QED
  BY <1>1, <1>3, <1>4, <1>5 DEF IndInv

\* Create may fail at any point, whatever that leaves.
LEMMA CreateFails ==
  ASSUME IndInv, pc \in Creating, KeepsNames, img' \in Images \cup {NoFile}, Fail
  PROVE  IndInv'
<1>1. Progress'
  BY DEF Fail, Progress, Creating, Converting
<1>2. CreatedMeansComplete'
  BY DEF Fail, CreatedMeansComplete, Created
<1> QED
  BY <1>1, <1>2, CreateOn DEF Fail

\* The calls begin.
LEMMA StartKeeps ==
  ASSUME IndInv, Create \/ ConvertImageFormat \/ ResizeOrGrow
  PROVE  IndInv'
<1> USE DEF Start
<1>0. /\ UNCHANGED <<img, side, scratch, debris, unremoved>> /\ res' = "err" /\ pc = "idle"
      /\ TypeOK /\ Tidy
  BY DEF Create, ConvertImageFormat, ResizeOrGrow, IndInv, history
<1>1. pc' \in {"open", "done", "convert", "resize"}
  BY DEF Create, ConvertImageFormat, ResizeOrGrow
<1>2. call' \in Calls
  BY DEF Create, ConvertImageFormat, ResizeOrGrow, Calls
<1>3. pc' = "open" => call' \in CreateCalls /\ ValidCreate(call')
  BY DEF Create, ConvertImageFormat, ResizeOrGrow
<1>4. pc' = "convert" => call'.op = "ConvertImageFormat" /\ img \in Images
  BY <1>0 DEF Create, ConvertImageFormat, ResizeOrGrow, ConvertCalls, TypeOK
<1>5. pc' = "resize" => call'.op \in {"ResizeImage", "Grow"} /\ img \in Images
  BY <1>0 DEF Create, ConvertImageFormat, ResizeOrGrow, SizeCalls, TypeOK
<1>6. TypeOK'
  BY <1>0, <1>1, <1>2 DEF TypeOK, PCs
<1>7. Stage'
  BY <1>0, <1>1, <1>2, <1>3, <1>4, <1>5 DEF Stage, Creating, Converting
<1>8. Progress' /\ SideFull' /\ CreatedMeansComplete'
  BY <1>0, <1>1, <1>4 DEF Progress, SideFull, CreatedMeansComplete, Created, Creating, Converting
<1>9. Tidy'
  BY <1>0, <1>1 DEF Tidy
<1> QED
  BY <1>6, <1>7, <1>8, <1>9 DEF IndInv

\* os.OpenFile empties the file.
LEMMA OpenFileKeeps ==
  ASSUME IndInv, OpenFile
  PROVE  IndInv'
<1>0. pc = "open" /\ pc \in Creating /\ KeepsNames /\ TypeOK /\ img \in Images \cup {NoFile}
  BY NamesKept DEF OpenFile, IndInv, Creating, TypeOK
<1>1. CASE img' = Blank /\ Proceed("size")
  <2>1. img' \in Images
    BY <1>1 DEF Blank, Images, Shapes, PartStates, Filesystems
  <2>2. pc' = "size" /\ res' = res
    BY <1>1 DEF Proceed
  <2>3. Progress' /\ CreatedMeansComplete'
    BY <1>1, <2>2 DEF Progress, Creating, Converting, CreatedMeansComplete, Created, Blank
  <2> QED
    BY <1>0, <2>1, <2>2, <2>3, CreateOn DEF TypeOK
<1>2. CASE Fail /\ UNCHANGED img
  BY <1>0, <1>2, CreateFails
<1> QED
  BY <1>1, <1>2 DEF OpenFile

\* f.Truncate gives it its size.
LEMMA TruncateKeeps ==
  ASSUME IndInv, Truncate
  PROVE  IndInv'
<1>0. /\ pc = "size" /\ pc \in Creating /\ KeepsNames
      /\ call \in CreateCalls /\ TypeOK /\ img \in Images /\ img = Blank
  BY NamesKept DEF Truncate, IndInv, Stage, Creating, Progress
<1>1. CASE /\ img' = [img EXCEPT !.size = call.size]
           /\ Proceed(IF Encrypted THEN "fde" ELSE "table")
  <2>1. call.op = "Create" /\ call.size \in Sizes /\ call.pass \in BOOLEAN
    BY <1>0, CreateFields
  <2>2. img' \in Images
    BY <1>0, <1>1, <2>1, ImageFields
  <2>3. res' = res /\ ((pc' = "fde" /\ call.pass) \/ (pc' = "table" /\ ~call.pass))
    <3>1. CASE call.pass
      BY <1>1, <2>1, <3>1 DEF Proceed, Encrypted
    <3>2. CASE ~call.pass
      BY <1>1, <2>1, <3>2 DEF Proceed, Encrypted
    <3> QED
      BY <3>1, <3>2
  <2>4. /\ img'.shape = "raw" /\ img'.part = "none" /\ img'.fs = "none" /\ ~img'.enc
        /\ img'.size = call.size /\ ~img'.lost
    BY <1>0, <1>1 DEF Blank
  <2>5. Progress'
    BY <1>0, <2>3, <2>4 DEF Progress, Creating, Converting, KeepsNames
  <2>6. CreatedMeansComplete'
    BY <2>3 DEF CreatedMeansComplete, Created
  <2> QED
    BY <1>0, <2>2, <2>3, <2>5, <2>6, CreateOn DEF TypeOK
<1>2. CASE img' \in {img, NoFile} /\ Fail
  BY <1>0, <1>2, CreateFails
<1> QED
  BY <1>1, <1>2 DEF Truncate

\* The partition table.
LEMMA WriteTableKeeps ==
  ASSUME IndInv, WriteTable
  PROVE  IndInv'
<1>0. /\ pc = "table" /\ pc \in Creating /\ KeepsNames /\ call' = call
      /\ call \in CreateCalls /\ TypeOK /\ img \in Images /\ Progress
  BY NamesKept DEF WriteTable, IndInv, Stage, Creating
<1>1. CASE /\ call.part \in {"none", "mbr", "gpt"}
           /\ img' = [img EXCEPT !.part = call.part]
           /\ Proceed("format")
  <2>1. img' \in Images
    BY <1>0, <1>1, ImageFields DEF PartStates
  <2>2. /\ img'.part = call.part /\ img'.fs = img.fs /\ img'.enc = img.enc
        /\ img'.shape = img.shape /\ img'.size = img.size /\ img'.lost = img.lost
    BY <1>0, <1>1 DEF Images
  <2>3. pc' = "format" /\ res' = res
    BY <1>1 DEF Proceed
  <2>4. Progress'
    BY <1>0, <2>2, <2>3 DEF Progress, Creating, Converting
  <2>5. CreatedMeansComplete'
    BY <2>3 DEF CreatedMeansComplete, Created
  <2> QED
    BY <1>0, <2>1, <2>3, <2>4, <2>5, CreateOn DEF TypeOK
<1>2. CASE Fail /\ UNCHANGED img
  BY <1>0, <1>2, CreateFails
<1>3. CASE img' = [img EXCEPT !.part = "cut"] /\ Fail
  <2>1. img' \in Images
    BY <1>0, <1>3, ImageFields DEF PartStates
  <2> QED
    BY <1>0, <1>3, <2>1, CreateFails
<1> QED
  BY <1>1, <1>2, <1>3 DEF WriteTable

\* createRaw is done: the image has all it was asked for and goes on to its container.
LEMMA RawDone ==
  ASSUME IndInv, pc \in {"format", "splice"}, KeepsNames,
         img' = [img EXCEPT !.fs = call.fs], Proceed(AfterRaw)
  PROVE  IndInv'
<1>0. /\ pc \in Creating /\ call \in CreateCalls /\ img \in Images /\ Progress /\ TypeOK
      /\ ValidCreate(call) /\ call' = call
  BY DEF IndInv, Stage, Creating, KeepsNames
<1>1. /\ call.fs \in Filesystems /\ call.pass \in BOOLEAN /\ call.format \in {"raw", "dmg"}
      /\ call.op = "Create"
  BY <1>0, CreateFields
<1>2. img' \in Images
  BY <1>0, <1>1, ImageFields
<1>3. /\ img'.part = img.part /\ img'.fs = call.fs /\ img'.enc = img.enc
      /\ img'.shape = img.shape /\ img'.size = img.size /\ img'.lost = img.lost
  BY <1>0 DEF Images
<1>4. \/ pc' = "done" /\ (call.format = "raw" \/ call.udif \in {"", "UDRW"})
      \/ pc' = "wrap" /\ call.format = "dmg" /\ res' = res
  BY <1>1 DEF Proceed, AfterRaw
<1>5. /\ ~img.lost /\ img.size = call.size /\ ~img.enc /\ ~call.pass /\ img.shape = "raw"
      /\ img.part = call.part /\ img.enc \in BOOLEAN /\ img.enc = call.pass
  BY <1>0, <1>1 DEF Progress, Creating, Images
<1>6. Progress'
  BY <1>0, <1>3, <1>4, <1>5 DEF Progress, Creating, Converting
<1>7. CreatedMeansComplete'
  <2>1. img' # NoFile
    BY <1>2, ImageFields
  <2>2. call.format = "dmg" /\ call.udif # "" /\ pc' = "done" => img'.shape = ShapeOf(call.udif)
    BY <1>3, <1>4, <1>5 DEF ShapeOf
  <2> QED
    BY <1>0, <1>3, <1>5, <2>1, <2>2 DEF CreatedMeansComplete, Created
<1>8. res' \in {"nil", "err"}
  BY <1>0, <1>4 DEF Proceed, TypeOK
<1>9. pc' = "done" => ~Converts(call)
  BY <1>1, <1>4 DEF Converts
<1> QED
  BY <1>0, <1>2, <1>4, <1>6, <1>7, <1>8, <1>9, CreateOn

\* Formatting in place, or of the temporary file.
LEMMA FormatKeeps ==
  ASSUME IndInv, Format
  PROVE  IndInv'
<1>0. /\ pc = "format" /\ pc \in Creating /\ UNCHANGED <<side, call>>
      /\ call \in CreateCalls /\ TypeOK /\ Tidy /\ img \in Images /\ Progress
  BY DEF Format, IndInv, Stage, Creating
<1>n. UNCHANGED <<scratch, history>> => KeepsNames
  BY <1>0, NamesKept
<1>1. CASE call.fs = "none" /\ Proceed(AfterRaw) /\ UNCHANGED <<img, scratch, history>>
  <2>1. img.fs = "none"
    BY <1>0 DEF Progress
  <2>2. img' = [img EXCEPT !.fs = call.fs]
    BY <1>0, <1>1, <2>1 DEF Images
  <2> QED
    BY <1>0, <1>n, <1>1, <2>2, RawDone
<1>2. CASE img' = [img EXCEPT !.fs = call.fs] /\ Proceed(AfterRaw) /\ UNCHANGED <<scratch, history>>
  BY <1>0, <1>n, <1>2, RawDone
<1>3. CASE /\ img' = IF call.part = "none" THEN [img EXCEPT !.fs = "cut"] ELSE img
           /\ Fail /\ UNCHANGED <<scratch, history>>
  <2>1. img' \in Images
    BY <1>0, <1>3, ImageFields
  <2> QED
    BY <1>0, <1>n, <1>3, <2>1, CreateFails
<1>4. CASE /\ scratch' = "live" /\ Proceed("splice") /\ UNCHANGED img
           /\ debris' = debris \ {"scratch"} /\ unremoved' = unremoved \ {"scratch"}
  <2>1. pc' = "splice" /\ res' = res
    BY <1>4 DEF Proceed
  <2>2. Progress' /\ CreatedMeansComplete'
    BY <1>0, <1>4, <2>1 DEF Progress, Creating, Converting, CreatedMeansComplete, Created
  <2>3. KeepsNames
    BY <1>0, <1>4, <2>1 DEF KeepsNames, TypeOK, SideFiles
  <2> QED
    BY <1>0, <1>4, <2>1, <2>2, <2>3, CreateOn DEF TypeOK
<1> QED
  BY <1>1, <1>2, <1>3, <1>4 DEF Format

\* The temporary file is copied in and removed, or left.
LEMMA SpliceKeeps ==
  ASSUME IndInv, Splice
  PROVE  IndInv'
<1>0. pc = "splice" /\ pc \in Creating /\ UNCHANGED <<side, call, debris>> /\ img \in Images /\ TypeOK
  BY DEF Splice, IndInv, Stage, Creating
<1>n. KeepsNames
  <2>1. \/ scratch' = "none" /\ unremoved' = unremoved
        \/ scratch' = "left" /\ unremoved' = unremoved \cup {"scratch"}
    BY DEF Splice
  <2> QED
    BY <1>0, <2>1 DEF KeepsNames, TypeOK, TempFiles
<1>1. CASE img' = [img EXCEPT !.fs = call.fs] /\ Proceed(AfterRaw)
  BY <1>0, <1>n, <1>1, RawDone
<1>2. CASE img' \in {img, [img EXCEPT !.fs = "cut"]} /\ Fail
  <2>1. img' \in Images
    BY <1>0, <1>2, ImageFields
  <2> QED
    BY <1>0, <1>n, <1>2, <2>1, CreateFails
<1> QED
  BY <1>1, <1>2 DEF Splice

\* createEncryptedApfsDmg formats the image.
LEMMA FormatEncryptedKeeps ==
  ASSUME IndInv, FormatEncrypted
  PROVE  IndInv'
<1>0. /\ pc = "fde" /\ pc \in Creating /\ KeepsNames /\ call' = call
      /\ call \in CreateCalls /\ TypeOK /\ img \in Images /\ Progress /\ ValidCreate(call)
  BY NamesKept DEF FormatEncrypted, IndInv, Stage, Creating
<1>1. CASE img' = [img EXCEPT !.fs = "apfs", !.enc = TRUE] /\ Proceed("wrap")
  <2>1. img' \in Images
    BY <1>0, <1>1, ImageFields
  <2>2. /\ img'.part = img.part /\ img'.fs = "apfs" /\ img'.enc = TRUE
        /\ img'.size = img.size /\ img'.lost = img.lost
    BY <1>0, <1>1 DEF Images
  <2>3. call.pass = TRUE /\ call.fs = "apfs" /\ call.format = "dmg"
    BY <1>0, CreateFields DEF Progress, ValidCreate
  <2>4. pc' = "wrap" /\ res' = res
    BY <1>1 DEF Proceed
  <2>5. Progress' /\ CreatedMeansComplete'
    BY <1>0, <2>2, <2>3, <2>4 DEF Progress, Creating, Converting, CreatedMeansComplete, Created
  <2> QED
    BY <1>0, <2>1, <2>4, <2>5, CreateOn DEF TypeOK
<1>2. CASE img' \in {NoFile, [img EXCEPT !.fs = "cut"]} /\ Fail
  <2>1. img' \in Images \cup {NoFile}
    <3>1. [img EXCEPT !.fs = "cut"] \in Images
      BY <1>0, ImageFields
    <3> QED
      BY <1>2, <3>1
  <2> QED
    BY <1>0, <1>2, <2>1, CreateFails
<1> QED
  BY <1>1, <1>2 DEF FormatEncrypted

\* The container around the raw image.
LEMMA WrapRawKeeps ==
  ASSUME IndInv, WrapRaw
  PROVE  IndInv'
<1>0. /\ pc = "wrap" /\ pc \in Creating /\ KeepsNames /\ call' = call
      /\ call \in CreateCalls /\ TypeOK /\ img \in Images /\ Progress
  BY NamesKept DEF WrapRaw, IndInv, Stage, Creating
<1>1. CASE /\ img' = [img EXCEPT !.shape = "UDRO"]
           /\ Proceed(IF Encrypted \/ call.udif = "" THEN "done" ELSE "convert")
  <2>1. img' \in Images /\ img' # NoFile
    BY <1>0, <1>1, ImageFields DEF Shapes, UdifShapes
  <2>2. /\ img'.part = img.part /\ img'.fs = img.fs /\ img'.enc = img.enc
        /\ img'.size = img.size /\ img'.lost = img.lost /\ img'.shape = "UDRO"
    BY <1>0, <1>1 DEF Images
  <2>3. call.op = "Create" /\ call.pass \in BOOLEAN
    BY <1>0, CreateFields
  <2>4. \/ pc' = "done" /\ (call.pass \/ call.udif = "")
        \/ pc' = "convert" /\ res' = res /\ ~call.pass /\ call.udif # ""
    BY <1>1, <2>3 DEF Proceed, Encrypted
  <2>5. /\ img.fs = call.fs /\ img.enc = call.pass /\ call.format = "dmg"
        /\ ~call.pass => img.part = call.part
        /\ ~img.lost /\ img.size = call.size
    BY <1>0 DEF Progress, Creating
  <2>6. Progress'
    <3>1. pc' = "convert" => img'.part = call.part /\ ~img'.enc
      BY <2>2, <2>4, <2>5
    <3> QED
      BY <1>0, <2>2, <2>4, <2>5, <3>1 DEF Progress, Creating, Converting
  <2>7. CreatedMeansComplete'
    BY <1>0, <2>1, <2>2, <2>4, <2>5 DEF CreatedMeansComplete, Created
  <2>8. res' \in {"nil", "err"}
    BY <1>0, <2>4, <1>1 DEF Proceed, TypeOK
  <2>9. pc' = "done" => ~Converts(call)
    BY <2>3, <2>4 DEF Converts
  <2> QED
    BY <1>0, <2>1, <2>4, <2>5, <2>6, <2>7, <2>8, <2>9, CreateOn
<1>2. CASE Fail /\ UNCHANGED img
  BY <1>0, <1>2, CreateFails
<1> QED
  BY <1>1, <1>2 DEF WrapRaw

\* The image in the shape that was asked for.
LEMMA Converted ==
  ASSUME IndInv, pc \in Converting
  PROVE  [img EXCEPT !.shape = ShapeOf(call.udif)] \in Images
<1>0. Stage /\ img \in Images /\ call \in Calls
  BY DEF IndInv, Stage, Converting
<1>1. call \in CreateCalls \cup ConvertCalls
  BY <1>0, CallFields DEF Stage
<1>2. call.udif \in UdifShapes \cup {"", "UDRW"} /\ (call.udif = "" => call.op = "Create")
  BY <1>1 DEF CreateCalls, ConvertCalls, UdifShapes
<1>3. call.udif # ""
  BY <1>0, <1>2 DEF Stage
<1>4. ShapeOf(call.udif) \in Shapes
  BY <1>2, <1>3 DEF ShapeOf, Shapes
<1> QED
  BY <1>0, <1>4, ImageFields

\* What os.Remove leaves of the side file of the running conversion.
LEMMA DiscardKeeps ==
  ASSUME IndInv, pc \in Converting, Discard, Fail, UNCHANGED <<img, scratch, call>>
  PROVE  IndInv'
<1>0. /\ TypeOK /\ Stage /\ Tidy /\ SideFile \in SideFiles /\ SideFile' = SideFile /\ call \in Calls
      /\ "scratch" # SideFile
  BY DEF IndInv, Stage, SideFile, SideFiles, Converting
<1>1. pc' = "done" /\ res' = "err"
  BY DEF Fail
<1>2. \/ /\ side' = [side EXCEPT ![SideFile] = NoFile]
         /\ debris' = debris \ {SideFile} /\ unremoved' = unremoved \ {SideFile}
      \/ /\ side' = [side EXCEPT ![SideFile] = Partial]
         /\ debris' = debris /\ unremoved' = unremoved \cup {SideFile}
  BY DEF Discard
<1>3. TypeOK'
  BY <1>0, <1>1, <1>2 DEF TypeOK, PCs, TempFiles
<1>4. Stage' /\ Progress' /\ SideFull' /\ CreatedMeansComplete'
  BY <1>0, <1>1 DEF Stage, Progress, SideFull, CreatedMeansComplete, Created, Creating, Converting
<1>5. Tidy'
  <2>1. ASSUME NEW f \in SideFiles, side'[f] # NoFile PROVE f \in debris' \cup unremoved'
    <3>1. CASE f = SideFile
      BY <1>0, <1>2, <2>1, <3>1 DEF TypeOK
    <3>2. CASE f # SideFile
      BY <1>0, <1>2, <2>1, <3>2 DEF TypeOK, Tidy
    <3> QED
      BY <3>1, <3>2
  <2>2. scratch' # "live"
    BY <1>0 DEF Tidy, Converting
  <2>3. scratch' = "left" => "scratch" \in debris' \cup unremoved'
    BY <1>0, <1>2 DEF Tidy
  <2> QED
    BY <1>1, <2>1, <2>2, <2>3 DEF Tidy
<1> QED
  BY <1>3, <1>4, <1>5 DEF IndInv

\* The side file is written, or discarded.
LEMMA ConvertUDIFKeeps ==
  ASSUME IndInv, ConvertUDIF
  PROVE  IndInv'
<1>0. /\ pc \in {"convert", "fill"} /\ UNCHANGED <<img, scratch, call>>
      /\ TypeOK /\ Stage /\ Progress /\ Tidy /\ img \in Images /\ call \in Calls
      /\ SideFile \in SideFiles /\ SideFile' = SideFile /\ "scratch" # SideFile
      /\ Filled = [side EXCEPT ![SideFile] = [img EXCEPT !.shape = ShapeOf(call.udif)]]
  BY DEF ConvertUDIF, IndInv, Stage, TypeOK, SideFile, SideFiles, Filled
<1>1. CASE Discard /\ Fail
  BY <1>0, <1>1, DiscardKeeps DEF Converting
<1>2. CASE \/ pc' = "fill" /\ side' = [side EXCEPT ![SideFile] = Partial] /\ res' = res
              /\ debris' = debris \ {SideFile} /\ unremoved' = unremoved \ {SideFile}
           \/ pc' = "rename" /\ side' = [side EXCEPT ![SideFile] = [img EXCEPT !.shape = ShapeOf(call.udif)]]
              /\ res' = res /\ debris' = debris /\ unremoved' = unremoved
  <2>1. [img EXCEPT !.shape = ShapeOf(call.udif)] \in Images
    BY <1>0, Converted DEF Converting
  <2>2. TypeOK'
    BY <1>0, <1>2, <2>1 DEF TypeOK, PCs
  <2>3. Stage'
    BY <1>0, <1>2 DEF Stage, Creating, Converting
  <2>4. Progress'
    BY <1>0, <1>2 DEF Progress, Creating, Converting
  <2>5. SideFull'
    BY <1>0, <1>2 DEF SideFull, TypeOK
  <2>6. Tidy'
    <3>1. ASSUME NEW f \in SideFiles, side'[f] # NoFile
          PROVE  f \in debris' \cup unremoved' \/ (pc' \in {"fill", "rename"} /\ f = SideFile')
      <4>1. CASE f = SideFile
        BY <1>0, <1>2, <4>1
      <4>2. CASE f # SideFile
        BY <1>0, <1>2, <3>1, <4>2 DEF TypeOK, Tidy
      <4> QED
        BY <4>1, <4>2
    <3>2. scratch' # "live" /\ (scratch' = "left" => "scratch" \in debris' \cup unremoved')
      BY <1>0, <1>2 DEF Tidy
    <3> QED
      BY <1>2, <3>1, <3>2 DEF Tidy
  <2>7. CreatedMeansComplete'
    BY <1>2 DEF CreatedMeansComplete, Created
  <2> QED
    BY <2>2, <2>3, <2>4, <2>5, <2>6, <2>7 DEF IndInv
<1> QED
  BY <1>0, <1>1, <1>2 DEF ConvertUDIF, Begin, Proceed, history

\* The side file takes the place of the image, or is discarded.
LEMMA RenameKeeps ==
  ASSUME IndInv, Rename
  PROVE  IndInv'
<1>0. /\ pc = "rename" /\ UNCHANGED <<scratch, call>> /\ pc' = "done"
      /\ TypeOK /\ Stage /\ Progress /\ Tidy /\ SideFull /\ img \in Images /\ call \in Calls
      /\ SideFile \in SideFiles /\ SideFile' = SideFile
  BY DEF Rename, Proceed, Fail, IndInv, Stage, SideFile, SideFiles
<1>1. CASE Discard /\ Fail /\ UNCHANGED img
  BY <1>0, <1>1, DiscardKeeps DEF Converting
<1>2. CASE /\ img' = side[SideFile] /\ side' = [side EXCEPT ![SideFile] = NoFile]
           /\ res' = "nil" /\ UNCHANGED <<debris, unremoved>>
  <2>1. img' = [img EXCEPT !.shape = ShapeOf(call.udif)]
    BY <1>0, <1>2 DEF SideFull
  <2>2. img' \in Images /\ img' # NoFile
    BY <1>0, <2>1, Converted, ImageFields DEF Converting
  <2>3. TypeOK'
    BY <1>0, <1>2, <2>2 DEF TypeOK, PCs
  <2>4. Stage' /\ Progress' /\ SideFull'
    BY <1>0 DEF Stage, Progress, SideFull, Creating, Converting
  <2>5. Tidy'
    BY <1>0, <1>2 DEF Tidy, TypeOK
  <2>6. CreatedMeansComplete'
    <3> SUFFICES ASSUME call.op = "Create"
                 PROVE  CreatedMeansComplete'
      BY <1>0 DEF CreatedMeansComplete, Created
    <3>2. /\ img'.part = img.part /\ img'.fs = img.fs /\ img'.enc = img.enc
          /\ img'.size = img.size /\ img'.lost = img.lost /\ img'.shape = ShapeOf(call.udif)
      BY <1>0, <2>1 DEF Images
    <3>3. /\ ~call.pass /\ call.format = "dmg" /\ img.fs = call.fs /\ ~img.enc /\ img.part = call.part
          /\ ~img.lost /\ img.size = call.size
      BY <1>0 DEF Stage, Progress, Converting
    <3>4. img.enc = call.pass
      BY <1>0, <3>3, CallFields, CreateFields DEF Images
    <3> QED
      BY <1>0, <2>2, <3>2, <3>3, <3>4 DEF CreatedMeansComplete, Created
  <2> QED
    BY <2>3, <2>4, <2>5, <2>6 DEF IndInv
<1> QED
  BY <1>0, <1>1, <1>2 DEF Rename, Proceed, history

\* ResizeImage and Grow.
LEMMA ResizeKeeps ==
  ASSUME IndInv, Resize
  PROVE  IndInv'
<1>0. /\ pc = "resize" /\ UNCHANGED <<side, scratch, call, debris, unremoved>> /\ pc' = "done"
      /\ TypeOK /\ Stage /\ Tidy /\ img \in Images /\ call \in Calls
      /\ call.op \in {"ResizeImage", "Grow"} /\ res' \in {"nil", "err"}
  BY DEF Resize, Proceed, Fail, IndInv, Stage, TypeOK, history
<1>1. img' \in Images
  <2>1. call.size \in Sizes
    BY <1>0, CallFields DEF SizeCalls
  <2>2. img' \in {img, Truncated(img, call.size), [img EXCEPT !.size = call.size]}
    BY DEF Resize
  <2> QED
    BY <1>0, <2>1, <2>2, ImageFields
<1>2. TypeOK' /\ Stage' /\ Progress' /\ SideFull'
  BY <1>0, <1>1 DEF TypeOK, PCs, Stage, Progress, SideFull, Creating, Converting
<1>3. Tidy' /\ CreatedMeansComplete'
  BY <1>0 DEF Tidy, CreatedMeansComplete, Created, Converts
<1> QED
  BY <1>2, <1>3 DEF IndInv

\* A call returns, or its process dies.
LEMMA EndKeeps ==
  ASSUME IndInv, Return \/ Crash
  PROVE  IndInv'
<1>0. UNCHANGED <<img, unremoved>> /\ pc' = "idle" /\ call' = NoFile /\ res' = "nil" /\ TypeOK /\ Tidy
  BY DEF Return, Crash, IndInv, history
<1>1. CASE Return
  <2>1. UNCHANGED <<side, scratch, debris>>
    BY <1>1 DEF Return, history
  <2>2. TypeOK' /\ Tidy'
    BY <1>0, <1>1, <2>1 DEF Return, TypeOK, PCs, Tidy
  <2> QED
    BY <1>0, <2>2 DEF IndInv, Stage, Progress, SideFull, Creating, Converting, CreatedMeansComplete, Created
<1>2. CASE Crash
  <2>1. /\ side' = [f \in SideFiles |-> IF side[f] = NoFile THEN NoFile ELSE Partial]
        /\ scratch' = IF scratch = "live" THEN "left" ELSE scratch
        /\ debris' = debris \cup {f \in SideFiles : f = SideFile /\ pc \in {"fill", "rename"}}
                            \cup {f \in {"scratch"} : scratch = "live"}
    BY <1>2 DEF Crash
  <2>2. TypeOK'
    BY <1>0, <2>1 DEF TypeOK, PCs, TempFiles
  <2>3. Tidy'
    <3>1. ASSUME NEW f \in SideFiles, side'[f] # NoFile PROVE f \in debris' \cup unremoved'
      <4>1. side[f] # NoFile
        BY <2>1, <3>1
      <4> QED
        BY <1>0, <2>1, <4>1 DEF Tidy
    <3>2. scratch' # "live" /\ (scratch' = "left" => "scratch" \in debris' \cup unremoved')
      BY <1>0, <2>1 DEF Tidy
    <3> QED
      BY <1>0, <3>1, <3>2 DEF Tidy
  <2> QED
    BY <1>0, <2>2, <2>3 DEF IndInv, Stage, Progress, SideFull, Creating, Converting, CreatedMeansComplete,
       Created
<1> QED
  BY <1>1, <1>2

\* It holds before the first call and after every step.
THEOREM IndInvariant == Spec => []IndInv
<1>1. Init => IndInv
  BY DEF Init, IndInv, TypeOK, Stage, Progress, SideFull, Tidy, CreatedMeansComplete, Created, Creating,
         Converting, PCs, SideFiles, history
<1>2. IndInv /\ [Next]_vars => IndInv'
  <2> SUFFICES ASSUME IndInv, [Next]_vars PROVE IndInv'
    OBVIOUS
  <2>1. CASE UNCHANGED vars
    <3>1. TypeOK' /\ Stage'
      BY <2>1 DEF vars, history, IndInv, TypeOK, Stage
    <3>2. Progress' /\ CreatedMeansComplete'
      BY <2>1 DEF vars, IndInv, Progress, CreatedMeansComplete, Created
    <3>3. SideFull' /\ Tidy'
      BY <2>1 DEF vars, history, IndInv, SideFull, Tidy, SideFile
    <3> QED
      BY <3>1, <3>2, <3>3 DEF IndInv
  <2> QED
    BY <2>1, StartKeeps, OpenFileKeeps, TruncateKeeps, WriteTableKeeps, FormatKeeps, SpliceKeeps, FormatEncryptedKeeps,
       WrapRawKeeps, ConvertUDIFKeeps, RenameKeeps, ResizeKeeps, EndKeeps DEF Next
<1> QED
  BY <1>1, <1>2, PTL DEF Spec

------------------------------------------------------------------------------
(* The properties *)

\* The state is well formed, whatever was called before and wherever it died.
THEOREM TypeCorrect == Spec => []TypeOK
<1>1. IndInv => TypeOK
  BY DEF IndInv
<1> QED
  BY <1>1, IndInvariant, PTL

\* A Create that returns nil made what it was asked for, but for the partition table
\* and the format of an encrypted image, which it does not look at.
THEOREM CreateComplete == Spec => []CreatedMeansComplete
<1>1. IndInv => CreatedMeansComplete
  BY DEF IndInv
<1> QED
  BY <1>1, IndInvariant, PTL

\* A side file or a scratch file is left only by a crash or a failed os.Remove, and a
\* conversion that returns nil leaves none under its name, whatever was there before.
THEOREM LeavesNothing == Spec => []NothingLeftBehind
<1>1. IndInv => NothingLeftBehind
  BY DEF IndInv, TypeOK, Tidy, NothingLeftBehind
<1> QED
  BY <1>1, IndInvariant, PTL

\* A conversion replaces the image in one step by the same contents, or not at all.
THEOREM ConvertsAtomically == Spec => ConversionAtomic
<1>1. IndInv /\ [Next]_vars =>
        [{pc} \subseteq {"convert", "fill", "rename"} =>
           \/ img' = img
           \/ img' = [img EXCEPT !.shape = ShapeOf(call.udif)]]_vars
  <2> SUFFICES ASSUME IndInv, Next, pc \in {"convert", "fill", "rename"}
               PROVE  img' = img \/ img' = [img EXCEPT !.shape = ShapeOf(call.udif)]
    BY DEF vars
  <2>1. ConvertUDIF \/ Rename \/ Crash
    BY DEF Next, Create, ConvertImageFormat, ResizeOrGrow, Start, OpenFile, Truncate, WriteTable, Format, Splice,
           FormatEncrypted, WrapRaw, Resize, Return
  <2> QED
    BY <2>1 DEF ConvertUDIF, Rename, Crash, IndInv, SideFull
<1> QED
  BY <1>1, IndInvariant, PTL DEF Spec, ConversionAtomic

\* Only O_TRUNC and a truncation destroy what an image holds.
THEOREM OnlyTruncating == Spec => OnlyTruncationDestroys
<1>1. IndInv /\ [Next]_vars =>
        [img # NoFile /\ ~img.lost /\ call # NoFile /\ call.op # "Create" =>
           /\ img' # NoFile
           /\ img'.part = img.part /\ img'.fs = img.fs /\ img'.enc = img.enc
           /\ \/ ~img'.lost
              \/ call.op = "Grow"
              \/ call.op = "ResizeImage" /\ img.shape = "raw" /\ call.size < img.size]_vars
  <2> SUFFICES ASSUME IndInv, Next, img # NoFile, ~img.lost, call # NoFile, call.op # "Create"
               PROVE  /\ img' # NoFile
                      /\ img'.part = img.part /\ img'.fs = img.fs /\ img'.enc = img.enc
                      /\ \/ ~img'.lost
                         \/ call.op = "Grow"
                         \/ call.op = "ResizeImage" /\ img.shape = "raw" /\ call.size < img.size
    BY DEF vars
  <2>0. img \in Images /\ call \in Calls
    BY DEF IndInv, Stage, TypeOK
  <2>1. pc \notin Creating /\ pc # "idle"
    BY CreateFields DEF IndInv, Stage
  <2>2. ConvertUDIF \/ Rename \/ Resize \/ Return \/ Crash
    BY <2>1 DEF Next, Create, ConvertImageFormat, ResizeOrGrow, Start, OpenFile, Truncate, WriteTable, Format, Splice,
           FormatEncrypted, WrapRaw, Creating
  <2>3. CASE img' = img
    BY <2>3
  <2>4. CASE Rename /\ img' # img
    <3>1. img' = [img EXCEPT !.shape = ShapeOf(call.udif)]
      BY <2>4 DEF Rename, IndInv, SideFull
    <3>2. /\ img'.part = img.part /\ img'.fs = img.fs /\ img'.enc = img.enc /\ img'.lost = img.lost
      BY <2>0, <3>1 DEF Images
    <3>3. img' \in Images
      BY <2>4, <3>1, Converted DEF Rename, Converting
    <3> QED
      BY <3>2, <3>3, ImageFields
  <2>5. CASE Resize /\ img' # img
    <3>1. call.op \in {"ResizeImage", "Grow"} /\ call.size \in Sizes
      BY <2>0, <2>5, CallFields DEF Resize, IndInv, Stage, SizeCalls
    <3>2. CASE img' = [img EXCEPT !.size = call.size]
      <4>1. img' \in Images
        BY <2>0, <3>1, <3>2, ImageFields
      <4>2. img'.part = img.part /\ img'.fs = img.fs /\ img'.enc = img.enc /\ img'.lost = img.lost
        BY <2>0, <3>2 DEF Images
      <4> QED
        BY <4>1, <4>2, ImageFields
    <3>3. CASE img' = Truncated(img, call.size) /\ (call.op = "Grow" \/ img.shape = "raw")
      <4>1. img' # NoFile
        BY <2>0, <3>1, <3>3, ImageFields
      <4> DEFINE l == img.lost \/ call.size < img.size \/ img.shape # "raw"
      <4>2. img' = [img EXCEPT !.shape = "raw", !.size = call.size, !.lost = l]
        BY <2>0, <3>3 DEF Truncated, Images
      <4>3. l => call.size < img.size \/ img.shape # "raw"
        OBVIOUS
      <4> HIDE DEF l
      <4>4. img'.part = img.part /\ img'.fs = img.fs /\ img'.enc = img.enc /\ img'.lost = l
        BY <2>0, <4>2 DEF Images
      <4> QED
        BY <3>1, <3>3, <4>1, <4>3, <4>4
    <3> QED
      BY <2>5, <3>2, <3>3 DEF Resize
  <2> QED
    BY <2>2, <2>3, <2>4, <2>5 DEF ConvertUDIF, Return, Crash
<1> QED
  BY <1>1, IndInvariant, PTL DEF Spec, OnlyTruncationDestroys
==============================================================================
