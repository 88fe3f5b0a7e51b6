--------------------------- MODULE ImageLifecycle ---------------------------
(***************************************************************************)
(* The life of one image file: Create (create.go), ConvertImageFormat and  *)
(* ResizeImage (dmg_ops.go) and Grow (grow.go), called one after another,  *)
(* where any step can fail and the process can die between two steps.      *)
(*                                                                         *)
(* An image is described by what later calls can tell apart: its container *)
(* shape, how much of its partition table and filesystem is there, whether *)
(* it is encrypted, its size, and whether a truncation destroyed it.  The  *)
(* dmg codec (WrapRaw, ConvertUDIF, ResizeUDRW) and the formatters are     *)
(* external and fail or succeed as they please.                            *)
(***************************************************************************)
EXTENDS Naturals

CONSTANTS
  NoFile,    \* no file at that path
  Partial,   \* a conversion result that is still being written
  Sizes,     \* image sizes in units of some megabytes; SmallSize is too small
  FsChoices, \* the filesystems callers ask for
  Faults     \* what may go wrong, a subset of {"io", "crash"}

VARIABLES
  img,      \* the file at CreateOptions.Path
  side,     \* the two side files conversions write
  scratch,  \* the temporary file of formatFilesystemAt: "none", "live" or "left"
  pc,       \* where the running call is
  call,     \* the running call and its arguments
  res,      \* its result
  debris,   \* history: files a crash left and no later conversion reused
  unremoved \* history: files os.Remove failed on and no later conversion reused

history == <<debris, unremoved>>
vars == <<img, side, scratch, pc, call, res, history>>

------------------------------------------------------------------------------
UdifShapes == {"UDRO", "UDZO", "UDSP"}
Shapes == {"raw"} \cup UdifShapes
PartStates == {"none", "mbr", "gpt", "cut"}
Filesystems == {"none", "ext4", "fat32", "exfat", "apfs", "hfsplus", "ntfs", "xfs"}
DmgSupportedFilesystems == {"none", "apfs", "hfsplus", "fat32", "exfat"}
Images == [shape : Shapes, part : PartStates, fs : Filesystems \cup {"cut"},
           enc : BOOLEAN, size : Sizes \cup {0}, lost : BOOLEAN]

SideFiles == {"converting", "convert.tmp"}
TempFiles == SideFiles \cup {"scratch"}

\* CreateOptions, with the defaults filled in; udif is DmgUDIFFormat and pass
\* says whether DmgPassphrase is set.  "other" is an unknown scheme.
CreateCalls ==
  [op : {"Create"}, format : {"raw", "dmg"}, part : {"none", "mbr", "gpt", "other"},
   fs : FsChoices, udif : {"", "UDRW", "UDZO"}, pass : BOOLEAN, size : Sizes]
ConvertCalls == [op : {"ConvertImageFormat"}, udif : UdifShapes \cup {"UDRW"}]
SizeCalls == [op : {"ResizeImage", "Grow"}, size : Sizes]
Calls == CreateCalls \cup ConvertCalls \cup SizeCalls

ASSUME LifecycleAssumption ==
  /\ Sizes \subseteq Nat \ {0}
  /\ FsChoices \subseteq Filesystems
  /\ NoFile \notin Images \cup Calls

PCs == {"idle", "open", "size", "table", "format", "splice", "fde", "wrap",
        "convert", "fill", "rename", "resize", "done"}

TypeOK ==
  /\ img \in Images \cup {NoFile}
  /\ side \in [SideFiles -> Images \cup {NoFile, Partial}]
  /\ scratch \in {"none", "live", "left"}
  /\ pc \in PCs
  /\ call \in Calls \cup {NoFile}
  /\ res \in {"nil", "err"}
  /\ debris \in SUBSET TempFiles
  /\ unremoved \in SUBSET TempFiles

Init ==
  /\ img = NoFile
  /\ side = [f \in SideFiles |-> NoFile]
  /\ scratch = "none"
  /\ pc = "idle"
  /\ call = NoFile
  /\ res = "nil"
  /\ debris = {}
  /\ unremoved = {}

------------------------------------------------------------------------------
\* Sizes that leave no room behind the 1 MiB alignment, or for the encrypted
\* container's header.
SmallSize == 1

Encrypted == call.op = "Create" /\ call.pass

\* The checks at the top of Create.
ValidCreate(c) ==
  /\ c.format = "dmg" => c.fs \in DmgSupportedFilesystems
  /\ c.pass => c.format = "dmg" /\ c.fs = "apfs" /\ c.size # SmallSize

Start(c) ==
  /\ pc = "idle"
  /\ call' = c
  /\ UNCHANGED <<img, side, scratch>>

Create ==
  /\ \E c \in CreateCalls :
       /\ Start(c)
       /\ pc' = IF ValidCreate(c) THEN "open" ELSE "done"
  /\ res' = "err"
  /\ UNCHANGED history

ConvertImageFormat ==
  /\ img # NoFile
  /\ \E c \in ConvertCalls : Start(c)
  /\ pc' = "convert"
  /\ res' = "err"
  /\ UNCHANGED history

ResizeOrGrow ==
  /\ img # NoFile
  /\ \E c \in SizeCalls : Start(c)
  /\ pc' = "resize"
  /\ res' = "err"
  /\ UNCHANGED history

\* The running call gives up with an error.
Fail == pc' = "done" /\ res' = "err"

\* The running call goes on at l, or is done.
Proceed(l) ==
  /\ pc' = l
  /\ res' = IF l = "done" THEN "nil" ELSE res

------------------------------------------------------------------------------
(* Create *)

\* What O_TRUNC makes of the file.
Blank == [shape |-> "raw", part |-> "none", fs |-> "none", enc |-> FALSE,
          size |-> 0, lost |-> FALSE]

\* os.OpenFile with O_CREATE and O_TRUNC: the file is empty now, or as it was.
OpenFile ==
  /\ pc = "open"
  /\ \/ /\ img' = Blank
        /\ Proceed("size")
     \/ /\ "io" \in Faults
        /\ Fail
        /\ UNCHANGED img
  /\ UNCHANGED <<side, scratch, call, history>>

\* f.Truncate.  A file that cannot be sized is removed, if os.Remove succeeds.
Truncate ==
  /\ pc = "size"
  /\ \/ /\ img' = [img EXCEPT !.size = call.size]
        /\ Proceed(IF Encrypted THEN "fde" ELSE "table")
     \/ /\ "io" \in Faults
        /\ img' \in {img, NoFile}
        /\ Fail
  /\ UNCHANGED <<side, scratch, call, history>>

\* createRaw's switch on the partition scheme.  An image that is too small, an
\* unknown scheme or a write error leaves the file behind.
WriteTable ==
  /\ pc = "table"
  /\ \/ /\ call.part = "none" \/ (call.part \in {"mbr", "gpt"} /\ call.size # SmallSize)
        /\ img' = [img EXCEPT !.part = call.part]
        /\ Proceed("format")
     \/ /\ call.part = "other" \/ (call.part # "none" /\ call.size = SmallSize)
        /\ Fail
        /\ UNCHANGED img
     \/ /\ "io" \in Faults
        /\ call.part \in {"mbr", "gpt"}
        /\ img' = [img EXCEPT !.part = "cut"]
        /\ Fail
  /\ UNCHANGED <<side, scratch, call, history>>

\* Where createRaw's caller goes next: a raw image is finished, a DMG is wrapped
\* unless it is to stay raw.
AfterRaw ==
  IF \/ call.format = "raw"
     \/ call.fs = "apfs" /\ call.udif = ""
     \/ call.udif = "UDRW"
    THEN "done" ELSE "wrap"

\* formatFilesystemAt: at offset 0 the image itself is formatted, at a partition
\* a temporary file is, to be copied into the image.
Format ==
  /\ pc = "format"
  /\ \/ /\ call.fs = "none"
        /\ Proceed(AfterRaw)
        /\ UNCHANGED <<img, scratch, history>>
     \/ /\ call.fs # "none" /\ call.part = "none"
        /\ img' = [img EXCEPT !.fs = call.fs]
        /\ Proceed(AfterRaw)
        /\ UNCHANGED <<scratch, history>>
     \/ /\ call.fs # "none"
        /\ "io" \in Faults
        /\ img' = IF call.part = "none" THEN [img EXCEPT !.fs = "cut"] ELSE img
        /\ Fail
        /\ UNCHANGED <<scratch, history>>
     \/ /\ call.fs # "none" /\ call.part # "none"
        /\ scratch' = "live"
        /\ debris' = debris \ {"scratch"}
        /\ unremoved' = unremoved \ {"scratch"}
        /\ Proceed("splice")
        /\ UNCHANGED img
  /\ UNCHANGED <<side, call>>

\* The formatted temporary file is copied to the partition.  The deferred
\* os.Remove takes it away whatever happened; when that fails nobody is told.
Splice ==
  /\ pc = "splice"
  /\ \/ /\ img' = [img EXCEPT !.fs = call.fs]
        /\ Proceed(AfterRaw)
     \/ /\ "io" \in Faults
        /\ img' \in {img, [img EXCEPT !.fs = "cut"]}
        /\ Fail
  /\ \/ /\ scratch' = "none"
        /\ UNCHANGED unremoved
     \/ /\ "io" \in Faults
        /\ scratch' = "left"
        /\ unremoved' = unremoved \cup {"scratch"}
  /\ UNCHANGED <<side, call, debris>>

\* createEncryptedApfsDmg: a Format error removes the file, if os.Remove succeeds; a
\* Close error of the device does not.
FormatEncrypted ==
  /\ pc = "fde"
  /\ \/ /\ img' = [img EXCEPT !.fs = "apfs", !.enc = TRUE]
        /\ Proceed("wrap")
     \/ /\ "io" \in Faults
        /\ img' \in {NoFile, [img EXCEPT !.fs = "cut"]}
        /\ Fail
  /\ UNCHANGED <<side, scratch, call, history>>

\* Mutant: the wrapped image is not converted to the format asked for.
WrapRaw_NoConvert ==
  /\ pc = "wrap"
  /\ img' = [img EXCEPT !.shape = "UDRO"]
  /\ Proceed("done")
  /\ UNCHANGED <<side, scratch, call, history>>

\* WrapRaw makes an uncompressed container of the raw image.  An encrypted image
\* is finished then, any other one is converted if a format was asked for.
WrapRaw ==
  /\ pc = "wrap"
  /\ \/ /\ img' = [img EXCEPT !.shape = "UDRO"]
        /\ Proceed(IF Encrypted \/ call.udif = "" THEN "done" ELSE "convert")
     \/ /\ "io" \in Faults
        /\ Fail
        /\ UNCHANGED img
  /\ UNCHANGED <<side, scratch, call, history>>

------------------------------------------------------------------------------
(* Conversion: convertDmgFormat in Create, and ConvertImageFormat *)

SideFile == IF call.op = "Create" THEN "converting" ELSE "convert.tmp"

\* "UDRW" is the raw image.
ShapeOf(udif) == IF udif = "UDRW" THEN "raw" ELSE udif

\* The side file is there now, emptied if an earlier call left it.
Begin ==
  /\ side' = [side EXCEPT ![SideFile] = Partial]
  /\ debris' = debris \ {SideFile}
  /\ unremoved' = unremoved \ {SideFile}

Filled == [side EXCEPT ![SideFile] = [img EXCEPT !.shape = ShapeOf(call.udif)]]

\* os.Remove of the side file after an error; its own error is dropped.
Discard ==
  \/ /\ side' = [side EXCEPT ![SideFile] = NoFile]
     /\ debris' = debris \ {SideFile}
     /\ unremoved' = unremoved \ {SideFile}
  \/ /\ "io" \in Faults
     /\ side[SideFile] # NoFile
     /\ side' = [side EXCEPT ![SideFile] = Partial]
     /\ unremoved' = unremoved \cup {SideFile}
     /\ UNCHANGED debris

\* Mutant: a failed conversion does not try to remove its side file.
ConvertUDIF_NoRemove ==
  /\ \/ /\ pc = "convert"
        /\ Begin
        /\ Proceed("fill")
     \/ /\ pc = "fill"
        /\ Fail
        /\ UNCHANGED <<side, history>>
  /\ UNCHANGED <<img, scratch, call>>

\* Mutant: the side file is put in place before it is complete.
ConvertUDIF_Early ==
  /\ pc = "convert"
  /\ side' = [side EXCEPT ![SideFile] = Partial]
  /\ Proceed("rename")
  /\ UNCHANGED <<img, scratch, call, history>>

\* ConvertUDIF writes the side file from scratch: first it is there in part,
\* then in full.
ConvertUDIF ==
  /\ \/ /\ pc = "convert"
        /\ Begin
        /\ Proceed("fill")
     \/ /\ pc = "fill"
        /\ side' = Filled
        /\ Proceed("rename")
        /\ UNCHANGED history
     \/ /\ pc \in {"convert", "fill"}
        /\ "io" \in Faults
        /\ Discard
        /\ Fail
  /\ UNCHANGED <<img, scratch, call>>

\* Mutant: the rename takes the contents of the other side file.
Rename_WrongFile ==
  /\ pc = "rename"
  /\ \E f \in SideFiles : img' = side[f]
  /\ side' = [side EXCEPT ![SideFile] = NoFile]
  /\ Proceed("done")
  /\ UNCHANGED <<scratch, call, history>>

\* os.Rename puts the side file in the place of the image, or the side file is
\* discarded.
Rename ==
  /\ pc = "rename"
  /\ \/ /\ img' = side[SideFile]
        /\ side' = [side EXCEPT ![SideFile] = NoFile]
        /\ Proceed("done")
        /\ UNCHANGED history
     \/ /\ "io" \in Faults
        /\ Discard
        /\ Fail
        /\ UNCHANGED img
  /\ UNCHANGED <<scratch, call>>

------------------------------------------------------------------------------
(* Resizing *)

\* Grow truncates the file.  What a smaller raw image held behind the cut is
\* gone; a UDIF file loses its trailer, so what is left is read as a raw image
\* that starts with container bytes.
Truncated(i, size) ==
  [i EXCEPT !.shape = "raw", !.size = size,
            !.lost = @ \/ size < i.size \/ i.shape # "raw"]

\* Mutant: ResizeImage truncates UDIF images too.
Resize_NoUDIF ==
  /\ pc = "resize"
  /\ img' = Truncated(img, call.size)
  /\ Proceed("done")
  /\ UNCHANGED <<side, scratch, call, history>>

\* ResizeImage sends UDIF images to ResizeUDRW, which keeps their shape, and
\* everything else to Grow.
Resize ==
  /\ pc = "resize"
  /\ \/ /\ call.op = "ResizeImage" /\ img.shape \in UdifShapes
        /\ call.size >= img.size
        /\ img' = [img EXCEPT !.size = call.size]
        /\ Proceed("done")
     \/ /\ call.op = "ResizeImage" /\ img.shape \in UdifShapes
        /\ call.size < img.size \/ "io" \in Faults
        /\ Fail
        /\ UNCHANGED img
     \/ /\ call.op = "Grow" \/ img.shape = "raw"
        /\ img' = Truncated(img, call.size)
        /\ Proceed("done")
     \/ /\ call.op = "Grow" \/ img.shape = "raw"
        /\ "io" \in Faults
        /\ Fail
        /\ UNCHANGED img
  /\ UNCHANGED <<side, scratch, call, history>>

------------------------------------------------------------------------------
Return ==
  /\ pc = "done"
  /\ pc' = "idle"
  /\ call' = NoFile
  /\ res' = "nil"
  /\ UNCHANGED <<img, side, scratch, history>>

\* The process dies.  What is in a side file it leaves does not matter to anyone.
Crash ==
  /\ "crash" \in Faults
  /\ pc \notin {"idle", "done"}
  /\ pc' = "idle"
  /\ call' = NoFile
  /\ res' = "nil"
  /\ scratch' = IF scratch = "live" THEN "left" ELSE scratch
  /\ debris' = debris \cup {f \in SideFiles : f = SideFile /\ pc \in {"fill", "rename"}}
                     \cup {f \in {"scratch"} : scratch = "live"}
  /\ side' = [f \in SideFiles |-> IF side[f] = NoFile THEN NoFile ELSE Partial]
  /\ UNCHANGED <<img, unremoved>>

Next ==
  \/ Create \/ ConvertImageFormat \/ ResizeOrGrow
  \/ OpenFile \/ Truncate \/ WriteTable \/ Format \/ Splice \/ FormatEncrypted \/ WrapRaw
  \/ ConvertUDIF \/ Rename \/ Resize
  \/ Return \/ Crash

Spec == Init /\ [][Next]_vars

------------------------------------------------------------------------------
(* Properties *)

Created == pc = "done" /\ call.op = "Create" /\ res = "nil"

\* A Create that returns nil made what was asked for: filesystem, size, encryption
\* and, unless a passphrase was given, the partition table and the container format
\* that was named; whatever earlier calls or crashes left.  For the table and the
\* format of an encrypted image see EncryptedAsAsked.
CreatedMeansComplete ==
  Created =>
    /\ img # NoFile /\ ~img.lost
    /\ img.size = call.size /\ img.fs = call.fs /\ img.enc = call.pass
    /\ call.format = "raw" => img.shape = "raw"
    /\ ~call.pass => img.part = call.part
    /\ call.format = "dmg" /\ call.udif # "" /\ ~call.pass => img.shape = ShapeOf(call.udif)

\* Partition "is the partition table scheme" and DmgUDIFFormat "selects the UDIF
\* format the image is written in" (CreateOptions): that holds of an encrypted image
\* too.  The code does otherwise: Create passes over both options when there is a
\* passphrase.
EncryptedAsAsked ==
  Created /\ call.pass =>
    /\ img.part = call.part
    /\ call.udif # "" => img.shape = ShapeOf(call.udif)

\* A conversion replaces the image in one step by the same contents in the new
\* shape, or leaves it as it was: no failure or crash, and no side file an
\* earlier crash left, ever shows a half-converted image (os.Rename at the end
\* of convertDmgFormat and ConvertImageFormat).
ConversionAtomic ==
  [][{pc} \subseteq {"convert", "fill", "rename"} =>
       \/ img' = img
       \/ img' = [img EXCEPT !.shape = ShapeOf(call.udif)]]_vars

\* The calls that write a side file if nothing fails before.
Converts(c) ==
  \/ c.op = "ConvertImageFormat"
  \/ c.op = "Create" /\ c.format = "dmg" /\ ~c.pass /\ c.udif \notin {"", "UDRW"}

\* Between calls there is a side file or a scratch file only where a process was
\* killed or os.Remove failed, and what either left goes with the next conversion to
\* the same name that returns nil.
NothingLeftBehind ==
  pc \in {"idle", "done"} =>
    /\ \A f \in SideFiles : side[f] # NoFile => f \in debris \cup unremoved
    /\ scratch # "none" => scratch = "left" /\ "scratch" \in debris \cup unremoved
    /\ pc = "done" /\ res = "nil" /\ Converts(call) => side[SideFile] = NoFile

\* What an image holds is destroyed only by Create's O_TRUNC and by truncating
\* the file: converting never does it, and resizing a UDIF image through
\* ResizeImage does not, in whatever shape earlier calls left it.
OnlyTruncationDestroys ==
  [][img # NoFile /\ ~img.lost /\ call # NoFile /\ call.op # "Create" =>
       /\ img' # NoFile
       /\ img'.part = img.part /\ img'.fs = img.fs /\ img'.enc = img.enc
       /\ \/ ~img'.lost
          \/ call.op = "Grow"
          \/ call.op = "ResizeImage" /\ img.shape = "raw" /\ call.size < img.size]_vars
=============================================================================
