----------------------------- MODULE SharedImage -----------------------------
(***************************************************************************)
(* Several processes use one image path at the same time: conversion and    *)
(* resizing (dmg_ops.go), Create, WriteFile and the like through openFS,    *)
(* the exec commands that open the image with a driver, and block devices.  *)
(*                                                                          *)
(* The library takes no lock and works by path.  Between two steps of a     *)
(* call the name can come to stand for another file (os.Rename), or the     *)
(* same file can be emptied (O_TRUNC), repacked or wrapped in place.  So    *)
(* files have an identity here, the inode, and what a call found out        *)
(* earlier (the type, IsUDIF, an open file) is kept in its locals and may    *)
(* no longer be true.  FileSession, DmgBlockDevice and ImageLifecycle have   *)
(* the failures of each kind of call; here every call makes its way through. *)
(*                                                                          *)
(* Taken from how the code uses the dmg library: ConvertUDIF creates or      *)
(* empties its target, PackFromTemp and WrapRaw rewrite the file at the      *)
(* path, every reader of a UDIF file verifies its checksum, and the data     *)
(* fork of an uncompressed one begins at offset 0 (openDMGBlockDevice).      *)
(* A call of the dmg library that unpacks an image or puts one back is one   *)
(* step here.  A conversion is two, and so is a resize: it reads the image   *)
(* in the first.  A driver has the file open from one step to the next, and  *)
(* its writes count as made in the second.                                   *)
(***************************************************************************)
EXTENDS Naturals, FiniteSets

CONSTANTS
  Procs,      \* processes, each of which makes one call
  Calls,      \* the calls they may make
  Inodes,     \* files on the host
  None,
  FsTypes,    \* filesystem types
  Faults      \* a subset of {"io", "crash"}: what may befall a conversion

Boxes == {"raw", "plain", "packed"}  \* no container, UDIF, compressed UDIF

CallRecords ==
  [op : {"convert"}, to : Boxes]
  \cup [op : {"write", "exec", "device"}]
  \cup [op : {"resize"}, cut : BOOLEAN]    \* to a size that cuts something off
  \cup [op : {"create"}, fs : FsTypes, wrap : BOOLEAN]

ASSUME SharedAssumption ==
  /\ Calls \subseteq CallRecords
  /\ None \notin Inodes \cup Procs
  /\ IsFiniteSet(Procs)
  /\ Cardinality(Inodes) > Cardinality(Procs)
  /\ "none" \notin FsTypes
  /\ Faults \subseteq {"io", "crash"}

VARIABLES
  image, side,  \* the inodes at the path and at the path + ".convert.tmp"
  file,         \* what each inode holds
  pc, call,     \* where each process is, and in which call
  loc,          \* its locals
  res,          \* what it was told
  met,          \* history: which kinds of call were under way at the same time
  acked,        \* history: writes confirmed since the image was last created
  unremoved     \* history: side files that os.Remove could not remove

vars == <<image, side, file, pc, call, loc, res, met, acked, unremoved>>

-----------------------------------------------------------------------------
(***************************************************************************)
(* A file: its container, its filesystem and who formatted it (gen), the     *)
(* writes in it (each process writes one piece of its own), whether the      *)
(* filesystem is damaged (torn), whether the trailer's checksum is that of   *)
(* the data fork, and whether the file is all there.                         *)
(***************************************************************************)
Files == [box : Boxes, fs : FsTypes \cup {"none"}, gen : Procs \cup {None},
          data : SUBSET Procs, torn : BOOLEAN, sum : BOOLEAN, whole : BOOLEAN]

Empty == [box |-> "raw", fs |-> "none", gen |-> None, data |-> {},
          torn |-> FALSE, sum |-> TRUE, whole |-> FALSE]

Unfilled == [Empty EXCEPT !.box = "plain"]

\* What UnpackToTemp, ConvertUDIF and the other readers accept.
Readable(f) == f.whole /\ (f.box = "raw" \/ f.sum)

\* A driver, or a raw device, can work on it where it is.
InPlace(f) == f.whole /\ f.box \in {"raw", "plain"}

\* p writes to a file it opened when generation g was in it.  Bytes that were
\* meant for another generation, or that land in compressed data, ruin it; a
\* write to the data fork makes the checksum wrong.
Written(f, p, g) ==
  IF InPlace(f) /\ f.gen = g
    THEN [f EXCEPT !.data = @ \cup {p}, !.sum = (f.box = "raw")]
    ELSE [f EXCEPT !.whole = FALSE]

\* What may become of a file that is cut, or that two write to or read and write at
\* the same time: some of what was written is gone, or the filesystem is damaged.
Damaged(f) ==
  LET lacking == {[f EXCEPT !.data = d] : d \in SUBSET f.data}
  IN lacking \cup {[g EXCEPT !.torn = TRUE] : g \in lacking}

At == file[image]

Locals == [typ : FsTypes \cup {"none"}, udif : BOOLEAN, ino : Inodes \cup {None},
           src : Inodes \cup {None}, gen : Procs \cup {None}, copy : Files, shared : BOOLEAN]
NoLocals == [typ |-> "none", udif |-> FALSE, ino |-> None, src |-> None, gen |-> None,
             copy |-> Empty, shared |-> FALSE]

PCs == {"idle", "read", "fill", "rename", "detect", "isudif", "open", "apply",
        "pack", "dwrite", "dclose", "refresh", "store", "truncate", "format",
        "wrap", "resize", "done", "dead"}

TypeOK ==
  /\ image \in Inodes
  /\ side \in (Inodes \cup {None}) \ {image}
  /\ file \in [Inodes -> Files]
  /\ pc \in [Procs -> PCs]
  /\ call \in [Procs -> Calls \cup {None}]
  /\ loc \in [Procs -> Locals]
  /\ \A p \in Procs : pc[p] \in {"fill", "rename", "apply", "dwrite", "store"} =>
       loc[p].ino \in Inodes \/ loc[p].udif
  /\ res \in [Procs -> {"nil", "err"}]
  /\ acked \subseteq Procs
  /\ unremoved \subseteq Inodes

Active == {p \in Procs : pc[p] \notin {"idle", "done", "dead"}}

Init ==
  /\ image \in Inodes
  /\ image = CHOOSE i \in Inodes : TRUE
  /\ side = None
  /\ \E b \in Boxes, t \in FsTypes :
       file = [i \in Inodes |->
                 IF i = image THEN [Empty EXCEPT !.box = b, !.fs = t, !.whole = TRUE]
                 ELSE Empty]
  /\ pc = [p \in Procs |-> "idle"]
  /\ call = [p \in Procs |-> None]
  /\ loc = [p \in Procs |-> NoLocals]
  /\ res = [p \in Procs |-> "err"]
  /\ met = {}
  /\ acked = {}
  /\ unremoved = {}

GoTo(p, l) == pc' = [pc EXCEPT ![p] = l]

Fail(p) == GoTo(p, "done") /\ UNCHANGED res
Succeed(p) == GoTo(p, "done") /\ res' = [res EXCEPT ![p] = "nil"]

FirstStep(c) ==
  CASE c.op = "convert"             -> "read"
    [] c.op \in {"write", "exec"}   -> "detect"
    [] c.op \in {"device", "resize"} -> "isudif"
    [] c.op = "create"              -> "truncate"

Begin(p) ==
  /\ pc[p] = "idle"
  /\ \E c \in Calls :
       /\ call' = [call EXCEPT ![p] = c]
       /\ GoTo(p, FirstStep(c))
       /\ met' = met \cup {{c.op, call[q].op} : q \in Active}
  /\ UNCHANGED <<image, side, file, loc, res, acked, unremoved>>

-----------------------------------------------------------------------------
(* ConvertImageFormat *)

\* Others that are writing to inode i.
Filling(i) == {q \in Procs : pc[q] = "fill" /\ loc[q].ino = i}

\* Drivers that work on inode i where it is.
Drivers(i) == {q \in Procs : pc[q] = "apply" /\ ~loc[q].udif /\ loc[q].ino = i}

\* After an error os.Remove takes away what has the side file's name.  Its own
\* error is ignored.
RemoveSide ==
  \/ /\ side' = None
     /\ UNCHANGED unremoved
  \/ /\ side # None /\ "io" \in Faults
     /\ unremoved' = unremoved \cup {side}
     /\ UNCHANGED side

\* Mutant: the new file gets the image's own name before it is written.
ReadSource_NoSideFile(p) ==
  /\ pc[p] = "read" /\ Readable(At)
  /\ LET i == CHOOSE j \in Inodes : file[j] = Empty /\ j # image
     IN /\ image' = i
        /\ file' = [file EXCEPT ![i] = Unfilled]
        /\ loc' = [loc EXCEPT ![p].ino = i, ![p].src = image, ![p].copy = At]
  /\ GoTo(p, "fill")
  /\ UNCHANGED <<side, call, res, met, acked, unremoved>>

\* ConvertUDIF opens the image and creates, or empties, the side file.
ReadSource(p) ==
  /\ pc[p] = "read"
  /\ \/ /\ Readable(At)
        /\ LET i == IF side # None THEN side
                    ELSE CHOOSE j \in Inodes : file[j] = Empty /\ j # image
               both == Filling(i) \cup {p}
           IN /\ side' = i
              /\ file' = [file EXCEPT ![i] = Unfilled]
              /\ loc' = [q \in Procs |->
                   IF q = p THEN [loc[p] EXCEPT !.ino = i, !.src = image, !.copy = At,
                                                !.shared = (both # {p})]
                   ELSE IF q \in both THEN [loc[q] EXCEPT !.shared = TRUE]
                   ELSE loc[q]]
        /\ GoTo(p, "fill")
        /\ UNCHANGED <<res, unremoved>>
     \/ /\ ~Readable(At) \/ "io" \in Faults
        /\ RemoveSide
        /\ Fail(p)
        /\ UNCHANGED <<file, loc>>
  /\ UNCHANGED <<image, call, met, acked>>

\* The file p read from has been written to since, or a driver has it open.
Changed(p) == file[loc[p].src] # loc[p].copy \/ Drivers(loc[p].src) # {}

\* History: p went on with what it had read of a raw file that changed meanwhile.
Mixed(p) == IF Changed(p) /\ loc[p].copy.box = "raw" THEN {{"mixed"}} ELSE {}

\* The side file is complete.  Two conversions that wrote to it at once may have
\* left a mixture, and a raw image that changes is copied as it happens to be at
\* each moment; a UDIF image has a checksum to tell.
Fill(p) ==
  /\ pc[p] = "fill"
  /\ \/ /\ \E w \in {TRUE, ~loc[p].shared},
             c \in IF Mixed(p) = {} THEN {loc[p].copy} ELSE Damaged(loc[p].copy) :
             file' = [file EXCEPT ![loc[p].ino] =
                        [c EXCEPT !.box = call[p].to, !.sum = TRUE, !.whole = w]]
        /\ met' = met \cup Mixed(p)
        /\ GoTo(p, "rename")
        /\ UNCHANGED <<side, res, unremoved>>
     \/ /\ Changed(p) \/ "io" \in Faults
        /\ RemoveSide
        /\ Fail(p)
        /\ UNCHANGED <<file, met>>
  /\ UNCHANGED <<image, call, loc, acked>>

\* History: the path goes from a raw file to a UDIF file or back.
Crossing(f, g) == IF (f.box = "raw") # (g.box = "raw") THEN {{"raw", "udif"}} ELSE {}

\* Mutant: a conversion that could not rename keeps its side file.
Rename_KeepsSide(p) ==
  /\ pc[p] = "rename"
  /\ \/ /\ side # None
        /\ image' = side
        /\ side' = None
        /\ met' = met \cup Crossing(At, file[side])
        /\ Succeed(p)
     \/ /\ side = None \/ "io" \in Faults
        /\ UNCHANGED <<image, side, met>>
        /\ Fail(p)
  /\ UNCHANGED <<file, call, loc, acked, unremoved>>

\* Mutant: the side file's name stays.
Rename_Links(p) ==
  /\ pc[p] = "rename"
  /\ side # None
  /\ image' = side
  /\ Succeed(p)
  /\ UNCHANGED <<side, file, call, loc, met, acked, unremoved>>

\* os.Rename moves whatever has the side file's name to the path.
Rename(p) ==
  /\ pc[p] = "rename"
  /\ \/ /\ side # None
        /\ image' = side
        /\ side' = None
        /\ met' = met \cup Crossing(At, file[side])
        /\ Succeed(p)
        /\ UNCHANGED unremoved
     \/ /\ side = None \/ "io" \in Faults
        /\ RemoveSide
        /\ UNCHANGED <<image, met>>
        /\ Fail(p)
  /\ UNCHANGED <<file, call, loc, acked>>

-----------------------------------------------------------------------------
(* openFS and the operations on it; the exec commands *)

\* Who reads the filesystem of the image now may find it damaged.
Unsettled == At.torn \/ Drivers(image) # {}

\* DetectFilesystem; a UDIF image is unpacked for it.
DetectFilesystem(p) ==
  /\ pc[p] = "detect"
  /\ \/ /\ Readable(At) /\ At.fs # "none"
        /\ loc' = [loc EXCEPT ![p].typ = At.fs]
        /\ GoTo(p, IF call[p].op = "exec" THEN "open" ELSE "isudif")
        /\ UNCHANGED res
     \/ /\ ~Readable(At) \/ At.fs = "none" \/ Unsettled
        /\ Fail(p)
        /\ UNCHANGED loc
  /\ UNCHANGED <<image, side, file, call, met, acked, unremoved>>

\* openFS, OpenBlockDevice and ResizeImage ask IsUDIF; the exec commands never do.
IsUDIF(p) ==
  /\ pc[p] = "isudif"
  /\ loc' = [loc EXCEPT ![p].udif = (At.box # "raw")]
  /\ GoTo(p, IF call[p].op = "resize" THEN "resize" ELSE "open")
  /\ UNCHANGED <<image, side, file, call, res, met, acked, unremoved>>

\* The driver is given a copy that UnpackToTemp made, or the image itself.  It
\* opens only its own filesystem; whether one opens a UDIF file as it is depends
\* on the driver.
OpenDriver(p) ==
  /\ pc[p] = "open" /\ call[p].op \in {"write", "exec"}
  /\ \/ /\ loc[p].udif
        /\ Readable(At) /\ At.box # "raw" /\ At.fs = loc[p].typ
        /\ loc' = [loc EXCEPT ![p].copy = At]
        /\ GoTo(p, "apply")
        /\ UNCHANGED <<res, met>>
     \/ /\ ~loc[p].udif
        /\ InPlace(At) /\ At.fs = loc[p].typ
        /\ loc' = [loc EXCEPT ![p].ino = image, ![p].gen = At.gen, ![p].copy = At]
        /\ GoTo(p, "apply")
        /\ met' = IF call[p].op = "exec" /\ At.box # "raw"
                    THEN met \cup {{"exec", "udif"}} ELSE met
        /\ UNCHANGED res
     \/ /\ \/ At.fs # loc[p].typ \/ ~At.whole \/ Unsettled
           \/ loc[p].udif /\ (At.box = "raw" \/ ~At.sum)
           \/ ~loc[p].udif /\ At.box # "raw"
        /\ Fail(p)
        /\ UNCHANGED <<loc, met>>
  /\ UNCHANGED <<image, side, file, call, acked, unremoved>>

\* The operation, on the copy or on the open file, which may by now be another
\* file than the one at the path.  A driver knows the filesystem as it was when it
\* opened it, and what anyone else wrote since then and its own writes can damage
\* each other.  Without a copy there is nothing left to do.
Apply(p) ==
  /\ pc[p] = "apply"
  /\ \/ /\ loc[p].udif
        /\ loc' = [loc EXCEPT ![p].copy.data = @ \cup {p}]
        /\ GoTo(p, "pack")
        /\ UNCHANGED <<file, res, met, acked>>
     \/ /\ ~loc[p].udif
        /\ LET f == file[loc[p].ino]
               g == Written(f, p, loc[p].gen)
           IN /\ \E h \in IF f = loc[p].copy THEN {g} ELSE Damaged(g) :
                   file' = [file EXCEPT ![loc[p].ino] = h]
              /\ met' = IF f = loc[p].copy THEN met ELSE met \cup {{"mixed"}}
        /\ Succeed(p)
        /\ acked' = acked \cup {p}
        /\ UNCHANGED loc
  /\ UNCHANGED <<image, side, call, unremoved>>

\* History: a session's write is confirmed.
Confirm(p) == acked' = IF call[p].op = "write" THEN acked \cup {p} ELSE acked

\* Mutant: Close forgets to pack.
Pack_Skipped(p) ==
  /\ pc[p] = "pack"
  /\ Confirm(p)
  /\ Succeed(p)
  /\ UNCHANGED <<image, side, file, call, loc, met, unremoved>>

\* dmgwrapper.Close: PackFromTemp rewrites the file that is at the path now.  It
\* may refuse one that is no UDIF file any more.  ResizeUDRW ends like this, too.
Pack(p) ==
  /\ pc[p] = "pack"
  /\ \/ /\ file' = [file EXCEPT ![image] = [loc[p].copy EXCEPT !.sum = TRUE]]
        /\ Confirm(p)
     \/ /\ At.box = "raw"
        /\ UNCHANGED <<file, acked>>
  /\ Succeed(p)
  /\ UNCHANGED <<image, side, call, loc, met, unremoved>>

-----------------------------------------------------------------------------
(* OpenBlockDevice: udifRawBlockDevice and rawFileDevice *)

\* openDMGBlockDevice refuses what is not an uncompressed UDIF file: it asks before
\* it opens the path, and tests the trailer of the file it then has.  The raw
\* device opens anything.
OpenDevice(p) ==
  /\ pc[p] = "open" /\ call[p].op = "device"
  /\ \/ /\ loc[p].udif => At.box = "plain" /\ At.whole
        /\ loc' = [loc EXCEPT ![p].ino = image, ![p].gen = At.gen]
        /\ GoTo(p, "dwrite")
        /\ UNCHANGED res
     \/ /\ loc[p].udif /\ ~(At.box = "plain" /\ At.whole)
        /\ Fail(p)
        /\ UNCHANGED loc
  /\ UNCHANGED <<image, side, file, call, met, acked, unremoved>>

WriteAt(p) ==
  /\ pc[p] = "dwrite"
  /\ file' = [file EXCEPT ![loc[p].ino] = Written(@, p, loc[p].gen)]
  /\ GoTo(p, "dclose")
  /\ UNCHANGED <<image, side, call, loc, res, met, acked, unremoved>>

\* The file is closed.  Only the UDIF device refreshes the checksum.
CloseDevice(p) ==
  /\ pc[p] = "dclose"
  /\ \/ loc[p].udif /\ GoTo(p, "refresh") /\ UNCHANGED <<res, acked>>
     \/ ~loc[p].udif /\ Succeed(p) /\ acked' = acked \cup {p}
  /\ UNCHANGED <<image, side, file, call, loc, met, unremoved>>

\* Mutant: the checksum read from the device's own file is stored in whatever
\* file is at the path.
RefreshRead_Own(p) ==
  /\ pc[p] = "refresh"
  /\ loc' = [loc EXCEPT ![p].ino = image, ![p].copy = file[loc[p].ino]]
  /\ GoTo(p, "store")
  /\ UNCHANGED <<image, side, file, call, res, met, acked, unremoved>>

\* RefreshChecksums opens the path again and reads the data fork it finds.  A raw
\* file is an error; what it does with compressed data is up to the library.
RefreshRead(p) ==
  /\ pc[p] = "refresh"
  /\ \/ /\ At.box = "plain" /\ At.whole
        /\ loc' = [loc EXCEPT ![p].ino = image, ![p].copy = At]
        /\ GoTo(p, "store")
        /\ UNCHANGED <<res, acked>>
     \/ /\ At.box # "plain" \/ ~At.whole
        /\ Fail(p)
        /\ UNCHANGED <<loc, acked>>
     \/ /\ At.box = "packed"
        /\ Succeed(p)
        /\ acked' = acked \cup {p}
        /\ UNCHANGED loc
  /\ UNCHANGED <<image, side, file, call, met, unremoved>>

\* The trailer gets the checksum of what was read.
RefreshStore(p) ==
  /\ pc[p] = "store"
  /\ LET f == file[loc[p].ino]
         ok == f.data = loc[p].copy.data /\ f.gen = loc[p].copy.gen
     IN file' = [file EXCEPT ![loc[p].ino] =
                   IF f.box = "plain" THEN [f EXCEPT !.sum = ok]
                   ELSE [f EXCEPT !.whole = FALSE]]
  /\ Succeed(p)
  /\ acked' = acked \cup {p}
  /\ UNCHANGED <<image, side, call, loc, met, unremoved>>

-----------------------------------------------------------------------------
(* Create, ResizeImage and Grow *)

\* os.OpenFile with O_TRUNC: the file at the path is emptied where it is.
Truncate(p) ==
  /\ pc[p] = "truncate"
  /\ file' = [file EXCEPT ![image] = [Empty EXCEPT !.whole = TRUE, !.gen = p]]
  /\ acked' = {}
  /\ GoTo(p, "format")
  /\ UNCHANGED <<image, side, call, loc, res, met, unremoved>>

\* formatFilesystem works by path.
Format(p) ==
  /\ pc[p] = "format"
  /\ file' = [file EXCEPT ![image] =
                IF At.box = "raw"
                  THEN [Empty EXCEPT !.whole = At.whole, !.gen = p, !.fs = call[p].fs]
                  ELSE [At EXCEPT !.whole = FALSE]]
  /\ IF call[p].wrap THEN GoTo(p, "wrap") /\ UNCHANGED res ELSE Succeed(p)
  /\ UNCHANGED <<image, side, call, loc, met, acked, unremoved>>

\* WrapRaw works by path as well.
WrapRaw(p) ==
  /\ pc[p] = "wrap"
  /\ \/ /\ At.box = "raw"
        /\ file' = [file EXCEPT ![image].box = "plain"]
        /\ Succeed(p)
     \/ /\ At.box # "raw"
        /\ UNCHANGED file
        /\ Fail(p)
  /\ UNCHANGED <<image, side, call, loc, met, acked, unremoved>>

\* What a resize makes of the file's contents.
Resized(p, f) == IF call[p].cut THEN Damaged(f) ELSE {f}

\* ResizeUDRW for an image that was UDIF: it reads the image and puts it back in
\* the same shape; to a smaller size it may refuse.  Otherwise Grow: a UDIF file
\* that is truncated loses its trailer.
Resize(p) ==
  /\ pc[p] = "resize"
  /\ \/ /\ loc[p].udif
        /\ Readable(At) /\ At.box # "raw"
        /\ \E c \in Resized(p, At) : loc' = [loc EXCEPT ![p].copy = c]
        /\ GoTo(p, "pack")
        /\ met' = IF call[p].cut THEN met \cup {{"cut"}} ELSE met
        /\ UNCHANGED <<file, res>>
     \/ /\ loc[p].udif
        /\ ~Readable(At) \/ At.box = "raw" \/ call[p].cut
        /\ Fail(p)
        /\ UNCHANGED <<file, loc, met>>
     \/ /\ ~loc[p].udif
        /\ \E f \in Resized(p, At) :
             file' = [file EXCEPT ![image] =
                        [f EXCEPT !.box = "raw", !.whole = @ /\ At.box = "raw"]]
        /\ met' = IF call[p].cut THEN met \cup {{"cut"}} ELSE met
        /\ Succeed(p)
        /\ UNCHANGED loc
  /\ UNCHANGED <<image, side, call, acked, unremoved>>

\* A process dies in a conversion and leaves the side file as it is.
Crash(p) ==
  /\ "crash" \in Faults
  /\ pc[p] \in {"fill", "rename"}
  /\ GoTo(p, "dead")
  /\ UNCHANGED <<image, side, file, call, loc, res, met, acked, unremoved>>

Next ==
  \E p \in Procs :
    \/ Begin(p)
    \/ ReadSource(p) \/ Fill(p) \/ Rename(p)
    \/ DetectFilesystem(p) \/ IsUDIF(p) \/ OpenDriver(p) \/ Apply(p) \/ Pack(p)
    \/ OpenDevice(p) \/ WriteAt(p) \/ CloseDevice(p) \/ RefreshRead(p) \/ RefreshStore(p)
    \/ Truncate(p) \/ Format(p) \/ WrapRaw(p) \/ Resize(p)
    \/ Crash(p)

Spec == Init /\ [][Next]_vars

-----------------------------------------------------------------------------
(* Properties *)

\* Kinds of call that may run together, whatever the image is.
Compatible ==
  {{"write"}, {"exec"}, {"resize"}, {"write", "exec"}, {"exec", "device"},
   {"resize", "write"}, {"resize", "exec"}, {"convert", "exec"}}

\* A conversion that stays within the UDIF formats may run together with these.
CompatibleInUDIF == {{"convert", k} : k \in {"write", "device", "resize"}}

\* Whatever their interleaving, calls that may run together leave an image that
\* opens and whose filesystem is whole: conversion and the writers, as long as no
\* conversion goes from raw to UDIF or back between the IsUDIF of a call and its
\* use, resizing with sessions and exec commands, sessions and exec commands with
\* each other.  It does not matter that a device's Close refreshes the checksum of
\* the file a conversion has put at the path, nor what side file a dead process
\* left.  Every other pair can ruin the image; so can a resize that cuts, and a
\* driver or a conversion that goes on with what it read of a raw file somebody
\* wrote to meanwhile (README.md: use it offline).
CompatibleCallsLeaveItIntact ==
  LET safe == Compatible \cup
        (IF {"raw", "udif"} \in met THEN {{"raw", "udif"}} ELSE CompatibleInUDIF)
  IN Active = {} /\ met \subseteq safe => Readable(At) /\ At.fs # "none" /\ ~At.torn

\* Kinds of call that keep each other's confirmed writes.
Considerate ==
  {{"exec"}, {"device"}, {"resize"}, {"write", "exec"}, {"exec", "device"},
   {"resize", "exec"}, {"raw", "udif"}}

\* A confirmed write is in the image that has the path from then on, through any
\* later conversions and resizes, unless the image is created anew or cut, or the
\* call ran together with a conversion, a creation, or another call of which one
\* puts back a copy (sessions and resizes), or two had a raw image open at once of
\* which one is a driver and the other wrote.
ConfirmedWritesKept ==
  met \subseteq Considerate => acked \subseteq At.data

\* Once no conversion is under way the side file is gone, however many shared its
\* name and whichever of them failed: each either renames or removes what has that
\* name.  What is left is the file of a process that died, or one that os.Remove
\* could not remove (dmg_ops.go ignores that error).
SideFileGone ==
  side # None =>
    \/ side \in unremoved
    \/ \E p \in Procs : pc[p] \in {"fill", "rename", "dead"} /\ loc[p].ino = side

\* The path never comes to stand for a file that is still being written, unless two
\* conversions were under way at once and shared the side file.
PublishedWhole ==
  [][image' # image => file'[image'].whole \/ {"convert"} \in met]_vars
==============================================================================
