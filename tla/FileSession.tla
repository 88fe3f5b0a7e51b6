----------------------------- MODULE FileSession -----------------------------
(***************************************************************************)
(* The file operations of fileops.go, run by several callers on one image. *)
(*                                                                         *)
(* Every operation opens a filesystem driver (openFS), makes one or more   *)
(* driver calls and closes the driver through a deferred Close.  On a raw  *)
(* image the driver works on the image file itself.  On a UDIF image it    *)
(* works on a private temporary copy made by UnpackToTemp, and             *)
(* dmgwrapper.Close puts that copy back with PackFromTemp, whatever the    *)
(* operation was.  The library takes no lock, so the sessions of different *)
(* callers interleave freely; a caller can also die at any point.          *)
(***************************************************************************)
EXTENDS FsTree, FiniteSets

CONSTANTS
  Procs,    \* concurrent callers (goroutines or processes)
  Temps,    \* names os.CreateTemp can hand out; when all are taken it fails
  Torn,     \* the image after an interrupted PackFromTemp
  NoTree,   \* "this temporary file does not exist"
  NoTemp,   \* "this session has no temporary file"
  Leftover, \* a temporary file whose contents nobody will read again
  NoReq,    \* "no operation is running"
  Media,    \* the images considered: records [shape, fs]
  Ops,      \* the operations the callers use
  Faults    \* what may go wrong, a subset of {"io", "pack", "crash"}

ASSUME SessionAssumption ==
  /\ NoTemp \notin Temps
  /\ NoTree \notin Tree
  /\ Leftover \notin Tree \cup {NoTree}
  /\ Torn \notin Tree
  /\ Media \subseteq [shape : {"raw", "udif"}, fs : STRING]
  /\ Ops \subseteq OpNames

VARIABLES
  medium,   \* the container shape and filesystem type of the image
  image,    \* what the image file holds
  files,    \* the temporary files
  pc,       \* where each caller is inside its operation
  req,      \* its request
  tmp,      \* the temporary file its session holds
  todo,     \* the path components ensureParentDirs still has to visit
  res,      \* the error it returns so far: "nil" or "err"
  \* history variables
  stale,    \* the callers since whose unpacking the image was rewritten
  base,     \* the contents this caller unpacked
  owed,     \* the last write to each path that a caller may rely on
  leaked    \* temporary files no code path removes any more

session == <<pc, req, tmp, todo, res>>
vars == <<medium, image, files, session, stale, base, owed, leaked>>

------------------------------------------------------------------------------
PCs == {"idle", "detect", "probe", "unpack", "open", "op", "mkdirs", "mkdir",
        "restat", "retry", "close", "pack", "remove", "done"}

\* The callers that hold an unpacked copy they may still put back.
InSession == {"open", "op", "mkdirs", "mkdir", "restat", "retry", "close", "pack"}

TypeOK ==
  /\ medium \in Media
  /\ image \in Tree \cup {Torn}
  /\ files \in [Temps -> Tree \cup {NoTree, Leftover}]
  /\ pc \in [Procs -> PCs]
  /\ req \in [Procs -> Requests \cup {NoReq}]
  /\ \A p \in Procs : pc[p] # "idle" => req[p] \in Requests
  /\ tmp \in [Procs -> Temps \cup {NoTemp}]
  /\ todo \in [Procs -> Seq(Paths)]
  /\ res \in [Procs -> {"nil", "err"}]
  /\ stale \in SUBSET Procs
  /\ base \in [Procs -> Tree \cup {NoTree}]
  /\ owed \in [Paths -> Data \cup {NoData}]
  /\ leaked \in SUBSET Temps

EmptyTree == [q \in Paths |-> Absent]

Init ==
  /\ medium \in Media
  /\ image = EmptyTree
  /\ files = [t \in Temps |-> NoTree]
  /\ pc = [p \in Procs |-> "idle"]
  /\ req = [p \in Procs |-> NoReq]
  /\ tmp = [p \in Procs |-> NoTemp]
  /\ todo = [p \in Procs |-> <<>>]
  /\ res = [p \in Procs |-> "err"]
  /\ stale = {}
  /\ base = [p \in Procs |-> NoTree]
  /\ owed = [q \in Paths |-> NoData]
  /\ leaked = {}

------------------------------------------------------------------------------
(* Helpers *)

\* Drivers of the two switches of openFS.
UdifDrivers == {"ext4", "fat32", "btrfs", "exfat", "ntfs", "apfs"}
RawDrivers == UdifDrivers \cup {"xfs", "zfs"}
HasDriver(m) == m.fs \in IF m.shape = "udif" THEN UdifDrivers ELSE RawDrivers

IsUDIF == medium.shape = "udif"

Goto(p, l) == pc' = [pc EXCEPT ![p] = l]
Answer(p, r) == res' = [res EXCEPT ![p] = r]

\* The file p's driver works on: its temporary copy or the image itself.
Work(p) == IF tmp[p] # NoTemp THEN files[tmp[p]] ELSE image

SetWork(p, fs) ==
  IF tmp[p] # NoTemp
    THEN /\ files' = [files EXCEPT ![tmp[p]] = fs]
         /\ UNCHANGED image
    ELSE /\ image' = fs
         /\ UNCHANGED files

\* p's session is over without its temporary file having been removed.
Abandon(p) ==
  /\ leaked' = leaked \cup ({tmp[p]} \ {NoTemp})
  /\ files' = [t \in Temps |-> IF t = tmp[p] THEN Leftover ELSE files[t]]
  /\ tmp' = [tmp EXCEPT ![p] = NoTemp]
  /\ base' = [base EXCEPT ![p] = NoTree]

\* os.Remove of p's copy; its error is ignored.
RemoveCopy(p) ==
  \/ /\ files' = [files EXCEPT ![tmp[p]] = NoTree]
     /\ tmp' = [tmp EXCEPT ![p] = NoTemp]
     /\ UNCHANGED <<base, leaked>>
  \/ "io" \in Faults /\ Abandon(p)

FreeTemps == {t \in Temps : files[t] = NoTree}

\* What callers may rely on once an operation with outcome r reaches the
\* image: everything it did not touch, unless it put back an outdated copy.
Settled(rq, r, outdated) ==
  [q \in Paths |->
     IF r = "nil" /\ q \in Touched(rq)
       THEN IF rq.op = "WriteFile" THEN rq.data ELSE NoData
       ELSE IF outdated THEN NoData ELSE owed[q]]

------------------------------------------------------------------------------
(* Opening *)

\* An operation starts.  A given filesystem type skips the detection.
Call(p) ==
  /\ pc[p] = "idle"
  /\ \E rq \in {r \in Requests : r.op \in Ops} : req' = [req EXCEPT ![p] = rq]
  /\ Goto(p, "detect") \/ Goto(p, "unpack")
  /\ UNCHANGED <<medium, image, files, tmp, todo, res, stale, base, owed, leaked>>

\* UnpackToTemp: a new temporary file with the sectors of the image.
Unpacked(p, t) ==
  /\ image # Torn
  /\ files' = [files EXCEPT ![t] = image]
  /\ tmp' = [tmp EXCEPT ![p] = t]

\* detectFilesystemInUDIF unpacks a copy of its own; a raw image is read.
DetectFilesystem(p) ==
  /\ pc[p] = "detect"
  /\ \/ /\ IsUDIF
        /\ \E t \in FreeTemps : Unpacked(p, t)
        /\ Goto(p, "probe")
     \/ /\ ~IsUDIF
        /\ Goto(p, "unpack")
        /\ UNCHANGED <<files, tmp>>
  /\ UNCHANGED <<medium, image, req, todo, res, stale, base, owed, leaked>>

\* Mutant: the detection does not remove its copy.
DetectDone_NoRemove(p) ==
  /\ pc[p] = "probe"
  /\ Goto(p, "unpack") \/ Goto(p, "done")
  /\ tmp' = [tmp EXCEPT ![p] = NoTemp]
  /\ UNCHANGED <<medium, image, files, req, todo, res, stale, base, owed, leaked>>

\* The probe ends and the deferred os.Remove runs, whatever it found.
DetectDone(p) ==
  /\ pc[p] = "probe"
  /\ \/ Goto(p, "unpack")
     \/ Goto(p, "done")
  /\ RemoveCopy(p)
  /\ UNCHANGED <<medium, image, req, todo, res, stale, owed>>

\* openFS after detection: a UDIF image is unpacked, a raw one is not.
OpenImage(p) ==
  /\ pc[p] = "unpack"
  /\ \/ /\ IsUDIF
        /\ \E t \in FreeTemps : Unpacked(p, t)
        /\ stale' = stale \ {p}
        /\ base' = [base EXCEPT ![p] = image]
     \/ /\ ~IsUDIF
        /\ UNCHANGED <<files, tmp, stale, base>>
  /\ Goto(p, "open")
  /\ UNCHANGED <<medium, image, req, todo, res, owed, leaked>>

\* Mutant: the error of UnpackToTemp is ignored and the image itself opened.
OpenImageFails_Ignored(p) ==
  /\ pc[p] = "unpack"
  /\ "io" \in Faults
  /\ Goto(p, "open")
  /\ UNCHANGED <<medium, image, files, req, tmp, todo, res, stale, base, owed, leaked>>

\* The detection or UnpackToTemp fails: the error is returned at once.
OpenImageFails(p) ==
  /\ pc[p] \in {"detect", "unpack"}
  /\ \/ "io" \in Faults
     \/ IsUDIF /\ (image = Torn \/ FreeTemps = {})
  /\ Goto(p, "done")
  /\ UNCHANGED <<medium, image, files, req, tmp, todo, res, stale, base, owed, leaked>>

\* The driver opens the working file.
OpenDriver(p) ==
  /\ pc[p] = "open"
  /\ HasDriver(medium)
  /\ Goto(p, "op")
  /\ UNCHANGED <<medium, image, files, req, tmp, todo, res, stale, base, owed, leaked>>

\* No driver, a wrong key or a damaged filesystem: openFS returns the error.
\* It has no dmgwrapper yet, so nothing removes the unpacked copy.
OpenDriverFails(p) ==
  /\ pc[p] = "open"
  /\ "io" \in Faults \/ ~HasDriver(medium)
  /\ Goto(p, "done")
  /\ Abandon(p)
  /\ UNCHANGED <<medium, image, req, todo, res, stale, owed>>

------------------------------------------------------------------------------
(* Driver calls *)

\* A driver call succeeds; on a raw image its effect is there for everyone.
OpSucceeds(p) ==
  /\ pc[p] \in {"op", "retry"}
  /\ DriverAccepts(Work(p), req[p])
  /\ SetWork(p, DriverEffect(Work(p), req[p]))
  /\ owed' = IF tmp[p] = NoTemp THEN Settled(req[p], "nil", FALSE) ELSE owed
  /\ Answer(p, "nil")
  /\ Goto(p, "close")
  /\ UNCHANGED <<medium, req, tmp, todo, stale, base, leaked>>

\* A driver call fails.  WriteFile goes on with ensureParentDirs, once.
OpFails(p) ==
  /\ pc[p] \in {"op", "retry"}
  /\ "io" \in Faults \/ ~DriverAccepts(Work(p), req[p])
  /\ IF pc[p] = "op" /\ req[p].op = "WriteFile"
       THEN /\ todo' = [todo EXCEPT ![p] = Ancestors[req[p].path]]
            /\ Goto(p, "mkdirs")
       ELSE /\ todo' = todo
            /\ Goto(p, "close")
  /\ UNCHANGED <<medium, image, files, req, tmp, res, stale, base, owed, leaked>>

\* Mutant: an existing component is not passed over.
EnsureParentDirs_NoAdvance(p) ==
  /\ pc[p] = "mkdirs"
  /\ IF todo[p] = <<>> THEN Goto(p, "retry")
     ELSE IF Work(p)[Head(todo[p])] = Absent THEN Goto(p, "mkdir") ELSE UNCHANGED pc
  /\ UNCHANGED <<medium, image, files, req, tmp, todo, res, stale, base, owed, leaked>>

\* ensureParentDirs, the test at the head of its loop: a component that Stat
\* finds is passed over, a missing one is to be made, and at the end the
\* write is tried again.
EnsureParentDirs(p) ==
  /\ pc[p] = "mkdirs"
  /\ \/ /\ todo[p] = <<>>
        /\ Goto(p, "retry")
        /\ UNCHANGED todo
     \/ /\ todo[p] # <<>>
        /\ Work(p)[Head(todo[p])] # Absent
        /\ todo' = [todo EXCEPT ![p] = Tail(@)]
        /\ UNCHANGED pc
     \/ /\ todo[p] # <<>>
        /\ "io" \in Faults \/ Work(p)[Head(todo[p])] = Absent
        /\ Goto(p, "mkdir")
        /\ UNCHANGED todo
  /\ UNCHANGED <<medium, image, files, req, tmp, res, stale, base, owed, leaked>>

\* ensureParentDirs, fs.MkDir of the component.
MkDirComponent(p) ==
  /\ pc[p] = "mkdir"
  /\ LET d == Head(todo[p])
         rq == [op |-> "MkDir", path |-> d, data |-> NoData, to |-> d]
     IN  \/ /\ DriverAccepts(Work(p), rq)
            /\ SetWork(p, DriverEffect(Work(p), rq))
            /\ todo' = [todo EXCEPT ![p] = Tail(@)]
            /\ Goto(p, "mkdirs")
         \/ /\ "io" \in Faults \/ ~DriverAccepts(Work(p), rq)
            /\ Goto(p, "restat")
            /\ UNCHANGED <<image, files, todo>>
  /\ UNCHANGED <<medium, req, tmp, res, stale, base, owed, leaked>>

\* Mutant: a MkDir error ends the operation without a second Stat.
RestatComponent_NoStat(p) ==
  /\ pc[p] = "restat"
  /\ Goto(p, "close")
  /\ UNCHANGED <<medium, image, files, req, tmp, todo, res, stale, base, owed, leaked>>

\* ensureParentDirs, the second Stat: another caller made the directory, or
\* the MkDir error ends the operation.
RestatComponent(p) ==
  /\ pc[p] = "restat"
  /\ \/ /\ Work(p)[Head(todo[p])] # Absent
        /\ todo' = [todo EXCEPT ![p] = Tail(@)]
        /\ Goto(p, "mkdirs")
     \/ /\ "io" \in Faults \/ Work(p)[Head(todo[p])] = Absent
        /\ Goto(p, "close")
        /\ UNCHANGED todo
  /\ UNCHANGED <<medium, image, files, req, tmp, res, stale, base, owed, leaked>>

------------------------------------------------------------------------------
(* Closing *)

\* Mutant: the copy is removed before it is packed.
CloseDriver_RemovesCopy(p) ==
  /\ pc[p] = "close"
  /\ Goto(p, IF tmp[p] = NoTemp THEN "done" ELSE "pack")
  /\ files' = [t \in Temps |-> IF t = tmp[p] THEN NoTree ELSE files[t]]
  /\ UNCHANGED <<medium, image, req, tmp, todo, res, stale, base, owed, leaked>>

\* The deferred Close of the driver: its error is dropped either way.  A raw
\* session ends here, a UDIF one goes on in dmgwrapper.Close.
CloseDriver(p) ==
  /\ pc[p] = "close"
  /\ Goto(p, IF tmp[p] = NoTemp THEN "done" ELSE "pack")
  /\ UNCHANGED <<medium, image, files, req, tmp, todo, res, stale, base, owed, leaked>>

\* Everyone else who holds an unpacked copy now holds an outdated one.
Outdate(p) ==
  stale' = stale \cup {o \in Procs \ {p} : tmp[o] # NoTemp /\ pc[o] \in InSession}

\* Mutant: the copy is packed before the driver's Close has flushed it.
Pack_BeforeClose(p) ==
  /\ pc[p] = "pack"
  /\ image' = base[p]
  /\ owed' = Settled(req[p], res[p], p \in stale)
  /\ Outdate(p)
  /\ base' = [base EXCEPT ![p] = NoTree]
  /\ Goto(p, "remove")
  /\ UNCHANGED <<medium, files, req, tmp, todo, res, leaked>>

\* PackFromTemp replaces the image by the session's copy.
Pack(p) ==
  /\ pc[p] = "pack"
  /\ image' = files[tmp[p]]
  /\ owed' = Settled(req[p], res[p], p \in stale)
  /\ Outdate(p)
  /\ base' = [base EXCEPT ![p] = NoTree]
  /\ Goto(p, "remove")
  /\ UNCHANGED <<medium, files, req, tmp, todo, res, leaked>>

\* What an unsuccessful or interrupted PackFromTemp can do to the image.
MaybeTear(p) ==
  \/ UNCHANGED <<image, owed, stale>>
  \/ /\ image' = Torn
     /\ owed' = [q \in Paths |-> NoData]
     /\ Outdate(p)

\* PackFromTemp fails: dmgwrapper.Close returns before os.Remove, and the
\* deferred call drops the error, so the caller still gets res.
PackFails(p) ==
  /\ pc[p] = "pack"
  /\ "pack" \in Faults
  /\ MaybeTear(p)
  /\ Abandon(p)
  /\ Goto(p, "done")
  /\ UNCHANGED <<medium, req, todo, res>>

\* The end of dmgwrapper.Close.
RemoveTemp(p) ==
  /\ pc[p] = "remove"
  /\ RemoveCopy(p)
  /\ Goto(p, "done")
  /\ UNCHANGED <<medium, image, req, todo, res, stale, owed>>

\* The operation returns res to its caller.
Return(p) ==
  /\ pc[p] = "done"
  /\ req' = [req EXCEPT ![p] = NoReq]
  /\ todo' = [todo EXCEPT ![p] = <<>>]
  /\ stale' = stale \ {p}
  /\ Answer(p, "err")
  /\ Goto(p, "idle")
  /\ UNCHANGED <<medium, image, files, tmp, base, owed, leaked>>

------------------------------------------------------------------------------
\* The caller dies: its copy stays behind, and a PackFromTemp it was in the
\* middle of may have torn the image.  A new caller takes its place.
Crash(p) ==
  /\ "crash" \in Faults
  /\ pc[p] \notin {"idle", "done"}
  /\ IF pc[p] = "pack" THEN MaybeTear(p) ELSE UNCHANGED <<image, owed, stale>>
  /\ Abandon(p)
  /\ req' = [req EXCEPT ![p] = NoReq]
  /\ todo' = [todo EXCEPT ![p] = <<>>]
  /\ Answer(p, "err")
  /\ Goto(p, "idle")
  /\ UNCHANGED medium

\* One step of the code of p's operation.
Step(p) ==
  \/ DetectFilesystem(p) \/ DetectDone(p)
  \/ OpenImage(p) \/ OpenImageFails(p)
  \/ OpenDriver(p) \/ OpenDriverFails(p)
  \/ OpSucceeds(p) \/ OpFails(p)
  \/ EnsureParentDirs(p) \/ MkDirComponent(p) \/ RestatComponent(p)
  \/ CloseDriver(p) \/ Pack(p) \/ PackFails(p) \/ RemoveTemp(p) \/ Return(p)

Next == \E p \in Procs : Call(p) \/ Step(p) \/ Crash(p)

Spec == Init /\ [][Next]_vars

\* An operation that has started keeps running: it is straight-line Go code
\* whose driver calls return.  Callers need not make another call.
FairSpec == Spec /\ \A p \in Procs : WF_vars(Step(p))

------------------------------------------------------------------------------
(* Properties *)

\* A write that reached the image stays there until an operation on that very
\* path replaces it, or a session that unpacked the image before the write
\* puts its outdated copy back (dmgwrapper.Close).  Sessions that do not
\* overlap never lose each other's writes, whatever fails in between.
OwedWritesSurvive ==
  \A q \in Paths : owed[q] # NoData => image # Torn /\ image[q] = owed[q]

\* Two sessions never share a temporary file, and every file left in the temp
\* directory belongs to a running session or to one that failed to open its
\* driver, to pack or to remove it, or died (openFS, dmgwrapper.Close,
\* detectFilesystemInUDIF): a call that runs to its end leaves nothing.
TempsAccounted ==
  /\ \A p, o \in Procs : p # o /\ tmp[p] = tmp[o] => tmp[p] = NoTemp
  /\ {t \in Temps : files[t] # NoTree}
       = leaked \cup ({tmp[p] : p \in Procs} \ {NoTemp})
  /\ \A p \in Procs : tmp[p] \notin leaked
  /\ \A p \in Procs : pc[p] = "done" => tmp[p] = NoTemp

\* ensureParentDirs copes with other callers making the same directories: when
\* nothing is deleted and no driver call fails by itself, WriteFile only gives up
\* because its target is a directory or one of the ancestors is a file.
WriteFailsOnlyOnConflict ==
  Ops \cap {"DeleteFile", "DeleteDir", "Rename"} = {} /\ "io" \notin Faults =>
    \A p \in Procs :
      pc[p] = "close" /\ req[p].op = "WriteFile" /\ res[p] = "err" =>
        \/ Work(p)[req[p].path] = Dir
        \/ \E q \in Paths : Below(q, req[p].path) /\ Work(p)[q] \in Data

\* What callers of WriteFile are told ("WriteFile writes data to a file inside
\* the image"): once it returned nil, and with no other caller around, the data
\* is in the image.
NilMeansWritten ==
  \A p \in Procs :
    (/\ Procs = {p}
     /\ pc[p] = "done"
     /\ res[p] = "nil"
     /\ req[p].op = "WriteFile") => image # Torn /\ image[req[p].path] = req[p].data

\* The operations implement the snapshot store: what a session puts back into a
\* UDIF image is what it unpacked plus the effect of its own request, all of it
\* or the part that ensureParentDirs got to; a raw image changes by one driver
\* call at a time; and nothing else writes the image.
Snapshots == INSTANCE SnapshotStore WITH
  inPlace <- ~IsUDIF,
  store <- image,
  want <- [p \in Procs |-> IF base[p] = NoTree THEN NoReq ELSE req[p]]
ImplementsSnapshotStore == Snapshots!Spec

\* Every operation that starts comes back to its caller (the loop of
\* ensureParentDirs ends, no error path hangs).
OperationsReturn == \A p \in Procs : pc[p] # "idle" ~> pc[p] = "idle"
=============================================================================
