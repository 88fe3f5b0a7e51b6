--------------------------- MODULE DmgBlockDevice ---------------------------
(***************************************************************************)
(* Block devices on one DMG (OpenBlockDevice, openDMGBlockDevice and       *)
(* udifRawBlockDevice) and the ext4 label operations built on them.        *)
(*                                                                         *)
(* An uncompressed UDIF file is its data fork, the sectors, followed by    *)
(* the koly trailer, which holds a checksum of the fork.  Writes go to the *)
(* fork in place; Close of a device that was written to computes the       *)
(* checksum again and rewrites the trailer.  Until then every reader that  *)
(* verifies the checksum (UnpackToTemp, hdiutil) refuses the image.        *)
(***************************************************************************)
EXTENDS Integers, FiniteSets

CONSTANTS
  Devs,       \* callers, each with at most one device
  Fork,       \* dataForkLength
  Vals,       \* what a unit of the data fork can hold
  Koly,       \* the trailer, at offset Fork
  MaxInt,     \* the largest int64
  OsMax,      \* the largest offset the operating system accepts
  MaxLen,     \* the longest buffer a caller passes
  Kinds,      \* the images considered
  Faults      \* what may go wrong, a subset of {"io", "refresh", "crash"}

ASSUME DeviceAssumption ==
  /\ Fork \in Nat \ {0}
  /\ MaxInt \in Nat
  /\ OsMax \in Nat
  /\ MaxLen \in Nat \ {0}
  /\ Fork <= OsMax
  /\ OsMax + MaxLen <= MaxInt
  /\ Koly \notin Vals
  /\ Vals # {}

VARIABLES
  kind,     \* what the file at the path is
  file,     \* its bytes: the data fork and, at offset Fork, the trailer
  crc,      \* the fork contents the trailer's checksum was computed over
  pc,       \* what each caller's device is doing
  job,      \* "app": uses the device itself; "label": SetExt4Label; "show": Ext4Label
  fds,      \* the callers that hold an open file
  dirty,    \* the devices with d.dirty set
  seen,     \* the fork as RefreshChecksums read it
  told,     \* the error the caller was given
  io,       \* the outcome of the last ReadAt, or NoIO
  faulted,  \* history: a written device was not closed properly since the
            \* checksum was last refreshed
  mixed     \* history: two devices were written to at the same time since one
            \* that was alone last read the fork for its refresh

vars == <<kind, file, crc, pc, job, fds, dirty, seen, told, io, faulted, mixed>>

------------------------------------------------------------------------------
Units == 0..(Fork - 1)
ForkContents == [Units -> Vals]

\* The data fork of the file.
fork == [i \in Units |-> file[i]]

NoIO == [len |-> 0, n |-> 0, end |-> 0]
PCs == {"closed", "check", "open", "sync", "fclose", "rread", "rwrite", "done"}

\* An image whose koly trailer passes every test of openDMGBlockDevice, the
\* ways one can fail them, and a compressed or sparse image.
GoodKind == "inplace"
BadTrailers == {"short", "badmagic", "offset", "length"}
AllKinds == {GoodKind, "compressed"} \cup BadTrailers

TypeOK ==
  /\ kind \in AllKinds
  /\ file \in [0..Fork -> Vals \cup {Koly}]
  /\ fork \in ForkContents
  /\ crc \in ForkContents
  /\ pc \in [Devs -> PCs]
  /\ job \in [Devs -> {"app", "label", "show"}]
  /\ fds \in SUBSET Devs
  /\ dirty \in SUBSET Devs
  /\ seen \in [Devs -> ForkContents]
  /\ told \in [Devs -> {"nil", "err"}]
  /\ io \in [len : Int, n : Int, end : Int]
  /\ faulted \in BOOLEAN
  /\ mixed \in BOOLEAN

Init ==
  /\ kind \in Kinds \cap AllKinds
  /\ \E v \in Vals : crc = [i \in Units |-> v]
  /\ file = [i \in 0..Fork |-> IF i = Fork THEN Koly ELSE crc[i]]
  /\ pc = [d \in Devs |-> "closed"]
  /\ job = [d \in Devs |-> "app"]
  /\ fds = {}
  /\ dirty = {}
  /\ seen = [d \in Devs |-> crc]
  /\ told = [d \in Devs |-> "nil"]
  /\ io = NoIO
  /\ faulted = FALSE
  /\ mixed = FALSE

Goto(d, l) == pc' = [pc EXCEPT ![d] = l]
Answer(d, r) == told' = [told EXCEPT ![d] = r]

\* An error return with nothing to close, and one that calls f.Close() first.
Refuse(d) == Goto(d, "done") /\ Answer(d, "err") /\ UNCHANGED fds
GiveUp(d) == Goto(d, "done") /\ Answer(d, "err") /\ fds' = fds \ {d}

------------------------------------------------------------------------------
(* Opening *)

\* openDMGBlockDevice, up to opening the file.  Three returns come before there is
\* anything to close: InPlaceWritable fails, it refuses an image with compressed or
\* elided sectors, or the file cannot be opened.
Open(d) ==
  /\ pc[d] = "closed"
  /\ \E j \in {"app", "label", "show"} : job' = [job EXCEPT ![d] = j]
  /\ \/ /\ kind # "compressed"
        /\ fds' = fds \cup {d}
        /\ Goto(d, "check")
        /\ Answer(d, "nil")
     \/ "io" \in Faults /\ Refuse(d)                             \* InPlaceWritable
     \/ kind = "compressed" /\ Refuse(d)
     \/ kind # "compressed" /\ "io" \in Faults /\ Refuse(d)      \* os.OpenFile
  /\ io' = NoIO
  /\ UNCHANGED <<kind, file, crc, dirty, seen, faulted, mixed>>

\* The returns of openDMGBlockDevice on the way to a device, each with what it
\* does about the open file.
TrailerChecked(d) ==
  /\ kind = GoodKind
  /\ Goto(d, "open")
  /\ UNCHANGED <<told, fds>>

StatFails(d) == "io" \in Faults /\ GiveUp(d)

TooShort(d) == kind = "short" /\ GiveUp(d)

KolyUnread(d) == kind # "short" /\ "io" \in Faults /\ GiveUp(d)

BadMagic(d) == kind = "badmagic" /\ GiveUp(d)

ForkNotAtZero(d) == kind = "offset" /\ GiveUp(d)

\* Mutant: the last of the tests returns without closing the file.
LengthDisagrees_KeepsFile(d) == kind = "length" /\ Refuse(d)

LengthDisagrees(d) == kind = "length" /\ GiveUp(d)

CheckTrailer(d) ==
  /\ pc[d] = "check"
  /\ \/ TrailerChecked(d)
     \/ StatFails(d) \/ TooShort(d) \/ KolyUnread(d) \/ BadMagic(d)
     \/ ForkNotAtZero(d) \/ LengthDisagrees(d)
  /\ io' = NoIO
  /\ UNCHANGED <<kind, file, crc, job, dirty, seen, faulted, mixed>>

------------------------------------------------------------------------------
(* Reading and writing *)

\* int64 addition
Wrap(x) == IF x > MaxInt THEN x - 2 * (MaxInt + 1) ELSE x

Offsets == -1..OsMax \cup (MaxInt - MaxLen)..MaxInt

\* ReadAt stops at the end of the fork; beyond it there is nothing (io.EOF).
ReadAt(d) ==
  /\ pc[d] = "open"
  /\ \E off \in Offsets, len \in 0..MaxLen :
       io' = IF off < 0 \/ off >= Fork
               THEN [len |-> len, n |-> 0, end |-> 0]
               ELSE LET n == IF len > Fork - off THEN Fork - off ELSE len
                    IN  [len |-> len, n |-> n, end |-> off + n]
  /\ UNCHANGED <<kind, file, crc, pc, job, fds, dirty, seen, told, faulted, mixed>>

\* What f.WriteAt does with n of the units of the buffer.
Stored(off, n, v) ==
  [i \in 0..Fork |-> IF off <= i /\ i < off + n THEN v ELSE file[i]]

\* Mutant: the bound of WriteAt is off by one.
Fits_OffByOne(off, len) == off >= 0 /\ Wrap(off + len) <= Fork + 1

\* The tests at the top of WriteAt; the sum is an int64.
Fits(off, len) == off >= 0 /\ Wrap(off + len) <= Fork

\* Mutant: a write that stopped half way is not remembered.
MarksDirty_WhenComplete(n, len) == n = len

\* d.dirty is set when f.WriteAt took anything at all.
MarksDirty(n, len) == n > 0

\* WriteAt refuses what does not fit in the fork.  The file can also refuse it
\* or, on an I/O error, take only the first units; dirty records that some
\* were taken.  The label operation writes the superblock, unit 0.
WriteAt(d) ==
  /\ pc[d] = "open"
  /\ job[d] # "show"
  /\ \E off \in Offsets, len \in 1..MaxLen, v \in Vals :
       /\ job[d] = "label" => off = 0 /\ len = 1
       /\ Fits(off, len)
       /\ \E n \in 0..len :
            /\ n = len \/ "io" \in Faults \/ off > OsMax
            /\ off > OsMax => n = 0
            /\ file' = Stored(off, n, v)
            /\ dirty' = IF MarksDirty(n, len) THEN dirty \cup {d} ELSE dirty
            /\ mixed' = (mixed \/ (n > 0 /\ dirty \ {d} # {}))
  /\ io' = NoIO
  /\ UNCHANGED <<kind, crc, pc, job, fds, seen, told, faulted>>

\* The application is done with the device, or SetLabel failed: either way the
\* (deferred) Close runs next.  The label operations have their result by now.
StartClose(d) ==
  /\ pc[d] = "open"
  /\ job[d] = "label" => d \in dirty \/ "io" \in Faults
  /\ \E r \in {"nil", "err"} :
       /\ r = "err" => job[d] # "app" /\ "io" \in Faults
       /\ Answer(d, r)
  /\ Goto(d, IF d \in dirty THEN "sync" ELSE "fclose")
  /\ io' = NoIO
  /\ UNCHANGED <<kind, file, crc, job, fds, dirty, seen, faulted, mixed>>

------------------------------------------------------------------------------
(* Close *)

\* Close of udifRawBlockDevice returns err: an application sees it, the label
\* operations drop it (defer dev.Close()).
CloseReturns(d, err) ==
  /\ Goto(d, "done")
  /\ told' = IF job[d] = "app" THEN [told EXCEPT ![d] = err] ELSE told

\* f.Sync before the file is closed; on an error the checksum stays as it is.
SyncFile(d) ==
  /\ pc[d] = "sync"
  /\ \/ /\ Goto(d, "fclose")
        /\ UNCHANGED <<told, fds, faulted>>
     \/ /\ "io" \in Faults
        /\ CloseReturns(d, "err")
        /\ fds' = fds \ {d}
        /\ faulted' = TRUE
  /\ io' = NoIO
  /\ UNCHANGED <<kind, file, crc, job, dirty, seen, mixed>>

\* Mutant: Close does not refresh the checksum.
CloseFile_NoRefresh(d) ==
  /\ pc[d] = "fclose"
  /\ fds' = fds \ {d}
  /\ CloseReturns(d, "nil")
  /\ io' = NoIO
  /\ UNCHANGED <<kind, file, crc, job, dirty, seen, faulted, mixed>>

\* f.Close.  A device that was not written to is done; the other one goes on to
\* RefreshChecksums, which opens the path again.
CloseFile(d) ==
  /\ pc[d] = "fclose"
  /\ fds' = fds \ {d}
  /\ \/ /\ d \in dirty
        /\ Goto(d, "rread")
        /\ UNCHANGED <<told, faulted>>
     \/ /\ d \notin dirty
        /\ CloseReturns(d, "nil")
        /\ UNCHANGED faulted
     \/ /\ "io" \in Faults
        /\ CloseReturns(d, "err")
        /\ faulted' = (faulted \/ d \in dirty)
  /\ io' = NoIO
  /\ UNCHANGED <<kind, file, crc, job, dirty, seen, mixed>>

\* Mutant: the checksum is computed over the trailer as well.
RefreshRead_WholeFile(d) ==
  /\ pc[d] = "rread"
  /\ seen' = [seen EXCEPT ![d] = file]
  /\ Goto(d, "rwrite")
  /\ io' = NoIO
  /\ UNCHANGED <<kind, file, crc, job, fds, dirty, told, faulted, mixed>>

\* RefreshChecksums reads the data fork ...
RefreshRead(d) ==
  /\ pc[d] = "rread"
  /\ seen' = [seen EXCEPT ![d] = fork]
  /\ mixed' = (mixed /\ dirty # {d})
  /\ Goto(d, "rwrite")
  /\ io' = NoIO
  /\ UNCHANGED <<kind, file, crc, job, fds, dirty, told, faulted>>

\* ... and writes the checksum of what it read into the trailer.
RefreshWrite(d) ==
  /\ pc[d] = "rwrite"
  /\ crc' = seen[d]
  /\ CloseReturns(d, "nil")
  /\ faulted' = FALSE
  /\ io' = NoIO
  /\ UNCHANGED <<kind, file, job, fds, dirty, seen, mixed>>

RefreshFails(d) ==
  /\ pc[d] \in {"rread", "rwrite"}
  /\ "refresh" \in Faults
  /\ CloseReturns(d, "err")
  /\ faulted' = TRUE
  /\ io' = NoIO
  /\ UNCHANGED <<kind, file, crc, job, fds, dirty, seen, mixed>>

Return(d) ==
  /\ pc[d] = "done"
  /\ Goto(d, "closed")
  /\ dirty' = dirty \ {d}
  /\ io' = NoIO
  /\ UNCHANGED <<kind, file, crc, job, fds, seen, told, faulted, mixed>>

\* The caller dies with the device open or half closed.
Crash(d) ==
  /\ "crash" \in Faults
  /\ pc[d] \notin {"closed", "done"}
  /\ Goto(d, "closed")
  /\ fds' = fds \ {d}
  /\ dirty' = dirty \ {d}
  /\ Answer(d, "err")
  /\ faulted' = (faulted \/ d \in dirty)
  /\ io' = NoIO
  /\ UNCHANGED <<kind, file, crc, job, seen, mixed>>

Next ==
  \E d \in Devs :
    \/ Open(d) \/ CheckTrailer(d)
    \/ ReadAt(d) \/ WriteAt(d)
    \/ StartClose(d) \/ SyncFile(d) \/ CloseFile(d)
    \/ RefreshRead(d) \/ RefreshWrite(d) \/ RefreshFails(d)
    \/ Return(d) \/ Crash(d)

Spec == Init /\ [][Next]_vars

------------------------------------------------------------------------------
(* Properties *)

\* The image passes the checksum test of its next reader.
Readable == crc = fork

\* Neither WriteAt nor ReadAt crosses the end of the data fork, not even when
\* off + len overflows int64: the trailer survives every sequence of writes.
TrailerUntouched ==
  /\ file[Fork] = Koly
  /\ io.n <= io.len /\ io.end <= Fork

\* The checksum is wrong only while a written device is open or on its way through
\* Close, or because such a device crashed or failed to close, or because two
\* devices were written to at the same time: no sequence of opens, partial writes
\* and closes, and no device that only reads, loses track of it.
ChecksumCovered == Readable \/ dirty # {} \/ faulted \/ mixed

\* A Close that returns nil after a write leaves a readable image, also when an
\* earlier device crashed or failed before it refreshed the checksum, or two were
\* written to at once, if this device was alone when its refresh read the fork and
\* nobody has written since.
NilCloseHeals ==
  \A d \in Devs :
    pc[d] = "done" /\ d \in dirty /\ told[d] = "nil" /\ job[d] = "app" /\ ~mixed
      => Readable

\* Each of the returns of openDMGBlockDevice that hands out no device, and each of
\* Close, has given the file handle back: only a device that is being opened, in
\* use or on its way through Close holds one.
HandlesReturned == \A d \in fds : pc[d] \in {"check", "open", "sync", "fclose"}
=============================================================================
