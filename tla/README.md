# A TLA+ verification project for diskimage

`diskimage` is a Go library, and a command line on top of it, that creates,
partitions, formats, converts, resizes, labels and edits disk images (raw, DMG/UDIF,
qcow2) without mounting them. It takes no locks, keeps no state of its own between
calls, and does its work by opening image files, temporary copies of them and
filesystem drivers from other modules. What can go wrong is therefore what happens
*between* its steps: another caller doing the same, a step that fails, a process that
dies, a size at a boundary.

The modules in this directory model those steps, TLC checks them on small
instances, and TLAPS proves the safety properties for any number of callers, any tree, any
size and any label.

## The system

| Component | Source | State it keeps | Operations | Hard because | Module |
|---|---|---|---|---|---|
| File operations | `fileops.go` | image, unpacked temporary copies | `ReadFile`, `WriteFile`, `MkDir`, `DeleteFile`, `DeleteDir`, `Rename`, `Stat` over `openFS`, `ensureParentDirs`, `dmgwrapper.Close` | sessions overlap without a lock; `Close` repacks and its error is dropped; crashes inside the repack | `FsTree`, `FileSession`, `SnapshotStore` |
| Detection | `detect.go` | a temporary copy for UDIF | `DetectFilesystem` and the table parsers and probes | half-written tables, ambiguous boot sectors, the uberblock ring | `PartitionTable`, `FileSession` |
| Partition tables and layout | `partitions.go`, `createRaw` in `create.go` | the sectors of the image | `writeMBR`, `writeGPT`, the splice of the filesystem | two independent computations of the same boundary, `uint32` sector counts, five writes | `PartitionTable` |
| DMG block device | `dmg_block_device.go`, `OpenBlockDevice` | the data fork, the trailer's checksum, `dirty` | open, `ReadAt`, `WriteAt`, `Close` | the checksum is wrong between the first write and the end of `Close`; several devices; overflow | `DmgBlockDevice` |
| Ext4 labels | `label.go` | none | `SetExt4Label`, `Ext4Label` | they drop the error of the device's `Close` | `DmgBlockDevice` |
| Creation, conversion, resizing | `create.go`, `dmg_ops.go`, `grow.go` | the image file, two side files, a scratch file | `Create`, `ConvertImageFormat`, `ResizeImage`, `Grow` | failure or death between any two steps; what a call may do depends on the shape earlier calls left; another process on the same path | `ImageLifecycle`, `SharedImage` |
| Part print | `exec_cmd_part.go` | none | `PartPrintFromImage` | a second parser of the same tables | `PartitionTable` |
| Listing, df, du | `list.go`, `exec_cmd_ls.go`, `exec_cmd_df.go`, `exec_cmd_du.go` | a set of visited paths | `List` and two recursive walks | each `List` reopens the image, which can change under the walk | `ExecCommands` |
| LUKS and APFS devices | `luks_device.go`, `apfs_device.go` | two layers of devices | `OpenLUKSBlockDevice`, `OpenAPFSBlockDevice` | who closes the lower layer when unlocking fails | not modelled |
| Exec commands | `cmd/diskimage/exec` | none | a type check, one driver call and a dropped `Close` error per command; `zfs create` a loop | partial progress; commands of several processes in each other's way | `ExecCommands` |
| ZFS labels | `exec_cmd_zfs.go` | none | `parseLabelNVList`, `parseNVPair`, the pool's name, dataset to path | lengths taken from a label that may be cut off or damaged; two rules for one path | `ZfsLabel` |
| Create, grow commands | `cmd/diskimage/{create,grow}`, `xfs grow`, `zfs grow` | none | `parseSize`, the call, `humanSize` | map order of the suffixes, overflow of sizes | `SizeArguments` |
| Raw and qcow2 devices | `luks_device.go` | the open file | `OpenBlockDevice`, `WriteAt`, `Close` | the device is chosen by what the path held a moment ago | `SharedImage` (raw) |
| UEFI stores, benchmarks | `uefi.go`, `exec_cmd_uefi.go`, `benchmarks` | none of their own | one external call each | | not modelled |

The components meet in the image file. The file operations and the exec commands
read it through `openFS` and `List`; `Create` makes it, using the layout that
detection later reads back; conversion and resizing replace or cut it; block devices
write into it and repair the checksum that `UnpackToTemp` verifies.

Everything outside the repository is external and modelled from the way this code uses
it: the filesystem drivers (`FsTree`: which calls succeed and what they do), the dmg
codec (`UnpackToTemp`, `PackFromTemp`, `RefreshChecksums`, `ConvertUDIF`, `WrapRaw`,
`ResizeUDRW`) and the operating system.

## The modules

### FsTree, FileSession, SnapshotStore

`FsTree` is a filesystem's contents as a function from paths to "absent", "directory"
or data, with the driver calls on it. `FileSession` has one process per caller. Its
`pc` names the place in the code; the actions follow `openFS` (`DetectFilesystem`,
`DetectDone`, `OpenImage`, `OpenDriver` and their failures), the operation itself
(`OpSucceeds`, `OpFails`), the loop of `ensureParentDirs` (`EnsureParentDirs`,
`MkDirComponent`, `RestatComponent`) and the deferred `Close` (`CloseDriver`, `Pack`,
`PackFails`, `RemoveTemp`). On a raw image all callers work on `image`; on a UDIF image
each works on `files[tmp[p]]`, and `Pack` copies that back whatever the operation was.
`RemoveCopy` is `os.Remove`, whose error both callers of it ignore. `Crash` kills a caller
anywhere; inside the repack it may tear the image. Four history
variables carry what the properties speak about: `stale` (callers whose unpacked copy
is outdated), `base` (what they unpacked), `owed` (the last write to each path that
reached the image and that nobody was entitled to undo) and `leaked`.

`SnapshotStore` is the abstract specification: a transaction takes a snapshot of the
store, and commits its snapshot plus the effect of its own request, last commit wins; a
raw image changes by single driver calls. `FileSession` implements it with
`store <- image` and the callers' requests as the open transactions.

### DmgBlockDevice

The file is the data fork followed by the trailer; `crc` is the fork contents the
trailer's checksum was computed over. Actions: `Open` and `CheckTrailer`
(`openDMGBlockDevice`, with a disjunct for each of its returns and what that return does
about the open file), `ReadAt`, `WriteAt` (short writes
included, `off + len` as an int64 that wraps), and `Close` as `SyncFile`, `CloseFile`,
`RefreshRead`, `RefreshWrite`, because `RefreshChecksums` reads the fork and writes the
trailer in two steps that other devices can come between. A caller is an application or
one of the label operations; the latter drop the error of `Close`. Devices are written
to at the same time; the history variable `mixed` says that this has happened since a
device that was alone last read the fork, `faulted` that a written device crashed or
failed to close. A checksum that does not match has one of these causes, or a written
device that is still open.

### ImageLifecycle

One caller, any sequence of `Create`, `ConvertImageFormat`, `ResizeImage` and `Grow`.
`img` is a record of what later calls can tell apart. `Create` takes the steps
`OpenFile` (`O_TRUNC`), `Truncate`, `WriteTable`, `Format`, `Splice` (or `FormatEncrypted`),
`WrapRaw`; a conversion is `ConvertUDIF` into a side file, first partly then fully there, and
`Rename`. Every step can fail with its own cleanup, that cleanup can fail too, since the code
ignores the error of `os.Remove`, and `Crash` comes between any two. The history variables
`debris` and `unremoved` name the files that a crash or a failed removal left.

### PartitionTable

The image as an array of sectors, each tagged with its region and its index in it. The
actions are the writes of `createRaw` in order; any of them can stop after any sector.
The readers (`DetectFilesystem`, `PartPrintFromImage` and their parsers) are operators
on the sectors, so the invariants hold for a reader at every moment of a creation. The
numbers of the code are constants.

### ExecCommands

Each process runs one command line after another. `execDispatch` and the `handle...` sets
say which subcommands a handler knows; `Start` and `Refuse` begin or reject a command,
`Detect` and `Open` are the type check and the driver's `Open`, `Apply` the one driver
call of the `...OnImage` functions. `zfs create` is the loop `CreateStat`, `CreateMkDir`,
`CreateDone`. The walks of du, df, `zfs list` and `zfs get quota` share `List`, `Entry` and
`WalkDone`, with a stack of unfinished listings for the recursion; they differ in when a
size is read, in how a directory is told from a file, in whether visited paths are remembered
(`Revisited`, `Visit`: du and df only), and in `WalkFails`. One `List` is one step, in which any
of the `Stat`s may fail; what another process does between a listing and its own `Stat`s is
left out. The subcommands
are grouped by what another command can see of them: `set` is every one that writes only
attributes or free space, `relabel` the label setters, `compact` is `ntfs compact`, `show`
every one that only prints. `lo` and `hi` are
history: the range of each file's size during a walk.

### SharedImage

The composition: `ConvertImageFormat`, `Create`, `ResizeImage`, a session of `openFS`, an
exec command and a block device, each by a process of its own, on one path and with no
lock. Files have an identity (`image` and `side` are the inodes at the path and at the
side file's name, `file` says what each inode holds), so that a rename under an open
file, an in-place truncation and a `RefreshChecksums` by path come out as they do on
the host. What a call found out earlier (`typ`, `udif`, the open inode, the unpacked
copy) is in `loc`, and may no longer be true when it is used. Failures inside each call
are in the modules above; here only conversions fail or die, since what they leave
behind concerns the others. Calls of the external libraries are single steps, but for
`ConvertUDIF` (read and empty the target, then fill it), `ResizeUDRW` (read, then put back) and
`RefreshChecksums` (read, then store), whose two ends touch different files. A driver has the
image open from one step to the next. If the file was written in between, what the driver
writes and what the other wrote may damage each other (`Damaged`: any of the writes lost, or the
filesystem torn), which is what `README.md:110` of the repository warns of ("use it offline");
the same befalls a conversion that copies a raw file while it changes. A resize to a smaller
size (`cut`) loses any of what was written. Taken from how the code uses the dmg
library: `ConvertUDIF` creates or empties its target, `PackFromTemp` and `WrapRaw` rewrite
the file at the path, readers of UDIF files verify the checksum. `Create` is here
without a UDIF format, that is without the conversion at its end.

`met` is history: the pairs of kinds of call that were under way together, whether a
conversion went between raw and UDIF, whether an exec command opened a UDIF file as it
is (`{"exec", "udif"}`), whether a resize cut the image (`{"cut"}`), and whether a driver or a
conversion went on with what it had read of a raw file that changed meanwhile (`{"mixed"}`).
The properties say for which of these the image stays good; for all the others
TLC finds a schedule that ruins it or loses a confirmed write. `unremoved` is the side files
that `os.Remove` failed on.

### SizeArguments

One command line at a time: a number, a word behind it, and the order in which Go's map
hands out the suffixes. `Swap` and `NextKey` are the insertion sort of `parseSize`, `Match`
and `PlainNumber` its search, with the product as an int64 that wraps; then the command
(`runCreate`, `growCommand`, `runQCOW2Create`, `runEfi`, `GrowFromImage`) calls the library
and prints the size. A library call may fail after it has begun: `Breaks` says what it may
leave then (`Create` an empty file, none, or one at its new size; `Grow` the old one). The three copies of `parseSize` are one here: they differ only in
which string the last `ParseInt` gets. The two `humanSize` functions are both there,
as a count and a unit.

### ZfsLabel

A process runs one zpool or zfs command after another. `ReadLabel` gets any part of the
label; `PairHeader`, `PairName`, `PairType`, `PairString`, `PairUint64` and `PairOther` are
the tests and reads of `parseLabelNVList` and `parseNVPair` with the code's own byte
offsets; `PoolName` is the lookup with its fallback to the file's name, and the last
actions are the commands with their two rules for the path of a dataset (`startPath`,
`dsPath`). Labels are lists of pairs; a field has the value its pair gives it, or any
value if the label is damaged or the parser is at the wrong place. That is exact only if
no byte is read twice, which is part of `ReadsInOrder`. Where the pairs begin is a constant of
the format (`ListStart`), not the parser's own `Header`. `int` is taken to have 64 bits. Names of
datasets have no empty segments (`tank//a`).

## The runs

| Run | Instance | What it shows |
|---|---|---|
| `sessions` | 2 callers, 2 temporary names, `/A` and `/A/C`, one data value, six operations (`Stat` is in the next run), all faults | `OwedWritesSurvive`: a write that reached the image is only undone by an operation on its path or by a session that unpacked before it. `TempsAccounted`: only the known paths leak. `ImplementsSnapshotStore`: refinement. |
| `sessions_return` | 2 callers, one temporary name, `/A/B/C`, pack failures | `OperationsReturn` under fairness; `WriteFailsOnlyOnConflict`: concurrent `ensureParentDirs` do not fail each other. |
| `dmg_devices` | 2 devices, fork of 2 units, buffers up to 2, int64 up to 5, all faults | The trailer is never touched, a wrong checksum always has a reason, a clean `Close` repairs it, none of the returns of opening and closing keeps a handle. |
| `image_lifecycle` | 2 sizes (one too small for a table), 3 filesystems, all options, all faults | `CreatedMeansComplete`: a `Create` that returns nil made what it was asked for, but for two options of an encrypted image. `NothingLeftBehind`: side and scratch files stay only where a process died or `os.Remove` failed. `ConversionAtomic`; `OnlyTruncationDestroys`. |
| `partition_layout` | sizes 1..60 bytes with 2-byte sectors, start 6, alignment 4, 2 entry sectors, "2^32" = 20 | Regions never collide, the partition covers its filesystem, detection round trip, readers of half-written tables, two parsers agree. |
| `exec_commands` | 2 processes, one of which may walk; `/`, `/a`, `/a/b`, `/a/f`, `/g`; an XFS, an NTFS and a ZFS image; failing `Stat` and driver calls | `UsageWithinRun`: a figure of du, df or zfs lies between the sums of the smallest and the largest sizes during the walk. `CreatedStays`: a confirmed dataset exists, below directories. |
| `shared_image` | 3 processes with one call each, 4 inodes, raw, plain and compressed containers, 2 filesystems | `CompatibleCallsLeaveItIntact`: conversion with writers, devices and resizing as long as it stays within UDIF, resizing with sessions and exec commands, and these with each other leave an image that opens, unless a resize cut it or a raw image was written while another had it open. `ConfirmedWritesKept`: who may overlap without losing a confirmed write, with the same exceptions. `SideFileGone` and `PublishedWhole`: conversions leave a side file only where one died or `os.Remove` failed, and publish no half-written one unless two shared it. |
| `size_arguments` | 5 suffixes in all 120 orders, 8 words, 13 numbers, 8-bit integers, Kilo = 4 | `ParsesAsAsked`: the value of every well-formed argument that fits. `SizesStayPositive`: no wrapped product below one and no malformed argument makes `create` or `grow` touch an image. `ReportTellsSize`: what is printed reads back, or is within a twentieth. |
| `zfs_label` | 4 labels, read lengths around every boundary in them, any of 7 values in a damaged length, 4 datasets, 2 file names | `ReadsInOrder`: no read outside what was read, none twice. `PoolNameFound`: the name is found in whatever part of an intact label it is in. `ConfirmedIsFound`: create and set quota agree on a confirmed dataset. `LookupReturns` under fairness. |
| `write_acknowledged` | violation | `WriteFile` returns nil although the repack failed. |
| `mbr_two_tib` | violation | The MBR's sector count wraps above 2 TiB. |
| `encrypted_create` | violation | `Create` with a passphrase ignores `Partition` and `DmgUDIFFormat` and returns nil. |

The violations are the findings of `PROJECT.json`, each with the line of the repository
it contradicts. Further differences were met that no run of their own covers:

* Two DMG devices written at once: one refreshes the checksum of the fork it read before
  the other's last write, and after two clean closes the image fails its checksum test,
  against `README.md:130-134`. `ChecksumCovered` and `NilCloseHeals` name this case (`mixed`).
* `SetExt4Label` (`label.go:32`) drops the error of `Close` and returns nil although the
  checksum was not refreshed; the label operations are therefore left out of
  `NilCloseHeals`.
* `--part -1` of the copy command, its default and documented as automatic (`copy.go:80`), is
  passed on as it is: `detectGPTOffset` finds no such partition, and an MBR falls through to
  offset 0 (`detect.go:193`).
* Two processes that write to a raw image with their own drivers can tear its filesystem, and a
  conversion from raw can publish a mixture (`{"mixed"}` in `SharedImage`); the library has no
  lock, and warns only of `SetExt4Label` (`README.md:110`).
* `Grow` cuts an image to any smaller size without a question, confirmed writes included.
* An exec command that sets a label on an uncompressed DMG writes to the fork and leaves
  the checksum as it was (`{"exec", "udif"}` in `SharedImage`).
* Two conversions of one image at once can publish a half-written file, and a conversion
  between raw and UDIF can make a writer or a resize that asked `IsUDIF` before it ruin the
  image; both are outside `CompatibleCallsLeaveItIntact`.
* `parseSize` lets a product wrap; one that wraps to a positive size is accepted, and
  `grow` then shrinks the image.
* `zfs create tank` in the pool `tank` makes `/tank`, whereas `zfs get` and `zfs set` take
  `tank` for the root; `ConfirmedIsFound` holds because the root is always there.
* `ReadAt` of the DMG device returns a short count with a nil error at the end of the fork,
  against the contract of `io.ReaderAt`.
* With `DmgUDIFFormat` empty, `Create` wraps a non-APFS image although `create.go:93-94` calls
  "UDRW", the raw image, the default.
* `df -h` prints the used size under "Size" and the free size under "Used", and wraps when
  the files add up to more than the image.
* `zfs create` confirms a dataset whose path is a regular file (hence the wording of
  `CreatedStays`).

### Bounds

Two callers are enough for every race of the file operations: a lost update, a shared
directory and a shared temporary name each need two parties, and the theorems remove
the bound. Two path levels let `DeleteDir`, `Rename` and the parent loop interfere with a
write; `/A/B/C` makes the loop run twice. One data value suffices because the
properties compare with "absent" and with what is owed. For the device a fork of two
units has a first, a last and a crossing write, and offsets near `MaxInt` wrap. The
sizes of `partition_layout` cover every remainder modulo sector and alignment, the first
size that fits, and both sides of the `uint32` limit. `image_lifecycle` has no bound on
the number of calls. In `exec_commands` only one process walks (`Walkers`): walks write
nothing, so two of them cannot meet. `/a` with `/g` beside it is enough for a change between
the listing of the root and that of `/a`, and `/a/b` for two rounds of the loop of
`zfs create`.

In `shared_image` three processes let two calls overlap while a third comes before, between
or after them; each conversion uses at most one new inode, so one more than there are
processes is enough. In `size_arguments` the five suffixes have every length and every
containment of the real ones ("b" in "kb" and "kib", equal lengths beside each other), and
the numbers lie on both sides of each wrap to negative, to zero and to positive. In `zfs_label`
the labels put the name first, last, empty, twice and behind a nested list, with keys that need
padding and keys that do not; each of the read lengths ends inside or at the end of a field.

### Fairness

`FairSpec` of `FileSession` and `Spec` of `ZfsLabel` assume weak fairness of
the steps of an operation or command that has started: it is straight-line Go code, and
loops over finite data, whose external calls return. Callers are not assumed to call again,
and no particular step of several possible ones is assumed to succeed. `ExecCommands` assumes no
fairness: that its walks end would only say that the model's tree is finite, since the zfs
walks of the code rely on the driver never listing a directory below itself.

### Mutants

Next to a definition stand variants of it with a plausible bug, marked "Mutant". Each
property of a passing run is violated when its mutant replaces the definition, which
shows that the property depends on that piece of code.

## The proofs

Each component has a module of proofs beside it (`..._proofs`). They establish, for every
value of the constants that the components' assumptions admit, every safety property that
a passing run checks: all state invariants, the action properties, and the refinement. The
theorem named `...Invariant` in each is the inductive invariant; the others follow from it.

| Module | Theorem | Property |
|---|---|---|
| `FileSession_proofs` | `TypeCorrect`, `WritesSurvive`, `NoUnknownTemps`, `WriteConflicts`, `Refinement` | `TypeOK`, `OwedWritesSurvive`, `TempsAccounted`, `WriteFailsOnlyOnConflict`, `ImplementsSnapshotStore` |
| `DmgBlockDevice_proofs` | `TypeCorrect`, `TrailerSafe`, `ChecksumAccounted`, `CleanCloseHeals`, `NoHandleLeaks` | `TypeOK`, `TrailerUntouched`, `ChecksumCovered`, `NilCloseHeals`, `HandlesReturned` |
| `SharedImage_proofs` | `TypeCorrect`, `NoSideFileLeft`, `PublishesWhole`, `WritesKept`, `CompatibleCalls` | `TypeOK`, `SideFileGone`, `PublishedWhole`, `ConfirmedWritesKept`, `CompatibleCallsLeaveItIntact` |
| `ImageLifecycle_proofs` | `TypeCorrect`, `CreateComplete`, `LeavesNothing`, `ConvertsAtomically`, `OnlyTruncating` | `TypeOK`, `CreatedMeansComplete`, `NothingLeftBehind`, `ConversionAtomic`, `OnlyTruncationDestroys` |
| `PartitionTable_proofs` | `TypeCorrect`, `Intact`, `Covers`, `Tabled`, `Detected`, `PrintAgrees` | `TypeOK`, `RegionsIntact`, `PartitionCoversFilesystem`, `DetectedMeansTabled`, `CreateThenDetect`, `PartPrintAgrees` |
| `SizeArguments_proofs` | `TypeCorrect`, `ParsesRight`, `StaysPositive`, `ReportTells` | `TypeOK`, `ParsesAsAsked`, `SizesStayPositive`, `ReportTellsSize` |
| `ExecCommands_proofs` | `TypeCorrect`, `StaysCreated`, `UsageTold` | `TypeOK`, `CreatedStays`, `UsageWithinRun` |
| `ZfsLabel_proofs` | `TypeCorrect`, `InOrder`, `ConfirmedFound`, `NameFound` | `TypeOK`, `ReadsInOrder`, `ConfirmedIsFound`, `PoolNameFound` |

**The file operations.** `OwedWritesSurvive` is not inductive: whether `Pack` keeps a write
depends on the copy it puts back. `Copies` says that a copy that is not outdated holds
every owed write except those the session's own operation replaced, and its own write once
the answer is nil. To keep `Copies` one needs to know that nobody else writes to the copy
(`Holdings`: every temporary file has one owner, or is leaked, or does not exist) and which
stages of a session have a copy at all (`Stages`). The refinement adds what an unpacked
copy is made of (`Copied`: the snapshot, the parents made so far and, after the driver
call, the effect of the request) and that the directories still to be visited are the rest
of the path's ancestors (`Walks`), so that the commit of `Pack` is the store's. For
`WriteConflicts` the components that `ensureParentDirs` has passed exist, and a `MkDir`
that failed did so for a reason that lasts (`Ensured`).

**The DMG device.** A checksum that does not match is harmless while a written device is
open, so the invariant has to say what a device that was alone has read for its refresh
(`SeenIsFork`), that there is one such device at most unless writes have mixed (`Lone`), and
that a written device that is done has put the trailer right, or one of the recorded causes
has come up (`DoneCovered`). `TrailerSafe` is arithmetic: a sum that wraps to a
negative number passes the code's test, and the offset then lies beyond what the operating
system takes.

**One image, many calls.** The proofs follow what a process found out before it acts.
`BaseInv` says where each process is and which inodes it has; it needs more inodes than
processes, since each conversion may hold one. `Solo` holds while no two conversions
overlap: the file being filled is the side file and nobody else has it open. `Kept` and
`Sound` hold while the overlapping calls are of the permitted kinds (`Considerate`,
`Safe`): what a process found out (`typ`, `udif`, the open inode, the unpacked copy) still
fits the image. What a cut or a mixture may have done is any of the `Damaged` files, and the
statements do not cover it. Since `met` only grows, `Kept` and `Sound` are stated as "unless `met`
already has a combination that is not permitted", and the step cases are those of the permitted
pairs.

**The life of an image.** What `Create` has made so far is told by its stage (`Progress`,
`SideFull`), and a side or scratch file that exists belongs to the stage that will remove it
or is on record as left by a process that was killed or by a failed `os.Remove` (`Tidy`). The two action properties
follow from it step by step.

**Partition tables.** `LayoutInv` says that the regions to be written lie side by side
within the image, that those before the one at hand are there in full, and that every
sector that is not empty comes from a region that was begun (`Explained`): what a reader
finds can therefore be traced to the write it came from, at every moment. That the byte
arithmetic of `createRaw` and the sector arithmetic of `writeGPT` give the same boundary is
a chain of lemmas on division and rounding; `Covers` needs the size to fit 32 bits of
sectors, which is what the run `mbr_two_tib` violates beyond.

**Size arguments.** `SortInv` is the insertion sort: the keys up to `i` are in order but for
the one that is on its way to the front. It gives the search the longer suffix first, so
that the first match is the longest, which is the only one that can be meant.

**The exec commands.** `StaysCreated` needs that nothing is removed and that `zfs create` has
made the segments it has gone past (`GonePast`). `UsageTold` is the hardest: no path is
ahead of a walk twice, in the frames of unfinished listings or below the directory about to
be listed, and no visited directory is ahead again (`Apart`); the sum so far lies between
the sums of the smallest and of the largest sizes of a set `C` of paths (`Tally`), and
whatever is neither in `C` nor ahead had no bytes at some moment, unless a listing failed.
At the end nothing is ahead.

**ZFS labels.** `Frontier` and `Fine` keep the parser behind what it has read and within the
pair, for labels damaged in any way. For an intact one `Track` says that the parser is at
the field it takes itself to be at, which is where the padding is used, and `OnWay` that it
is at the end of the pairs before (`Ends`, a recursive function) with the name they tell.

Recursive functions (`Ends`, and the sums over sets of paths) have no induction principle
that the provers can instantiate. The proofs go by a least counterexample instead: `LeastOf`
derives from the well-foundedness of `<` that a non-empty set of naturals has a least
element, and the existence of the function, its value at each point and its monotonicity
are proved from that (`EndsExist`, `EndsAre`, `EndsGrow`; `SummingExists`).

### Assumptions

TLC evaluates all of them in the runs of the same component.

* `TreeAssumption`, `SessionAssumption`: the markers ("absent", "torn", "no file") are
  different from data and trees; no path is its own ancestor, and the ancestors of an
  ancestor are the ones before it.
* `DeviceAssumption`: a file's offset and a buffer's length add up to an int64 (`OsMax +
  MaxLen <= MaxInt`); the trailer's mark is not a value of the fork.
* `SharedAssumption`: finitely many processes, and more inodes than processes.
* `LifecycleAssumption`: sizes are positive, `NoFile` is neither an image nor a call.
* `LayoutAssumption`: sector, alignment and ring sizes are positive, the first partition
  begins behind the table and below 2^32, the filesystem's alignment is a multiple of the
  sector.
* `SizeAssumption`: of two different suffixes at the end of a word one is longer; the
  multipliers are powers of `Kilo`; each unit has a suffix that the report can name.
* `ExecAssumption`: finitely many paths and inodes, at least as many inodes as paths; the
  lineage of a path is made of the lineages of its parts; 0 (an empty file) and 1 are sizes; the
  trees that commands start from have a directory above every entry.
* `LabelAssumption`: lengths and words are numbers; a pair that says it is an uint64 has an
  element of eight bytes, as zfs writes it.

### Only model-checked

The two liveness properties, `OperationsReturn` and `LookupReturns`: they rest on fairness, which is out of the prover's reach. The three findings are violations of
what the documentation says and have no theorem.

## What is not modelled

* The insides of the drivers, the dmg, qcow2, fde and uefi libraries.
* In `FileSession` the image keeps its shape; `SharedImage` has the conversions, with one
  write per process and without the failures of sessions and devices. qcow2 images do not
  appear there: nothing in the repository converts, creates over or repacks one.
* The conversion at the end of `Create` (its own side file, `.converting`) among concurrent
  callers; `ImageLifecycle` has it for one.
* In `SharedImage` and `ExecCommands` what one process does inside one library call is not cut
  into its reads and writes: a driver's writes, a repack and a refresh's store are one step
  each. In `SharedImage` a driver's opening and its writes are two, so that others come between.
* The LUKS and APFS devices: each is an external device over an external device.
* CRCs, GUIDs, partition names and type bytes of the tables: no reader here looks at them.
* Permissions, labels, times and extended attributes, formatting of output, logging.
* Of the command line: `ls`, `cat`, the uefi commands, the declaration of flags, and the
  parsing of modes and numbers other than sizes. In `ExecCommands` one driver call is one step, `copy` writes into directories that
  exist and over a file in place, and nothing removes or reformats.

## Plan

1. Done: the file operations with their abstract store and proofs, the DMG device, the
   life cycle of an image, partition tables and detection, the exec commands, all of them
   on one path at once, the size arguments, the ZFS label.
2. Done: every safety property of the passing runs proved, and the refinement of the store.
3. Next, proofs: the arguments for termination step by step (a measure that every step of
   `FileSession`, `ZfsLabel` and `SizeArguments` lowers, beside the liveness that TLC
   checks), and shorter invariants where a conjunct follows from the others.
