---------------------------- MODULE ExecCommands ----------------------------
(***************************************************************************)
(* The commands of "diskimage exec" (and "diskimage copy --to-image") run   *)
(* by several processes against one raw image.  Each command is a host      *)
(* process of its own: it checks its arguments, detects the filesystem,     *)
(* opens it with a driver, works, closes the driver (the error of Close is  *)
(* dropped) and prints.  Nothing locks the image between two driver calls,  *)
(* and du and df re-open it for every directory they list.  That a command   *)
(* ends is not claimed: the walks of a finite tree do.                      *)
(*                                                                          *)
(* What is kept of the image is what the commands read of one another: which *)
(* path is a directory or a file, hard links (two paths with one inode) and  *)
(* the size of a file.  Modes, owners, times, labels and attributes are not  *)
(* kept: of a command that sets one, only whether it may write is modelled.  *)
(* A driver call is one step.  No command removes an entry or reformats.     *)
(***************************************************************************)
EXTENDS Naturals, Sequences, FiniteSets, SequencesExt, FiniteSetsExt

CONSTANTS
  Procs,      \* the processes running a command
  Walkers,    \* bound: those that may run a walk (a walk writes nothing)
  Paths,      \* the paths inside the filesystem, the root included
  Root,       \* "/"
  Lineage,    \* Lineage[q]: the directories from below the root to q, then q
  Inodes,     \* regular files and symbolic links
  Absent, Dir,
  Sizes,      \* sizes a file may have
  Families,   \* filesystem types the image may have
  Commands,   \* the command lines that may be given
  NoCommand,
  InitTrees,  \* InitTrees[t]: what a filesystem of type t may hold at first
  Faults      \* subset of {"io", "stat"}: what may fail in the drivers

(***************************************************************************)
(* A command line after strings.Fields, the switch of execDispatch and that  *)
(* of the handler: "set" stands for the subcommands that write something du  *)
(* cannot see (chmod, chown, chtimes, setxattr, removexattr, grow), "show"    *)
(* for those that only print (extended-stat, label get, zpool status, zfs set *)
(* quota), "zfs used" for zfs list and zfs get quota.                         *)
(* The family is the first word, or "any" for the commands that detect the    *)
(* filesystem in the library.                                                *)
(***************************************************************************)
WalkVerbs == {"du", "df", "zfs used"}

\* The subcommands that each handler knows.
handleNtfs  == {"relabel", "show", "compact"}
handleBtrfs == {"set", "relabel", "show", "link", "symlink", "truncate"}
handleXfs   == {"set", "relabel", "show", "link", "symlink", "truncate"}
handleZfs   == {"zfs used", "zfs create", "show"}
handleLabel == {"relabel", "show"}

execDispatch(family) ==
  CASE family = "btrfs" -> handleBtrfs
    [] family = "xfs"   -> handleXfs
    [] family = "zfs"   -> handleZfs
    [] family = "ntfs"  -> handleNtfs
    [] family = "any"   -> {"du", "df", "copy"}
    [] OTHER            -> handleLabel

Verbs == UNION {execDispatch(t) : t \in {"xfs", "btrfs", "zfs", "ntfs", "any"}}

CommandRecords ==
  [verb : Verbs, family : Families \cup {"any"}, path : Paths,
   to : Paths, size : Sizes]

ASSUME ExecAssumption ==
  /\ Walkers \subseteq Procs
  /\ Root \in Paths
  /\ Lineage \in [Paths -> Seq(Paths \ {Root})]
  /\ Lineage[Root] = <<>>
  /\ \A q \in Paths \ {Root} :
       /\ Lineage[q] # <<>> /\ Lineage[q][Len(Lineage[q])] = q
       /\ \A k \in 1..Len(Lineage[q]) : Lineage[Lineage[q][k]] = SubSeq(Lineage[q], 1, k)
  /\ IsFiniteSet(Paths) /\ IsFiniteSet(Inodes)
  /\ Sizes \subseteq Nat
  /\ {0, 1} \subseteq Sizes
  /\ Absent \notin Inodes
  /\ Dir \notin Inodes
  /\ Absent # Dir
  /\ Cardinality(Inodes) >= Cardinality(Paths)
  /\ Commands \subseteq CommandRecords
  /\ NoCommand \notin Commands
  /\ \A t \in Families : \A tr \in InitTrees[t] :
       /\ tr \in [Paths -> Inodes \cup {Absent, Dir}]
       /\ tr[Root] = Dir
       /\ \A q \in Paths : tr[q] # Absent =>
            \A k \in 1..(Len(Lineage[q]) - 1) : tr[Lineage[q][k]] = Dir
  /\ Faults \subseteq {"io", "stat"}

VARIABLES
  fsType,   \* what DetectFilesystem finds
  tree,     \* what is at each path
  size,     \* the size of each inode
  pc, cmd,  \* where each process is, and in which command
  walk,     \* the locals of its tree walk, or of its loop over segments
  rep,      \* what it printed
  created,  \* the datasets "zfs create" has confirmed
  lo, hi    \* the smallest and largest size of each path during a walk

vars == <<fsType, tree, size, pc, cmd, walk, rep, created, lo, hi>>

-----------------------------------------------------------------------------
(* The filesystem, as the drivers present it. *)

ParentOf(q) == IF Len(Lineage[q]) = 1 THEN Root ELSE Lineage[q][Len(Lineage[q]) - 1]

\* q is start or lies under it.
Under(start, q) ==
  start = Root \/ \E i \in 1..Len(Lineage[q]) : Lineage[q][i] = start

SizeAt(q) == IF tree[q] \in Inodes THEN size[tree[q]] ELSE 0

Children(d) == {q \in Paths \ {Root} : ParentOf(q) = d /\ tree[q] # Absent}

\* A new entry can be made at q.
Vacant(q) == q # Root /\ tree[q] = Absent /\ tree[ParentOf(q)] = Dir

FreeInodes == {i \in Inodes : \A q \in Paths : tree[q] # i}

-----------------------------------------------------------------------------
(* Processes. *)

NoWalk == [dir |-> Absent, stack |-> <<>>, visited |-> {}, sum |-> 0,
           blind |-> FALSE, failed |-> FALSE, seg |-> 1]
NoReport == [verdict |-> "none", used |-> 0]
Zeros == [q \in Paths |-> 0]

Init ==
  /\ fsType \in Families
  /\ tree \in InitTrees[fsType]
  /\ size = [i \in Inodes |-> IF \E q \in Paths : tree[q] = i THEN 1 ELSE 0]
  /\ pc = [p \in Procs |-> "idle"]
  /\ cmd = [p \in Procs |-> NoCommand]
  /\ walk = [p \in Procs |-> NoWalk]
  /\ rep = [p \in Procs |-> NoReport]
  /\ created = {}
  /\ lo = [p \in Procs |-> Zeros]
  /\ hi = [p \in Procs |-> Zeros]

GoTo(p, l) == pc' = [pc EXCEPT ![p] = l]

\* The command prints and its process is about to end.
Return(p, verdict, used) ==
  /\ GoTo(p, "done")
  /\ rep' = [rep EXCEPT ![p] = [verdict |-> verdict, used |-> used]]

\* The handler returns an error.
Fail(p) ==
  /\ Return(p, "error", 0)
  /\ UNCHANGED <<tree, size, cmd, walk, created>>

Broken(fault) == fault \in Faults

\* execRunE and execDispatch: the handler of the verb begins.  The commands
\* of one filesystem go through a type check; du, df and copy detect inside
\* the library.
Start(p, c) ==
  /\ pc[p] = "idle"
  /\ c.verb \in execDispatch(c.family)
  /\ cmd' = [cmd EXCEPT ![p] = c]
  /\ GoTo(p, IF c.family # "any" THEN "detect"
             ELSE IF c.verb \in WalkVerbs THEN "list" ELSE "apply")
  /\ walk' = [walk EXCEPT ![p] = [NoWalk EXCEPT !.dir = c.path]]
  /\ UNCHANGED <<tree, size, rep, created>>

\* No --file, too few words, an unknown subcommand, a number that does not
\* parse: an error before the image is opened.
Refuse(p, c) ==
  /\ pc[p] = "idle"
  /\ cmd' = [cmd EXCEPT ![p] = c]
  /\ Return(p, "error", 0)
  /\ UNCHANGED <<tree, size, walk, created>>

\* The handler calls DetectFilesystem itself, before it calls the function that
\* opens the driver: the zfs and zpool commands, xfs grow, ntfs compact.
CheckedInHandler(c) == fsType = c.family

\* The function that opens the driver calls DetectFilesystem first: btrfsOpen,
\* xfsOpen, ext4OpenLabeller and its like.
CheckedInOpener(c) == fsType = c.family

Detected(c) ==
  IF c.family = "zfs" \/ c.verb = "compact" THEN CheckedInHandler(c) ELSE CheckedInOpener(c)

\* Another filesystem than the command's, or none, is an error.
Detect(p) ==
  /\ pc[p] = "detect"
  /\ \/ /\ Detected(cmd[p])
        /\ GoTo(p, "open")
        /\ UNCHANGED <<tree, size, cmd, walk, rep, created>>
     \/ /\ ~Detected(cmd[p]) \/ Broken("io")
        /\ Fail(p)

\* The driver's own Open.  Whether it would refuse another filesystem is not
\* relied upon.
Open(p) ==
  /\ pc[p] = "open"
  /\ \/ /\ GoTo(p, CASE cmd[p].verb = "zfs used"   -> "list"
                     [] cmd[p].verb = "zfs create" -> "stat"
                     [] OTHER                      -> "apply")
        /\ UNCHANGED <<tree, size, cmd, walk, rep, created>>
     \/ Broken("io") /\ Fail(p)

(***************************************************************************)
(* One call of a driver: when it is accepted, and the new tree and sizes.     *)
(***************************************************************************)
IsFile(q) == tree[q] \in Inodes

Truncate(c) ==
  /\ IsFile(c.path)
  /\ size' = [size EXCEPT ![tree[c.path]] = c.size]
  /\ UNCHANGED tree

\* A second path for the same inode.
Link(c) ==
  /\ IsFile(c.path)
  /\ Vacant(c.to)
  /\ tree' = [tree EXCEPT ![c.to] = tree[c.path]]
  /\ UNCHANGED size

NewFile(q, sz) ==
  /\ Vacant(q)
  /\ LET i == CHOOSE j \in FreeInodes : TRUE
     IN /\ tree' = [tree EXCEPT ![q] = i]
        /\ size' = [size EXCEPT ![i] = sz]

\* The target is not looked at.
Symlink(c) == NewFile(c.to, c.size)

\* Chmod and the like, on something that is there.
SetAttribute(c) == tree[c.path] # Absent /\ UNCHANGED <<tree, size>>

\* SetLabel of the drivers that can relabel; it has no path.
Relabel(c) == UNCHANGED <<tree, size>>

\* The statistics, Compact, the statistics again: files move on the disk, but keep
\* their names and sizes.
NtfsCompact(c) == UNCHANGED <<tree, size>>

ExtendedStat(c) == tree[c.path] # Absent /\ UNCHANGED <<tree, size>>

\* copy --to-image into a directory that exists (FileSession has the rest).
CopyToImage(c) == Truncate(c) \/ NewFile(c.path, c.size)

Effect(c) ==
  \/ c.verb = "truncate" /\ Truncate(c)
  \/ c.verb = "link" /\ Link(c)
  \/ c.verb = "symlink" /\ Symlink(c)
  \/ c.verb = "set" /\ SetAttribute(c)
  \/ c.verb = "relabel" /\ Relabel(c)
  \/ c.verb = "compact" /\ NtfsCompact(c)
  \/ c.verb = "show" /\ ExtendedStat(c)
  \/ c.verb = "copy" /\ CopyToImage(c)

\* The driver returns an error of its own accord.
Refused(c) ==
  \/ c.verb = "truncate" /\ ~IsFile(c.path)
  \/ c.verb = "link" /\ ~(IsFile(c.path) /\ Vacant(c.to))
  \/ c.verb = "symlink" /\ ~Vacant(c.to)
  \/ c.verb \in {"set", "show"} /\ tree[c.path] = Absent
  \/ c.verb = "copy" /\ ~IsFile(c.path) /\ ~Vacant(c.path)

\* The *OnImage functions: one driver call, a deferred Close whose error is
\* dropped, and a line that ends in "ok".
Apply(p) ==
  /\ pc[p] = "apply"
  /\ LET c == cmd[p]
     IN \/ /\ Effect(c)
           /\ Return(p, "ok", 0)
           /\ UNCHANGED <<cmd, walk, created>>
        \/ /\ Refused(c) \/ Broken("io")
           /\ Fail(p)

-----------------------------------------------------------------------------
(* zfs create: a loop over the segments of the dataset's path. *)

Segment(p) == Lineage[cmd[p].path][walk[p].seg]
LastSegment(c) == Len(Lineage[c.path])

\* fs.Stat(cur): an entry that is there is passed over, whatever it is.
CreateStat(p) ==
  /\ pc[p] = "stat"
  /\ walk[p].seg <= LastSegment(cmd[p])
  /\ \/ /\ tree[Segment(p)] # Absent
        /\ walk' = [walk EXCEPT ![p].seg = @ + 1]
        /\ UNCHANGED pc
     \/ /\ tree[Segment(p)] = Absent \/ Broken("stat")
        /\ GoTo(p, "mkdir")
        /\ UNCHANGED walk
  /\ UNCHANGED <<tree, size, cmd, rep, created>>

\* Mutant: the error of MkDir is taken for "it exists already".
CreateMkDir_IgnoresError(p) ==
  /\ pc[p] = "mkdir"
  /\ tree' = IF Vacant(Segment(p)) THEN [tree EXCEPT ![Segment(p)] = Dir] ELSE tree
  /\ walk' = [walk EXCEPT ![p].seg = @ + 1]
  /\ GoTo(p, "stat")
  /\ UNCHANGED <<size, cmd, rep, created>>

\* fs.MkDir(cur): on an error the segments made so far stay.
CreateMkDir(p) ==
  /\ pc[p] = "mkdir"
  /\ \/ /\ Vacant(Segment(p))
        /\ tree' = [tree EXCEPT ![Segment(p)] = Dir]
        /\ walk' = [walk EXCEPT ![p].seg = @ + 1]
        /\ GoTo(p, "stat")
        /\ UNCHANGED <<size, cmd, rep, created>>
     \/ /\ ~Vacant(Segment(p)) \/ Broken("io")
        /\ Fail(p)

\* Mutant: the check for the root dataset is missing.
CreateDone_Root(p) ==
  /\ pc[p] = "stat"
  /\ walk[p].seg > LastSegment(cmd[p])
  /\ Return(p, "ok", 0)
  /\ created' = created \cup {cmd[p].path}
  /\ UNCHANGED <<tree, size, cmd, walk>>

\* "created dataset": the root alone is refused.
CreateDone(p) ==
  /\ pc[p] = "stat"
  /\ walk[p].seg > LastSegment(cmd[p])
  /\ \/ /\ cmd[p].path # Root
        /\ Return(p, "ok", 0)
        /\ created' = created \cup {cmd[p].path}
        /\ UNCHANGED <<tree, size, cmd, walk>>
     \/ cmd[p].path = Root /\ Fail(p)

-----------------------------------------------------------------------------
(* du, df, zfs list and zfs get quota: a depth-first walk.  The stack holds, *)
(* for each directory being walked, the entries of its listing not yet seen. *)

\* With Mode = 0 the walk falls back on FileType = 2, which is not the type
\* byte of a zfs directory.
DirByType == fsType # "zfs"

(***************************************************************************)
(* The entry of q in a listing.  List fetches mode and size with the         *)
(* listing, and leaves zeros where the Stat of q fails; the walk of the zfs   *)
(* commands takes the type from the listing and the size later.              *)
(***************************************************************************)
ListEntry(c, q, statOK) ==
  [path |-> q,
   dir  |-> tree[q] = Dir /\ (statOK \/ c.verb = "zfs used" \/ DirByType),
   size |-> IF statOK /\ c.verb # "zfs used" THEN SizeAt(q) ELSE 0]

\* Entries whose Stat fails in a call of List: each of them may.
Unseen(c, d) ==
  IF Broken("stat") /\ c.verb # "zfs used" THEN SUBSET Children(d) ELSE {{}}

\* du and df keep a set of the paths they have walked, and list none of them
\* again; the walk of the zfs commands keeps no such set.
Revisited(c, w) == c.verb # "zfs used" /\ w.dir \in w.visited
Visit(c, w) == IF c.verb = "zfs used" THEN w.visited ELSE w.visited \cup {w.dir}

\* A frame with no entry left returns to its caller.
Trim(stack) == IF Last(stack) = {} THEN Front(stack) ELSE stack

\* Mutant: a directory that cannot be listed is passed over.
WalkFails_Continue(p) ==
  /\ GoTo(p, "entries")
  /\ UNCHANGED <<tree, size, cmd, walk, rep, created>>

\* The walk returns an error: du fails, df goes on with used = 0 and the zfs
\* commands with what they had added up; df then fails if os.Stat does.
WalkFails(p) ==
  \/ /\ cmd[p].verb # "du"
     /\ Return(p, "ok", IF cmd[p].verb = "df" THEN 0 ELSE walk[p].sum)
     /\ walk' = [walk EXCEPT ![p].failed = TRUE]
     /\ UNCHANGED <<tree, size, cmd, created>>
  \/ cmd[p].verb \in {"du", "df"} /\ Fail(p)

(***************************************************************************)
(* One directory.  Of du and df, List detects the filesystem, opens the       *)
(* image, lists, stats every entry and closes: one step here, so that what    *)
(* another process does between the listing and its Stats is left out.  The   *)
(* zfs commands list with the driver they have open.  A listing holds no "."  *)
(* and "..", which du and df would skip and the zfs commands would not.       *)
(***************************************************************************)
List(p) ==
  /\ pc[p] = "list"
  /\ LET w == walk[p]
         d == w.dir
         c == cmd[p]
         Listed == IF Revisited(c, w) THEN {} ELSE Children(d)
     IN \/ /\ Revisited(c, w) \/ tree[d] = Dir
           /\ \E un \in Unseen(c, d) :
                walk' = [walk EXCEPT ![p] =
                  [w EXCEPT !.visited = Visit(c, w),
                            !.blind = @ \/ un # {},
                            !.stack = Trim(Append(@,
                               {ListEntry(c, q, q \notin un) : q \in Listed}))]]
           /\ GoTo(p, "entries")
           /\ UNCHANGED <<tree, size, cmd, rep, created>>
        \/ /\ ~Revisited(c, w)
           /\ tree[d] # Dir \/ Broken("io")
           /\ WalkFails(p)

\* The size that an entry adds, and whether it was really seen.
Measured(c, e) ==
  IF c.verb # "zfs used" THEN {<<e.size, TRUE>>}
  ELSE {<<SizeAt(e.path), TRUE>>} \cup (IF Broken("stat") THEN {<<0, FALSE>>} ELSE {})

\* The next entry of the innermost listing: go down into a directory, add up
\* anything else.
Entry(p) ==
  /\ pc[p] = "entries"
  /\ walk[p].stack # <<>>
  /\ LET w == walk[p]
         top == Len(w.stack)
     IN \E e \in w.stack[top] :
          LET rest == Trim([w.stack EXCEPT ![top] = @ \ {e}])
          IN \/ /\ e.dir
                /\ walk' = [walk EXCEPT ![p] = [w EXCEPT !.stack = rest, !.dir = e.path]]
                /\ GoTo(p, "list")
             \/ /\ ~e.dir
                /\ \E m \in Measured(cmd[p], e) :
                     walk' = [walk EXCEPT ![p] =
                       [w EXCEPT !.stack = rest, !.sum = @ + m[1],
                                 !.blind = @ \/ ~m[2]]]
                /\ UNCHANGED pc
  /\ UNCHANGED <<tree, size, cmd, rep, created>>

\* The walk is over; df still needs the size of the image file.
WalkDone(p) ==
  /\ pc[p] = "entries"
  /\ walk[p].stack = <<>>
  /\ \/ /\ Return(p, "ok", walk[p].sum)
        /\ UNCHANGED <<tree, size, cmd, walk, created>>
     \/ cmd[p].verb = "df" /\ Broken("io") /\ Fail(p)

\* The process ends; another command may be started in its place.
Exit(p) ==
  /\ pc[p] = "done"
  /\ GoTo(p, "idle")
  /\ cmd' = [cmd EXCEPT ![p] = NoCommand]
  /\ walk' = [walk EXCEPT ![p] = NoWalk]
  /\ rep' = [rep EXCEPT ![p] = NoReport]
  /\ UNCHANGED <<tree, size, created>>

-----------------------------------------------------------------------------
(***************************************************************************)
(* History: for a process in a walk, the smallest and the largest size each  *)
(* path under its start has had since the command began.                     *)
(***************************************************************************)
Watch ==
  LET Walking(p) == pc'[p] # "idle" /\ cmd'[p].verb \in WalkVerbs
      Now(p, q) == IF Under(cmd'[p].path, q) THEN SizeAt(q)' ELSE 0
  IN /\ lo' = [p \in Procs |->
          IF ~Walking(p) THEN Zeros
          ELSE IF pc[p] = "idle" THEN [q \in Paths |-> Now(p, q)]
          ELSE IF pc[p] = "done" THEN lo[p]
          ELSE [q \in Paths |-> Min({lo[p][q], Now(p, q)})]]
     /\ hi' = [p \in Procs |->
          IF ~Walking(p) THEN Zeros
          ELSE IF pc[p] = "idle" THEN [q \in Paths |-> Now(p, q)]
          ELSE IF pc[p] = "done" THEN hi[p]
          ELSE [q \in Paths |-> Max({hi[p][q], Now(p, q)})]]

Work(p) ==
  \/ Detect(p) \/ Open(p) \/ Apply(p)
  \/ CreateStat(p) \/ CreateMkDir(p) \/ CreateDone(p)
  \/ List(p) \/ Entry(p) \/ WalkDone(p)

Begin(p) ==
  \E c \in Commands :
    /\ c.verb \in WalkVerbs => p \in Walkers
    /\ Start(p, c) \/ Refuse(p, c)

Next ==
  /\ \E p \in Procs : Begin(p) \/ Work(p) \/ Exit(p)
  /\ Watch
  /\ UNCHANGED fsType

Spec == Init /\ [][Next]_vars

-----------------------------------------------------------------------------
\* The image and every process are in a state of the right kind.
TypeOK ==
  /\ fsType \in Families
  /\ tree \in [Paths -> Inodes \cup {Absent, Dir}]
  /\ size \in [Inodes -> Sizes]
  /\ \A p \in Procs :
       /\ pc[p] \in {"idle", "detect", "open", "apply", "stat", "mkdir",
                     "list", "entries", "done"}
       /\ cmd[p] \in Commands \cup {NoCommand}
       /\ (cmd[p] = NoCommand) = (pc[p] = "idle")
       /\ walk[p].sum \in Nat
       /\ pc[p] \in {"stat", "mkdir"} => walk[p].seg \in 1..(LastSegment(cmd[p]) + 1)
       /\ pc[p] = "mkdir" => walk[p].seg <= LastSegment(cmd[p])
       /\ \A i \in 1..Len(walk[p].stack) : walk[p].stack[i] # {}
  /\ created \subseteq Paths \ {Root}

SumOver(f) == MapThenSumSet(LAMBDA q : f[q], Paths)

\* du, df and the zfs commands print a figure that the files could have added
\* up to while they ran: at most the sum of the largest sizes and, if every
\* Stat and every listing succeeded, at least the sum of the smallest; a file
\* is counted once for each of its paths, whatever other processes make, link
\* or resize between two listings (computeUsedFromPathWalk, computeUsed).
UsageWithinRun ==
  \A p \in Procs :
    (rep[p].verdict = "ok" /\ cmd[p].verb \in WalkVerbs) =>
      /\ rep[p].used <= SumOver(hi[p])
      /\ ~walk[p].blind /\ ~walk[p].failed => SumOver(lo[p]) <= rep[p].used

\* Once "zfs create" has confirmed a dataset, every directory above it exists as
\* a directory and something exists at its path, even when two processes create
\* overlapping paths or a Stat of the loop failed (ZfsCreateFromImage).
CreatedStays ==
  \A q \in created :
    /\ tree[q] # Absent
    /\ \A i \in 1..(LastSegment([path |-> q]) - 1) : tree[Lineage[q][i]] = Dir
=============================================================================
