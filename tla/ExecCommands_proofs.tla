------------------------ MODULE ExecCommands_proofs ------------------------
(***************************************************************************)
(* For every number of processes, every tree and every set of commands:     *)
(* what "zfs create" confirmed stays, and what du, df and the zfs commands  *)
(* print is a figure that the files could have added up to.                 *)
(***************************************************************************)
EXTENDS ExecCommands, FiniteSetTheorems, NaturalsInduction, WellFoundedInduction, TLAPS

------------------------------------------------------------------------------
(* Paths *)

\* The lineage of a path is that of its parent and the path itself.
LEMMA LineageIs ==
  ASSUME NEW q \in Paths \ {Root}
  PROVE  /\ Len(Lineage[q]) \in Nat \ {0} /\ Lineage[q][Len(Lineage[q])] = q
         /\ \A k \in 1..Len(Lineage[q]) :
              /\ Lineage[q][k] \in Paths \ {Root}
              /\ Len(Lineage[Lineage[q][k]]) = k
              /\ \A m \in 1..k : Lineage[Lineage[q][k]][m] = Lineage[q][m]
<1>1. Lineage \in [Paths -> Seq(Paths \ {Root})]
  BY ExecAssumption
<1>2. Lineage[q] # <<>> /\ Lineage[q][Len(Lineage[q])] = q
  BY ExecAssumption
<1>3. \A k \in 1..Len(Lineage[q]) : Lineage[Lineage[q][k]] = SubSeq(Lineage[q], 1, k)
  BY ExecAssumption
<1>4. Lineage[q] \in Seq(Paths \ {Root})
  BY <1>1
<1> DEFINE s == Lineage[q]
<1>5. Len(s) \in Nat \ {0}
  BY <1>2, <1>4
<1>6. ASSUME NEW k \in 1..Len(s)
      PROVE  s[k] \in Paths \ {Root} /\ Len(SubSeq(s, 1, k)) = k /\ \A m \in 1..k : SubSeq(s, 1, k)[m] = s[m]
  <2> HIDE DEF s
  <2>1. s \in Seq(Paths \ {Root})
    BY <1>4 DEF s
  <2> QED
    BY <1>5, <2>1
<1> QED
  BY <1>2, <1>3, <1>5, <1>6

\* The root has no lineage.
LEMMA RootLineage == Lineage[Root] = <<>> /\ Root \in Paths /\ Absent # Dir /\ Dir \notin Inodes /\ Absent \notin Inodes
BY ExecAssumption

\* The parent of a path is a path, and is one shorter.
LEMMA ParentIs ==
  ASSUME NEW q \in Paths \ {Root}
  PROVE  /\ ParentOf(q) \in Paths
         /\ Len(Lineage[ParentOf(q)]) = Len(Lineage[q]) - 1
         /\ \A m \in 1..(Len(Lineage[q]) - 1) : Lineage[ParentOf(q)][m] = Lineage[q][m]
         /\ Len(Lineage[q]) > 1 => ParentOf(q) = Lineage[q][Len(Lineage[q]) - 1]
         /\ Len(Lineage[q]) = 1 => ParentOf(q) = Root
<1>1. CASE Len(Lineage[q]) = 1
  BY <1>1, RootLineage DEF ParentOf
<1>2. CASE Len(Lineage[q]) # 1
  <2> DEFINE k == Len(Lineage[q]) - 1
  <2>0. Len(Lineage[q]) \in Nat \ {0}
    BY LineageIs
  <2>1. k \in 1..Len(Lineage[q]) /\ Len(Lineage[q]) > 1
    <3>1. \A n \in Nat \ {0} : n # 1 => n - 1 \in 1..n /\ n > 1
      OBVIOUS
    <3> QED
      BY <1>2, <2>0, <3>1
  <2>2. ParentOf(q) = Lineage[q][k]
    BY <1>2 DEF ParentOf
  <2> HIDE DEF k
  <2>3. /\ Lineage[q][k] \in Paths /\ Len(Lineage[Lineage[q][k]]) = k
        /\ \A m \in 1..k : Lineage[Lineage[q][k]][m] = Lineage[q][m]
    <3>1. \A h \in 1..Len(Lineage[q]) :
            /\ Lineage[q][h] \in Paths \ {Root}
            /\ Len(Lineage[Lineage[q][h]]) = h
            /\ \A m \in 1..h : Lineage[Lineage[q][h]][m] = Lineage[q][m]
      BY LineageIs, Zenon
    <3> QED
      BY <2>1, <3>1, Zenon
  <2>4. /\ ParentOf(q) \in Paths /\ Len(Lineage[ParentOf(q)]) = k
        /\ \A m \in 1..k : Lineage[ParentOf(q)][m] = Lineage[q][m]
    BY <2>2, <2>3, Zenon
  <2> QED
    BY <1>2, <2>2, <2>4, Zenon DEF k
<1> QED
  BY <1>1, <1>2

------------------------------------------------------------------------------
(* The tree *)

Trees == [Paths -> Inodes \cup {Absent, Dir}]

\* The directories above every entry are there.
Rooted ==
  /\ tree[Root] = Dir
  /\ \A q \in Paths : tree[q] # Absent =>
       \A k \in 1..(Len(Lineage[q]) - 1) : tree[Lineage[q][k]] = Dir

\* A driver call makes at most one entry, where there was none.
TreeStep ==
  /\ tree' \in Trees /\ size' \in [Inodes -> Sizes]
  /\ \/ tree' = tree
     \/ \E q \in Paths, x \in Inodes \cup {Dir} : Vacant(q) /\ tree' = [tree EXCEPT ![q] = x]

\* What is there stays what it is.
Grows == \A q \in Paths : tree[q] # Absent => tree'[q] = tree[q]

\* No call removes or replaces an entry.
LEMMA EntriesStay ==
  ASSUME tree \in Trees, TreeStep PROVE Grows
<1>1. ASSUME NEW q \in Paths, NEW x \in Inodes \cup {Dir}, Vacant(q), tree' = [tree EXCEPT ![q] = x]
      PROVE  Grows
  BY <1>1 DEF Vacant, Grows, Trees
<1> QED
  BY <1>1 DEF TreeStep, Grows

\* A new entry has its directories above it.
LEMMA StaysRooted ==
  ASSUME tree \in Trees, Rooted, TreeStep PROVE Rooted'
<1>1. Grows
  BY EntriesStay
<1>2. tree'[Root] = Dir
  BY <1>1, RootLineage DEF Grows, Rooted
<1>3. ASSUME NEW r \in Paths, tree'[r] # Absent, NEW k \in 1..(Len(Lineage[r]) - 1)
      PROVE  tree'[Lineage[r][k]] = Dir
  <2>1. r # Root
    BY <1>3, RootLineage
  <2>2. Lineage[r][k] \in Paths /\ Len(Lineage[r]) \in Nat /\ k \in 1..Len(Lineage[r])
    BY <1>3, <2>1, LineageIs
  <2>3. tree[Lineage[r][k]] = Dir => tree'[Lineage[r][k]] = Dir
    BY <1>1, <2>2, RootLineage DEF Grows
  <2>4. CASE tree[r] # Absent
    BY <1>3, <2>3, <2>4 DEF Rooted
  <2>5. CASE tree[r] = Absent
    <3>1. Vacant(r)
      BY <1>3, <2>5 DEF TreeStep, Trees
    <3>2. tree[ParentOf(r)] = Dir /\ ParentOf(r) \in Paths
      BY <2>1, <3>1, ParentIs DEF Vacant
    <3>3. CASE k = Len(Lineage[r]) - 1
      BY <2>1, <2>2, <2>3, <3>2, <3>3, ParentIs
    <3>4. CASE k # Len(Lineage[r]) - 1
      <4>1. k \in 1..(Len(Lineage[ParentOf(r)]) - 1)
        BY <1>3, <2>1, <2>2, <3>4, ParentIs
      <4>2. Lineage[ParentOf(r)][k] = Lineage[r][k]
        BY <1>3, <2>1, ParentIs
      <4>3. tree[Lineage[ParentOf(r)][k]] = Dir
        BY <3>2, <4>1, RootLineage DEF Rooted
      <4> QED
        BY <2>3, <4>2, <4>3
    <3> QED
      BY <3>3, <3>4
  <2> QED
    BY <2>4, <2>5
<1> QED
  BY <1>2, <1>3 DEF Rooted

\* There is an inode for every new file.
LEMMA InodesSuffice ==
  ASSUME tree \in Trees, NEW q \in Paths, Vacant(q)
  PROVE  \E i \in Inodes : i \in FreeInodes
<1>1. IsFiniteSet(Paths) /\ IsFiniteSet(Inodes) /\ Cardinality(Inodes) >= Cardinality(Paths)
  BY ExecAssumption
<1> DEFINE P == Paths \ {q}
           U == {tree[r] : r \in P}
<1>2. IsFiniteSet(P) /\ Cardinality(P) = Cardinality(Paths) - 1
  BY <1>1, FS_RemoveElement
<1>3. IsFiniteSet(U) /\ Cardinality(U) <= Cardinality(P)
  <2> DEFINE f == [r \in P |-> tree[r]]
  <2>1. f \in Surjection(P, U)
    BY DEF Surjection
  <2> QED
    BY <1>2, <2>1, FS_Surjection
<1>4. ~(Inodes \subseteq U)
  <2>1. SUFFICES ASSUME Inodes \subseteq U PROVE FALSE
    OBVIOUS
  <2>2. Cardinality(Inodes) <= Cardinality(U)
    BY <1>3, <2>1, FS_Subset
  <2>3. /\ Cardinality(Inodes) \in Nat /\ Cardinality(U) \in Nat /\ Cardinality(P) \in Nat
        /\ Cardinality(Paths) \in Nat
    BY <1>1, <1>2, <1>3, FS_CardinalityType
  <2> HIDE DEF U, P
  <2> QED
    BY <1>1, <1>2, <1>3, <2>2, <2>3
<1>5. PICK i \in Inodes : i \notin U
  BY <1>4
<1>6. \A r \in Paths : tree[r] # i
  BY <1>5, RootLineage DEF Vacant
<1> QED
  BY <1>6 DEF FreeInodes

\* A new file takes one of them.
LEMMA NewFileStep ==
  ASSUME tree \in Trees, size \in [Inodes -> Sizes], NEW q \in Paths, NEW sz \in Sizes, NewFile(q, sz)
  PROVE  TreeStep
<1>1. Vacant(q)
  BY DEF NewFile
<1> DEFINE i == CHOOSE j \in FreeInodes : TRUE
<1>2. i \in FreeInodes
  BY <1>1, InodesSuffice
<1>3. i \in Inodes
  BY <1>2 DEF FreeInodes
<1>4. tree' = [tree EXCEPT ![q] = i] /\ size' = [size EXCEPT ![i] = sz]
  BY DEF NewFile
<1> HIDE DEF i
<1>5. tree' \in Trees /\ size' \in [Inodes -> Sizes]
  BY <1>3, <1>4 DEF Trees
<1> QED
  BY <1>1, <1>3, <1>4, <1>5 DEF TreeStep

\* Every driver call is such a step.
LEMMA EffectStep ==
  ASSUME tree \in Trees, size \in [Inodes -> Sizes], NEW c \in CommandRecords, Effect(c)
  PROVE  TreeStep
<1>0. c.path \in Paths /\ c.to \in Paths /\ c.size \in Sizes
  BY DEF CommandRecords
<1>1. CASE Truncate(c)
  BY <1>0, <1>1 DEF Truncate, IsFile, TreeStep
<1>2. CASE Link(c)
  <2>1. tree' = [tree EXCEPT ![c.to] = tree[c.path]] /\ Vacant(c.to) /\ tree[c.path] \in Inodes /\ size' = size
    BY <1>2 DEF Link, IsFile
  <2> QED
    BY <1>0, <2>1 DEF TreeStep, Trees
<1>3. CASE Symlink(c)
  BY <1>0, <1>3, NewFileStep DEF Symlink
<1>4. CASE UNCHANGED <<tree, size>>
  BY <1>4 DEF TreeStep
<1>5. CASE CopyToImage(c)
  BY <1>0, <1>1, <1>5, NewFileStep DEF CopyToImage
<1> QED
  BY <1>1, <1>2, <1>3, <1>4, <1>5 DEF Effect, SetAttribute, Relabel, NtfsCompact, ExtendedStat

------------------------------------------------------------------------------
(* The processes *)

Places == {"idle", "detect", "open", "apply", "stat", "mkdir", "list", "entries", "done"}
EntryRecs == [path : Paths \ {Root}, dir : BOOLEAN, size : Nat]
Walks ==
  [dir : Paths \cup {Absent}, stack : Seq(SUBSET EntryRecs), visited : SUBSET Paths,
   sum : Nat, blind : BOOLEAN, failed : BOOLEAN, seg : Nat]
Reports == [verdict : {"none", "ok", "error"}, used : Nat]

\* A process at place l, in command c, with locals w.
Local(l, c, w) ==
  /\ c = NoCommand <=> l = "idle"
  /\ l \in {"detect", "open", "apply", "list"} => w.dir \in Paths
  /\ l \in {"detect", "open", "apply"} => w.stack = <<>> /\ w.seg = 1
  /\ l \in {"stat", "mkdir"} => w.seg \in 1..(LastSegment(c) + 1)
  /\ l = "mkdir" => w.seg <= LastSegment(c)
  /\ \A k \in 1..Len(w.stack) : w.stack[k] # {}

\* The image and every process are in a state of the right kind.
Base ==
  /\ fsType \in Families /\ tree \in Trees /\ size \in [Inodes -> Sizes]
  /\ pc \in [Procs -> Places] /\ cmd \in [Procs -> Commands \cup {NoCommand}]
  /\ walk \in [Procs -> Walks] /\ rep \in [Procs -> Reports]
  /\ created \subseteq Paths \ {Root}
  /\ \A p \in Procs : Local(pc[p], cmd[p], walk[p])

\* What p is about to be.
Becomes(p, l, c, w, r) ==
  /\ pc' = [pc EXCEPT ![p] = l] /\ cmd' = [cmd EXCEPT ![p] = c]
  /\ walk' = [walk EXCEPT ![p] = w] /\ rep' = [rep EXCEPT ![p] = r]

\* A step of process p changes nothing of the others.
OnlyOne(p) ==
  \A o \in Procs \ {p} : pc'[o] = pc[o] /\ cmd'[o] = cmd[o] /\ walk'[o] = walk[o] /\ rep'[o] = rep[o]

\* A step that leaves process p in order leaves all of them in order.
LEMMA ProcessStep ==
  ASSUME Base, NEW p \in Procs, NEW l \in Places, NEW c \in Commands \cup {NoCommand},
         NEW w \in Walks, NEW r \in Reports, Becomes(p, l, c, w, r), Local(l, c, w),
         TreeStep, created' \subseteq Paths \ {Root}, fsType' = fsType
  PROVE  /\ Base' /\ OnlyOne(p)
         /\ pc'[p] = l /\ cmd'[p] = c /\ walk'[p] = w /\ rep'[p] = r
<1>1. pc'[p] = l /\ cmd'[p] = c /\ walk'[p] = w /\ rep'[p] = r
  BY DEF Base, Becomes
<1>2. OnlyOne(p)
  BY DEF Base, Becomes, OnlyOne
<1>3. /\ pc' \in [Procs -> Places] /\ cmd' \in [Procs -> Commands \cup {NoCommand}]
      /\ walk' \in [Procs -> Walks] /\ rep' \in [Procs -> Reports]
  BY DEF Base, Becomes
<1>4. ASSUME NEW o \in Procs PROVE Local(pc'[o], cmd'[o], walk'[o])
  <2>1. CASE o = p
    BY <1>1, <2>1
  <2>2. CASE o # p
    <3>1. pc'[o] = pc[o] /\ cmd'[o] = cmd[o] /\ walk'[o] = walk[o]
      BY <1>2, <2>2 DEF OnlyOne
    <3>2. Local(pc[o], cmd[o], walk[o])
      BY DEF Base
    <3> QED
      BY <3>1, <3>2
  <2> QED
    BY <2>1, <2>2
<1>5. \A o \in Procs : Local(pc'[o], cmd'[o], walk'[o])
  BY <1>4
<1>6. Base'
  BY <1>3, <1>5 DEF Base, TreeStep, Trees, Places, Local, LastSegment, Walks, Reports, EntryRecs
<1> QED
  BY <1>1, <1>2, <1>6

\* A process that is not touched may be written where it is.
LEMMA Same ==
  ASSUME NEW S, NEW f \in [Procs -> S], NEW p \in Procs
  PROVE  f = [f EXCEPT ![p] = f[p]] /\ f[p] \in S
OBVIOUS

\* What Base says of one process.
LEMMA Here ==
  ASSUME Base, NEW p \in Procs
  PROVE  /\ pc[p] \in Places /\ cmd[p] \in Commands \cup {NoCommand} /\ walk[p] \in Walks
         /\ rep[p] \in Reports /\ Local(pc[p], cmd[p], walk[p])
         /\ pc = [pc EXCEPT ![p] = pc[p]] /\ cmd = [cmd EXCEPT ![p] = cmd[p]]
         /\ walk = [walk EXCEPT ![p] = walk[p]] /\ rep = [rep EXCEPT ![p] = rep[p]]
         /\ pc[p] # "idle" => cmd[p] \in Commands
<1>1. /\ pc \in [Procs -> Places] /\ cmd \in [Procs -> Commands \cup {NoCommand}]
      /\ walk \in [Procs -> Walks] /\ rep \in [Procs -> Reports] /\ Local(pc[p], cmd[p], walk[p])
  BY DEF Base
<1>2. pc[p] # "idle" => cmd[p] # NoCommand
  BY <1>1 DEF Local
<1> QED
  BY <1>1, <1>2, Same

\* The steps of one process.
StepOf(p) ==
  /\ Base' /\ OnlyOne(p) /\ TreeStep
  /\ \A q \in created' \ created : cmd[p].path = q

\* Nothing happens to the tree.
LEMMA TreeRests ==
  ASSUME Base, UNCHANGED <<tree, size>> PROVE TreeStep
BY DEF Base, TreeStep

\* A command returns.
LEMMA Returns ==
  ASSUME Base, NEW p \in Procs, pc[p] # "idle", NEW v \in {"ok", "error"}, NEW u \in Nat, Return(p, v, u),
         cmd' = cmd, NEW w \in Walks, w.stack = walk[p].stack, walk' = [walk EXCEPT ![p] = w],
         TreeStep, created' \subseteq Paths \ {Root}, fsType' = fsType
  PROVE  /\ Base' /\ OnlyOne(p) /\ pc'[p] = "done" /\ walk'[p] = w /\ cmd'[p] = cmd[p]
         /\ rep'[p] = [verdict |-> v, used |-> u]
<1> DEFINE r == [verdict |-> v, used |-> u]
<1>1. r \in Reports /\ "done" \in Places
  BY DEF Reports, Places
<1>2. Becomes(p, "done", cmd[p], w, r)
  <2>1. pc' = [pc EXCEPT ![p] = "done"] /\ rep' = [rep EXCEPT ![p] = r]
    BY DEF Return, GoTo
  <2>2. cmd' = [cmd EXCEPT ![p] = cmd[p]]
    BY Here
  <2> QED
    BY <2>1, <2>2 DEF Becomes
<1>3. Local("done", cmd[p], w)
  <2>1. Local(pc[p], cmd[p], walk[p])
    BY Here
  <2> QED
    BY <2>1 DEF Local
<1>4. cmd[p] \in Commands \cup {NoCommand}
  BY Here
<1> HIDE DEF r
<1>5. Base' /\ OnlyOne(p) /\ pc'[p] = "done" /\ cmd'[p] = cmd[p] /\ walk'[p] = w /\ rep'[p] = r
  BY <1>1, <1>2, <1>3, <1>4, ProcessStep
<1> QED
  BY <1>5 DEF r

\* A command fails.
LEMMA Fails ==
  ASSUME Base, NEW p \in Procs, pc[p] # "idle", Fail(p), fsType' = fsType
  PROVE  /\ StepOf(p) /\ pc'[p] = "done" /\ walk'[p] = walk[p] /\ cmd'[p] = cmd[p]
         /\ rep'[p] = [verdict |-> "error", used |-> 0] /\ created' = created
<1>1. Return(p, "error", 0) /\ UNCHANGED <<tree, size, cmd, walk, created>>
  BY DEF Fail
<1>2. TreeStep
  BY <1>1, TreeRests
<1>3. walk' = [walk EXCEPT ![p] = walk[p]] /\ walk[p] \in Walks
  BY <1>1, Here
<1>4. created' \subseteq Paths \ {Root}
  BY <1>1 DEF Base
<1>5. /\ Base' /\ OnlyOne(p) /\ pc'[p] = "done" /\ walk'[p] = walk[p] /\ cmd'[p] = cmd[p]
      /\ rep'[p] = [verdict |-> "error", used |-> 0]
  BY ZenonT(60), <1>1, <1>2, <1>3, <1>4, Returns
<1> QED
  BY <1>1, <1>2, <1>5 DEF StepOf

\* A command goes on at another place, with other locals.
LEMMA GoesOn ==
  ASSUME Base, NEW p \in Procs, pc[p] # "idle", NEW l \in Places \ {"idle"}, pc' = [pc EXCEPT ![p] = l],
         NEW w \in Walks, walk' = [walk EXCEPT ![p] = w], Local(l, cmd[p], w),
         UNCHANGED <<cmd, rep>>, TreeStep, created' = created, fsType' = fsType
  PROVE  StepOf(p) /\ pc'[p] = l /\ walk'[p] = w /\ cmd'[p] = cmd[p] /\ rep'[p] = rep[p]
<1>1. cmd' = [cmd EXCEPT ![p] = cmd[p]] /\ rep' = [rep EXCEPT ![p] = rep[p]] /\ rep[p] \in Reports
      /\ cmd[p] \in Commands \cup {NoCommand}
  BY Here
<1>2. Becomes(p, l, cmd[p], w, rep[p])
  BY <1>1 DEF Becomes
<1>3. created' \subseteq Paths \ {Root}
  BY DEF Base
<1>4. Base' /\ OnlyOne(p) /\ pc'[p] = l /\ cmd'[p] = cmd[p] /\ walk'[p] = w /\ rep'[p] = rep[p]
  BY <1>1, <1>2, <1>3, ProcessStep
<1> QED
  BY <1>4 DEF StepOf

------------------------------------------------------------------------------
(* The steps *)

\* The locals a command begins with.
LEMMA FirstWalk ==
  /\ NoWalk \in Walks
  /\ \A q \in Paths : LET w == [NoWalk EXCEPT !.dir = q]
                      IN /\ w \in Walks /\ w.dir = q /\ w.stack = <<>> /\ w.seg = 1 /\ w.sum = 0
                         /\ w.visited = {} /\ w.blind = FALSE /\ w.failed = FALSE
<1>1. <<>> \in Seq(SUBSET EntryRecs) /\ {} \in SUBSET Paths /\ FALSE \in BOOLEAN
  OBVIOUS
<1>2. NoWalk \in Walks
  BY <1>1 DEF NoWalk, Walks
<1>3. ASSUME NEW q \in Paths PROVE [NoWalk EXCEPT !.dir = q] \in Walks
  BY <1>2, <1>3 DEF Walks
<1>4. ASSUME NEW q \in Paths
      PROVE  LET w == [NoWalk EXCEPT !.dir = q]
             IN /\ w.dir = q /\ w.stack = <<>> /\ w.seg = 1 /\ w.sum = 0
                /\ w.visited = {} /\ w.blind = FALSE /\ w.failed = FALSE
  BY DEF NoWalk
<1> QED
  BY <1>2, <1>3, <1>4

\* The commands given are command lines.
LEMMA CommandIs ==
  ASSUME NEW c \in Commands
  PROVE  /\ c.path \in Paths /\ c.to \in Paths /\ c.size \in Sizes /\ c \in CommandRecords /\ c # NoCommand
         /\ LastSegment(c) \in Nat
         /\ \A k \in 1..LastSegment(c) : Lineage[c.path][k] \in Paths \ {Root}
<1>1. c \in CommandRecords /\ c # NoCommand
  BY ExecAssumption
<1>2. c.path \in Paths /\ c.to \in Paths /\ c.size \in Sizes
  BY <1>1 DEF CommandRecords
<1>3. LastSegment(c) = Len(Lineage[c.path])
  BY DEF LastSegment
<1>4. CASE c.path = Root
  BY <1>1, <1>2, <1>3, <1>4, RootLineage
<1>5. CASE c.path # Root
  <2>1. Len(Lineage[c.path]) \in Nat /\ \A k \in 1..Len(Lineage[c.path]) : Lineage[c.path][k] \in Paths \ {Root}
    BY <1>2, <1>5, LineageIs
  <2> QED
    BY <1>1, <1>2, <1>3, <2>1
<1> QED
  BY <1>4, <1>5

\* A command begins.
LEMMA StartStep ==
  ASSUME Base, NEW p \in Procs, NEW c \in Commands, Start(p, c), fsType' = fsType
  PROVE  /\ StepOf(p) /\ pc[p] = "idle" /\ cmd'[p] = c /\ walk'[p] = [NoWalk EXCEPT !.dir = c.path]
         /\ rep'[p] = rep[p] /\ created' = created /\ UNCHANGED <<tree, size>>
         /\ pc'[p] = (IF c.family # "any" THEN "detect" ELSE IF c.verb \in WalkVerbs THEN "list" ELSE "apply")
<1> DEFINE w == [NoWalk EXCEPT !.dir = c.path]
           l == IF c.family # "any" THEN "detect" ELSE IF c.verb \in WalkVerbs THEN "list" ELSE "apply"
<1>1. w \in Walks /\ w.dir \in Paths /\ w.stack = <<>> /\ w.seg = 1
  BY CommandIs, FirstWalk
<1>2. l \in {"detect", "list", "apply"}
  OBVIOUS
<1>3. pc' = [pc EXCEPT ![p] = l] /\ cmd' = [cmd EXCEPT ![p] = c] /\ walk' = [walk EXCEPT ![p] = w]
      /\ UNCHANGED <<tree, size, rep, created>> /\ pc[p] = "idle"
  BY DEF Start, GoTo
<1> HIDE DEF w, l
<1>4. Becomes(p, l, c, w, rep[p]) /\ rep[p] \in Reports
  BY <1>3, Here DEF Becomes
<1>5. Local(l, c, w)
  BY <1>1, <1>2, CommandIs DEF Local
<1>6. l \in Places
  BY <1>2 DEF Places
<1>7. TreeStep /\ created' \subseteq Paths \ {Root}
  BY <1>3, TreeRests DEF Base
<1>8. Base' /\ OnlyOne(p) /\ pc'[p] = l /\ cmd'[p] = c /\ walk'[p] = w /\ rep'[p] = rep[p]
  BY <1>1, <1>4, <1>5, <1>6, <1>7, ProcessStep
<1> QED
  BY <1>3, <1>7, <1>8 DEF StepOf, w, l

\* A command line is refused.
LEMMA RefuseStep ==
  ASSUME Base, NEW p \in Procs, NEW c \in Commands, Refuse(p, c), fsType' = fsType
  PROVE  /\ StepOf(p) /\ pc[p] = "idle" /\ cmd'[p] = c /\ pc'[p] = "done" /\ created' = created
         /\ rep'[p] = [verdict |-> "error", used |-> 0] /\ walk'[p] = walk[p] /\ UNCHANGED <<tree, size>>
<1> DEFINE r == [verdict |-> "error", used |-> 0]
<1>1. pc' = [pc EXCEPT ![p] = "done"] /\ rep' = [rep EXCEPT ![p] = r] /\ cmd' = [cmd EXCEPT ![p] = c]
      /\ UNCHANGED <<tree, size, walk, created>> /\ pc[p] = "idle"
  BY DEF Refuse, Return, GoTo
<1>2. r \in Reports /\ "done" \in Places
  BY DEF Reports, Places
<1> HIDE DEF r
<1>3. Becomes(p, "done", c, walk[p], r) /\ walk[p] \in Walks /\ Local(pc[p], cmd[p], walk[p])
  BY <1>1, Here DEF Becomes
<1>4. Local("done", c, walk[p])
  BY <1>3, CommandIs DEF Local
<1>5. TreeStep /\ created' \subseteq Paths \ {Root}
  BY <1>1, TreeRests DEF Base
<1>6. Base' /\ OnlyOne(p) /\ pc'[p] = "done" /\ cmd'[p] = c /\ walk'[p] = walk[p] /\ rep'[p] = r
  BY <1>2, <1>3, <1>4, <1>5, ProcessStep
<1> QED
  BY <1>1, <1>5, <1>6 DEF StepOf, r

\* A process ends.
LEMMA ExitStep ==
  ASSUME Base, NEW p \in Procs, Exit(p), fsType' = fsType
  PROVE  /\ StepOf(p) /\ pc[p] = "done" /\ pc'[p] = "idle" /\ cmd'[p] = NoCommand
         /\ rep'[p] = NoReport /\ created' = created /\ UNCHANGED <<tree, size>>
<1>1. pc' = [pc EXCEPT ![p] = "idle"] /\ rep' = [rep EXCEPT ![p] = NoReport] /\ cmd' = [cmd EXCEPT ![p] = NoCommand]
      /\ walk' = [walk EXCEPT ![p] = NoWalk] /\ UNCHANGED <<tree, size, created>> /\ pc[p] = "done"
  BY DEF Exit, GoTo
<1>2. NoReport \in Reports /\ "idle" \in Places
  BY DEF Reports, Places, NoReport
<1>3. Local("idle", NoCommand, NoWalk)
  BY DEF Local, NoWalk
<1>4. TreeStep /\ created' \subseteq Paths \ {Root}
  BY <1>1, TreeRests DEF Base
<1>5. Becomes(p, "idle", NoCommand, NoWalk, NoReport)
  BY <1>1 DEF Becomes
<1>6. Base' /\ OnlyOne(p) /\ pc'[p] = "idle" /\ cmd'[p] = NoCommand /\ walk'[p] = NoWalk /\ rep'[p] = NoReport
  BY <1>2, <1>3, <1>4, <1>5, FirstWalk, ProcessStep
<1> QED
  BY <1>1, <1>4, <1>6 DEF StepOf

\* Detection, and the driver's Open: the locals stay.
LEMMA OpenStep ==
  ASSUME Base, NEW p \in Procs, Detect(p) \/ Open(p), fsType' = fsType
  PROVE  /\ StepOf(p) /\ pc[p] \in {"detect", "open"} /\ cmd'[p] = cmd[p] /\ walk'[p] = walk[p]
         /\ created' = created /\ UNCHANGED <<tree, size>>
         /\ \/ pc'[p] \in {"open", "apply", "stat", "list"} /\ rep'[p] = rep[p]
            \/ pc'[p] = "done" /\ rep'[p].verdict = "error"
         /\ pc[p] = "detect" => pc'[p] \in {"open", "done"}
         /\ pc'[p] = "stat" => pc[p] = "open" /\ walk[p].seg = 1
         /\ pc'[p] = "list" => cmd[p].verb = "zfs used"
         /\ pc[p] = "open" /\ cmd[p].verb = "zfs used" => pc'[p] \in {"list", "done"}
<1>0. pc[p] \in {"detect", "open"} /\ walk[p] \in Walks /\ Local(pc[p], cmd[p], walk[p])
      /\ walk = [walk EXCEPT ![p] = walk[p]] /\ cmd[p] \in Commands
  BY Here DEF Detect, Open
<1>1. walk[p].dir \in Paths /\ walk[p].stack = <<>> /\ walk[p].seg = 1 /\ LastSegment(cmd[p]) \in Nat
  BY <1>0, CommandIs DEF Local
<1>2. ASSUME NEW l \in {"open", "apply", "stat", "list"}, GoTo(p, l), UNCHANGED <<tree, size, cmd, walk, rep, created>>
      PROVE  /\ StepOf(p) /\ cmd'[p] = cmd[p] /\ walk'[p] = walk[p] /\ pc'[p] = l /\ rep'[p] = rep[p]
  <2>1. l \in Places \ {"idle"} /\ pc' = [pc EXCEPT ![p] = l] /\ walk' = [walk EXCEPT ![p] = walk[p]]
    BY <1>0, <1>2 DEF Places, GoTo
  <2>2. Local(l, cmd[p], walk[p])
    BY <1>0, <1>1 DEF Local
  <2>3. TreeStep
    BY <1>2, TreeRests
  <2> QED
    BY <1>0, <1>2, <2>1, <2>2, <2>3, GoesOn
<1>3. CASE Fail(p)
  <2>1. rep'[p] = [verdict |-> "error", used |-> 0]
    BY <1>0, <1>3, Fails
  <2>2. rep'[p].verdict = "error"
    BY <2>1
  <2> QED
    BY <1>0, <1>3, <2>2, Fails DEF Fail
<1>4. CASE pc[p] = "detect" /\ GoTo(p, "open") /\ UNCHANGED <<tree, size, cmd, walk, rep, created>>
  BY <1>2, <1>4
<1>5. CASE /\ pc[p] = "open" /\ UNCHANGED <<tree, size, cmd, walk, rep, created>>
           /\ GoTo(p, CASE cmd[p].verb = "zfs used" -> "list"
                        [] cmd[p].verb = "zfs create" -> "stat"
                        [] OTHER -> "apply")
  <2>1. CASE cmd[p].verb = "zfs used"
    BY <1>1, <1>2, <1>5, <2>1
  <2>2. CASE cmd[p].verb = "zfs create"
    BY <1>1, <1>2, <1>5, <2>2
  <2>3. CASE cmd[p].verb \notin {"zfs used", "zfs create"}
    BY <1>1, <1>2, <1>5, <2>3
  <2> QED
    BY <2>1, <2>2, <2>3
<1> QED
  BY <1>3, <1>4, <1>5 DEF Detect, Open

\* The one driver call of a command.
LEMMA ApplyStep ==
  ASSUME Base, NEW p \in Procs, Apply(p), fsType' = fsType
  PROVE  /\ StepOf(p) /\ pc[p] = "apply" /\ pc'[p] = "done" /\ cmd'[p] = cmd[p] /\ walk'[p] = walk[p]
         /\ created' = created
         /\ rep'[p].verdict = "ok" => cmd[p].verb \notin WalkVerbs
<1>0. pc[p] = "apply" /\ walk[p] \in Walks /\ walk = [walk EXCEPT ![p] = walk[p]] /\ cmd[p] \in Commands
  BY Here DEF Apply
<1>1. CASE Fail(p)
  <2>1. rep'[p] = [verdict |-> "error", used |-> 0]
    BY <1>0, <1>1, Fails
  <2>2. rep'[p].verdict = "error"
    BY <2>1
  <2> QED
    BY <1>0, <1>1, <2>2, Fails
<1>2. CASE Effect(cmd[p]) /\ Return(p, "ok", 0) /\ UNCHANGED <<cmd, walk, created>>
  <2>1. TreeStep
    BY <1>0, <1>2, CommandIs, EffectStep DEF Base
  <2>2. created' \subseteq Paths \ {Root} /\ walk' = [walk EXCEPT ![p] = walk[p]]
    BY <1>0, <1>2 DEF Base
  <2>3. Base' /\ OnlyOne(p) /\ pc'[p] = "done" /\ walk'[p] = walk[p] /\ cmd'[p] = cmd[p]
    BY <1>0, <1>2, <2>1, <2>2, Returns
  <2>4. cmd[p].verb \notin WalkVerbs
    BY <1>2 DEF Effect, WalkVerbs
  <2> QED
    BY <1>0, <1>2, <2>1, <2>3, <2>4 DEF StepOf
<1> QED
  BY <1>1, <1>2 DEF Apply

\* The loop of "zfs create" passes over an entry that is there.
LEMMA CreateStatStep ==
  ASSUME Base, NEW p \in Procs, CreateStat(p), fsType' = fsType
  PROVE  /\ StepOf(p) /\ pc[p] = "stat" /\ cmd'[p] = cmd[p] /\ created' = created /\ UNCHANGED <<tree, size>>
         /\ rep'[p] = rep[p]
         /\ \/ /\ pc'[p] = "stat" /\ walk'[p].seg = walk[p].seg + 1
               /\ tree[Lineage[cmd[p].path][walk[p].seg]] # Absent
            \/ pc'[p] = "mkdir" /\ walk'[p] = walk[p]
<1>0. pc[p] = "stat" /\ walk[p] \in Walks /\ walk = [walk EXCEPT ![p] = walk[p]] /\ cmd[p] \in Commands
      /\ Local(pc[p], cmd[p], walk[p]) /\ walk[p].seg <= LastSegment(cmd[p])
      /\ UNCHANGED <<tree, size, cmd, rep, created>>
  BY Here DEF CreateStat
<1>1. walk[p].seg \in 1..(LastSegment(cmd[p]) + 1) /\ LastSegment(cmd[p]) \in Nat
      /\ \A k \in 1..Len(walk[p].stack) : walk[p].stack[k] # {}
  BY <1>0, CommandIs DEF Local
<1>2. TreeStep
  BY <1>0, TreeRests
<1>3. CASE tree[Segment(p)] # Absent /\ walk' = [walk EXCEPT ![p].seg = @ + 1] /\ UNCHANGED pc
  <2> DEFINE w == [walk[p] EXCEPT !.seg = @ + 1]
  <2>1. walk' = [walk EXCEPT ![p] = w]
    BY <1>3
  <2>2. w \in Walks /\ w.seg = walk[p].seg + 1 /\ w.stack = walk[p].stack
    BY SMTT(30), <1>0, <1>1 DEF Walks
  <2>3. pc' = [pc EXCEPT ![p] = "stat"]
    BY <1>0, <1>3, Here
  <2> HIDE DEF w
  <2>4. Local("stat", cmd[p], w) /\ "stat" \in Places \ {"idle"}
    BY <1>0, <1>1, <2>2, CommandIs DEF Local, Places
  <2>5. StepOf(p) /\ pc'[p] = "stat" /\ walk'[p] = w /\ cmd'[p] = cmd[p] /\ rep'[p] = rep[p]
    BY <1>0, <1>2, <2>1, <2>2, <2>3, <2>4, GoesOn
  <2> QED
    BY <1>0, <1>3, <2>2, <2>5 DEF Segment
<1>4. CASE GoTo(p, "mkdir") /\ UNCHANGED walk
  <2>1. Local("mkdir", cmd[p], walk[p]) /\ "mkdir" \in Places \ {"idle"}
    BY <1>0, <1>1, CommandIs DEF Local, Places
  <2>2. pc' = [pc EXCEPT ![p] = "mkdir"] /\ walk' = [walk EXCEPT ![p] = walk[p]]
    BY <1>0, <1>4 DEF GoTo
  <2> QED
    BY <1>0, <1>2, <2>1, <2>2, GoesOn
<1> QED
  BY <1>3, <1>4 DEF CreateStat

\* It makes a directory.
LEMMA CreateMkDirStep ==
  ASSUME Base, NEW p \in Procs, CreateMkDir(p), fsType' = fsType
  PROVE  /\ StepOf(p) /\ pc[p] = "mkdir" /\ cmd'[p] = cmd[p] /\ created' = created
         /\ \/ /\ pc'[p] = "stat" /\ walk'[p].seg = walk[p].seg + 1 /\ rep'[p] = rep[p]
               /\ tree'[Lineage[cmd[p].path][walk[p].seg]] = Dir
            \/ pc'[p] = "done" /\ rep'[p].verdict = "error"
<1>0. pc[p] = "mkdir" /\ walk[p] \in Walks /\ cmd[p] \in Commands /\ Local(pc[p], cmd[p], walk[p])
  BY Here DEF CreateMkDir
<1>1. walk[p].seg \in 1..LastSegment(cmd[p]) /\ LastSegment(cmd[p]) \in Nat
      /\ \A k \in 1..Len(walk[p].stack) : walk[p].stack[k] # {}
  BY <1>0, CommandIs DEF Local
<1>2. CASE Fail(p)
  <2>1. rep'[p] = [verdict |-> "error", used |-> 0]
    BY <1>0, <1>2, Fails
  <2>2. rep'[p].verdict = "error"
    BY <2>1
  <2> QED
    BY <1>0, <1>2, <2>2, Fails
<1>3. CASE /\ Vacant(Segment(p)) /\ tree' = [tree EXCEPT ![Segment(p)] = Dir]
           /\ walk' = [walk EXCEPT ![p].seg = @ + 1] /\ GoTo(p, "stat")
           /\ UNCHANGED <<size, cmd, rep, created>>
  <2> DEFINE w == [walk[p] EXCEPT !.seg = @ + 1]
  <2>1. walk' = [walk EXCEPT ![p] = w]
    BY <1>3
  <2>2. w \in Walks /\ w.seg = walk[p].seg + 1 /\ w.stack = walk[p].stack
    BY <1>0, <1>1 DEF Walks
  <2>3. pc' = [pc EXCEPT ![p] = "stat"]
    BY <1>3 DEF GoTo
  <2> HIDE DEF w
  <2>4. Local("stat", cmd[p], w) /\ "stat" \in Places \ {"idle"}
    BY <1>0, <1>1, <2>2, CommandIs DEF Local, Places
  <2>5. Segment(p) \in Paths
    BY <1>0, <1>1, CommandIs DEF Segment
  <2>6. TreeStep /\ tree'[Segment(p)] = Dir
    BY <1>3, <2>5 DEF TreeStep, Base, Trees
  <2>7. StepOf(p) /\ pc'[p] = "stat" /\ walk'[p] = w /\ cmd'[p] = cmd[p] /\ rep'[p] = rep[p]
    BY <1>0, <1>3, <2>1, <2>2, <2>3, <2>4, <2>6, GoesOn
  <2> QED
    BY <1>0, <1>3, <2>2, <2>6, <2>7 DEF Segment
<1> QED
  BY <1>2, <1>3 DEF CreateMkDir

\* It confirms the dataset.
LEMMA CreateDoneStep ==
  ASSUME Base, NEW p \in Procs, CreateDone(p), fsType' = fsType
  PROVE  /\ StepOf(p) /\ pc[p] = "stat" /\ cmd'[p] = cmd[p] /\ pc'[p] = "done" /\ UNCHANGED <<tree, size>>
         /\ walk[p].seg = LastSegment(cmd[p]) + 1
         /\ \/ created' = created
            \/ created' = created \cup {cmd[p].path} /\ cmd[p].path # Root
<1>0. pc[p] = "stat" /\ walk[p] \in Walks /\ cmd[p] \in Commands /\ Local(pc[p], cmd[p], walk[p])
      /\ walk = [walk EXCEPT ![p] = walk[p]] /\ walk[p].seg > LastSegment(cmd[p])
  BY Here DEF CreateDone
<1>1. walk[p].seg = LastSegment(cmd[p]) + 1
  BY <1>0, CommandIs DEF Local
<1>2. CASE Fail(p)
  BY <1>0, <1>1, <1>2, Fails DEF Fail
<1>3. CASE /\ cmd[p].path # Root /\ Return(p, "ok", 0) /\ created' = created \cup {cmd[p].path}
           /\ UNCHANGED <<tree, size, cmd, walk>>
  <2>1. created' \subseteq Paths \ {Root} /\ walk' = [walk EXCEPT ![p] = walk[p]]
    BY <1>0, <1>3, CommandIs DEF Base
  <2>2. TreeStep
    BY <1>3, TreeRests
  <2>3. Base' /\ OnlyOne(p) /\ pc'[p] = "done" /\ cmd'[p] = cmd[p]
    BY <1>0, <1>3, <2>1, <2>2, Returns
  <2> QED
    BY <1>0, <1>1, <1>3, <2>2, <2>3 DEF StepOf
<1> QED
  BY <1>2, <1>3 DEF CreateDone

\* What a listing leaves on the stack: frames that have something left.
LEMMA TrimIs ==
  ASSUME NEW S, NEW s \in Seq(SUBSET S), Len(s) > 0, \A k \in 1..(Len(s) - 1) : s[k] # {}
  PROVE  /\ Trim(s) \in Seq(SUBSET S) /\ Len(Trim(s)) \in {Len(s) - 1, Len(s)}
         /\ \A k \in 1..Len(Trim(s)) : Trim(s)[k] = s[k] /\ s[k] # {}
         /\ Len(Trim(s)) # Len(s) => s[Len(s)] = {}
<1> DEFINE n == Len(s)
<1>1. n \in Nat \ {0} /\ n - 1 \in Nat /\ n - 1 <= n
  OBVIOUS
<1>2. CASE s[n] = {}
  <2>1. Trim(s) = SubSeq(s, 1, n - 1)
    BY <1>2 DEF Trim, Last, Front
  <2>2. /\ SubSeq(s, 1, n - 1) \in Seq(SUBSET S) /\ Len(SubSeq(s, 1, n - 1)) = n - 1
        /\ \A k \in 1..(n - 1) : SubSeq(s, 1, n - 1)[k] = s[k]
    <3>1. \A m \in Nat : m <= Len(s) =>
            /\ SubSeq(s, 1, m) \in Seq(SUBSET S) /\ Len(SubSeq(s, 1, m)) = m
            /\ \A k \in 1..m : SubSeq(s, 1, m)[k] = s[k]
      OBVIOUS
    <3> QED
      BY <1>1, <3>1
  <2> QED
    BY <1>1, <1>2, <2>1, <2>2
<1>3. CASE s[n] # {}
  <2>1. Trim(s) = s
    BY <1>3 DEF Trim, Last
  <2>2. \A k \in 1..n : k = n \/ k \in 1..(n - 1)
    BY <1>1
  <2> QED
    BY <1>1, <1>3, <2>1, <2>2
<1> QED
  BY <1>2, <1>3

\* The size of an entry is a number.
LEMMA SizeAtIsNat ==
  ASSUME Base, NEW q \in Paths PROVE SizeAt(q) \in Nat
<1>1. Sizes \subseteq Nat
  BY ExecAssumption
<1> QED
  BY <1>1 DEF Base, SizeAt

\* What List returns for an entry.
LEMMA ListEntryIs ==
  ASSUME Base, NEW c \in Commands, NEW q \in Paths \ {Root}, NEW un
  PROVE  LET e == ListEntry(c, q, q \notin un)
         IN /\ e \in EntryRecs /\ e.path = q
            /\ e.dir => tree[q] = Dir
            /\ q \notin un /\ tree[q] = Dir => e.dir
            /\ e.size = (IF q \notin un /\ c.verb # "zfs used" THEN SizeAt(q) ELSE 0)
<1>1. SizeAt(q) \in Nat
  BY SizeAtIsNat
<1> DEFINE e == ListEntry(c, q, q \notin un)
           d == tree[q] = Dir /\ (q \notin un \/ c.verb = "zfs used" \/ DirByType)
           sz == IF q \notin un /\ c.verb # "zfs used" THEN SizeAt(q) ELSE 0
<1>2. e = [path |-> q, dir |-> d, size |-> sz]
  BY Zenon DEF ListEntry
<1>3. d \in BOOLEAN
  BY Zenon
<1>4. sz \in Nat
  BY <1>1
<1>5. d => tree[q] = Dir
  OBVIOUS
<1>6. q \notin un /\ tree[q] = Dir => d
  OBVIOUS
<1> HIDE DEF d, sz
<1>7. e \in EntryRecs
  BY <1>2, <1>3, <1>4 DEF EntryRecs
<1>8. e.path = q /\ e.size = sz
  BY <1>2
<1>9. e.dir = d
  BY <1>2, SMT
<1>10. (e.dir => d) /\ (d => e.dir)
  BY <1>9, Zenon
<1> HIDE DEF e
<1> QED
  BY <1>5, <1>6, <1>7, <1>8, <1>10 DEF e, sz

\* The same, of an entry that is given.
LEMMA EntryOf ==
  ASSUME Base, NEW c \in Commands, NEW q \in Paths \ {Root}, NEW un, NEW e, e = ListEntry(c, q, q \notin un)
  PROVE  /\ e \in EntryRecs /\ e.path = q
         /\ e.dir => tree[q] = Dir
         /\ q \notin un /\ tree[q] = Dir => e.dir
         /\ e.size = (IF q \notin un /\ c.verb # "zfs used" THEN SizeAt(q) ELSE 0)
BY ListEntryIs, Zenon

\* One directory is listed.
ListEntries(p, un) ==
  {ListEntry(cmd[p], q, q \notin un) : q \in IF Revisited(cmd[p], walk[p]) THEN {} ELSE Children(walk[p].dir)}

LEMMA ListStep ==
  ASSUME Base, NEW p \in Procs, List(p), fsType' = fsType
  PROVE  /\ StepOf(p) /\ pc[p] = "list" /\ cmd'[p] = cmd[p] /\ created' = created /\ UNCHANGED <<tree, size>>
         /\ \/ /\ pc'[p] = "entries" /\ rep'[p] = rep[p]
               /\ Revisited(cmd[p], walk[p]) \/ tree[walk[p].dir] = Dir
               /\ walk'[p].visited = Visit(cmd[p], walk[p])
               /\ walk'[p].sum = walk[p].sum
               /\ \E un \in Unseen(cmd[p], walk[p].dir) :
                    LET new == ListEntries(p, un)
                        s == walk[p].stack
                        t == walk'[p].stack
                    IN /\ new \subseteq EntryRecs
                       /\ (walk'[p].blind <=> (walk[p].blind \/ un # {}))
                       /\ Len(t) \in {Len(s), Len(s) + 1}
                       /\ \A k \in 1..Len(s) : t[k] = s[k]
                       /\ Len(t) = Len(s) + 1 => t[Len(s) + 1] = new
                       /\ Len(t) = Len(s) => new = {}
            \/ /\ pc'[p] = "done" /\ rep'[p].verdict = "ok" /\ walk'[p].failed = TRUE
               /\ rep'[p].used \in {0, walk[p].sum}
            \/ pc'[p] = "done" /\ rep'[p].verdict = "error"
<1> DEFINE w == walk[p]
           c == cmd[p]
<1>0. pc[p] = "list" /\ w \in Walks /\ c \in Commands /\ Local("list", c, w)
      /\ walk = [walk EXCEPT ![p] = w]
  BY Here DEF List
<1>1. w.dir \in Paths /\ \A k \in 1..Len(w.stack) : w.stack[k] # {}
  BY <1>0 DEF Local
<1>2. w.stack \in Seq(SUBSET EntryRecs) /\ w.sum \in Nat
  BY <1>0 DEF Walks
<1>3. ASSUME NEW un \in Unseen(c, w.dir), Revisited(c, w) \/ tree[w.dir] = Dir,
             walk' = [walk EXCEPT ![p] =
                  [w EXCEPT !.visited = Visit(c, w), !.blind = @ \/ un # {},
                            !.stack = Trim(Append(@, ListEntries(p, un)))]],
             GoTo(p, "entries"), UNCHANGED <<tree, size, cmd, rep, created>>
      PROVE  /\ StepOf(p) /\ cmd'[p] = cmd[p] /\ pc'[p] = "entries" /\ rep'[p] = rep[p]
             /\ walk'[p].visited = Visit(c, w) /\ walk'[p].sum = w.sum
             /\ LET new == ListEntries(p, un)
                    s == w.stack
                    t == walk'[p].stack
                IN /\ new \subseteq EntryRecs
                   /\ (walk'[p].blind <=> (w.blind \/ un # {}))
                   /\ Len(t) \in {Len(s), Len(s) + 1}
                   /\ \A k \in 1..Len(s) : t[k] = s[k]
                   /\ Len(t) = Len(s) + 1 => t[Len(s) + 1] = new
                   /\ Len(t) = Len(s) => new = {}
  <2> DEFINE new == ListEntries(p, un)
             s == w.stack
             b == Append(s, new)
             t == Trim(b)
             bl == w.blind \/ un # {}
             v == [w EXCEPT !.visited = Visit(c, w), !.blind = bl, !.stack = t]
  <2>1. new \subseteq EntryRecs
    <3>1. \A q \in Children(w.dir) : q \in Paths \ {Root}
      BY DEF Children
    <3>2. \A q \in Children(w.dir) : ListEntry(c, q, q \notin un) \in EntryRecs
      BY <1>0, <3>1, ListEntryIs
    <3> QED
      BY <3>2 DEF ListEntries
  <2>2. b \in Seq(SUBSET EntryRecs) /\ Len(b) = Len(s) + 1 /\ Len(s) \in Nat /\ b[Len(s) + 1] = new
        /\ \A k \in 1..Len(s) : b[k] = s[k]
    <3> HIDE DEF new, s
    <3>1. s \in Seq(SUBSET EntryRecs)
      BY <1>2 DEF s
    <3> QED
      BY <2>1, <3>1
  <2>3. \A k \in 1..(Len(b) - 1) : b[k] # {}
    BY <1>1, <2>2
  <2> HIDE DEF new, b
  <2>4. /\ t \in Seq(SUBSET EntryRecs) /\ Len(t) \in {Len(s), Len(s) + 1}
        /\ \A k \in 1..Len(t) : t[k] = b[k] /\ t[k] # {}
        /\ Len(t) # Len(b) => b[Len(b)] = {}
    <3>1. /\ t \in Seq(SUBSET EntryRecs) /\ Len(t) \in {Len(b) - 1, Len(b)}
          /\ \A k \in 1..Len(t) : t[k] = b[k] /\ b[k] # {}
          /\ Len(t) # Len(b) => b[Len(b)] = {}
      <4>1. Len(b) > 0 /\ b \in Seq(SUBSET EntryRecs)
        BY <2>2
      <4> HIDE DEF s
      <4> QED
        BY <2>3, <4>1, TrimIs
    <3> HIDE DEF s, t
    <3> QED
      BY <2>2, <3>1
  <2>5. bl \in BOOLEAN
    BY Zenon
  <2>6. walk' = [walk EXCEPT ![p] = v]
    BY <1>3, Zenon DEF b, new
  <2> HIDE DEF t, s, bl
  <2>7. v \in Walks /\ v.stack = t /\ v.visited = Visit(c, w) /\ v.sum = w.sum
    <3>1. Visit(c, w) \in SUBSET Paths
      BY <1>0, <1>1 DEF Walks, Visit
    <3> QED
      BY <1>0, <2>4, <2>5, <3>1 DEF Walks
  <2>8. v.blind = bl
    BY <1>0, SMT DEF Walks
  <2>9. (v.blind <=> (w.blind \/ un # {}))
    BY <2>8, Zenon DEF bl
  <2> HIDE DEF v
  <2>10. Local("entries", c, v) /\ "entries" \in Places \ {"idle"}
    BY <1>0, <2>4, <2>7, CommandIs DEF Local, Places
  <2>11. TreeStep
    BY <1>3, TreeRests
  <2>12. StepOf(p) /\ pc'[p] = "entries" /\ walk'[p] = v /\ cmd'[p] = cmd[p] /\ rep'[p] = rep[p]
    BY <1>0, <1>3, <2>6, <2>7, <2>10, <2>11, GoesOn DEF GoTo
  <2>13. Len(t) = Len(s) => new = {}
    BY <2>2, <2>4
  <2>14. /\ \A k \in 1..Len(s) : t[k] = s[k]
         /\ Len(t) = Len(s) + 1 => t[Len(s) + 1] = new
    BY <2>2, <2>4
  <2>15. walk'[p].stack = t /\ walk'[p].visited = Visit(c, w) /\ walk'[p].sum = w.sum
         /\ (walk'[p].blind <=> (w.blind \/ un # {}))
    BY <2>7, <2>9, <2>12
  <2> QED
    BY <2>1, <2>4, <2>12, <2>13, <2>14, <2>15 DEF s, new
<1>4. CASE Fail(p)
  <2>1. rep'[p] = [verdict |-> "error", used |-> 0]
    BY <1>0, <1>4, Fails
  <2>2. rep'[p].verdict = "error"
    BY <2>1
  <2> QED
    BY <1>0, <1>4, <2>2, Fails DEF Fail
<1>5. ASSUME NEW u \in {0, w.sum}, Return(p, "ok", u), walk' = [walk EXCEPT ![p].failed = TRUE],
             UNCHANGED <<tree, size, cmd, created>>
      PROVE  /\ StepOf(p) /\ cmd'[p] = cmd[p] /\ pc'[p] = "done" /\ walk'[p].failed = TRUE
             /\ rep'[p].verdict = "ok" /\ rep'[p].used \in {0, w.sum}
  <2> DEFINE v == [w EXCEPT !.failed = TRUE]
  <2>0. u \in Nat
    BY <1>2
  <2>1. v \in Walks /\ v.stack = w.stack /\ v.failed = TRUE
    BY <1>0 DEF Walks
  <2>2. walk' = [walk EXCEPT ![p] = v]
    BY <1>5
  <2> HIDE DEF v
  <2>3. TreeStep /\ created' \subseteq Paths \ {Root}
    BY <1>5, TreeRests DEF Base
  <2>4. Base' /\ OnlyOne(p) /\ pc'[p] = "done" /\ walk'[p] = v /\ cmd'[p] = cmd[p]
        /\ rep'[p] = [verdict |-> "ok", used |-> u]
    <3>1. pc[p] # "idle" /\ Return(p, "ok", u) /\ cmd' = cmd /\ v.stack = walk[p].stack
      BY <1>0, <1>5, <2>1
    <3> QED
      BY ZenonT(60), <2>0, <2>1, <2>2, <2>3, <3>1, Returns
  <2>5. rep'[p].verdict = "ok" /\ rep'[p].used = u
    BY <2>4
  <2> QED
    BY <1>5, <2>1, <2>3, <2>4, <2>5 DEF StepOf
<1> QED
  BY <1>0, <1>3, <1>4, <1>5 DEF List, WalkFails, ListEntries

\* The next entry of the innermost listing.
LEMMA EntryStep ==
  ASSUME Base, NEW p \in Procs, Entry(p), fsType' = fsType
  PROVE  /\ StepOf(p) /\ pc[p] = "entries" /\ cmd'[p] = cmd[p] /\ created' = created /\ UNCHANGED <<tree, size>>
         /\ rep'[p] = rep[p] /\ walk'[p].visited = walk[p].visited /\ walk[p].stack # <<>>
         /\ \E e \in walk[p].stack[Len(walk[p].stack)] :
              LET s == walk[p].stack
                  t == walk'[p].stack
              IN /\ Len(t) \in {Len(s) - 1, Len(s)}
                 /\ \A k \in 1..Len(t) : t[k] = IF k = Len(s) THEN s[k] \ {e} ELSE s[k]
                 /\ Len(t) # Len(s) => s[Len(s)] = {e}
                 /\ \/ /\ e.dir /\ pc'[p] = "list" /\ walk'[p].dir = e.path
                       /\ walk'[p].sum = walk[p].sum /\ (walk'[p].blind <=> walk[p].blind)
                    \/ /\ ~e.dir /\ pc'[p] = "entries"
                       /\ \E m \in Measured(cmd[p], e) :
                            /\ walk'[p].sum = walk[p].sum + m[1]
                            /\ (walk'[p].blind <=> (walk[p].blind \/ ~m[2]))
<1> DEFINE w == walk[p]
           c == cmd[p]
           s == w.stack
           top == Len(s)
<1>0. pc[p] = "entries" /\ w \in Walks /\ c \in Commands /\ Local("entries", c, w) /\ w.stack # <<>>
      /\ walk = [walk EXCEPT ![p] = w] /\ UNCHANGED <<tree, size, cmd, rep, created>>
  <2>1. pc[p] = "entries" /\ w.stack # <<>> /\ UNCHANGED <<tree, size, cmd, rep, created>>
    BY Zenon DEF Entry
  <2> QED
    BY <2>1, Here
<1>1. \A k \in 1..Len(s) : s[k] # {}
  BY <1>0 DEF Local
<1>2. s \in Seq(SUBSET EntryRecs) /\ w.sum \in Nat
  BY <1>0 DEF Walks
<1>3. top \in Nat \ {0} /\ top \in 1..top
  BY <1>0, <1>2
<1>4. PICK e \in s[top] :
         LET rest == Trim([s EXCEPT ![top] = @ \ {e}])
         IN \/ /\ e.dir /\ walk' = [walk EXCEPT ![p] = [w EXCEPT !.stack = rest, !.dir = e.path]]
               /\ GoTo(p, "list")
            \/ /\ ~e.dir
               /\ \E m \in Measured(c, e) :
                    walk' = [walk EXCEPT ![p] = [w EXCEPT !.stack = rest, !.sum = @ + m[1], !.blind = @ \/ ~m[2]]]
               /\ UNCHANGED pc
  BY Zenon DEF Entry
<1>5. e \in EntryRecs
  BY <1>2, <1>3
<1>6. e.path \in Paths /\ e.path # Root /\ e.size \in Nat
  BY <1>5 DEF EntryRecs
<1> DEFINE b == [s EXCEPT ![top] = @ \ {e}]
           t == Trim(b)
<1>7. b \in Seq(SUBSET EntryRecs) /\ Len(b) = top /\ \A k \in 1..top : b[k] = IF k = top THEN s[k] \ {e} ELSE s[k]
  <2> HIDE DEF s
  <2> HIDE DEF top
  <2>1. s \in Seq(SUBSET EntryRecs) /\ s[top] \ {e} \in SUBSET EntryRecs /\ top \in 1..Len(s) /\ top = Len(s)
    BY <1>2, <1>3 DEF top
  <2>2. \A T : \A x \in Seq(T), v \in T : \A k \in 1..Len(x) :
          /\ [x EXCEPT ![k] = v] \in Seq(T) /\ Len([x EXCEPT ![k] = v]) = Len(x)
          /\ \A m \in 1..Len(x) : [x EXCEPT ![k] = v][m] = IF m = k THEN v ELSE x[m]
    OBVIOUS
  <2>3. b = [s EXCEPT ![top] = s[top] \ {e}]
    OBVIOUS
  <2> HIDE DEF b
  <2>4. /\ b \in Seq(SUBSET EntryRecs) /\ Len(b) = Len(s)
        /\ \A m \in 1..Len(s) : b[m] = IF m = top THEN s[top] \ {e} ELSE s[m]
    BY <2>1, <2>2, <2>3
  <2> QED
    BY <2>1, <2>4
<1> HIDE DEF b
<1>8. /\ t \in Seq(SUBSET EntryRecs) /\ Len(t) \in {top - 1, top}
      /\ \A k \in 1..Len(t) : t[k] = b[k] /\ b[k] # {}
      /\ Len(t) # top => b[top] = {}
  <2>1. Len(b) > 0 /\ Len(b) = top
    BY <1>3, <1>7
  <2>2. \A k \in 1..(Len(b) - 1) : b[k] # {}
    <3>1. \A k \in 1..(top - 1) : k \in 1..top /\ k # top
      BY <1>3
    <3> HIDE DEF top
    <3>2. \A k \in 1..(top - 1) : b[k] = s[k]
      BY <1>7, <3>1
    <3>3. \A k \in 1..(top - 1) : s[k] # {}
      BY <1>1, <3>1 DEF top
    <3> QED
      BY <2>1, <3>2, <3>3
  <2>3. /\ t \in Seq(SUBSET EntryRecs) /\ Len(t) \in {Len(b) - 1, Len(b)}
        /\ \A k \in 1..Len(t) : t[k] = b[k] /\ b[k] # {}
        /\ Len(t) # Len(b) => b[Len(b)] = {}
    <3> HIDE DEF top, s
    <3> QED
      BY <1>7, <2>1, <2>2, TrimIs
  <2> HIDE DEF top, s, t
  <2> QED
    BY <2>1, <2>3
<1>9. /\ Len(t) \in {Len(s) - 1, Len(s)}
      /\ \A k \in 1..Len(t) : t[k] = IF k = Len(s) THEN s[k] \ {e} ELSE s[k]
      /\ Len(t) # Len(s) => s[Len(s)] = {e}
  <2>1. \A k \in 1..Len(t) : k \in 1..top
    <3> HIDE DEF t, s
    <3> QED
      BY <1>3, <1>8
  <2>2. Len(t) # top => s[top] = {e}
    BY <1>3, <1>4, <1>7, <1>8
  <2> HIDE DEF t
  <2> QED
    BY <1>7, <1>8, <2>1, <2>2
<1>10. TreeStep
  BY <1>0, TreeRests
<1> HIDE DEF t
<1>11. CASE e.dir /\ walk' = [walk EXCEPT ![p] = [w EXCEPT !.stack = t, !.dir = e.path]] /\ GoTo(p, "list")
  <2> DEFINE v == [w EXCEPT !.stack = t, !.dir = e.path]
  <2>1. v \in Walks /\ v.stack = t /\ v.dir = e.path /\ v.visited = w.visited /\ v.sum = w.sum
    BY <1>0, <1>6, <1>8 DEF Walks
  <2>2. (v.blind <=> w.blind)
    BY <1>0, SMT DEF Walks
  <2>3. walk' = [walk EXCEPT ![p] = v] /\ pc' = [pc EXCEPT ![p] = "list"]
    BY <1>11 DEF GoTo
  <2> HIDE DEF v
  <2>4. Local("list", c, v) /\ "list" \in Places \ {"idle"}
    BY <1>0, <1>6, <1>8, <2>1, CommandIs DEF Local, Places
  <2>5. StepOf(p) /\ pc'[p] = "list" /\ walk'[p] = v /\ cmd'[p] = cmd[p] /\ rep'[p] = rep[p]
    BY <1>0, <1>10, <2>1, <2>3, <2>4, GoesOn
  <2> QED
    BY ZenonT(60), <1>0, <1>9, <1>11, <2>1, <2>2, <2>5 DEF s, top
<1>12. CASE /\ ~e.dir /\ UNCHANGED pc
            /\ \E m \in Measured(c, e) :
                 walk' = [walk EXCEPT ![p] = [w EXCEPT !.stack = t, !.sum = @ + m[1], !.blind = @ \/ ~m[2]]]
  <2>1. PICK m \in Measured(c, e) :
          walk' = [walk EXCEPT ![p] = [w EXCEPT !.stack = t, !.sum = @ + m[1], !.blind = @ \/ ~m[2]]]
    BY <1>12, Zenon
  <2>2. m[1] \in Nat
    <3>1. SizeAt(e.path) \in Nat
      BY <1>6, SizeAtIsNat
    <3>2. m = <<e.size, TRUE>> \/ m = <<SizeAt(e.path), TRUE>> \/ m = <<0, FALSE>>
      BY Zenon DEF Measured
    <3>3. \A x, y : <<x, y>>[1] = x
      OBVIOUS
    <3>4. m[1] = e.size \/ m[1] = SizeAt(e.path) \/ m[1] = 0
      BY <3>2, <3>3, Zenon
    <3> QED
      BY <1>6, <3>1, <3>4
  <2> DEFINE bl == w.blind \/ ~m[2]
             v == [w EXCEPT !.stack = t, !.sum = @ + m[1], !.blind = bl]
  <2>3. bl \in BOOLEAN
    BY Zenon
  <2>4. walk' = [walk EXCEPT ![p] = v]
    BY <2>1, Zenon
  <2> HIDE DEF bl
  <2>5. v \in Walks /\ v.stack = t /\ v.visited = w.visited /\ v.sum = w.sum + m[1]
    <3>1. w.sum + m[1] \in Nat
      BY <1>2, <2>2
    <3> DEFINE sum == w.sum + m[1]
    <3> HIDE DEF sum
    <3>2. sum \in Nat
      BY <3>1 DEF sum
    <3>3. v = [w EXCEPT !.stack = t, !.sum = sum, !.blind = bl]
      BY DEF sum
    <3> HIDE DEF v
    <3>4. v \in Walks /\ v.stack = t /\ v.visited = w.visited /\ v.sum = sum
      BY <1>0, <1>8, <2>3, <3>2, <3>3 DEF Walks
    <3> QED
      BY <3>4 DEF sum
  <2>6. v.blind = bl
    BY <1>0, SMT DEF Walks
  <2>7. (v.blind <=> (w.blind \/ ~m[2]))
    BY <2>6, Zenon DEF bl
  <2> HIDE DEF v
  <2>8. Local("entries", c, v) /\ "entries" \in Places \ {"idle"} /\ pc' = [pc EXCEPT ![p] = "entries"]
    BY SMTT(30), <1>0, <1>8, <1>12, <2>5, CommandIs, Here DEF Local, Places
  <2>9. StepOf(p) /\ pc'[p] = "entries" /\ walk'[p] = v /\ cmd'[p] = cmd[p] /\ rep'[p] = rep[p]
    BY <1>0, <1>10, <2>4, <2>5, <2>8, GoesOn
  <2>10. /\ walk'[p].sum = walk[p].sum + m[1] /\ (walk'[p].blind <=> (walk[p].blind \/ ~m[2]))
         /\ walk'[p].stack = t /\ walk'[p].visited = walk[p].visited
    BY <2>5, <2>7, <2>9, Zenon
  <2> QED
    BY <1>0, <1>9, <1>12, <2>9, <2>10, Zenon DEF s, top
<1> QED
  BY <1>4, <1>11, <1>12, Zenon DEF b, t

\* The walk is over.
LEMMA WalkDoneStep ==
  ASSUME Base, NEW p \in Procs, WalkDone(p), fsType' = fsType
  PROVE  /\ StepOf(p) /\ pc[p] = "entries" /\ cmd'[p] = cmd[p] /\ created' = created /\ UNCHANGED <<tree, size>>
         /\ pc'[p] = "done" /\ walk'[p] = walk[p] /\ walk[p].stack = <<>>
         /\ \/ rep'[p].verdict = "ok" /\ rep'[p].used = walk[p].sum
            \/ rep'[p].verdict = "error"
<1>0. pc[p] = "entries" /\ walk[p] \in Walks /\ walk[p].stack = <<>> /\ walk = [walk EXCEPT ![p] = walk[p]]
  BY Here DEF WalkDone
<1>1. walk[p].sum \in Nat
  BY <1>0 DEF Walks
<1>2. CASE Fail(p)
  <2>1. rep'[p] = [verdict |-> "error", used |-> 0]
    BY <1>0, <1>2, Fails
  <2>2. rep'[p].verdict = "error"
    BY <2>1
  <2> QED
    BY <1>0, <1>2, <2>2, Fails DEF Fail
<1>3. CASE Return(p, "ok", walk[p].sum) /\ UNCHANGED <<tree, size, cmd, walk, created>>
  <2>1. TreeStep /\ created' \subseteq Paths \ {Root} /\ walk' = [walk EXCEPT ![p] = walk[p]]
    BY <1>0, <1>3, TreeRests DEF Base
  <2>2. Base' /\ OnlyOne(p) /\ pc'[p] = "done" /\ walk'[p] = walk[p] /\ cmd'[p] = cmd[p]
        /\ rep'[p] = [verdict |-> "ok", used |-> walk[p].sum]
    <3>1. pc[p] # "idle" /\ Return(p, "ok", walk[p].sum) /\ cmd' = cmd /\ fsType' = fsType
      BY <1>0, <1>3
    <3> QED
      BY <1>0, <1>1, <2>1, <3>1, Returns
  <2>3. rep'[p].verdict = "ok" /\ rep'[p].used = walk[p].sum
    BY <2>2
  <2> QED
    BY <1>0, <1>3, <2>1, <2>2, <2>3 DEF StepOf
<1> QED
  BY <1>2, <1>3 DEF WalkDone

------------------------------------------------------------------------------
(* Types, and datasets *)

\* The segments that "zfs create" has gone past are there.
GonePast(p) ==
  pc[p] \in {"stat", "mkdir"} =>
    \A k \in 1..(walk[p].seg - 1) : tree[Lineage[cmd[p].path][k]] # Absent

CreatedInv ==
  /\ Base /\ Rooted
  /\ \A q \in created : tree[q] # Absent
  /\ \A p \in Procs : GonePast(p)

\* One segment more.
LEMMA OneSegmentMore ==
  ASSUME Base, Base', Grows, NEW p \in Procs, GonePast(p), pc[p] \in {"stat", "mkdir"}, pc'[p] = "stat",
         cmd'[p] = cmd[p], walk'[p].seg = walk[p].seg + 1,
         tree'[Lineage[cmd[p].path][walk[p].seg]] # Absent
  PROVE  GonePast(p)'
<1> DEFINE n == walk[p].seg
           s == Lineage[cmd[p].path]
<1>1. n \in 1..(LastSegment(cmd[p]) + 1) /\ walk'[p].seg \in 1..(LastSegment(cmd[p]) + 1)
      /\ cmd[p] \in Commands /\ LastSegment(cmd[p]) \in Nat
  <2>1. Local(pc[p], cmd[p], walk[p]) /\ Local(pc[p], cmd[p], walk[p])'
    BY DEF Base
  <2>2. cmd[p] \in Commands
    BY Here
  <2> QED
    BY <2>1, <2>2, CommandIs DEF Local, LastSegment
<1>2. ASSUME NEW k \in 1..n PROVE tree'[s[k]] # Absent
  <2>1. CASE k = n
    BY <2>1
  <2>2. CASE k # n
    <3>1. k \in 1..(n - 1) /\ k \in 1..LastSegment(cmd[p])
      BY <1>1, <2>2
    <3>2. tree[s[k]] # Absent /\ s[k] \in Paths
      BY <1>1, <3>1, CommandIs DEF GonePast
    <3> QED
      BY <3>2 DEF Grows
  <2> QED
    BY <2>1, <2>2
<1>3. walk'[p].seg - 1 = n
  BY <1>1
<1> QED
  BY <1>2, <1>3 DEF GonePast

\* What was passed is still there when nothing moves.
LEMMA StillPast ==
  ASSUME Base, Grows, NEW p \in Procs, GonePast(p), pc[p] \in {"stat", "mkdir"},
         cmd'[p] = cmd[p], walk'[p] = walk[p]
  PROVE  GonePast(p)'
<1>1. cmd[p] \in Commands /\ LastSegment(cmd[p]) \in Nat /\ walk[p].seg \in 1..(LastSegment(cmd[p]) + 1)
  BY Here, CommandIs DEF Local
<1>2. ASSUME NEW k \in 1..(walk[p].seg - 1) PROVE tree'[Lineage[cmd[p].path][k]] # Absent
  <2>1. k \in 1..LastSegment(cmd[p])
    BY <1>1
  <2>2. Lineage[cmd[p].path][k] \in Paths
    BY <1>1, <2>1, CommandIs
  <2> QED
    BY <2>2 DEF GonePast, Grows
<1> QED
  BY <1>2 DEF GonePast

\* A step of a process that is not, or no longer, in the loop.
LEMMA NotInLoop ==
  ASSUME NEW p \in Procs, pc'[p] \notin {"stat", "mkdir"} PROVE GonePast(p)'
BY DEF GonePast

\* Every step is a step of one process, that keeps what it has passed.
LEMMA AnyStep ==
  ASSUME CreatedInv, NEW p \in Procs, Begin(p) \/ Work(p) \/ Exit(p), fsType' = fsType
  PROVE  /\ StepOf(p) /\ GonePast(p)'
         /\ \A q \in created' \ created : tree'[q] # Absent
<1>0. Base /\ GonePast(p) /\ tree \in Trees
  BY DEF CreatedInv, Base
<1>1. StepOf(p) => Grows
  BY <1>0, EntriesStay DEF StepOf
<1>2. CASE Begin(p)
  <2>1. PICK c \in Commands : Start(p, c) \/ Refuse(p, c)
    BY <1>2 DEF Begin
  <2>2. StepOf(p) /\ created' = created /\ pc'[p] \notin {"stat", "mkdir"}
    BY <1>0, <2>1, StartStep, RefuseStep
  <2> QED
    BY <2>2, NotInLoop
<1>3. CASE Exit(p)
  BY <1>0, <1>3, ExitStep, NotInLoop
<1>4. CASE Detect(p) \/ Open(p)
  <2>1. CASE pc'[p] = "stat"
    <3>1. StepOf(p) /\ walk'[p] = walk[p] /\ walk[p].seg = 1 /\ created' = created
      BY <1>0, <1>4, <2>1, OpenStep
    <3>2. \A k \in 1..(walk'[p].seg - 1) : FALSE
      BY <3>1
    <3> QED
      BY <3>1, <3>2 DEF GonePast
  <2>2. CASE pc'[p] # "stat"
    <3>1. StepOf(p) /\ pc'[p] \notin {"stat", "mkdir"} /\ created' = created
      BY <1>0, <1>4, <2>2, OpenStep
    <3> QED
      BY <3>1, NotInLoop
  <2> QED
    BY <2>1, <2>2
<1>5. CASE Apply(p)
  BY <1>0, <1>5, ApplyStep, NotInLoop
<1>6. CASE CreateStat(p)
  <2>1. StepOf(p) /\ pc[p] = "stat" /\ cmd'[p] = cmd[p] /\ created' = created /\ tree' = tree
    BY <1>0, <1>6, CreateStatStep
  <2>2. CASE pc'[p] = "stat" /\ walk'[p].seg = walk[p].seg + 1 /\ tree[Lineage[cmd[p].path][walk[p].seg]] # Absent
    <3>1. Base'
      BY <2>1 DEF StepOf
    <3> QED
      BY <1>0, <1>1, <2>1, <2>2, <3>1, OneSegmentMore
  <2>3. CASE pc'[p] = "mkdir" /\ walk'[p] = walk[p]
    BY <1>0, <1>1, <2>1, <2>3, StillPast
  <2> QED
    BY <1>0, <1>6, <2>2, <2>3, CreateStatStep
<1>7. CASE CreateMkDir(p)
  <2>1. StepOf(p) /\ pc[p] = "mkdir" /\ cmd'[p] = cmd[p] /\ created' = created
    BY <1>0, <1>7, CreateMkDirStep
  <2>2. CASE pc'[p] = "stat" /\ walk'[p].seg = walk[p].seg + 1 /\ tree'[Lineage[cmd[p].path][walk[p].seg]] = Dir
    <3>1. Base'
      BY <2>1 DEF StepOf
    <3>2. tree'[Lineage[cmd[p].path][walk[p].seg]] # Absent
      BY <2>2, RootLineage
    <3> QED
      BY <1>0, <1>1, <2>1, <2>2, <3>1, <3>2, OneSegmentMore
  <2>3. CASE pc'[p] = "done"
    BY <2>1, <2>3, NotInLoop
  <2> QED
    BY <1>0, <1>7, <2>2, <2>3, CreateMkDirStep
<1>8. CASE CreateDone(p)
  <2>1. /\ StepOf(p) /\ pc[p] = "stat" /\ pc'[p] = "done" /\ tree' = tree
        /\ walk[p].seg = LastSegment(cmd[p]) + 1
        /\ \/ created' = created
           \/ created' = created \cup {cmd[p].path} /\ cmd[p].path # Root
    BY <1>0, <1>8, CreateDoneStep
  <2>2. ASSUME cmd[p].path # Root PROVE tree'[cmd[p].path] # Absent
    <3>1. cmd[p] \in Commands /\ cmd[p].path \in Paths \ {Root}
      BY <1>0, <2>1, <2>2, Here, CommandIs
    <3>2. LastSegment(cmd[p]) = Len(Lineage[cmd[p].path])
      BY DEF LastSegment
    <3>3. Len(Lineage[cmd[p].path]) \in Nat \ {0} /\ Lineage[cmd[p].path][Len(Lineage[cmd[p].path])] = cmd[p].path
      BY <3>1, LineageIs
    <3>4. LastSegment(cmd[p]) \in 1..(walk[p].seg - 1)
      BY <2>1, <3>2, <3>3
    <3> QED
      BY <1>0, <2>1, <3>2, <3>3, <3>4 DEF GonePast
  <2> QED
    BY <2>1, <2>2, NotInLoop
<1>9. CASE List(p)
  BY <1>0, <1>9, ListStep, NotInLoop
<1>10. CASE Entry(p)
  <2>1. StepOf(p) /\ created' = created /\ pc'[p] \in {"list", "entries"}
    BY <1>0, <1>10, EntryStep
  <2> QED
    BY <2>1, NotInLoop
<1>11. CASE WalkDone(p)
  BY <1>0, <1>11, WalkDoneStep, NotInLoop
<1> QED
  BY <1>2, <1>3, <1>4, <1>5, <1>6, <1>7, <1>8, <1>9, <1>10, <1>11 DEF Work

\* The inductive invariant.
LEMMA NextCreated ==
  ASSUME CreatedInv, [Next]_vars PROVE CreatedInv'
<1>1. CASE UNCHANGED vars
  BY <1>1 DEF vars, CreatedInv, Base, Rooted, GonePast, Trees, Places, Walks, EntryRecs, Reports, Local, LastSegment
<1>2. CASE Next
  <2>1. PICK p \in Procs : Begin(p) \/ Work(p) \/ Exit(p)
    BY <1>2 DEF Next
  <2>2. /\ StepOf(p) /\ GonePast(p)' /\ \A q \in created' \ created : tree'[q] # Absent
    BY <1>2, <2>1, AnyStep DEF Next
  <2>3. Base /\ Base' /\ Rooted' /\ Grows
    BY <2>2, EntriesStay, StaysRooted DEF CreatedInv, Base, StepOf
  <2>4. \A q \in created' : tree'[q] # Absent
    <3>1. \A q \in created : q \in Paths /\ tree[q] # Absent
      BY DEF CreatedInv, Base
    <3> QED
      BY <2>2, <2>3, <3>1 DEF Grows
  <2>5. ASSUME NEW o \in Procs PROVE GonePast(o)'
    <3>1. CASE o = p
      BY <2>2, <3>1
    <3>2. CASE o # p
      <4>1. pc'[o] = pc[o] /\ cmd'[o] = cmd[o] /\ walk'[o] = walk[o]
        BY <2>2, <3>2 DEF StepOf, OnlyOne
      <4>2. GonePast(o)
        BY DEF CreatedInv
      <4> QED
        BY <2>3, <4>1, <4>2, StillPast, NotInLoop
    <3> QED
      BY <3>1, <3>2
  <2> QED
    BY <2>3, <2>4, <2>5 DEF CreatedInv
<1> QED
  BY <1>1, <1>2

\* It holds at first.
LEMMA InitCreated ==
  ASSUME Init PROVE CreatedInv
<1>1. tree \in Trees /\ Rooted /\ fsType \in Families
  BY ExecAssumption DEF Init, Trees, Rooted
<1>2. size \in [Inodes -> Sizes]
  <2>1. 0 \in Sizes /\ 1 \in Sizes
    BY ExecAssumption
  <2> QED
    BY <2>1 DEF Init
<1>3. /\ pc \in [Procs -> Places] /\ cmd \in [Procs -> Commands \cup {NoCommand}]
      /\ walk \in [Procs -> Walks] /\ rep \in [Procs -> Reports] /\ created = {}
  <2>1. "idle" \in Places /\ NoReport \in Reports
    BY DEF Places, Reports, NoReport
  <2> QED
    BY <2>1, FirstWalk DEF Init
<1>4. ASSUME NEW p \in Procs PROVE Local(pc[p], cmd[p], walk[p]) /\ GonePast(p)
  BY DEF Init, Local, NoWalk, GonePast
<1> QED
  BY <1>1, <1>2, <1>3, <1>4 DEF CreatedInv, Base

\* The invariant of every run.
THEOREM CreatedInvariant == Spec => []CreatedInv
  BY InitCreated, NextCreated, PTL DEF Spec

\* Every variable keeps its type: no process runs past its dataset's segments, or keeps a
\* frame with nothing in it.
THEOREM TypeCorrect == Spec => []TypeOK
<1>1. ASSUME CreatedInv PROVE TypeOK
  <2>1. Base
    BY <1>1 DEF CreatedInv
  <2>2. ASSUME NEW p \in Procs
        PROVE  /\ pc[p] \in Places /\ cmd[p] \in Commands \cup {NoCommand} /\ walk[p].sum \in Nat
               /\ (cmd[p] = NoCommand <=> pc[p] = "idle")
               /\ pc[p] \in {"stat", "mkdir"} => walk[p].seg \in 1..(LastSegment(cmd[p]) + 1)
               /\ pc[p] = "mkdir" => walk[p].seg <= LastSegment(cmd[p])
               /\ \A i \in 1..Len(walk[p].stack) : walk[p].stack[i] # {}
    <3>1. walk[p] \in Walks
      BY <2>1, Here
    <3> QED
      BY <2>1, <3>1, Here DEF Local, Walks
  <2>3. ASSUME NEW p \in Procs PROVE (cmd[p] = NoCommand) = (pc[p] = "idle")
    BY <2>2, Zenon
  <2> QED
    BY <2>1, <2>2, <2>3 DEF TypeOK, Base, Trees, Places
<1> QED
  BY <1>1, CreatedInvariant, PTL

\* A dataset that "zfs create" confirmed is there ever after, and so are the directories
\* above it.
THEOREM StaysCreated == Spec => []CreatedStays
<1>1. ASSUME CreatedInv PROVE CreatedStays
  <2>1. ASSUME NEW q \in created
        PROVE  tree[q] # Absent /\ \A i \in 1..(LastSegment([path |-> q]) - 1) : tree[Lineage[q][i]] = Dir
    <3>1. q \in Paths /\ tree[q] # Absent /\ Rooted
      BY <1>1 DEF CreatedInv, Base
    <3>2. LastSegment([path |-> q]) = Len(Lineage[q])
      BY DEF LastSegment
    <3> QED
      BY <3>1, <3>2 DEF Rooted
  <2> QED
    BY <2>1 DEF CreatedStays
<1> QED
  BY <1>1, CreatedInvariant, PTL

------------------------------------------------------------------------------
(* Sums over paths *)

\* A set of naturals that is not empty has a least element.
LEMMA LeastOf ==
  ASSUME NEW T, T \subseteq Nat, T # {}
  PROVE  \E x \in T : \A y \in T : x <= y
<1> DEFINE R == {p \in Nat \X Nat : p[1] < p[2]}
<1>1. R = OpToRel(<, Nat)
  BY DEF OpToRel
<1>2. IsWellFoundedOn(R, Nat)
  BY <1>1, NatLessThanWellFounded
<1> HIDE DEF R
<1>3. PICK x \in T : \A y \in T : ~(<<y, x>> \in R)
  BY <1>2, WFMin
<1>4. ASSUME NEW y \in T, ~(x <= y) PROVE FALSE
  <2>1. x \in Nat /\ y \in Nat
    OBVIOUS
  <2>2. <<y, x>> \in R
    BY <1>4, <2>1 DEF R
  <2> QED
    BY <1>3, <2>2
<1> QED
  BY <1>4

\* The number of elements of a set of paths.
LEMMA PathSetSize ==
  ASSUME NEW s \in SUBSET Paths
  PROVE  /\ Cardinality(s) \in Nat
         /\ \A x \in s : s \ {x} \in SUBSET Paths /\ Cardinality(s \ {x}) < Cardinality(s)
<1>1. IsFiniteSet(s)
  BY ExecAssumption, FS_Subset
<1>2. Cardinality(s) \in Nat
  BY <1>1, FS_CardinalityType
<1>3. ASSUME NEW x \in s PROVE Cardinality(s \ {x}) < Cardinality(s)
  <2>1. Cardinality(s \ {x}) = Cardinality(s) - 1
    BY <1>1, FS_RemoveElement
  <2> QED
    BY <1>2, <2>1
<1> QED
  BY <1>2, <1>3

\* Of the sets of paths in T, one is smallest.
LEMMA SmallestSet ==
  ASSUME NEW T, T \subseteq SUBSET Paths, T # {}
  PROVE  \E s \in T : \A t \in T : ~(Cardinality(t) < Cardinality(s))
<1> DEFINE N == {Cardinality(t) : t \in T}
<1>1. N \subseteq Nat /\ N # {}
  BY PathSetSize
<1> HIDE DEF N
<1>2. PICK n \in N : \A m \in N : n <= m
  BY <1>1, LeastOf
<1>3. PICK s \in T : n = Cardinality(s)
  BY DEF N
<1>4. ASSUME NEW t \in T PROVE ~(Cardinality(t) < Cardinality(s))
  <2>1. n <= Cardinality(t)
    BY <1>2 DEF N
  <2> QED
    BY <1>3, <2>1, PathSetSize
<1> QED
  BY <1>4

Some(s) == CHOOSE x \in s : TRUE

\* One step of the sum that MapThenSumSet makes.
Plus(f, g, s) == IF s = {} THEN 0 ELSE f[Some(s)] + g[s \ {Some(s)}]
Summing(f) == CHOOSE g : g = [s \in SUBSET Paths |-> Plus(f, g, s)]

\* The sum of f over s.
SumOn(f, s) == Summing(f)[s]

\* SumOver is the sum over all paths.
LEMMA SumOverIs ==
  ASSUME NEW f PROVE SumOver(f) = SumOn(f, Paths)
BY DEF SumOver, SumOn, Summing, Plus, Some, MapThenSumSet, MapThenFoldSet

\* There is a function that sums up.
LEMMA SummingExists ==
  ASSUME NEW f \in [Paths -> Nat]
  PROVE  \E g : g = [s \in SUBSET Paths |-> Plus(f, g, s)]
<1> DEFINE Upto(n, g) == \A s \in SUBSET Paths : Cardinality(s) <= n => g[s] = Plus(f, g, s)
           T == {n \in Nat : ~\E g \in [SUBSET Paths -> Nat] : Upto(n, g)}
<1>1. T = {}
  <2>1. SUFFICES ASSUME T # {} PROVE FALSE
    OBVIOUS
  <2>2. T \subseteq Nat
    OBVIOUS
  <2>3. PICK n \in T : \A m \in T : n <= m
    <3> HIDE DEF T
    <3> QED
      BY <2>1, <2>2, LeastOf
  <2>4. n \in Nat /\ ~\E g \in [SUBSET Paths -> Nat] : Upto(n, g)
    OBVIOUS
  <2>5. CASE n = 0
    <3> DEFINE g == [s \in SUBSET Paths |-> 0]
    <3>1. \A s \in SUBSET Paths : Cardinality(s) <= 0 => s = {}
      <4>1. ASSUME NEW s \in SUBSET Paths, Cardinality(s) <= 0, NEW x \in s PROVE FALSE
        <5>1. s \ {x} \in SUBSET Paths /\ Cardinality(s \ {x}) < Cardinality(s) /\ Cardinality(s) \in Nat
          BY PathSetSize
        <5>2. Cardinality(s \ {x}) \in Nat
          BY <5>1, PathSetSize
        <5> QED
          BY <4>1, <5>1, <5>2
      <4> QED
        BY <4>1
    <3>2. g \in [SUBSET Paths -> Nat] /\ Upto(0, g)
      BY <3>1 DEF Plus
    <3> QED
      BY <2>4, <2>5, <3>2
  <2>6. CASE n # 0
    <3>1. n - 1 \in Nat /\ n - 1 \notin T
      <4>1. n - 1 \in Nat /\ ~(n <= n - 1)
        BY <2>4, <2>6
      <4> HIDE DEF T
      <4> QED
        BY <2>3, <4>1
    <3>2. PICK g \in [SUBSET Paths -> Nat] : Upto(n - 1, g)
      BY <3>1
    <3> DEFINE h == [s \in SUBSET Paths |-> Plus(f, g, s)]
    <3>3. ASSUME NEW s \in SUBSET Paths, s # {}
          PROVE  Some(s) \in s /\ s \ {Some(s)} \in SUBSET Paths /\ Cardinality(s \ {Some(s)}) < Cardinality(s)
                 /\ Some(s) \in Paths
      <4>1. Some(s) \in s
        BY <3>3 DEF Some
      <4> QED
        BY <4>1, PathSetSize
    <3>4. h \in [SUBSET Paths -> Nat]
      <4>1. ASSUME NEW s \in SUBSET Paths PROVE Plus(f, g, s) \in Nat
        <5>1. CASE s = {}
          BY <5>1 DEF Plus
        <5>2. CASE s # {}
          <6>1. f[Some(s)] \in Nat /\ g[s \ {Some(s)}] \in Nat
            BY <3>3, <5>2
          <6> QED
            BY <5>2, <6>1 DEF Plus
        <5> QED
          BY <5>1, <5>2
      <4> QED
        BY <4>1
    <3>5. ASSUME NEW t \in SUBSET Paths, Cardinality(t) <= n - 1 PROVE h[t] = g[t]
      BY <3>2, <3>5
    <3>6. ASSUME NEW s \in SUBSET Paths, Cardinality(s) <= n PROVE h[s] = Plus(f, h, s)
      <4>1. CASE s = {}
        BY <4>1 DEF Plus
      <4>2. CASE s # {}
        <5> DEFINE t == s \ {Some(s)}
        <5>1. t \in SUBSET Paths /\ Cardinality(t) < Cardinality(s)
          BY <3>3, <4>2
        <5>2. Cardinality(t) \in Nat /\ Cardinality(s) \in Nat
          BY <5>1, PathSetSize
        <5>3. Cardinality(t) <= n - 1
          BY <2>4, <3>6, <5>1, <5>2
        <5>4. h[t] = g[t]
          BY <3>5, <5>1, <5>3
        <5>5. h[s] = f[Some(s)] + g[t]
          BY <4>2 DEF Plus
        <5>6. Plus(f, h, s) = f[Some(s)] + h[t]
          BY <4>2 DEF Plus
        <5> QED
          BY <5>4, <5>5, <5>6
      <4> QED
        BY <4>1, <4>2
    <3>7. Upto(n, h)
      BY <3>6
    <3> HIDE DEF h
    <3> QED
      BY <2>4, <3>4, <3>7
  <2> QED
    BY <2>5, <2>6
<1>2. Cardinality(Paths) \in Nat
  BY PathSetSize
<1>3. PICK g \in [SUBSET Paths -> Nat] : Upto(Cardinality(Paths), g)
  BY <1>1, <1>2
<1>4. \A s \in SUBSET Paths : Cardinality(s) <= Cardinality(Paths)
  BY ExecAssumption, FS_Subset
<1>5. g = [s \in SUBSET Paths |-> Plus(f, g, s)]
  BY <1>3, <1>4
<1> QED
  BY <1>5

\* What the sum is.
LEMMA SumIs ==
  ASSUME NEW f \in [Paths -> Nat], NEW s \in SUBSET Paths
  PROVE  /\ SumOn(f, s) \in Nat
         /\ SumOn(f, {}) = 0
         /\ s # {} => Some(s) \in s /\ SumOn(f, s) = f[Some(s)] + SumOn(f, s \ {Some(s)})
<1> DEFINE G == Summing(f)
<1>1. G = [t \in SUBSET Paths |-> Plus(f, G, t)]
  BY SummingExists DEF Summing
<1> HIDE DEF G
<1>2. \A t \in SUBSET Paths : G[t] = Plus(f, G, t)
  BY <1>1
<1>3. G[{}] = 0
  BY <1>2 DEF Plus
<1>4. ASSUME NEW t \in SUBSET Paths, t # {}
      PROVE  Some(t) \in t /\ G[t] = f[Some(t)] + G[t \ {Some(t)}]
  BY <1>2, <1>4 DEF Plus, Some
<1> DEFINE T == {t \in SUBSET Paths : G[t] \notin Nat}
<1>5. T = {}
  <2>1. SUFFICES ASSUME T # {} PROVE FALSE
    OBVIOUS
  <2>2. PICK t \in T : \A u \in T : ~(Cardinality(u) < Cardinality(t))
    BY <2>1, SmallestSet
  <2>3. t \in SUBSET Paths /\ t # {}
    BY <1>3
  <2>4. Some(t) \in t /\ t \ {Some(t)} \in SUBSET Paths /\ Cardinality(t \ {Some(t)}) < Cardinality(t)
    BY <1>4, <2>3, PathSetSize
  <2>5. G[t \ {Some(t)}] \in Nat
    BY <2>2, <2>4
  <2>6. f[Some(t)] \in Nat
    BY <2>3, <2>4
  <2> QED
    BY <1>4, <2>3, <2>5, <2>6
<1> QED
  BY <1>3, <1>4, <1>5 DEF SumOn, G

\* Any element may be taken out first.
LEMMA SumRemove ==
  ASSUME NEW f \in [Paths -> Nat], NEW s \in SUBSET Paths, NEW x \in s
  PROVE  SumOn(f, s) = f[x] + SumOn(f, s \ {x})
<1> DEFINE Fine(t) == \A y \in t : SumOn(f, t) = f[y] + SumOn(f, t \ {y})
           T == {t \in SUBSET Paths : ~Fine(t)}
<1>1. T = {}
  <2>1. SUFFICES ASSUME T # {} PROVE FALSE
    OBVIOUS
  <2>2. PICK t \in T : \A u \in T : ~(Cardinality(u) < Cardinality(t))
    BY <2>1, SmallestSet
  <2>3. t \in SUBSET Paths /\ ~Fine(t)
    OBVIOUS
  <2>4. PICK y \in t : SumOn(f, t) # f[y] + SumOn(f, t \ {y})
    BY <2>3
  <2> DEFINE c == Some(t)
  <2>5. c \in t /\ SumOn(f, t) = f[c] + SumOn(f, t \ {c})
    BY <2>3, <2>4, SumIs
  <2> HIDE DEF c
  <2>6. c # y
    BY <2>4, <2>5
  <2>7. /\ t \ {c} \in SUBSET Paths /\ t \ {y} \in SUBSET Paths
        /\ Cardinality(t \ {c}) < Cardinality(t) /\ Cardinality(t \ {y}) < Cardinality(t)
    BY <2>3, <2>4, <2>5, PathSetSize
  <2>8. Fine(t \ {c}) /\ Fine(t \ {y})
    BY <2>2, <2>7
  <2>9. SumOn(f, t \ {c}) = f[y] + SumOn(f, (t \ {c}) \ {y})
    BY <2>4, <2>6, <2>8
  <2>10. SumOn(f, t \ {y}) = f[c] + SumOn(f, (t \ {y}) \ {c})
    BY <2>5, <2>6, <2>8
  <2>11. (t \ {c}) \ {y} = (t \ {y}) \ {c}
    OBVIOUS
  <2>12. (t \ {c}) \ {y} \in SUBSET Paths
    BY <2>7
  <2>13. SumOn(f, (t \ {c}) \ {y}) \in Nat /\ f[c] \in Nat /\ f[y] \in Nat
    BY <2>3, <2>4, <2>5, <2>12, SumIs
  <2> DEFINE a == SumOn(f, (t \ {c}) \ {y})
  <2>14. SumOn(f, t) = f[c] + (f[y] + a)
    BY <2>5, <2>9
  <2>15. SumOn(f, t \ {y}) = f[c] + a
    BY <2>10, <2>11
  <2>16. a \in Nat
    BY <2>13
  <2> HIDE DEF a
  <2>17. SumOn(f, t) = f[y] + (f[c] + a)
    BY <2>13, <2>14, <2>16
  <2> QED
    BY <2>4, <2>15, <2>17
<1>2. Fine(s)
  BY <1>1
<1> QED
  BY <1>2

\* One path more.
LEMMA SumAdd ==
  ASSUME NEW f \in [Paths -> Nat], NEW s \in SUBSET Paths, NEW x \in Paths, x \notin s
  PROVE  SumOn(f, s \cup {x}) = SumOn(f, s) + f[x]
<1>1. s \cup {x} \in SUBSET Paths /\ x \in s \cup {x} /\ (s \cup {x}) \ {x} = s
  OBVIOUS
<1>2. SumOn(f, s \cup {x}) = f[x] + SumOn(f, s)
  BY <1>1, SumRemove
<1>3. f[x] \in Nat /\ SumOn(f, s) \in Nat
  BY SumIs
<1> QED
  BY <1>2, <1>3

\* Larger sizes have a larger sum.
LEMMA SumGrows ==
  ASSUME NEW f \in [Paths -> Nat], NEW g \in [Paths -> Nat], \A q \in Paths : f[q] <= g[q],
         NEW s \in SUBSET Paths
  PROVE  SumOn(f, s) <= SumOn(g, s)
<1> DEFINE T == {t \in SUBSET Paths : ~(SumOn(f, t) <= SumOn(g, t))}
<1>1. T = {}
  <2>1. SUFFICES ASSUME T # {} PROVE FALSE
    OBVIOUS
  <2>2. PICK t \in T : \A u \in T : ~(Cardinality(u) < Cardinality(t))
    BY <2>1, SmallestSet
  <2>3. t \in SUBSET Paths /\ ~(SumOn(f, t) <= SumOn(g, t))
    OBVIOUS
  <2>4. t # {}
    <3>1. SumOn(f, {}) = 0 /\ SumOn(g, {}) = 0
      BY SumIs
    <3> HIDE DEF T
    <3>2. t = {} => SumOn(f, t) <= SumOn(g, t)
      BY <3>1
    <3> QED
      BY <2>3, <3>2
  <2> DEFINE c == Some(t)
  <2>5. c \in t
    BY <2>3, <2>4, SumIs
  <2> HIDE DEF c
  <2>6. SumOn(f, t) = f[c] + SumOn(f, t \ {c}) /\ SumOn(g, t) = g[c] + SumOn(g, t \ {c})
    BY <2>3, <2>5, SumRemove
  <2>7. t \ {c} \in SUBSET Paths /\ Cardinality(t \ {c}) < Cardinality(t)
    BY <2>3, <2>5, PathSetSize
  <2>8. SumOn(f, t \ {c}) <= SumOn(g, t \ {c})
    BY <2>2, <2>7
  <2>9. SumOn(f, t \ {c}) \in Nat /\ SumOn(g, t \ {c}) \in Nat /\ f[c] \in Nat /\ g[c] \in Nat /\ f[c] <= g[c]
    BY <2>3, <2>5, <2>7, SumIs
  <2> QED
    BY <2>3, <2>6, <2>8, <2>9
<1> QED
  BY <1>1

\* More paths have a larger sum, and the same if the others have no size.
LEMMA SumOfPart ==
  ASSUME NEW f \in [Paths -> Nat], NEW s \in SUBSET Paths
  PROVE  /\ SumOn(f, s) <= SumOn(f, Paths)
         /\ (\A q \in Paths \ s : f[q] = 0) => SumOn(f, s) = SumOn(f, Paths)
<1> DEFINE Fine(t) == /\ SumOn(f, s) <= SumOn(f, t)
                      /\ (\A q \in t \ s : f[q] = 0) => SumOn(f, s) = SumOn(f, t)
           T == {t \in SUBSET Paths : s \subseteq t /\ ~Fine(t)}
<1>1. T = {}
  <2>1. SUFFICES ASSUME T # {} PROVE FALSE
    OBVIOUS
  <2>2. PICK t \in T : \A u \in T : ~(Cardinality(u) < Cardinality(t))
    BY <2>1, SmallestSet
  <2>3. t \in SUBSET Paths /\ s \subseteq t /\ ~Fine(t)
    OBVIOUS
  <2>4. SumOn(f, s) \in Nat
    BY SumIs
  <2>5. t # s
    BY <2>3, <2>4
  <2>6. PICK x \in t : x \notin s
    BY <2>3, <2>5
  <2>7. SumOn(f, t) = f[x] + SumOn(f, t \ {x})
    BY <2>3, SumRemove
  <2>8. t \ {x} \in SUBSET Paths /\ Cardinality(t \ {x}) < Cardinality(t) /\ s \subseteq t \ {x}
    BY <2>3, <2>6, PathSetSize
  <2>9. Fine(t \ {x})
    BY <2>2, <2>8
  <2>10. f[x] \in Nat /\ SumOn(f, t \ {x}) \in Nat
    BY <2>3, <2>8, SumIs
  <2>11. SumOn(f, s) <= SumOn(f, t)
    BY <2>4, <2>7, <2>9, <2>10
  <2>12. ASSUME \A q \in t \ s : f[q] = 0 PROVE SumOn(f, s) = SumOn(f, t)
    <3>1. f[x] = 0
      BY <2>6, <2>12
    <3>2. \A q \in (t \ {x}) \ s : f[q] = 0
      BY <2>12
    <3> QED
      BY <2>7, <2>9, <2>10, <3>1, <3>2
  <2> QED
    BY <2>3, <2>11, <2>12
<1>2. Fine(Paths)
  BY <1>1
<1> QED
  BY <1>2

------------------------------------------------------------------------------
(* The walk *)

\* An entry of a listing, as the tree tr has it now: lw and hg are the smallest and the
\* largest size of each path since the command began.
GoodEntry(tr, c, w, e, lw, hg) ==
  /\ tr[e.path] # Absent /\ Under(c.path, e.path)
  /\ e.dir => tr[e.path] = Dir
  /\ ~w.blind /\ ~e.dir => tr[e.path] # Dir
  /\ e.size <= hg[e.path]
  /\ ~w.blind /\ ~e.dir /\ c.verb # "zfs used" => lw[e.path] <= e.size

\* The walk is about to list a directory.
AtDir(l) == l \in {"detect", "open", "list"}

\* Path x lies at or below an entry on the stack, or is otherwise still to be walked.
OnStack(w, x) == \E k \in 1..Len(w.stack) : \E e \in w.stack[k] : Under(e.path, x)
Ahead(l, w, x) == OnStack(w, x) \/ (AtDir(l) /\ Under(w.dir, x))

\* No path is ahead twice, and no directory that was visited is ahead.
Apart(l, w) ==
  /\ \A i, k \in 1..Len(w.stack) : \A e \in w.stack[i], f \in w.stack[k] : \A x \in Paths :
       Under(e.path, x) /\ Under(f.path, x) => i = k /\ e = f
  /\ AtDir(l) => \A x \in Paths : ~(OnStack(w, x) /\ Under(w.dir, x))
  /\ \A v \in w.visited : ~Ahead(l, w, v)

\* C is what was added up: nothing that is ahead and, if nothing was missed, all that is not.
Tally(l, w, lw, hg, C) ==
  /\ \A x \in C : ~Ahead(l, w, x)
  /\ w.sum <= SumOn(hg, C)
  /\ ~w.blind => /\ SumOn(lw, C) <= w.sum
                 /\ \A x \in Paths \ C : Ahead(l, w, x) \/ lw[x] = 0

\* A walk under way.
OnItsWay(tr, l, c, w, lw, hg) ==
  /\ \A k \in 1..Len(w.stack) : \A e \in w.stack[k] : GoodEntry(tr, c, w, e, lw, hg)
  /\ AtDir(l) => Under(c.path, w.dir)
  /\ Apart(l, w)
  /\ \E C \in SUBSET Paths : Tally(l, w, lw, hg, C)

\* The smallest and the largest size are just that, below the start of the walk.
Between(tr, sz, c, lw, hg) ==
  \A q \in Paths :
    LET now == IF tr[q] \in Inodes THEN sz[tr[q]] ELSE 0
    IN IF Under(c.path, q) THEN lw[q] <= now /\ now <= hg[q] ELSE lw[q] = 0

Walking(p) == pc[p] # "idle" /\ cmd[p].verb \in WalkVerbs

\* A process in a walk, and one that has printed.
Walked(p) ==
  /\ pc[p] # "done" => rep[p].verdict = "none"
  /\ Walking(p) =>
       /\ AtDir(pc[p]) \/ pc[p] \in {"entries", "done"}
       /\ pc[p] \in {"detect", "open"} => cmd[p].verb = "zfs used"
       /\ pc[p] # "done" => /\ OnItsWay(tree, pc[p], cmd[p], walk[p], lo[p], hi[p])
                            /\ Between(tree, size, cmd[p], lo[p], hi[p])
       /\ rep[p].verdict = "ok" =>
            /\ rep[p].used <= SumOn(hi[p], Paths)
            /\ ~walk[p].blind /\ ~walk[p].failed => SumOn(lo[p], Paths) <= rep[p].used

UsageInv ==
  /\ CreatedInv
  /\ lo \in [Procs -> [Paths -> Nat]] /\ hi \in [Procs -> [Paths -> Nat]]
  /\ \A p \in Procs : Walked(p)

\* Every path lies under itself.
LEMMA UnderSelf ==
  ASSUME NEW q \in Paths PROVE Under(q, q)
<1>1. CASE q = Root
  BY <1>1 DEF Under
<1>2. CASE q # Root
  <2>1. Len(Lineage[q]) \in Nat \ {0} /\ Lineage[q][Len(Lineage[q])] = q
    BY <1>2, LineageIs
  <2> QED
    BY <2>1 DEF Under
<1> QED
  BY <1>1, <1>2

\* Only the root has the root under it.
LEMMA UnderIs ==
  ASSUME NEW a \in Paths, NEW x \in Paths, Under(a, x), a # Root
  PROVE  /\ x # Root /\ Len(Lineage[a]) \in 1..Len(Lineage[x]) /\ Lineage[x][Len(Lineage[a])] = a
         /\ \A m \in 1..Len(Lineage[a]) : Lineage[a][m] = Lineage[x][m]
<1>1. PICK i \in 1..Len(Lineage[x]) : Lineage[x][i] = a
  BY DEF Under
<1>2. x # Root
  BY <1>1, RootLineage
<1> QED
  BY <1>1, <1>2, LineageIs

\* What lies under something that lies under a path lies under that path.
LEMMA UnderUnder ==
  ASSUME NEW a \in Paths, NEW b \in Paths, NEW x \in Paths, Under(a, b), Under(b, x)
  PROVE  Under(a, x)
<1>1. CASE a = Root
  BY <1>1 DEF Under
<1>2. CASE a # Root
  <2>1. b # Root /\ Len(Lineage[a]) \in 1..Len(Lineage[b]) /\ Lineage[b][Len(Lineage[a])] = a
    BY <1>2, UnderIs
  <2>2. Len(Lineage[b]) \in 1..Len(Lineage[x]) /\ \A m \in 1..Len(Lineage[b]) : Lineage[b][m] = Lineage[x][m]
    BY <2>1, UnderIs
  <2>3. Len(Lineage[a]) \in 1..Len(Lineage[x]) /\ Lineage[x][Len(Lineage[a])] = a
    <3>1. Len(Lineage[x]) \in Nat
      BY <2>1, UnderIs, LineageIs
    <3>2. \A n, m \in Nat : m <= n => \A k \in 1..m : k \in 1..n
      OBVIOUS
    <3>3. Len(Lineage[b]) \in Nat /\ Len(Lineage[b]) <= Len(Lineage[x])
      BY <2>2, <3>1
    <3> QED
      BY <2>1, <2>2, <3>1, <3>2, <3>3
  <2> QED
    BY <2>3 DEF Under
<1> QED
  BY <1>1, <1>2

\* A child is under its parent, and not the other way round.
LEMMA ChildUnder ==
  ASSUME NEW q \in Paths \ {Root}
  PROVE  Under(ParentOf(q), q) /\ ~Under(q, ParentOf(q))
<1>1. Len(Lineage[q]) \in Nat \ {0}
  BY LineageIs
<1>2. Under(ParentOf(q), q)
  <2>1. CASE Len(Lineage[q]) = 1
    BY <2>1, ParentIs DEF Under
  <2>2. CASE Len(Lineage[q]) > 1
    <3>1. Len(Lineage[q]) - 1 \in 1..Len(Lineage[q])
      BY <1>1, <2>2
    <3> QED
      BY <2>2, <3>1, ParentIs DEF Under
  <2>3. \A n \in Nat \ {0} : n = 1 \/ n > 1
    OBVIOUS
  <2> QED
    BY <1>1, <2>1, <2>2, <2>3
<1>3. ~Under(q, ParentOf(q))
  <2>1. SUFFICES ASSUME Under(q, ParentOf(q)) PROVE FALSE
    OBVIOUS
  <2>2. Len(Lineage[q]) \in 1..Len(Lineage[ParentOf(q)])
    BY <2>1, ParentIs, UnderIs
  <2>3. Len(Lineage[ParentOf(q)]) = Len(Lineage[q]) - 1
    BY ParentIs
  <2> QED
    BY <1>1, <2>2, <2>3
<1> QED
  BY <1>2, <1>3

\* What is under two children of one directory is under one child.
LEMMA SameChild ==
  ASSUME NEW q \in Paths \ {Root}, NEW r \in Paths \ {Root}, ParentOf(q) = ParentOf(r),
         NEW x \in Paths, Under(q, x), Under(r, x)
  PROVE  q = r
<1>1. Len(Lineage[q]) = Len(Lineage[r])
  <2>1. Len(Lineage[q]) - 1 = Len(Lineage[r]) - 1
    BY ParentIs
  <2>2. Len(Lineage[q]) \in Nat /\ Len(Lineage[r]) \in Nat
    BY LineageIs
  <2> QED
    BY <2>1, <2>2
<1> QED
  BY <1>1, UnderIs

\* What is below a directory is under one of its children.
LEMMA SomeChild ==
  ASSUME NEW d \in Paths, NEW x \in Paths, Under(d, x), x # d
  PROVE  \E q \in Paths \ {Root} : ParentOf(q) = d /\ Under(q, x)
<1>1. CASE d = Root
  <2>1. x # Root /\ Len(Lineage[x]) \in Nat \ {0}
    BY <1>1, LineageIs
  <2> DEFINE q == Lineage[x][1]
  <2>2. 1 \in 1..Len(Lineage[x])
    BY <2>1
  <2>3. q \in Paths \ {Root} /\ Len(Lineage[q]) = 1 /\ Under(q, x)
    BY <2>1, <2>2, LineageIs DEF Under
  <2>4. ParentOf(q) = Root
    BY <2>3, ParentIs
  <2> QED
    BY <1>1, <2>3, <2>4
<1>2. CASE d # Root
  <2> DEFINE n == Len(Lineage[d])
             q == Lineage[x][n + 1]
  <2>1. x # Root /\ n \in 1..Len(Lineage[x]) /\ Lineage[x][n] = d
    BY <1>2, UnderIs
  <2>2. Len(Lineage[x]) \in Nat \ {0} /\ Lineage[x][Len(Lineage[x])] = x
    BY <2>1, LineageIs
  <2>3. n + 1 \in 1..Len(Lineage[x]) /\ n \in Nat \ {0}
    <3>1. n # Len(Lineage[x])
      BY <2>1, <2>2
    <3> HIDE DEF n
    <3> QED
      BY <2>1, <2>2, <3>1
  <2>4. q \in Paths \ {Root} /\ Len(Lineage[q]) = n + 1 /\ \A m \in 1..(n + 1) : Lineage[q][m] = Lineage[x][m]
    BY <2>1, <2>3, LineageIs
  <2>5. Under(q, x)
    BY <2>3 DEF Under
  <2> HIDE DEF n, q
  <2>6. Lineage[q][n] = d
    BY <2>1, <2>3, <2>4
  <2>7. ParentOf(q) = Lineage[q][n]
    <3>1. n + 1 > 1 /\ (n + 1) - 1 = n
      BY <2>3
    <3> QED
      BY <2>4, <3>1, ParentIs
  <2> QED
    BY <2>4, <2>5, <2>6, <2>7
<1> QED
  BY <1>1, <1>2

\* Below what is no directory there is nothing.
LEMMA NothingBelow ==
  ASSUME Rooted, NEW q \in Paths, tree[q] # Dir, NEW x \in Paths, Under(q, x)
  PROVE  x = q \/ tree[x] = Absent
<1>1. SUFFICES ASSUME x # q, tree[x] # Absent PROVE FALSE
  OBVIOUS
<1>2. q # Root
  BY DEF Rooted
<1>3. x # Root /\ Len(Lineage[q]) \in 1..Len(Lineage[x]) /\ Lineage[x][Len(Lineage[q])] = q
  BY <1>2, UnderIs
<1>4. Len(Lineage[x]) \in Nat \ {0} /\ Lineage[x][Len(Lineage[x])] = x
  BY <1>3, LineageIs
<1>5. Len(Lineage[q]) \in 1..(Len(Lineage[x]) - 1)
  <2> DEFINE n == Len(Lineage[q])
             m == Len(Lineage[x])
  <2>1. n # m
    BY <1>1, <1>3, <1>4
  <2>2. n \in 1..m /\ m \in Nat
    BY <1>3, <1>4
  <2> HIDE DEF n, m
  <2>3. n \in 1..(m - 1)
    BY <2>1, <2>2
  <2> QED
    BY <2>3 DEF n, m
<1> QED
  BY <1>1, <1>3, <1>5 DEF Rooted

\* A walk goes on while other processes add to the tree and sizes change.
LEMMA OthersMayWrite ==
  ASSUME NEW tr, NEW tr2, \A q \in Paths : tr[q] # Absent => tr2[q] = tr[q],
         NEW l, NEW c, NEW w \in Walks,
         NEW lw \in [Paths -> Nat], NEW hg \in [Paths -> Nat],
         NEW lw2 \in [Paths -> Nat], NEW hg2 \in [Paths -> Nat],
         \A q \in Paths : lw2[q] <= lw[q] /\ hg[q] <= hg2[q],
         OnItsWay(tr, l, c, w, lw, hg)
  PROVE  OnItsWay(tr2, l, c, w, lw2, hg2)
<1>1. ASSUME NEW k \in 1..Len(w.stack), NEW e \in w.stack[k]
      PROVE  GoodEntry(tr2, c, w, e, lw2, hg2)
  <2>1. GoodEntry(tr, c, w, e, lw, hg)
    BY DEF OnItsWay
  <2>2. w.stack \in Seq(SUBSET EntryRecs)
    BY DEF Walks
  <2>3. e \in EntryRecs
    BY <2>2
  <2>4. e.path \in Paths /\ e.size \in Nat
    BY <2>3 DEF EntryRecs
  <2>5. /\ lw[e.path] \in Nat /\ hg[e.path] \in Nat /\ lw2[e.path] \in Nat /\ hg2[e.path] \in Nat
        /\ lw2[e.path] <= lw[e.path] /\ hg[e.path] <= hg2[e.path]
    BY <2>4
  <2>6. tr[e.path] # Absent /\ tr2[e.path] = tr[e.path]
    BY <2>1, <2>4 DEF GoodEntry
  <2>7. e.size <= hg[e.path] => e.size <= hg2[e.path]
    BY <2>4, <2>5
  <2>8. lw[e.path] <= e.size => lw2[e.path] <= e.size
    BY <2>4, <2>5
  <2> QED
    BY <2>1, <2>6, <2>7, <2>8, Zenon DEF GoodEntry
<1>2. PICK C \in SUBSET Paths : Tally(l, w, lw, hg, C)
  BY DEF OnItsWay
<1>3. Tally(l, w, lw2, hg2, C)
  <2>1. w.sum \in Nat
    BY DEF Walks
  <2>2. SumOn(hg, C) <= SumOn(hg2, C)
    BY SumGrows
  <2>3. SumOn(lw2, C) <= SumOn(lw, C)
    BY SumGrows
  <2>4. SumOn(hg, C) \in Nat /\ SumOn(hg2, C) \in Nat /\ SumOn(lw, C) \in Nat /\ SumOn(lw2, C) \in Nat
    BY SumIs
  <2>5. w.sum <= SumOn(hg, C) => w.sum <= SumOn(hg2, C)
    BY <2>1, <2>2, <2>4
  <2>6. SumOn(lw, C) <= w.sum => SumOn(lw2, C) <= w.sum
    BY <2>1, <2>3, <2>4
  <2>7. ASSUME NEW x \in Paths, lw[x] = 0 PROVE lw2[x] = 0
    <3>1. lw2[x] <= lw[x] /\ lw2[x] \in Nat
      OBVIOUS
    <3> QED
      BY <2>7, <3>1
  <2> QED
    BY <1>2, <2>5, <2>6, <2>7, Zenon DEF Tally
<1> QED
  BY <1>1, <1>3, Zenon DEF OnItsWay

\* A directory that is listed gives way to its entries.
LEMMA ListedWalk ==
  ASSUME Base, Rooted, NEW c \in Commands, NEW w \in Walks, NEW w2 \in Walks,
         NEW lw \in [Paths -> Nat], NEW hg \in [Paths -> Nat],
         OnItsWay(tree, "list", c, w, lw, hg), Between(tree, size, c, lw, hg),
         w.dir \in Paths, Revisited(c, w) \/ tree[w.dir] = Dir, NEW un, NEW new,
         new = {ListEntry(c, q, q \notin un) : q \in IF Revisited(c, w) THEN {} ELSE Children(w.dir)},
         w2.visited = Visit(c, w), w2.sum = w.sum, (w2.blind <=> (w.blind \/ un # {})),
         Len(w2.stack) \in {Len(w.stack), Len(w.stack) + 1},
         \A k \in 1..Len(w.stack) : w2.stack[k] = w.stack[k],
         Len(w2.stack) = Len(w.stack) + 1 => w2.stack[Len(w.stack) + 1] = new,
         Len(w2.stack) = Len(w.stack) => new = {}
  PROVE  OnItsWay(tree, "entries", c, w2, lw, hg)
<1> DEFINE d == w.dir
           n == Len(w.stack)
<1>1. n \in Nat /\ \A k \in 1..n : w.stack[k] \subseteq EntryRecs
  <2>1. w.stack \in Seq(SUBSET EntryRecs)
    BY DEF Walks
  <2> QED
    BY <2>1
<1>2. \A e \in EntryRecs : e.path \in Paths \ {Root} /\ e.size \in Nat
  BY DEF EntryRecs
<1>3. Under(d, d) /\ c.path \in Paths /\ AtDir("list") /\ ~AtDir("entries")
  BY UnderSelf, CommandIs DEF AtDir
<1>4. Apart("list", w) /\ Under(c.path, d)
  BY <1>3 DEF OnItsWay
<1>5. d \notin w.visited /\ tree[d] = Dir /\ ~Revisited(c, w)
  <2>1. Ahead("list", w, d)
    BY <1>3 DEF Ahead
  <2> QED
    BY <1>4, <2>1 DEF Apart, Revisited
<1>6. ASSUME NEW e \in new
      PROVE  /\ e \in EntryRecs /\ e.path \in Paths \ {Root} /\ ParentOf(e.path) = d /\ tree[e.path] # Absent
             /\ e = ListEntry(c, e.path, e.path \notin un)
             /\ Under(d, e.path) /\ ~Under(e.path, d)
  <2>1. PICK q \in Children(d) : e = ListEntry(c, q, q \notin un)
    BY <1>5
  <2>2. q \in Paths \ {Root} /\ ParentOf(q) = d /\ tree[q] # Absent
    BY DEF Children
  <2>3. e \in EntryRecs /\ e.path = q
    BY ZenonT(60), <2>1, <2>2, ListEntryIs
  <2> QED
    BY <2>1, <2>2, <2>3, ChildUnder
<1>15. ASSUME NEW q \in Children(d) PROVE \E e \in new : e.path = q
  <2> DEFINE e == ListEntry(c, q, q \notin un)
  <2>1. e \in new
    <3>1. new = {ListEntry(c, x, x \notin un) : x \in Children(d)}
      BY <1>5
    <3> HIDE DEF d
    <3> QED
      BY <3>1
  <2>2. q \in Paths \ {Root} /\ e = ListEntry(c, q, q \notin un)
    BY DEF Children
  <2> HIDE DEF e
  <2> DEFINE dir == tree[q] = Dir /\ (q \notin un \/ c.verb = "zfs used" \/ DirByType)
             sz == IF q \notin un /\ c.verb # "zfs used" THEN SizeAt(q) ELSE 0
  <2>3. e.path = q
    <3>1. e = [path |-> q, dir |-> dir, size |-> sz]
      BY <2>2, Zenon DEF ListEntry
    <3> HIDE DEF dir, sz
    <3> QED
      BY <3>1
  <2> QED
    BY <2>1, <2>3
<1>7. ASSUME NEW e \in new, NEW x \in Paths, Under(e.path, x) PROVE Under(d, x) /\ x # d
  BY <1>6, <1>7, UnderUnder
<1>8. ASSUME NEW i \in 1..Len(w2.stack)
      PROVE  (i \in 1..n /\ w2.stack[i] = w.stack[i]) \/ (i = n + 1 /\ i \notin 1..n /\ w2.stack[i] = new)
  <2> HIDE DEF n
  <2>1. Len(w2.stack) \in {n, n + 1} /\ (Len(w2.stack) = n + 1 => w2.stack[n + 1] = new)
        /\ \A k \in 1..n : w2.stack[k] = w.stack[k]
    BY DEF n
  <2>2. i \in 1..n \/ (i = n + 1 /\ Len(w2.stack) = n + 1 /\ i \notin 1..n)
    BY <1>1, <2>1
  <2> QED
    BY <2>1, <2>2
<1>9. ASSUME NEW x
      PROVE  OnStack(w2, x) <=> (OnStack(w, x) \/ \E e \in new : Under(e.path, x))
  <2>1. OnStack(w2, x) => OnStack(w, x) \/ \E e \in new : Under(e.path, x)
    BY <1>8 DEF OnStack
  <2>2. OnStack(w, x) => OnStack(w2, x)
    <3>1. \A k \in 1..n : k \in 1..Len(w2.stack) /\ w2.stack[k] = w.stack[k]
      BY <1>1
    <3> QED
      BY <3>1 DEF OnStack
  <2>3. ASSUME NEW e \in new, Under(e.path, x) PROVE OnStack(w2, x)
    <3>1. Len(w2.stack) = n + 1 /\ w2.stack[n + 1] = new
      BY <2>3
    <3>2. n + 1 \in 1..Len(w2.stack)
      BY <1>1, <3>1
    <3> QED
      BY <2>3, <3>1, <3>2 DEF OnStack
  <2> QED
    BY <2>1, <2>2, <2>3
<1>10. ASSUME NEW x \in Paths, Ahead("entries", w2, x) PROVE Ahead("list", w, x) /\ x # d
  <2>1. OnStack(w2, x)
    BY <1>3, <1>10 DEF Ahead
  <2>2. CASE OnStack(w, x)
    BY <1>3, <1>4, <2>2 DEF Ahead, Apart
  <2>3. CASE \E e \in new : Under(e.path, x)
    BY <1>3, <1>7, <2>3 DEF Ahead
  <2> QED
    BY <1>9, <2>1, <2>2, <2>3
<1>11. Apart("entries", w2)
  <2>1. ASSUME NEW i \in 1..Len(w2.stack), NEW k \in 1..Len(w2.stack), NEW e \in w2.stack[i], NEW f \in w2.stack[k],
               NEW x \in Paths, Under(e.path, x), Under(f.path, x)
        PROVE  i = k /\ e = f
    <3>1. CASE i \in 1..n /\ w2.stack[i] = w.stack[i] /\ k \in 1..n /\ w2.stack[k] = w.stack[k]
      BY <1>4, <2>1, <3>1 DEF Apart
    <3>2. CASE i \in 1..n /\ w2.stack[i] = w.stack[i] /\ w2.stack[k] = new
      <4>1. OnStack(w, x) /\ Under(d, x)
        BY <1>7, <2>1, <3>2 DEF OnStack
      <4> QED
        BY <1>3, <1>4, <4>1 DEF Apart
    <3>3. CASE w2.stack[i] = new /\ k \in 1..n /\ w2.stack[k] = w.stack[k]
      <4>1. OnStack(w, x) /\ Under(d, x)
        BY <1>7, <2>1, <3>3 DEF OnStack
      <4> QED
        BY <1>3, <1>4, <4>1 DEF Apart
    <3>4. CASE i = n + 1 /\ w2.stack[i] = new /\ k = n + 1 /\ w2.stack[k] = new
      <4>1. e.path = f.path
        BY <1>6, <2>1, <3>4, SameChild
      <4> QED
        BY <1>6, <3>4, <4>1
    <3> QED
      BY <1>8, <3>1, <3>2, <3>3, <3>4
  <2>2. ASSUME NEW v \in w2.visited PROVE ~Ahead("entries", w2, v)
    <3>1. v \in Paths /\ (v \in w.visited \/ v = d)
      BY DEF Walks, Visit
    <3> QED
      BY <1>4, <1>10, <3>1 DEF Apart
  <2> QED
    BY <1>3, <2>1, <2>2 DEF Apart
<1>12. ASSUME NEW k \in 1..Len(w2.stack), NEW e \in w2.stack[k]
       PROVE  GoodEntry(tree, c, w2, e, lw, hg)
  <2>1. CASE k \in 1..n /\ w2.stack[k] = w.stack[k]
    <3>1. GoodEntry(tree, c, w, e, lw, hg)
      BY <2>1 DEF OnItsWay
    <3> QED
      BY <3>1, Zenon DEF GoodEntry
  <2>2. CASE w2.stack[k] = new
    <3> DEFINE q == e.path
    <3>1. e \in new /\ q \in Paths \ {Root} /\ tree[q] # Absent /\ Under(d, q) /\ e = ListEntry(c, q, q \notin un)
      BY <1>6, <2>2
    <3>2. Under(c.path, q)
      BY <1>3, <1>4, <3>1, UnderUnder
    <3>3. lw[q] <= SizeAt(q) /\ SizeAt(q) <= hg[q] /\ lw[q] \in Nat /\ hg[q] \in Nat
      BY <3>1, <3>2 DEF Between, SizeAt
    <3>4. /\ e.dir => tree[q] = Dir
          /\ q \notin un /\ tree[q] = Dir => e.dir
          /\ e.size = (IF q \notin un /\ c.verb # "zfs used" THEN SizeAt(q) ELSE 0)
      BY ZenonT(60), <3>1, EntryOf
    <3>5. ~w2.blind => q \notin un
      OBVIOUS
    <3> HIDE DEF q
    <3>6. e.size <= hg[q]
      <4>1. e.size = SizeAt(q) \/ e.size = 0
        BY <3>4, Zenon
      <4>2. SizeAt(q) \in Nat
        BY <3>1, SizeAtIsNat DEF q
      <4> QED
        BY <3>3, <4>1, <4>2
    <3>7. q \notin un /\ c.verb # "zfs used" => lw[q] <= e.size
      <4>1. q \notin un /\ c.verb # "zfs used" => e.size = SizeAt(q)
        BY <3>4, Zenon
      <4> QED
        BY <3>3, <4>1
    <3> QED
      BY <3>1, <3>2, <3>4, <3>5, <3>6, <3>7, Zenon DEF GoodEntry, q
  <2> QED
    BY <1>8, <2>1, <2>2
<1>13. PICK C \in SUBSET Paths : Tally("list", w, lw, hg, C)
  BY DEF OnItsWay
<1>14. Tally("entries", w2, lw, hg, C)
  <2>1. \A x \in C : ~Ahead("entries", w2, x)
    BY <1>10, <1>13 DEF Tally
  <2>2. ASSUME ~w2.blind, NEW x \in Paths \ C, ~Ahead("entries", w2, x) PROVE lw[x] = 0
    <3>1. ~w.blind
      BY <2>2
    <3>2. Ahead("list", w, x) \/ lw[x] = 0
      BY <1>13, <3>1 DEF Tally
    <3>3. CASE Ahead("list", w, x)
      <4>1. ~OnStack(w, x) /\ ~\E e \in new : Under(e.path, x)
        BY <1>3, <1>9, <2>2 DEF Ahead
      <4>2. Under(d, x)
        BY <3>3, <4>1 DEF Ahead
      <4>3. Under(c.path, x)
        BY <1>3, <1>4, <4>2, UnderUnder
      <4>4. tree[x] \notin Inodes
        <5>1. CASE x = d
          BY <1>5, <5>1, RootLineage
        <5>2. CASE x # d
          <6>1. PICK q \in Paths \ {Root} : ParentOf(q) = d /\ Under(q, x)
            BY <4>2, <5>2, SomeChild
          <6>2. q \notin Children(d)
            <7>1. SUFFICES ASSUME q \in Children(d) PROVE FALSE
              OBVIOUS
            <7>2. PICK f \in new : f.path = q
              BY <1>15, <7>1
            <7> QED
              BY <4>1, <6>1, <7>2
          <6>3. tree[q] = Absent
            BY <6>1, <6>2 DEF Children
          <6>4. tree[x] = Absent
            BY <6>1, <6>3, NothingBelow, RootLineage
          <6> QED
            BY <6>4, RootLineage
        <5> QED
          BY <5>1, <5>2
      <4>5. lw[x] <= 0 /\ lw[x] \in Nat
        BY <4>3, <4>4 DEF Between
      <4> QED
        BY <4>5
    <3> QED
      BY <3>2, <3>3
  <2>3. w2.sum <= SumOn(hg, C) /\ (~w2.blind => SumOn(lw, C) <= w2.sum)
    BY <1>13 DEF Tally
  <2> QED
    BY <2>1, <2>2, <2>3 DEF Tally
<1> QED
  BY <1>3, <1>11, <1>12, <1>14 DEF OnItsWay

\* What an entry adds up to: what the listing said, what Stat says now, or nothing.
LEMMA MeasuredIs ==
  ASSUME NEW c, NEW e, NEW m \in Measured(c, e)
  PROVE  \/ m[1] = e.size /\ c.verb # "zfs used"
         \/ m[1] = SizeAt(e.path)
         \/ m[1] = 0 /\ ~m[2]
<1>1. (m = <<e.size, TRUE>> /\ c.verb # "zfs used") \/ m = <<SizeAt(e.path), TRUE>> \/ m = <<0, FALSE>>
  BY Zenon DEF Measured
<1>2. \A x, y : <<x, y>>[1] = x
  OBVIOUS
<1>3. CASE m = <<e.size, TRUE>> /\ c.verb # "zfs used"
  BY <1>2, <1>3, Zenon
<1>4. CASE m = <<SizeAt(e.path), TRUE>>
  BY <1>2, <1>4, Zenon
<1>5. CASE m = <<0, FALSE>>
  <2>1. m[1] = 0
    BY <1>2, <1>5, Zenon
  <2>2. ~m[2]
    BY <1>5
  <2> QED
    BY <2>1, <2>2, Zenon
<1> QED
  BY <1>1, <1>3, <1>4, <1>5, Zenon

\* w2 is w without the entry e of the innermost listing.
TakenOff(w, w2, e) ==
  /\ w2.visited = w.visited /\ w.stack # <<>> /\ e \in w.stack[Len(w.stack)]
  /\ Len(w2.stack) \in {Len(w.stack) - 1, Len(w.stack)}
  /\ \A k \in 1..Len(w2.stack) : w2.stack[k] = IF k = Len(w.stack) THEN w.stack[k] \ {e} ELSE w.stack[k]
  /\ Len(w2.stack) # Len(w.stack) => w.stack[Len(w.stack)] = {e}

\* What is on the stack then.
LEMMA StackThen ==
  ASSUME NEW w \in Walks, NEW w2 \in Walks, NEW e, TakenOff(w, w2, e), Apart("entries", w)
  PROVE  /\ e \in EntryRecs /\ e.path \in Paths /\ e.size \in Nat /\ Len(w.stack) \in 1..Len(w.stack)
         /\ \A k \in 1..Len(w2.stack) : k \in 1..Len(w.stack) /\ w2.stack[k] \subseteq w.stack[k]
         /\ \A x : OnStack(w, x) <=> (OnStack(w2, x) \/ Under(e.path, x))
         /\ \A x \in Paths : ~(OnStack(w2, x) /\ Under(e.path, x))
<1> DEFINE n == Len(w.stack)
<1>1. n \in Nat \ {0} /\ n \in 1..n /\ w.stack[n] \subseteq EntryRecs
  <2>1. w.stack \in Seq(SUBSET EntryRecs) /\ w.stack # <<>>
    BY DEF Walks, TakenOff
  <2>2. n \in Nat \ {0}
    BY <2>1
  <2> QED
    BY <2>1, <2>2
<1>2. e \in EntryRecs /\ e.path \in Paths /\ e.size \in Nat
  BY <1>1 DEF TakenOff, EntryRecs
<1>3. Len(w2.stack) \in {n - 1, n}
  BY DEF TakenOff
<1>4. ASSUME NEW k \in 1..Len(w2.stack)
      PROVE  /\ k \in 1..n /\ w2.stack[k] \subseteq w.stack[k]
             /\ k = n => e \notin w2.stack[k]
  <2>1. k \in 1..n
    <3> HIDE DEF n
    <3> QED
      BY <1>1, <1>3
  <2>2. w2.stack[k] = IF k = n THEN w.stack[k] \ {e} ELSE w.stack[k]
    BY DEF TakenOff
  <2> QED
    BY <2>1, <2>2
<1>5. ASSUME NEW k \in 1..n, NEW f \in w.stack[k], f # e \/ k # n
      PROVE  k \in 1..Len(w2.stack) /\ f \in w2.stack[k]
  <2>1. CASE k # n
    <3>1. k \in 1..Len(w2.stack)
      <4> HIDE DEF n
      <4> QED
        BY <1>1, <1>3, <2>1
    <3> QED
      BY <2>1, <3>1 DEF TakenOff
  <2>2. CASE k = n
    <3>1. Len(w2.stack) = n
      BY <1>5, <2>2 DEF TakenOff
    <3> QED
      BY <1>5, <2>2, <3>1 DEF TakenOff
  <2> QED
    BY <2>1, <2>2
<1>6. ASSUME NEW x PROVE OnStack(w, x) <=> (OnStack(w2, x) \/ Under(e.path, x))
  <2>1. OnStack(w, x) => OnStack(w2, x) \/ Under(e.path, x)
    BY <1>5 DEF OnStack
  <2>2. OnStack(w2, x) => OnStack(w, x)
    BY <1>4 DEF OnStack
  <2>3. Under(e.path, x) => OnStack(w, x)
    BY <1>1 DEF OnStack, TakenOff
  <2> QED
    BY <2>1, <2>2, <2>3
<1>7. ASSUME NEW x \in Paths, OnStack(w2, x), Under(e.path, x) PROVE FALSE
  <2>1. PICK k \in 1..Len(w2.stack) : \E f \in w2.stack[k] : Under(f.path, x)
    BY <1>7 DEF OnStack
  <2>2. PICK f \in w2.stack[k] : Under(f.path, x)
    BY <2>1
  <2>3. k \in 1..n /\ f \in w.stack[k] /\ e \in w.stack[n]
    BY <1>4 DEF TakenOff
  <2>4. k = n /\ f = e
    BY <1>1, <1>7, <2>2, <2>3 DEF Apart
  <2> QED
    BY <1>4, <2>4
<1> QED
  BY <1>1, <1>2, <1>4, <1>6, <1>7

\* The walk goes down into a directory.
LEMMA DownWalk ==
  ASSUME NEW tr, NEW c, NEW w \in Walks, NEW w2 \in Walks, NEW e, NEW lw, NEW hg,
         OnItsWay(tr, "entries", c, w, lw, hg), TakenOff(w, w2, e),
         w2.dir = e.path, w2.sum = w.sum, (w2.blind <=> w.blind)
  PROVE  OnItsWay(tr, "list", c, w2, lw, hg)
<1>1. Apart("entries", w) /\ AtDir("list") /\ ~AtDir("entries")
  BY DEF OnItsWay, AtDir
<1>2. /\ \A k \in 1..Len(w2.stack) : k \in 1..Len(w.stack) /\ w2.stack[k] \subseteq w.stack[k]
      /\ \A x : OnStack(w, x) <=> (OnStack(w2, x) \/ Under(e.path, x))
      /\ \A x \in Paths : ~(OnStack(w2, x) /\ Under(e.path, x))
      /\ Len(w.stack) \in 1..Len(w.stack)
  BY <1>1, StackThen
<1>3. \A x : Ahead("list", w2, x) <=> Ahead("entries", w, x)
  BY <1>1, <1>2 DEF Ahead
<1>4. ASSUME NEW k \in 1..Len(w2.stack), NEW f \in w2.stack[k] PROVE GoodEntry(tr, c, w2, f, lw, hg)
  <2>1. GoodEntry(tr, c, w, f, lw, hg)
    BY <1>2 DEF OnItsWay
  <2> QED
    BY <2>1, Zenon DEF GoodEntry
<1>5. Under(c.path, w2.dir)
  <2>1. GoodEntry(tr, c, w, e, lw, hg)
    BY <1>2 DEF OnItsWay, TakenOff
  <2> QED
    BY <2>1 DEF GoodEntry
<1>6. Apart("list", w2)
  <2>1. \A i, k \in 1..Len(w2.stack) : \A f \in w2.stack[i], g \in w2.stack[k] : \A x \in Paths :
          Under(f.path, x) /\ Under(g.path, x) => i = k /\ f = g
    BY <1>1, <1>2 DEF Apart
  <2>2. \A v \in w2.visited : ~Ahead("list", w2, v)
    BY <1>1, <1>3 DEF Apart, TakenOff
  <2> QED
    BY <1>2, <2>1, <2>2 DEF Apart
<1>7. PICK C \in SUBSET Paths : Tally("entries", w, lw, hg, C)
  BY DEF OnItsWay
<1>8. Tally("list", w2, lw, hg, C)
  BY <1>3, <1>7 DEF Tally
<1> QED
  BY <1>4, <1>5, <1>6, <1>8 DEF OnItsWay

\* The walk adds up what is no directory.
LEMMA AddedWalk ==
  ASSUME Base, Rooted, NEW c \in Commands, NEW w \in Walks, NEW w2 \in Walks, NEW e,
         NEW lw \in [Paths -> Nat], NEW hg \in [Paths -> Nat],
         OnItsWay(tree, "entries", c, w, lw, hg), Between(tree, size, c, lw, hg), TakenOff(w, w2, e),
         ~e.dir, NEW m \in Measured(c, e), w2.sum = w.sum + m[1], (w2.blind <=> (w.blind \/ ~m[2]))
  PROVE  OnItsWay(tree, "entries", c, w2, lw, hg)
<1> DEFINE q == e.path
<1>1. Apart("entries", w) /\ ~AtDir("entries")
  BY DEF OnItsWay, AtDir
<1>2. /\ \A k \in 1..Len(w2.stack) : k \in 1..Len(w.stack) /\ w2.stack[k] \subseteq w.stack[k]
      /\ \A x : OnStack(w, x) <=> (OnStack(w2, x) \/ Under(q, x))
      /\ \A x \in Paths : ~(OnStack(w2, x) /\ Under(q, x))
      /\ q \in Paths /\ e.size \in Nat /\ Len(w.stack) \in 1..Len(w.stack)
  BY <1>1, StackThen
<1>3. ASSUME NEW x
      PROVE  /\ Ahead("entries", w2, x) <=> OnStack(w2, x)
             /\ Ahead("entries", w, x) <=> (OnStack(w2, x) \/ Under(q, x))
  BY <1>1, <1>2 DEF Ahead
<1>4. GoodEntry(tree, c, w, e, lw, hg)
  BY <1>2 DEF OnItsWay, TakenOff
<1>5. Under(c.path, q) /\ e.size <= hg[q] /\ (~w.blind => tree[q] # Dir)
      /\ (~w.blind /\ c.verb # "zfs used" => lw[q] <= e.size)
  BY <1>4 DEF GoodEntry
<1>6. ASSUME NEW k \in 1..Len(w2.stack), NEW f \in w2.stack[k] PROVE GoodEntry(tree, c, w2, f, lw, hg)
  <2>1. GoodEntry(tree, c, w, f, lw, hg)
    BY <1>2 DEF OnItsWay
  <2> QED
    BY <2>1, Zenon DEF GoodEntry
<1>7. Apart("entries", w2)
  <2>1. \A i, k \in 1..Len(w2.stack) : \A f \in w2.stack[i], g \in w2.stack[k] : \A x \in Paths :
          Under(f.path, x) /\ Under(g.path, x) => i = k /\ f = g
    BY <1>1, <1>2 DEF Apart
  <2>2. \A v \in w2.visited : ~Ahead("entries", w2, v)
    BY <1>1, <1>3 DEF Apart, TakenOff
  <2> QED
    BY <1>1, <2>1, <2>2 DEF Apart
<1>8. SizeAt(q) \in Nat /\ lw[q] \in Nat /\ hg[q] \in Nat /\ lw[q] <= SizeAt(q) /\ SizeAt(q) <= hg[q]
  BY <1>2, <1>5, SizeAtIsNat DEF Between, SizeAt
<1>9. m[1] \in Nat /\ m[1] <= hg[q] /\ (~w2.blind => lw[q] <= m[1])
  <2>1. CASE m[1] = e.size /\ c.verb # "zfs used"
    <3>1. ~w2.blind => lw[q] <= e.size
      BY <1>5, <2>1, Zenon
    <3> QED
      BY <1>2, <1>5, <2>1, <3>1
  <2>2. CASE m[1] = SizeAt(q)
    BY <1>8, <2>2
  <2>3. CASE m[1] = 0 /\ ~m[2]
    <3>1. w2.blind
      BY <2>3, Zenon
    <3> QED
      BY <1>8, <2>3, <3>1
  <2> QED
    BY <2>1, <2>2, <2>3, MeasuredIs
<1>10. PICK C \in SUBSET Paths : Tally("entries", w, lw, hg, C)
  BY DEF OnItsWay
<1> DEFINE D == C \cup {q}
<1>11. q \notin C /\ D \in SUBSET Paths /\ Under(q, q)
  BY <1>2, <1>3, <1>10, UnderSelf DEF Tally
<1>12. Tally("entries", w2, lw, hg, D)
  <2>1. \A x \in D : ~Ahead("entries", w2, x)
    BY <1>2, <1>3, <1>10, <1>11 DEF Tally
  <2>2. w2.sum <= SumOn(hg, D) /\ (~w2.blind => SumOn(lw, D) <= w2.sum)
    <3>1. SumOn(hg, D) = SumOn(hg, C) + hg[q] /\ SumOn(lw, D) = SumOn(lw, C) + lw[q]
      BY <1>2, <1>11, SumAdd
    <3>2. SumOn(hg, C) \in Nat /\ SumOn(lw, C) \in Nat /\ w.sum \in Nat
      BY SumIs DEF Walks
    <3>3. w.sum <= SumOn(hg, C) /\ (~w.blind => SumOn(lw, C) <= w.sum)
      BY <1>10 DEF Tally
    <3>4. ~w2.blind => SumOn(lw, C) <= w.sum
      BY <3>3, Zenon
    <3>5. w2.sum = w.sum + m[1]
      OBVIOUS
    <3> HIDE DEF D, q
    <3> QED
      BY <1>8, <1>9, <3>1, <3>2, <3>3, <3>4, <3>5
  <2>3. ASSUME ~w2.blind, NEW x \in Paths \ D, ~Ahead("entries", w2, x) PROVE lw[x] = 0
    <3>1. ~w.blind
      BY <2>3, Zenon
    <3>2. x \in Paths \ C /\ x # q
      OBVIOUS
    <3>3. CASE lw[x] = 0
      BY <3>3
    <3>4. CASE Ahead("entries", w, x)
      <4>1. Under(q, x)
        BY <1>3, <2>3, <3>4
      <4>2. tree[x] = Absent
        BY <1>2, <1>5, <3>1, <3>2, <4>1, NothingBelow
      <4>3. tree[x] \notin Inodes /\ Under(c.path, x)
        BY <1>2, <1>5, <4>1, <4>2, CommandIs, UnderUnder, RootLineage
      <4>4. lw[x] <= 0 /\ lw[x] \in Nat
        BY <4>3 DEF Between
      <4> QED
        BY <4>4
    <3> QED
      BY <1>10, <3>1, <3>2, <3>3, <3>4 DEF Tally
  <2> HIDE DEF D
  <2> QED
    BY <2>1, <2>2, <2>3, Zenon DEF Tally
<1> QED
  BY <1>1, <1>6, <1>7, <1>11, <1>12 DEF OnItsWay

\* Before its first listing a walk has everything ahead.
LEMMA FreshWalk ==
  ASSUME NEW tr, NEW l, AtDir(l), NEW c \in Commands, NEW w, w = [NoWalk EXCEPT !.dir = c.path],
         NEW lw \in [Paths -> Nat], NEW hg \in [Paths -> Nat],
         \A q \in Paths : ~Under(c.path, q) => lw[q] = 0
  PROVE  OnItsWay(tr, l, c, w, lw, hg)
<1>1. w.dir = c.path /\ w.stack = <<>> /\ w.sum = 0 /\ w.visited = {} /\ c.path \in Paths
  BY CommandIs, FirstWalk
<1>2. \A k \in 1..Len(w.stack) : FALSE
  BY <1>1
<1>3. Under(c.path, w.dir)
  BY <1>1, UnderSelf
<1>4. Apart(l, w)
  BY <1>1, <1>2 DEF Apart, OnStack
<1>5. Tally(l, w, lw, hg, {})
  <2>1. SumOn(hg, {}) = 0 /\ SumOn(lw, {}) = 0
    BY SumIs
  <2>2. \A x \in Paths : Ahead(l, w, x) \/ lw[x] = 0
    BY <1>1 DEF Ahead
  <2>3. w.sum <= SumOn(hg, {}) /\ SumOn(lw, {}) <= w.sum
    BY <1>1, <2>1
  <2> QED
    BY <2>2, <2>3, Zenon DEF Tally
<1>6. {} \in SUBSET Paths
  OBVIOUS
<1> QED
  BY <1>2, <1>3, <1>4, <1>5, <1>6 DEF OnItsWay

\* When the stack is empty everything was added up.
LEMMA WalkOver ==
  ASSUME NEW tr, NEW c, NEW w \in Walks, w.stack = <<>>,
         NEW lw \in [Paths -> Nat], NEW hg \in [Paths -> Nat], OnItsWay(tr, "entries", c, w, lw, hg)
  PROVE  w.sum <= SumOn(hg, Paths) /\ (~w.blind => SumOn(lw, Paths) <= w.sum)
<1>1. PICK C \in SUBSET Paths : Tally("entries", w, lw, hg, C)
  BY DEF OnItsWay
<1>2. \A x : ~Ahead("entries", w, x)
  BY DEF Ahead, OnStack, AtDir
<1>3. w.sum \in Nat /\ SumOn(hg, C) \in Nat /\ SumOn(hg, Paths) \in Nat
  BY SumIs DEF Walks
<1>4. w.sum <= SumOn(hg, C) /\ SumOn(hg, C) <= SumOn(hg, Paths)
  BY <1>1, SumOfPart DEF Tally
<1>5. ASSUME ~w.blind PROVE SumOn(lw, Paths) <= w.sum
  <2>1. SumOn(lw, C) <= w.sum /\ \A x \in Paths \ C : lw[x] = 0
    BY <1>1, <1>2, <1>5 DEF Tally
  <2>2. SumOn(lw, C) = SumOn(lw, Paths)
    BY <2>1, SumOfPart
  <2> QED
    BY <2>1, <2>2
<1> QED
  BY <1>3, <1>4, <1>5

\* A walk given up halfway has added up no more than there was.
LEMMA WalkGivenUp ==
  ASSUME NEW tr, NEW l, NEW c, NEW w \in Walks,
         NEW lw \in [Paths -> Nat], NEW hg \in [Paths -> Nat], OnItsWay(tr, l, c, w, lw, hg)
  PROVE  w.sum <= SumOn(hg, Paths)
<1>1. PICK C \in SUBSET Paths : Tally(l, w, lw, hg, C)
  BY DEF OnItsWay
<1>2. w.sum \in Nat /\ SumOn(hg, C) \in Nat /\ SumOn(hg, Paths) \in Nat
  BY SumIs DEF Walks
<1>3. w.sum <= SumOn(hg, C) /\ SumOn(hg, C) <= SumOn(hg, Paths)
  BY <1>1, SumOfPart DEF Tally
<1> QED
  BY <1>2, <1>3

------------------------------------------------------------------------------
(* The smallest and the largest size *)

\* The smaller and the larger of two numbers.
LEMMA MinMaxOfTwo ==
  ASSUME NEW a \in Nat, NEW b \in Nat
  PROVE  /\ Min({a, b}) \in Nat /\ Min({a, b}) <= a /\ Min({a, b}) <= b
         /\ Max({a, b}) \in Nat /\ a <= Max({a, b}) /\ b <= Max({a, b})
<1>1. \E x \in {a, b} : \A y \in {a, b} : x <= y
  OBVIOUS
<1>2. \E x \in {a, b} : \A y \in {a, b} : x >= y
  OBVIOUS
<1>3. Min({a, b}) \in {a, b} /\ \A y \in {a, b} : Min({a, b}) <= y
  BY <1>1 DEF Min
<1>4. Max({a, b}) \in {a, b} /\ \A y \in {a, b} : Max({a, b}) >= y
  BY <1>2 DEF Max
<1> QED
  BY <1>3, <1>4

\* What is recorded of a path.
NowAt(p, q) == IF Under(cmd[p].path, q) THEN SizeAt(q) ELSE 0

\* A step records the sizes as they are after it.
LEMMA WatchIs ==
  ASSUME Base, Base', lo \in [Procs -> [Paths -> Nat]], hi \in [Procs -> [Paths -> Nat]], Watch, NEW p \in Procs
  PROVE  /\ lo' \in [Procs -> [Paths -> Nat]] /\ hi' \in [Procs -> [Paths -> Nat]]
         /\ Walking(p)' /\ pc[p] # "done" => Between(tree', size', cmd'[p], lo'[p], hi'[p])
         /\ Walking(p)' /\ pc[p] \notin {"idle", "done"} =>
              \A q \in Paths : lo'[p][q] <= lo[p][q] /\ hi[p][q] <= hi'[p][q]
         /\ Walking(p)' /\ pc[p] = "done" => lo'[p] = lo[p] /\ hi'[p] = hi[p]
<1>1. ASSUME NEW o \in Procs, NEW q \in Paths PROVE NowAt(o, q)' \in Nat
  <2>1. SizeAt(q)' \in Nat
    <3>1. Sizes \subseteq Nat
      BY ExecAssumption
    <3> QED
      BY <3>1 DEF Base, SizeAt
  <2> QED
    BY <2>1 DEF NowAt
<1>2. /\ lo' = [o \in Procs |->
            IF ~Walking(o)' THEN Zeros
            ELSE IF pc[o] = "idle" THEN [q \in Paths |-> NowAt(o, q)']
            ELSE IF pc[o] = "done" THEN lo[o]
            ELSE [q \in Paths |-> Min({lo[o][q], NowAt(o, q)'})]]
      /\ hi' = [o \in Procs |->
            IF ~Walking(o)' THEN Zeros
            ELSE IF pc[o] = "idle" THEN [q \in Paths |-> NowAt(o, q)']
            ELSE IF pc[o] = "done" THEN hi[o]
            ELSE [q \in Paths |-> Max({hi[o][q], NowAt(o, q)'})]]
  BY Zenon DEF Watch, Walking, NowAt
<1>3. ASSUME NEW o \in Procs, NEW q \in Paths
      PROVE  /\ Min({lo[o][q], NowAt(o, q)'}) \in Nat /\ Min({lo[o][q], NowAt(o, q)'}) <= lo[o][q]
             /\ Min({lo[o][q], NowAt(o, q)'}) <= NowAt(o, q)'
             /\ Max({hi[o][q], NowAt(o, q)'}) \in Nat /\ hi[o][q] <= Max({hi[o][q], NowAt(o, q)'})
             /\ NowAt(o, q)' <= Max({hi[o][q], NowAt(o, q)'})
  <2>1. lo[o][q] \in Nat /\ hi[o][q] \in Nat /\ NowAt(o, q)' \in Nat
    BY <1>1
  <2> QED
    BY <2>1, MinMaxOfTwo
<1>4. ASSUME NEW o \in Procs PROVE lo'[o] \in [Paths -> Nat] /\ hi'[o] \in [Paths -> Nat]
  <2>1. CASE ~Walking(o)'
    BY <1>2, <2>1 DEF Zeros
  <2>2. CASE Walking(o)' /\ pc[o] = "idle"
    <3>1. lo'[o] = [q \in Paths |-> NowAt(o, q)'] /\ hi'[o] = [q \in Paths |-> NowAt(o, q)']
      BY <1>2, <2>2
    <3> QED
      BY <1>1, <3>1
  <2>3. CASE Walking(o)' /\ pc[o] = "done"
    BY <1>2, <2>3
  <2>4. CASE Walking(o)' /\ pc[o] \notin {"idle", "done"}
    <3>1. /\ lo'[o] = [q \in Paths |-> Min({lo[o][q], NowAt(o, q)'})]
          /\ hi'[o] = [q \in Paths |-> Max({hi[o][q], NowAt(o, q)'})]
      BY <1>2, <2>4
    <3> QED
      BY <1>3, <3>1
  <2> QED
    BY <2>1, <2>2, <2>3, <2>4
<1>5. lo' \in [Procs -> [Paths -> Nat]] /\ hi' \in [Procs -> [Paths -> Nat]]
  <2>1. DOMAIN lo' = Procs /\ DOMAIN hi' = Procs /\ lo' = [o \in Procs |-> lo'[o]] /\ hi' = [o \in Procs |-> hi'[o]]
    BY <1>2
  <2> QED
    BY <1>4, <2>1
<1>6. ASSUME Walking(p)', pc[p] \notin {"idle", "done"}, NEW q \in Paths
      PROVE  /\ lo'[p][q] <= lo[p][q] /\ hi[p][q] <= hi'[p][q]
             /\ lo'[p][q] <= NowAt(p, q)' /\ NowAt(p, q)' <= hi'[p][q]
  <2>1. lo'[p][q] = Min({lo[p][q], NowAt(p, q)'}) /\ hi'[p][q] = Max({hi[p][q], NowAt(p, q)'})
    BY <1>2, <1>6
  <2> QED
    BY <1>3, <2>1
<1>7. ASSUME Walking(p)', pc[p] = "idle", NEW q \in Paths
      PROVE  lo'[p][q] <= NowAt(p, q)' /\ NowAt(p, q)' <= hi'[p][q]
  <2>1. lo'[p][q] = NowAt(p, q)' /\ hi'[p][q] = NowAt(p, q)'
    BY <1>2, <1>7
  <2> QED
    BY <1>1, <2>1
<1>8. ASSUME Walking(p)', pc[p] # "done" PROVE Between(tree', size', cmd'[p], lo'[p], hi'[p])
  <2>1. ASSUME NEW q \in Paths
        PROVE  /\ Under(cmd'[p].path, q) => lo'[p][q] <= SizeAt(q)' /\ SizeAt(q)' <= hi'[p][q]
               /\ ~Under(cmd'[p].path, q) => lo'[p][q] = 0
    <3>1. lo'[p][q] <= NowAt(p, q)' /\ NowAt(p, q)' <= hi'[p][q]
      BY <1>6, <1>7, <1>8
    <3>2. NowAt(p, q)' = IF Under(cmd'[p].path, q) THEN SizeAt(q)' ELSE 0
      BY DEF NowAt, Under
    <3>3. lo'[p][q] \in Nat
      BY <1>5
    <3>4. \A n \in Nat : n <= 0 => n = 0
      OBVIOUS
    <3> QED
      BY <3>1, <3>2, <3>3, <3>4
  <2> QED
    BY <2>1 DEF Between, SizeAt
<1>9. ASSUME Walking(p)', pc[p] = "done" PROVE lo'[p] = lo[p] /\ hi'[p] = hi[p]
  BY <1>2, <1>9
<1> QED
  BY <1>5, <1>6, <1>8, <1>9

------------------------------------------------------------------------------
(* The steps of a walk *)

\* The tree tr2 has what tr has, and lw2 and hg2 span what lw and hg span.
Kept(tr, tr2) == \A q \in Paths : tr[q] # Absent => tr2[q] = tr[q]
Wider(lw, hg, lw2, hg2) ==
  /\ lw \in [Paths -> Nat] /\ hg \in [Paths -> Nat] /\ lw2 \in [Paths -> Nat] /\ hg2 \in [Paths -> Nat]
  /\ \A q \in Paths : lw2[q] <= lw[q] /\ hg[q] <= hg2[q]

\* OthersMayWrite, of a tree and of sizes that are given.
LEMMA WalkKept ==
  \A tr, tr2, lw, hg, lw2, hg2, l, c, w :
    Kept(tr, tr2) /\ Wider(lw, hg, lw2, hg2) /\ w \in Walks /\ OnItsWay(tr, l, c, w, lw, hg)
      => OnItsWay(tr2, l, c, w, lw2, hg2)
BY OthersMayWrite DEF Kept, Wider

\* A walk that goes on, whatever was added to the tree meanwhile.
LEMMA StillWalking ==
  ASSUME UsageInv, Base', Grows, Watch, NEW p \in Procs, Walking(p), pc[p] # "done",
         cmd'[p] = cmd[p], rep'[p] = rep[p], AtDir(pc'[p]) \/ pc'[p] = "entries",
         pc'[p] \in {"detect", "open"} => cmd[p].verb = "zfs used",
         OnItsWay(tree, pc'[p], cmd[p], walk'[p], lo[p], hi[p])
  PROVE  Walked(p)'
<1>1. /\ Base /\ lo \in [Procs -> [Paths -> Nat]] /\ hi \in [Procs -> [Paths -> Nat]]
      /\ rep[p].verdict = "none"
  BY DEF UsageInv, CreatedInv, Walked
<1>2. Walking(p)' /\ pc'[p] # "done" /\ pc[p] \notin {"idle", "done"}
  BY DEF Walking, AtDir
<1>3. /\ lo' \in [Procs -> [Paths -> Nat]] /\ hi' \in [Procs -> [Paths -> Nat]]
      /\ Between(tree', size', cmd'[p], lo'[p], hi'[p])
      /\ \A q \in Paths : lo'[p][q] <= lo[p][q] /\ hi[p][q] <= hi'[p][q]
  BY <1>1, <1>2, WatchIs
<1>4. walk'[p] \in Walks
  BY DEF Base
<1>5. OnItsWay(tree', pc'[p], cmd[p], walk'[p], lo'[p], hi'[p])
  <2>1. lo[p] \in [Paths -> Nat] /\ hi[p] \in [Paths -> Nat] /\ lo'[p] \in [Paths -> Nat] /\ hi'[p] \in [Paths -> Nat]
    BY <1>1, <1>3
  <2>2. \A q \in Paths : tree[q] # Absent => tree'[q] = tree[q]
    BY DEF Grows
  <2>3. Kept(tree, tree') /\ Wider(lo[p], hi[p], lo'[p], hi'[p])
    BY <1>3, <2>1, <2>2 DEF Kept, Wider
  <2> QED
    BY <1>4, <2>3, WalkKept, Zenon
<1>6. OnItsWay(tree, pc[p], cmd[p], walk[p], lo[p], hi[p])' /\ Between(tree, size, cmd[p], lo[p], hi[p])'
  <2>1. OnItsWay(tree', pc'[p], cmd'[p], walk'[p], lo'[p], hi'[p])
    BY <1>5
  <2> QED
    BY <1>3, <2>1 DEF OnItsWay, GoodEntry, Under, AtDir, Apart, Ahead, OnStack, Tally, SumOn, Summing, Plus, Some, Between
<1> QED
  BY <1>1, <1>2, <1>6 DEF Walked

\* A walk that has printed "ok" told no more and, if it missed nothing, no less than there was.
LEMMA HasPrinted ==
  ASSUME UsageInv, Base', Watch, NEW p \in Procs, pc[p] \notin {"idle", "done"}, cmd'[p] = cmd[p], pc'[p] = "done",
         Walking(p) /\ rep'[p].verdict = "ok" =>
            /\ rep'[p].used \in Nat /\ rep'[p].used <= SumOn(hi[p], Paths)
            /\ ~walk'[p].blind /\ ~walk'[p].failed => SumOn(lo[p], Paths) <= rep'[p].used
  PROVE  Walked(p)'
<1>1. Base /\ lo \in [Procs -> [Paths -> Nat]] /\ hi \in [Procs -> [Paths -> Nat]]
  BY DEF UsageInv, CreatedInv
<1>2. SUFFICES ASSUME Walking(p), rep'[p].verdict = "ok"
               PROVE  /\ rep'[p].used <= SumOn(hi'[p], Paths)
                      /\ ~walk'[p].blind /\ ~walk'[p].failed => SumOn(lo'[p], Paths) <= rep'[p].used
  BY DEF Walked, Walking, SumOn, Summing, Plus, Some
<1>3. Walking(p)'
  BY <1>2 DEF Walking
<1>4. /\ lo' \in [Procs -> [Paths -> Nat]] /\ hi' \in [Procs -> [Paths -> Nat]]
      /\ \A q \in Paths : lo'[p][q] <= lo[p][q] /\ hi[p][q] <= hi'[p][q]
  BY <1>1, <1>3, WatchIs
<1>5. /\ lo[p] \in [Paths -> Nat] /\ hi[p] \in [Paths -> Nat] /\ lo'[p] \in [Paths -> Nat] /\ hi'[p] \in [Paths -> Nat]
      /\ Paths \in SUBSET Paths
  BY <1>1, <1>4
<1>6. SumOn(lo'[p], Paths) <= SumOn(lo[p], Paths) /\ SumOn(hi[p], Paths) <= SumOn(hi'[p], Paths)
  BY <1>4, <1>5, SumGrows
<1>7. /\ SumOn(lo'[p], Paths) \in Nat /\ SumOn(lo[p], Paths) \in Nat
      /\ SumOn(hi'[p], Paths) \in Nat /\ SumOn(hi[p], Paths) \in Nat
  BY <1>5, SumIs
<1>8. rep'[p].used \in Nat /\ rep'[p].used <= SumOn(hi[p], Paths)
  BY <1>2
<1>9. rep'[p].used <= SumOn(hi'[p], Paths)
  BY <1>6, <1>7, <1>8
<1>10. SumOn(lo[p], Paths) <= rep'[p].used => SumOn(lo'[p], Paths) <= rep'[p].used
  BY <1>6, <1>7, <1>8
<1> QED
  BY <1>2, <1>9, <1>10, Zenon

\* A step of another process.
LEMMA OthersKeep ==
  ASSUME UsageInv, Base', Grows, Watch, NEW p \in Procs,
         pc'[p] = pc[p], cmd'[p] = cmd[p], walk'[p] = walk[p], rep'[p] = rep[p]
  PROVE  Walked(p)'
<1>0. Walked(p) /\ Base /\ lo \in [Procs -> [Paths -> Nat]] /\ hi \in [Procs -> [Paths -> Nat]]
  BY DEF UsageInv, CreatedInv
<1>1. CASE ~Walking(p)
  BY <1>0, <1>1 DEF Walked, Walking
<1>2. CASE Walking(p) /\ pc[p] # "done"
  <2>1. /\ AtDir(pc[p]) \/ pc[p] = "entries"
        /\ pc[p] \in {"detect", "open"} => cmd[p].verb = "zfs used"
        /\ OnItsWay(tree, pc[p], cmd[p], walk[p], lo[p], hi[p])
    BY <1>0, <1>2 DEF Walked
  <2>2. OnItsWay(tree, pc'[p], cmd[p], walk'[p], lo[p], hi[p])
    BY <2>1
  <2>3. AtDir(pc'[p]) \/ pc'[p] = "entries"
    BY <2>1
  <2> QED
    BY <1>2, <2>1, <2>2, <2>3, StillWalking
<1>3. CASE Walking(p) /\ pc[p] = "done"
  <2>1. Walking(p)'
    BY <1>3 DEF Walking
  <2>2. lo'[p] = lo[p] /\ hi'[p] = hi[p]
    BY <1>0, <1>3, <2>1, WatchIs
  <2> QED
    BY <1>0, <1>3, <2>2 DEF Walked, Walking, SumOn, Summing, Plus, Some, AtDir
<1> QED
  BY <1>1, <1>2, <1>3

\* What the invariant says of a process in a walk.
LEMMA Walker ==
  ASSUME UsageInv, NEW p \in Procs
  PROVE  /\ CreatedInv /\ Base /\ Rooted /\ Walked(p) /\ walk[p] \in Walks
         /\ lo[p] \in [Paths -> Nat] /\ hi[p] \in [Paths -> Nat]
         /\ Walking(p) /\ pc[p] # "done" =>
              /\ OnItsWay(tree, pc[p], cmd[p], walk[p], lo[p], hi[p])
              /\ Between(tree, size, cmd[p], lo[p], hi[p])
              /\ cmd[p] \in Commands /\ rep[p].verdict = "none"
<1>1. CreatedInv /\ Base /\ Rooted /\ Walked(p)
  BY DEF UsageInv, CreatedInv
<1>2. lo[p] \in [Paths -> Nat] /\ hi[p] \in [Paths -> Nat]
  BY DEF UsageInv
<1>3. pc[p] # "idle" => cmd[p] \in Commands
  BY <1>1, Here
<1> QED
  BY <1>1, <1>2, <1>3, Here DEF Walked, Walking

\* A command begins, or is refused.
LEMMA BegunWalk ==
  ASSUME UsageInv, Watch, fsType' = fsType, NEW p \in Procs, Begin(p)
  PROVE  Walked(p)'
<1>0. Base /\ Walked(p) /\ lo \in [Procs -> [Paths -> Nat]] /\ hi \in [Procs -> [Paths -> Nat]]
  BY DEF UsageInv, CreatedInv
<1>1. PICK c \in Commands : Start(p, c) \/ Refuse(p, c)
  BY DEF Begin
<1>2. CASE Refuse(p, c)
  <2>1. pc'[p] = "done" /\ rep'[p] = [verdict |-> "error", used |-> 0]
    BY <1>0, <1>2, RefuseStep
  <2>2. rep'[p].verdict = "error"
    BY <2>1
  <2> QED
    BY <2>1, <2>2 DEF Walked
<1>3. CASE Start(p, c)
  <2>1. /\ StepOf(p) /\ pc[p] = "idle" /\ cmd'[p] = c /\ walk'[p] = [NoWalk EXCEPT !.dir = c.path]
        /\ rep'[p] = rep[p]
        /\ pc'[p] = (IF c.family # "any" THEN "detect" ELSE IF c.verb \in WalkVerbs THEN "list" ELSE "apply")
    BY <1>0, <1>3, StartStep
  <2>2. rep'[p].verdict = "none" /\ pc'[p] # "done"
    BY <1>0, <2>1 DEF Walked
  <2>3. CASE ~Walking(p)'
    BY <2>2, <2>3 DEF Walked
  <2>4. CASE Walking(p)'
    <3>1. c.verb \in WalkVerbs
      BY <2>1, <2>4 DEF Walking
    <3>2. AtDir(pc'[p]) /\ (pc'[p] = "detect" => c.verb = "zfs used") /\ pc'[p] # "open"
      <4>1. CASE c.family = "any"
        BY <2>1, <3>1, <4>1 DEF AtDir
      <4>2. CASE c.family # "any"
        <5>1. c.verb \in execDispatch(c.family)
          BY <1>3 DEF Start
        <5>2. c.verb = "zfs used"
          BY <3>1, <4>2, <5>1
             DEF execDispatch, WalkVerbs, handleNtfs, handleBtrfs, handleXfs, handleZfs, handleLabel
        <5> QED
          BY <2>1, <4>2, <5>2 DEF AtDir
      <4> QED
        BY <4>1, <4>2
    <3>3. /\ lo' \in [Procs -> [Paths -> Nat]] /\ hi' \in [Procs -> [Paths -> Nat]]
          /\ Between(tree', size', cmd'[p], lo'[p], hi'[p])
      <4>1. Base'
        BY <2>1 DEF StepOf
      <4> QED
        BY <1>0, <2>1, <2>4, <4>1, WatchIs
    <3>4. OnItsWay(tree', pc'[p], c, walk'[p], lo'[p], hi'[p])
      <4>1. lo'[p] \in [Paths -> Nat] /\ hi'[p] \in [Paths -> Nat]
        BY <3>3
      <4>2. \A q \in Paths : ~Under(c.path, q) => lo'[p][q] = 0
        BY <2>1, <3>3 DEF Between
      <4> QED
        BY <2>1, <3>2, <4>1, <4>2, FreshWalk
    <3>5. OnItsWay(tree, pc[p], cmd[p], walk[p], lo[p], hi[p])' /\ Between(tree, size, cmd[p], lo[p], hi[p])'
      <4>1. OnItsWay(tree', pc'[p], cmd'[p], walk'[p], lo'[p], hi'[p])
        BY <2>1, <3>4
      <4> QED
        BY <3>3, <4>1 DEF OnItsWay, GoodEntry, Under, AtDir, Apart, Ahead, OnStack, Tally, SumOn, Summing, Plus, Some, Between
    <3> QED
      BY <2>1, <2>2, <2>4, <3>2, <3>5 DEF Walked, AtDir
  <2> QED
    BY <2>3, <2>4
<1> QED
  BY <1>1, <1>2, <1>3

\* Detection and Open.
LEMMA OpenedWalk ==
  ASSUME UsageInv, Watch, fsType' = fsType, NEW p \in Procs, Detect(p) \/ Open(p)
  PROVE  Walked(p)'
<1>0. Base /\ tree \in Trees /\ Walked(p)
  BY DEF UsageInv, CreatedInv, Base
<1>1. /\ StepOf(p) /\ pc[p] \in {"detect", "open"} /\ cmd'[p] = cmd[p] /\ walk'[p] = walk[p]
      /\ \/ pc'[p] \in {"open", "apply", "stat", "list"} /\ rep'[p] = rep[p]
         \/ pc'[p] = "done" /\ rep'[p].verdict = "error"
      /\ pc[p] = "detect" => pc'[p] \in {"open", "done"}
      /\ pc[p] = "open" /\ cmd[p].verb = "zfs used" => pc'[p] \in {"list", "done"}
  BY <1>0, OpenStep
<1>2. Base' /\ Grows
  BY <1>0, <1>1, EntriesStay DEF StepOf
<1>3. CASE pc'[p] = "done" /\ rep'[p].verdict = "error"
  BY <1>3 DEF Walked
<1>4. CASE ~Walking(p) /\ pc'[p] # "done" /\ rep'[p] = rep[p]
  BY <1>0, <1>1, <1>4 DEF Walked, Walking
<1>5. CASE Walking(p) /\ pc'[p] # "done" /\ rep'[p] = rep[p]
  <2>1. cmd[p].verb = "zfs used" /\ pc'[p] \in {"open", "list"}
    BY <1>0, <1>1, <1>5 DEF Walked
  <2>2. AtDir(pc[p]) /\ AtDir(pc'[p])
    BY <1>1, <2>1 DEF AtDir
  <2>3. OnItsWay(tree, pc[p], cmd[p], walk[p], lo[p], hi[p])
    BY <1>0, <1>1, <1>5 DEF Walked
  <2>4. OnItsWay(tree, pc'[p], cmd[p], walk[p], lo[p], hi[p])
    <3>1. \A x : Ahead(pc'[p], walk[p], x) <=> Ahead(pc[p], walk[p], x)
      BY <2>2 DEF Ahead
    <3>2. Apart(pc'[p], walk[p])
      BY <2>2, <2>3, <3>1 DEF OnItsWay, Apart
    <3>3. PICK C \in SUBSET Paths : Tally(pc[p], walk[p], lo[p], hi[p], C)
      BY <2>3 DEF OnItsWay
    <3>4. Tally(pc'[p], walk[p], lo[p], hi[p], C)
      BY <3>1, <3>3 DEF Tally
    <3> QED
      BY <2>2, <2>3, <3>2, <3>4 DEF OnItsWay
  <2> QED
    BY <1>1, <1>2, <1>5, <2>1, <2>2, <2>4, StillWalking
<1> QED
  BY <1>1, <1>3, <1>4, <1>5

\* A directory is listed, or cannot be.
LEMMA ListingWalk ==
  ASSUME UsageInv, Watch, fsType' = fsType, NEW p \in Procs, List(p)
  PROVE  Walked(p)'
<1>0. Base /\ tree \in Trees /\ Walked(p) /\ Rooted
  BY DEF UsageInv, CreatedInv, Base
<1>1. /\ StepOf(p) /\ pc[p] = "list" /\ cmd'[p] = cmd[p] /\ UNCHANGED <<tree, size>>
      /\ walk[p].dir \in Paths /\ cmd[p] \in Commands /\ walk[p] \in Walks
  <2>1. StepOf(p) /\ pc[p] = "list" /\ cmd'[p] = cmd[p] /\ UNCHANGED <<tree, size>>
    BY <1>0, ListStep
  <2> QED
    BY <1>0, <2>1, Here DEF Local
<1>2. Base' /\ Grows /\ walk'[p] \in Walks
  <2>1. Base'
    BY <1>1 DEF StepOf
  <2> QED
    BY <1>0, <1>1, <2>1, EntriesStay DEF StepOf, Base
<1>3. CASE pc'[p] = "done" /\ rep'[p].verdict = "error"
  BY <1>3 DEF Walked
<1>4. CASE pc'[p] = "done" /\ walk'[p].failed = TRUE /\ rep'[p].used \in {0, walk[p].sum}
  <2>1. ASSUME Walking(p) PROVE rep'[p].used \in Nat /\ rep'[p].used <= SumOn(hi[p], Paths)
    <3>1. /\ OnItsWay(tree, pc[p], cmd[p], walk[p], lo[p], hi[p])
          /\ lo[p] \in [Paths -> Nat] /\ hi[p] \in [Paths -> Nat]
      BY <1>1, <2>1, Walker
    <3>2. walk[p].sum <= SumOn(hi[p], Paths)
      BY <1>1, <3>1, WalkGivenUp
    <3>3. walk[p].sum \in Nat /\ SumOn(hi[p], Paths) \in Nat
      BY <1>1, <3>1, SumIs DEF Walks
    <3> QED
      BY <1>4, <3>2, <3>3
  <2> QED
    BY <1>1, <1>2, <1>4, <2>1, HasPrinted
<1>5. CASE pc'[p] = "entries" /\ rep'[p] = rep[p] /\ Walking(p)
  <2>1. /\ OnItsWay(tree, "list", cmd[p], walk[p], lo[p], hi[p]) /\ Between(tree, size, cmd[p], lo[p], hi[p])
        /\ lo[p] \in [Paths -> Nat] /\ hi[p] \in [Paths -> Nat]
    BY <1>1, <1>5, Walker
  <2>2. /\ Revisited(cmd[p], walk[p]) \/ tree[walk[p].dir] = Dir
        /\ walk'[p].visited = Visit(cmd[p], walk[p]) /\ walk'[p].sum = walk[p].sum
        /\ \E un \in Unseen(cmd[p], walk[p].dir) :
             LET new == ListEntries(p, un)
                 s == walk[p].stack
                 t == walk'[p].stack
             IN /\ new \subseteq EntryRecs
                /\ (walk'[p].blind <=> (walk[p].blind \/ un # {}))
                /\ Len(t) \in {Len(s), Len(s) + 1}
                /\ \A k \in 1..Len(s) : t[k] = s[k]
                /\ Len(t) = Len(s) + 1 => t[Len(s) + 1] = new
                /\ Len(t) = Len(s) => new = {}
    <3>1. pc'[p] # "done"
      BY <1>5
    <3> QED
      BY <1>0, <3>1, ListStep, Zenon
  <2>3. PICK un \in Unseen(cmd[p], walk[p].dir) :
             LET new == ListEntries(p, un)
                 s == walk[p].stack
                 t == walk'[p].stack
             IN /\ new \subseteq EntryRecs
                /\ (walk'[p].blind <=> (walk[p].blind \/ un # {}))
                /\ Len(t) \in {Len(s), Len(s) + 1}
                /\ \A k \in 1..Len(s) : t[k] = s[k]
                /\ Len(t) = Len(s) + 1 => t[Len(s) + 1] = new
                /\ Len(t) = Len(s) => new = {}
    BY <2>2, Zenon
  <2> DEFINE c == cmd[p]
             w == walk[p]
             w2 == walk'[p]
             lw == lo[p]
             hg == hi[p]
             new == ListEntries(p, un)
  <2>4. new = {ListEntry(c, q, q \notin un) : q \in IF Revisited(c, w) THEN {} ELSE Children(w.dir)}
    BY DEF ListEntries
  <2>5. /\ c \in Commands /\ w \in Walks /\ w2 \in Walks /\ lw \in [Paths -> Nat] /\ hg \in [Paths -> Nat]
        /\ OnItsWay(tree, "list", c, w, lw, hg) /\ Between(tree, size, c, lw, hg)
        /\ w.dir \in Paths /\ (Revisited(c, w) \/ tree[w.dir] = Dir)
    BY <1>1, <1>2, <2>1, <2>2
  <2>6. w2.visited = Visit(c, w) /\ w2.sum = w.sum /\ (w2.blind <=> (w.blind \/ un # {}))
    BY <2>2, <2>3, Zenon
  <2>7. /\ Len(w2.stack) \in {Len(w.stack), Len(w.stack) + 1}
        /\ \A k \in 1..Len(w.stack) : w2.stack[k] = w.stack[k]
        /\ Len(w2.stack) = Len(w.stack) + 1 => w2.stack[Len(w.stack) + 1] = new
        /\ Len(w2.stack) = Len(w.stack) => new = {}
    BY <2>3, Zenon
  <2> HIDE DEF c, w, w2, lw, hg, new
  <2>8. OnItsWay(tree, "entries", c, w2, lw, hg)
    BY <1>0, <2>4, <2>5, <2>6, <2>7, ListedWalk
  <2>9. OnItsWay(tree, pc'[p], cmd[p], walk'[p], lo[p], hi[p])
    BY <1>5, <2>8 DEF c, w2, lw, hg
  <2> QED
    BY <1>1, <1>2, <1>5, <2>9, StillWalking
<1>6. CASE pc'[p] = "entries" /\ rep'[p] = rep[p] /\ ~Walking(p)
  BY <1>0, <1>1, <1>6 DEF Walked, Walking
<1> QED
  BY <1>0, <1>3, <1>4, <1>5, <1>6, ListStep, Zenon

\* The next entry, or the end.
LEMMA EntriesWalk ==
  ASSUME UsageInv, Watch, fsType' = fsType, NEW p \in Procs, Entry(p)
  PROVE  Walked(p)'
<1>0. Base /\ tree \in Trees /\ Walked(p) /\ Rooted
  BY DEF UsageInv, CreatedInv, Base
<1>1. /\ StepOf(p) /\ pc[p] = "entries" /\ cmd'[p] = cmd[p] /\ UNCHANGED <<tree, size>> /\ rep'[p] = rep[p]
      /\ walk'[p].visited = walk[p].visited /\ walk[p].stack # <<>>
      /\ \E e \in walk[p].stack[Len(walk[p].stack)] :
              LET s == walk[p].stack
                  t == walk'[p].stack
              IN /\ Len(t) \in {Len(s) - 1, Len(s)}
                 /\ \A k \in 1..Len(t) : t[k] = IF k = Len(s) THEN s[k] \ {e} ELSE s[k]
                 /\ Len(t) # Len(s) => s[Len(s)] = {e}
                 /\ \/ /\ e.dir /\ pc'[p] = "list" /\ walk'[p].dir = e.path
                       /\ walk'[p].sum = walk[p].sum /\ (walk'[p].blind <=> walk[p].blind)
                    \/ /\ ~e.dir /\ pc'[p] = "entries"
                       /\ \E m \in Measured(cmd[p], e) :
                            /\ walk'[p].sum = walk[p].sum + m[1]
                            /\ (walk'[p].blind <=> (walk[p].blind \/ ~m[2]))
  BY <1>0, EntryStep, Zenon
<1>2. Base' /\ Grows /\ walk'[p] \in Walks /\ walk[p] \in Walks /\ cmd[p] \in Commands
  <2>1. Base'
    BY <1>1 DEF StepOf
  <2>2. cmd[p] \in Commands /\ walk[p] \in Walks
    BY <1>0, <1>1, Here
  <2> QED
    BY <1>0, <1>1, <2>1, <2>2, EntriesStay DEF StepOf, Base
<1>3. PICK e \in walk[p].stack[Len(walk[p].stack)] :
              LET s == walk[p].stack
                  t == walk'[p].stack
              IN /\ Len(t) \in {Len(s) - 1, Len(s)}
                 /\ \A k \in 1..Len(t) : t[k] = IF k = Len(s) THEN s[k] \ {e} ELSE s[k]
                 /\ Len(t) # Len(s) => s[Len(s)] = {e}
                 /\ \/ /\ e.dir /\ pc'[p] = "list" /\ walk'[p].dir = e.path
                       /\ walk'[p].sum = walk[p].sum /\ (walk'[p].blind <=> walk[p].blind)
                    \/ /\ ~e.dir /\ pc'[p] = "entries"
                       /\ \E m \in Measured(cmd[p], e) :
                            /\ walk'[p].sum = walk[p].sum + m[1]
                            /\ (walk'[p].blind <=> (walk[p].blind \/ ~m[2]))
  BY <1>1, Zenon
<1>4. TakenOff(walk[p], walk'[p], e)
  BY <1>1, <1>3, Zenon DEF TakenOff
<1>5. pc'[p] \in {"list", "entries"}
  BY <1>3, Zenon
<1>6. CASE ~Walking(p)
  BY <1>0, <1>1, <1>5, <1>6 DEF Walked, Walking
<1>7. CASE Walking(p)
  <2>1. /\ OnItsWay(tree, "entries", cmd[p], walk[p], lo[p], hi[p]) /\ Between(tree, size, cmd[p], lo[p], hi[p])
        /\ lo[p] \in [Paths -> Nat] /\ hi[p] \in [Paths -> Nat]
    BY <1>1, <1>7, Walker
  <2> DEFINE c == cmd[p]
             w == walk[p]
             w2 == walk'[p]
             lw == lo[p]
             hg == hi[p]
             l == pc'[p]
  <2>2. /\ c \in Commands /\ w \in Walks /\ w2 \in Walks /\ lw \in [Paths -> Nat] /\ hg \in [Paths -> Nat]
        /\ OnItsWay(tree, "entries", c, w, lw, hg) /\ Between(tree, size, c, lw, hg) /\ TakenOff(w, w2, e)
    BY <1>2, <1>4, <2>1
  <2>3. \/ e.dir /\ l = "list" /\ w2.dir = e.path /\ w2.sum = w.sum /\ (w2.blind <=> w.blind)
        \/ /\ ~e.dir /\ l = "entries"
           /\ \E m \in Measured(c, e) : w2.sum = w.sum + m[1] /\ (w2.blind <=> (w.blind \/ ~m[2]))
    BY <1>3, Zenon
  <2> HIDE DEF c, w, w2, lw, hg, l
  <2>4. OnItsWay(tree, l, c, w2, lw, hg)
    <3>1. CASE e.dir /\ l = "list" /\ w2.dir = e.path /\ w2.sum = w.sum /\ (w2.blind <=> w.blind)
      BY <2>2, <3>1, DownWalk
    <3>2. CASE /\ ~e.dir /\ l = "entries"
               /\ \E m \in Measured(c, e) : w2.sum = w.sum + m[1] /\ (w2.blind <=> (w.blind \/ ~m[2]))
      BY <1>0, <2>2, <3>2, AddedWalk
    <3> QED
      BY <2>3, <3>1, <3>2
  <2>5. OnItsWay(tree, pc'[p], cmd[p], walk'[p], lo[p], hi[p])
    BY <2>4 DEF c, w2, lw, hg, l
  <2>6. AtDir(pc'[p]) \/ pc'[p] = "entries"
    BY <1>5 DEF AtDir
  <2> QED
    BY <1>1, <1>2, <1>5, <1>7, <2>5, <2>6, StillWalking
<1> QED
  BY <1>6, <1>7

\* The walk is over.
LEMMA EndedWalk ==
  ASSUME UsageInv, Watch, fsType' = fsType, NEW p \in Procs, WalkDone(p)
  PROVE  Walked(p)'
<1>0. Base
  BY DEF UsageInv, CreatedInv
<1>1. /\ StepOf(p) /\ pc[p] = "entries" /\ cmd'[p] = cmd[p]
      /\ pc'[p] = "done" /\ walk'[p] = walk[p] /\ walk[p].stack = <<>>
      /\ \/ rep'[p].verdict = "ok" /\ rep'[p].used = walk[p].sum
         \/ rep'[p].verdict = "error"
  BY <1>0, WalkDoneStep
<1>2. Base' /\ walk[p] \in Walks
  BY <1>0, <1>1, Here DEF StepOf
<1>3. ASSUME Walking(p), rep'[p].verdict = "ok"
      PROVE  /\ rep'[p].used \in Nat /\ rep'[p].used <= SumOn(hi[p], Paths)
             /\ ~walk'[p].blind /\ ~walk'[p].failed => SumOn(lo[p], Paths) <= rep'[p].used
  <2>1. /\ OnItsWay(tree, "entries", cmd[p], walk[p], lo[p], hi[p])
        /\ lo[p] \in [Paths -> Nat] /\ hi[p] \in [Paths -> Nat]
    BY <1>1, <1>3, Walker
  <2>2. walk[p].sum <= SumOn(hi[p], Paths) /\ (~walk[p].blind => SumOn(lo[p], Paths) <= walk[p].sum)
    BY <1>1, <1>2, <2>1, WalkOver
  <2>3. rep'[p].used = walk[p].sum /\ walk[p].sum \in Nat
    BY <1>1, <1>2, <1>3 DEF Walks
  <2> QED
    BY <1>1, <2>2, <2>3, Zenon
<1> QED
  BY <1>1, <1>2, <1>3, HasPrinted

\* Every step of a process keeps what its walk has found.
LEMMA OwnStep ==
  ASSUME UsageInv, Watch, fsType' = fsType, NEW p \in Procs, Begin(p) \/ Work(p) \/ Exit(p)
  PROVE  Walked(p)'
<1>0. Base /\ Walked(p)
  BY DEF UsageInv, CreatedInv
<1>1. CASE Begin(p)
  BY <1>1, BegunWalk
<1>2. CASE Exit(p)
  <2>1. pc'[p] = "idle" /\ rep'[p] = NoReport
    BY <1>0, <1>2, ExitStep
  <2> QED
    BY <2>1 DEF Walked, Walking, NoReport
<1>3. CASE Detect(p) \/ Open(p)
  BY <1>3, OpenedWalk
<1>4. ASSUME pc[p] \in {"apply", "stat", "mkdir"}, cmd'[p] = cmd[p],
             pc'[p] # "done" => rep'[p] = rep[p]
      PROVE  Walked(p)'
  <2>1. ~Walking(p) /\ (pc'[p] # "done" => rep'[p].verdict = "none")
    BY <1>0, <1>4 DEF Walked, AtDir
  <2>2. ~Walking(p)'
    BY <1>4, <2>1 DEF Walking
  <2> QED
    BY <2>1, <2>2 DEF Walked
<1>5. CASE Apply(p)
  <2>1. pc[p] = "apply" /\ cmd'[p] = cmd[p] /\ pc'[p] = "done"
    BY <1>0, <1>5, ApplyStep
  <2> QED
    BY <1>4, <2>1
<1>6. CASE CreateStat(p)
  <2>1. pc[p] = "stat" /\ cmd'[p] = cmd[p] /\ rep'[p] = rep[p]
    BY <1>0, <1>6, CreateStatStep
  <2> QED
    BY <1>4, <2>1
<1>7. CASE CreateMkDir(p)
  <2>1. pc[p] = "mkdir" /\ cmd'[p] = cmd[p] /\ (pc'[p] # "done" => rep'[p] = rep[p])
    BY <1>0, <1>7, CreateMkDirStep
  <2> QED
    BY <1>4, <2>1
<1>8. CASE CreateDone(p)
  <2>1. pc[p] = "stat" /\ cmd'[p] = cmd[p] /\ pc'[p] = "done"
    BY <1>0, <1>8, CreateDoneStep
  <2> QED
    BY <1>4, <2>1
<1>9. CASE List(p)
  BY <1>9, ListingWalk
<1>10. CASE Entry(p)
  BY <1>10, EntriesWalk
<1>11. CASE WalkDone(p)
  BY <1>11, EndedWalk
<1> QED
  BY <1>1, <1>2, <1>3, <1>5, <1>6, <1>7, <1>8, <1>9, <1>10, <1>11 DEF Work

\* The inductive invariant, with the walks.
LEMMA NextUsage ==
  ASSUME UsageInv, [Next]_vars PROVE UsageInv'
<1>0. CreatedInv /\ Base /\ tree \in Trees
  BY DEF UsageInv, CreatedInv, Base
<1>1. CreatedInv'
  BY <1>0, NextCreated
<1>2. CASE UNCHANGED vars
  <2>1. ASSUME NEW p \in Procs PROVE Walked(p)'
    <3>1. Walked(p)
      BY DEF UsageInv
    <3>2. /\ tree' = tree /\ size' = size /\ pc'[p] = pc[p] /\ cmd'[p] = cmd[p] /\ walk'[p] = walk[p]
          /\ rep'[p] = rep[p] /\ lo'[p] = lo[p] /\ hi'[p] = hi[p]
      BY <1>2 DEF vars
    <3>3. ASSUME OnItsWay(tree, pc[p], cmd[p], walk[p], lo[p], hi[p])
          PROVE  OnItsWay(tree, pc[p], cmd[p], walk[p], lo[p], hi[p])'
      <4>1. OnItsWay(tree', pc'[p], cmd'[p], walk'[p], lo'[p], hi'[p])
        BY <3>2, <3>3
      <4> QED
        BY <4>1 DEF OnItsWay, GoodEntry, Under, AtDir, Apart, Ahead, OnStack, Tally, SumOn, Summing, Plus, Some
    <3>4. ASSUME Between(tree, size, cmd[p], lo[p], hi[p]) PROVE Between(tree, size, cmd[p], lo[p], hi[p])'
      BY <3>2, <3>4 DEF Between, Under
    <3>5. /\ SumOn(hi[p], Paths)' = SumOn(hi[p], Paths) /\ SumOn(lo[p], Paths)' = SumOn(lo[p], Paths)
          /\ Walking(p)' = Walking(p) /\ AtDir(pc[p])' = AtDir(pc[p])
      BY <3>2 DEF SumOn, Summing, Plus, Some, Walking, AtDir
    <3> QED
      BY <3>1, <3>2, <3>3, <3>4, <3>5, Zenon DEF Walked
  <2> QED
    BY <1>1, <1>2, <2>1 DEF UsageInv, vars
<1>3. CASE Next
  <2>1. PICK p \in Procs : Begin(p) \/ Work(p) \/ Exit(p)
    BY <1>3 DEF Next
  <2>2. Watch /\ fsType' = fsType
    BY <1>3 DEF Next
  <2>3. StepOf(p)
    BY <1>0, <2>1, <2>2, AnyStep
  <2>4. Base' /\ OnlyOne(p) /\ Grows
    BY <1>0, <2>3, EntriesStay DEF StepOf
  <2>5. Walked(p)'
    BY <2>1, <2>2, OwnStep
  <2>6. ASSUME NEW o \in Procs, o # p PROVE Walked(o)'
    <3>1. pc'[o] = pc[o] /\ cmd'[o] = cmd[o] /\ walk'[o] = walk[o] /\ rep'[o] = rep[o]
      BY <2>4, <2>6 DEF OnlyOne
    <3> QED
      BY <2>2, <2>4, <3>1, OthersKeep
  <2>7. lo' \in [Procs -> [Paths -> Nat]] /\ hi' \in [Procs -> [Paths -> Nat]]
    BY <1>0, <2>1, <2>2, <2>4, WatchIs DEF UsageInv
  <2>8. \A o \in Procs : Walked(o)'
    BY <2>5, <2>6
  <2> QED
    BY <1>1, <2>7, <2>8 DEF UsageInv
<1> QED
  BY <1>2, <1>3

\* It holds at first: nobody walks.
LEMMA InitUsage ==
  ASSUME Init PROVE UsageInv
<1>1. lo \in [Procs -> [Paths -> Nat]] /\ hi \in [Procs -> [Paths -> Nat]]
  BY DEF Init, Zeros
<1>2. ASSUME NEW p \in Procs PROVE Walked(p)
  BY DEF Init, Walked, Walking, NoReport
<1> QED
  BY <1>1, <1>2, InitCreated DEF UsageInv

\* The invariant of every walk: no path is ahead of it twice, and what it has added up lies
\* between the sums of the smallest and of the largest sizes of what it has passed.
THEOREM UsageInvariant == Spec => []UsageInv
  BY InitUsage, NextUsage, PTL DEF Spec

\* du, df and the zfs commands print a figure that the files could have added up to while
\* they ran, whatever other processes make, link or resize between two listings.
THEOREM UsageTold == Spec => []UsageWithinRun
<1>1. ASSUME UsageInv PROVE UsageWithinRun
  <2>1. ASSUME NEW p \in Procs, rep[p].verdict = "ok", cmd[p].verb \in WalkVerbs
        PROVE  /\ rep[p].used <= SumOver(hi[p])
               /\ ~walk[p].blind /\ ~walk[p].failed => SumOver(lo[p]) <= rep[p].used
    <3>1. Walked(p)
      BY <1>1 DEF UsageInv
    <3>2. pc[p] = "done"
      BY <2>1, <3>1 DEF Walked
    <3>3. Walking(p)
      BY <2>1, <3>2 DEF Walking
    <3>4. SumOver(hi[p]) = SumOn(hi[p], Paths) /\ SumOver(lo[p]) = SumOn(lo[p], Paths)
      BY SumOverIs
    <3> QED
      BY <2>1, <3>1, <3>3, <3>4 DEF Walked
  <2> QED
    BY <2>1, Zenon DEF UsageWithinRun
<1> QED
  BY <1>1, UsageInvariant, PTL
=============================================================================
