------------------------------- MODULE FsTree -------------------------------
(***************************************************************************)
(* The contents of one filesystem, as the go-filesystems drivers present   *)
(* them to fileops.go.  The drivers are external: this module says only    *)
(* what fileops.go relies on, namely when a driver call succeeds and what   *)
(* it then does to the tree.  File contents are members of Data; a path is  *)
(* an opaque name with the sequence of its proper ancestors (outermost      *)
(* first, the root excluded), which is what strings.Split makes of          *)
(* path.Dir(filePath) in ensureParentDirs.                                  *)
(***************************************************************************)
EXTENDS Sequences, Naturals

CONSTANTS
  Paths,      \* the absolute paths callers name, the root excluded
  Ancestors,  \* Ancestors[q]: the proper ancestors of q, outermost first
  Data,       \* what a regular file can hold
  Absent,     \* "no such entry"
  Dir,        \* "a directory"
  NoData      \* the data of a request that carries none

ASSUME TreeAssumption ==
  /\ Ancestors \in [Paths -> Seq(Paths)]
  /\ Absent \notin Data
  /\ Dir \notin Data
  /\ NoData \notin Data
  /\ Absent # Dir
  /\ \A q \in Paths : \A i \in 1..Len(Ancestors[q]) :
       /\ Ancestors[q][i] # q
       /\ Ancestors[Ancestors[q][i]] = SubSeq(Ancestors[q], 1, i - 1)

Node == Data \cup {Absent, Dir}

\* The state of a filesystem: what is at each path.
Tree == [Paths -> Node]

\* q lies somewhere below d.
Below(d, q) == \E i \in 1..Len(Ancestors[q]) : Ancestors[q][i] = d

\* The directories on the way to q exist (the root always does).
HasParent(fs, q) == \A i \in 1..Len(Ancestors[q]) : fs[Ancestors[q][i]] = Dir

IsEmpty(fs, d) == \A q \in Paths : Below(d, q) => fs[q] = Absent

\* Operations of the filesystem.Filesystem interface that fileops.go calls.
ReadOps  == {"ReadFile", "Stat"}
WriteOps == {"WriteFile", "MkDir", "DeleteFile", "DeleteDir", "Rename"}
OpNames  == ReadOps \cup WriteOps

\* A request: the operation, FileOptions.FilePath, the data of WriteFile and the
\* new path of Rename.
Requests ==
  {r \in [op : OpNames, path : Paths, data : Data \cup {NoData}, to : Paths] :
     /\ r.op = "WriteFile" <=> r.data # NoData
     /\ r.op # "Rename" => r.to = r.path}

\* When a driver call succeeds, I/O errors aside.
DriverAccepts(fs, rq) ==
  \/ /\ rq.op = "ReadFile"
     /\ fs[rq.path] \in Data
  \/ /\ rq.op = "Stat"
     /\ fs[rq.path] # Absent
  \/ /\ rq.op = "WriteFile"
     /\ HasParent(fs, rq.path)
     /\ fs[rq.path] # Dir
  \/ /\ rq.op = "MkDir"
     /\ HasParent(fs, rq.path)
     /\ fs[rq.path] = Absent
  \/ /\ rq.op = "DeleteFile"
     /\ fs[rq.path] \in Data
  \/ /\ rq.op = "DeleteDir"
     /\ fs[rq.path] = Dir
  \/ /\ rq.op = "Rename"
     /\ fs[rq.path] # Absent
     /\ IsEmpty(fs, rq.path)
     /\ fs[rq.to] = Absent
     /\ HasParent(fs, rq.to)
     /\ ~Below(rq.path, rq.to)

\* What an accepted call does to the tree.
DriverEffect(fs, rq) ==
  CASE rq.op = "WriteFile"  -> [fs EXCEPT ![rq.path] = rq.data]
    [] rq.op = "MkDir"      -> [fs EXCEPT ![rq.path] = Dir]
    [] rq.op = "DeleteFile" -> [fs EXCEPT ![rq.path] = Absent]
    [] rq.op = "DeleteDir"  -> [q \in Paths |->
                                  IF q = rq.path \/ Below(rq.path, q)
                                    THEN Absent ELSE fs[q]]
    [] rq.op = "Rename"     -> [fs EXCEPT ![rq.to] = fs[rq.path], ![rq.path] = Absent]
    [] OTHER                -> fs

\* The paths whose entry an accepted call may replace or remove.
Touched(rq) ==
  CASE rq.op \in {"WriteFile", "DeleteFile", "MkDir"} -> {rq.path}
    [] rq.op = "DeleteDir" -> {q \in Paths : q = rq.path \/ Below(rq.path, q)}
    [] rq.op = "Rename"    -> {rq.path, rq.to}
    [] OTHER               -> {}
=============================================================================
