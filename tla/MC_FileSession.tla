--------------------------- MODULE MC_FileSession ---------------------------
(* Instances of FileSession for TLC. *)
EXTENDS FileSession, TLC

CONSTANTS dirA, dirB, fileC   \* path names

MCPaths == {dirA, fileC}
MCAncestors == (dirA :> <<>>) @@ (fileC :> <<dirA>>)

\* /A, /A/B and /A/B/C: two directories to make on the way to C.
DeepPaths == {dirA, dirB, fileC}
DeepAncestors ==
  (dirA :> <<>>) @@ (dirB :> <<dirA>>) @@ (fileC :> <<dirA, dirB>>)

UdifExt4 == [shape |-> "udif", fs |-> "ext4"]
UdifXfs == [shape |-> "udif", fs |-> "xfs"]
RawExt4 == [shape |-> "raw", fs |-> "ext4"]
AllMedia == {UdifExt4, UdifXfs, RawExt4}
BothExt4 == {UdifExt4, RawExt4}

Sym == Permutations(Procs) \cup Permutations(Temps)
=============================================================================
