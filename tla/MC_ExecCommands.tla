-------------------------- MODULE MC_ExecCommands --------------------------
(* An instance of ExecCommands: /, /a, /a/b, /a/f and /g. *)
EXTENDS ExecCommands, TLC

CONSTANTS root, a, b, f, g, i1

MCPaths == {root, a, b, f, g}
MCLineage ==
  (root :> <<>>) @@ (a :> <<a>>) @@ (b :> <<a, b>>) @@ (f :> <<a, f>>) @@ (g :> <<g>>)

Empty == [q \in MCPaths |-> IF q = root THEN Dir ELSE Absent]

WithF == [Empty EXCEPT ![a] = Dir, ![f] = i1]

\* The pool is empty, so that zfs create makes /a and /a/b; XFS and NTFS hold /a/f.
MCTrees == ("zfs" :> {Empty}) @@ ("xfs" :> {WithF}) @@ ("ntfs" :> {WithF})

Cmd(verb, family, path, to, sz) ==
  [verb |-> verb, family |-> family, path |-> path, to |-> to, size |-> sz]

MCCommands ==
  {Cmd("du", "any", a, root, 0),
   Cmd("df", "any", root, root, 0),
   Cmd("zfs used", "zfs", root, root, 0),
   Cmd("zfs create", "zfs", b, root, 0),
   Cmd("zfs create", "zfs", root, root, 0),
   Cmd("copy", "any", g, root, 2),
   Cmd("copy", "any", a, root, 1),
   Cmd("truncate", "xfs", f, root, 2),
   Cmd("link", "xfs", f, g, 0),
   Cmd("symlink", "xfs", f, g, 1),
   Cmd("set", "xfs", root, root, 0),
   Cmd("relabel", "ntfs", root, root, 0),
   Cmd("compact", "ntfs", root, root, 0),
   Cmd("show", "zfs", a, root, 0)}

=============================================================================
