SPECIFICATION Spec
CONSTANTS
  root = root
  a = a
  b = b
  f = f
  g = g
  i1 = i1
  Procs = {p1, p2}
  Walkers = {p1}
  Paths <- MCPaths
  Root = root
  Lineage <- MCLineage
  Inodes = {i1, i2, i3, i4, i5}
  Absent = Absent
  Dir = Dir
  Sizes = {0, 1, 2}
  Families = {"xfs", "zfs", "ntfs"}
  Commands <- MCCommands
  NoCommand = NoCommand
  InitTrees <- MCTrees
  Faults = {"io", "stat"}
INVARIANTS
  TypeOK
  UsageWithinRun
  CreatedStays
