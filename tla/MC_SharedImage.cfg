SPECIFICATION Spec
CONSTANTS
  Procs = {p1, p2, p3}
  Calls <- MCCalls
  Inodes = {i1, i2, i3, i4}
  None = None
  FsTypes = {"ext4", "fat32"}
  Faults = {"io", "crash"}
SYMMETRY Sym
CHECK_DEADLOCK FALSE
INVARIANTS
  TypeOK
  CompatibleCallsLeaveItIntact
  ConfirmedWritesKept
  SideFileGone
PROPERTY
  PublishedWhole
