SPECIFICATION Spec
CHECK_DEADLOCK FALSE
CONSTANTS
  Sector = 2
  AlignedStart = 6
  FsAlign = 4
  EntrySectors = 2
  U32 = 20
  Sizes <- MCSizes
  FsChoices <- MCFsChoices
  Magic <- MCMagic
  RingStart = 2
  RingSlots = 2
  SlotSectors = 2
  Faults = {"io"}
INVARIANTS
  TypeOK
  RegionsIntact
  PartitionCoversFilesystem
  CreateThenDetect
  DetectedMeansTabled
  PartPrintAgrees
