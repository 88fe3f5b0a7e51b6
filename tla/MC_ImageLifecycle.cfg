SPECIFICATION Spec
CONSTANTS
  NoFile = NoFile
  Partial = Partial
  Sizes = {1, 2}
  FsChoices = {"none", "ext4", "apfs"}
  Faults = {"io", "crash"}
INVARIANTS
  TypeOK
  CreatedMeansComplete
  NothingLeftBehind
PROPERTIES
  ConversionAtomic
  OnlyTruncationDestroys
