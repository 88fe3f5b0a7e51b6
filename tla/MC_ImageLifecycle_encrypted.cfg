SPECIFICATION Spec
CONSTANTS
  NoFile = NoFile
  Partial = Partial
  Sizes = {1, 2}
  FsChoices = {"none", "apfs"}
  Faults = {}
INVARIANT
  EncryptedAsAsked
