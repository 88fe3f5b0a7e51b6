SPECIFICATION FairSpec
CONSTANTS
  dirA = dirA
  dirB = dirB
  fileC = fileC
  Paths <- DeepPaths
  Ancestors <- DeepAncestors
  Data = {v1}
  Absent = Absent
  Dir = Dir
  NoData = NoData
  NoReq = NoReq
  Leftover = Leftover
  Procs = {p1, p2}
  Temps = {t1}
  Torn = Torn
  NoTree = NoTree
  NoTemp = NoTemp
  Media <- BothExt4
  Ops = {"Stat", "WriteFile", "MkDir"}
  Faults = {"pack"}
PROPERTY
  OperationsReturn
INVARIANT
  WriteFailsOnlyOnConflict
