SPECIFICATION Spec
CONSTANTS
  dirA = dirA
  dirB = dirB
  fileC = fileC
  Paths <- MCPaths
  Ancestors <- MCAncestors
  Data = {v1}
  Absent = Absent
  Dir = Dir
  NoData = NoData
  NoReq = NoReq
  Leftover = Leftover
  Procs = {p1}
  Temps = {t1, t2}
  Torn = Torn
  NoTree = NoTree
  NoTemp = NoTemp
  Media <- AllMedia
  Ops = {"ReadFile", "Stat", "WriteFile", "MkDir", "DeleteFile", "DeleteDir", "Rename"}
  Faults = {"io", "pack", "crash"}
INVARIANT
  NilMeansWritten
