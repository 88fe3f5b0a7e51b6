SPECIFICATION Spec
CONSTANTS
  Devs = {d1, d2}
  Fork = 2
  Vals = {v1, v2}
  Koly = Koly
  MaxInt = 5
  OsMax = 3
  MaxLen = 2
  Kinds = {"inplace", "compressed", "short", "badmagic", "offset", "length"}
  Faults = {"io", "refresh", "crash"}
SYMMETRY Sym
INVARIANTS
  TypeOK
  TrailerUntouched
  ChecksumCovered
  NilCloseHeals
  HandlesReturned
