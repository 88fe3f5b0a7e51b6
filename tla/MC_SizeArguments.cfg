SPECIFICATION Spec
CONSTANTS
  Suffixes <- MCSuffixes
  Length <- MCLength
  Power <- MCPower
  Kilo = 4
  Multiplier <- MCMultiplier
  Words <- MCWords
  Ends <- MCEnds
  NoWord = ""
  Named <- MCNamed
  Nums <- MCNums
  MaxInt = 127
  OldSize = 20
CHECK_DEADLOCK FALSE
INVARIANTS
  TypeOK
  ParsesAsAsked
  SizesStayPositive
  ReportTellsSize
