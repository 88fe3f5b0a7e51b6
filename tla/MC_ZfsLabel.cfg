SPECIFICATION Spec
CONSTANTS
  Names = {"tank", "a", "img"}
  EmptyName = ""
  NoName = NoName
  BaseNames = {"a", "img"}
  Labels <- MCLabels
  ReadLens <- MCReadLens
  Words <- MCWords
  Types = {11, 14, 19}
  Counts = {0, 1}
  Datasets <- MCDatasets
  Faults = {"io", "damage"}
INVARIANTS
  TypeOK
  ReadsInOrder
  
  ConfirmedIsFound
PROPERTY
  LookupReturns
