SPECIFICATION FairSpec
CONSTANTS
  c1 = c1
  c2 = c2
  Client = {c1}
  Deleter = {c1}
  MaxIndex = 2
  WorldSizes = {2, 3}
  BufferSize = 2
  NoFile = NoFile
  Torn = Torn
  MaxSaves = 2
  MaxCrashes = 1
INVARIANTS
  TypeOK
  FilesWhole
  LeaversKept
PROPERTIES
  LoadsLast
  ReturnsAsLeft
  StopSavesAll
  SavesEnd
CHECK_DEADLOCK FALSE
