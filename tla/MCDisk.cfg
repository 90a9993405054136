\* Create, save, load and unload in any order, and a process that may end.
SPECIFICATION DiskSpec
CONSTANTS
  Keys = {0, 1, 2, 3, 4, 5, 6}
  Vals <- MCVals
  NoVal = none
  LutStart = 2
  LutResize = 1
  Ids = {1, 2, 3, 4, 5, 6}
  Depth = 3
  Descriptions <- MCDescriptions
  SizeStart = 40
  SizeResize = 20
  SizeMax = 250
  TreeIdxMod = 3
INVARIANTS LutSorted TreesAreDescribed FilesAreFound UsableOrAbsent
PROPERTIES IsDict GrowthIsNeeded
