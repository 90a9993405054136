\* Selection of a DF by its name.
SPECIFICATION Spec
CONSTANTS
  Forest <- MCForest
  MfId = 1
  CurAppId = 99
  NameLen = 3
  RidLen = 2
  Fields <- MCFields
  Offsets = {0, 2, 3}
  RcrdNums = {0, 1, 2, 3, 255}
  P3s = {0, 1, 2}
  Sids = {0, 1, 2, 3, 31}
PROPERTIES
  NamedDfFound
