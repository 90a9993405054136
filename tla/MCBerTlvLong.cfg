SPECIFICATION Spec
CONSTANTS
  TagLenMax = 3
  LenLenMax = 5
  NoLimit = 100000
  Tags <- MCTags
  DataLens = {1, 127}
  Slack <- MCSlack
  CallsMax = 6
  Beyond = {0, 255}
INVARIANT NextItemFound
CHECK_DEADLOCK FALSE
