\* Calls in any order on a buffer of five bytes.
SPECIFICATION RcSpec
CONSTANTS
  b1 = b1
  b2 = b2
  Byte <- MCByte
  DataMax = 5
  Chunks <- MCChunks
INVARIANTS
  RcTypeOK
PROPERTIES
  IsQueue
