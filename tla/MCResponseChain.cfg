\* Any interface, among them one that fetches what it is told of, with a proprietary handler registered.
SPECIFICATION ChainSpec
CONSTANTS
  b1 = b1
  b2 = b2
  Byte <- MCByte
  Chunks <- MCChunks
  DataMax = 4
  P3Max = 2
  Classes = {"interindustry", "proprietary", "rfu"}
  Pro = TRUE
  Overrides = {"SELECT", "GET_RESPONSE", "OTHER"}
INVARIANTS
  ReceivedInOrder
  AnnouncedIsThere
PROPERTIES
  DoneMeansAll
  InterruptedNeverResumes
  FetchCompletes
