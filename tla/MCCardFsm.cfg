\* Every driver: buffers and the command reference.
SPECIFICATION Spec
CONSTANTS
  PPSS = PPSS
  Other = Other
  Byte <- MCByte
  DataMax = 1
  MaxAcks = 1
  AtrLen = 2
  ContStates <- MCContStates
  RxChunks <- MCRxChunks
  TxSizes <- MCTxSizes
  Results <- MCResults
INVARIANTS
  TypeOK
  HandlersCanRely
