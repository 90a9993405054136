\* Driver and card as the repository puts them together.
SPECIFICATION FairSessionSpec
CONSTANTS
  PPSS = PPSS
  PpsByte = PpsByte
  DataByte = DataByte
  Byte <- MCByte
  DataMax = 5
  MaxAcks = 4
  HandlerAcks = 4
  AtrLen = 6
  ResetBeforePower = TRUE
  ContStates <- MCContStates
  RxChunks <- MCRxChunks
  TxSizes <- MCTxSizes
  Results <- MCResults
INVARIANTS
  TurnsAgree
  HeaderIntact
  RequestFits
  HandlerStartsClean
PROPERTIES
  EveryCommandEnds
  KeepsPromise
