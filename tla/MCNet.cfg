\* Two clients and one slot: the second client waits in the queue.
SPECIFICATION FairNetSpec
CONSTANTS
  c1 = c1
  c2 = c2
  s1 = s1
  None = None
  Conn = {c1, c2}
  Slot = {s1}
  Asks = {0, 1}
INVARIANTS
  SocketsKept
  ReplyMatches
  ToldIsCurrent
  ErrorMeansUnheard
PROPERTIES
  RequestEnds
  ShutdownEnds
