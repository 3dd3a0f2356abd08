CONSTANTS
  MaxId = 1
  MaxData = 2
  MaxExtras = 0
  StreamBuffer = 1
  MaxPendingOpens = 1
  WireCap = 1
  Openers = {"guest"}
  Acceptors = {"host"}
  Streamers = {"host"}
  Closers = {}
  Pingers = {}
  Foreign = {}
  CanCut = FALSE
SPECIFICATION Safety
INVARIANTS OpenerReadsFromStart
CHECK_DEADLOCK FALSE
