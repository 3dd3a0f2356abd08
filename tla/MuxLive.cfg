CONSTANTS
  MaxId = 2
  MaxData = 1
  MaxExtras = 0
  StreamBuffer = 1
  MaxPendingOpens = 1
  WireCap = 1
  Openers = {"guest", "host"}
  Acceptors = {"host"}
  Streamers = {"guest"}
  Closers = {}
  Pingers = {}
  Foreign = {}
  CanCut = TRUE
SPECIFICATION Spec
INVARIANTS PanicNeedsClose
PROPERTIES OpenReturns SessionsEnd CloseArrives
CHECK_DEADLOCK FALSE
