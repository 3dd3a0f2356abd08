CONSTANTS
  MaxId = 3
  MaxData = 0
  MaxExtras = 2
  StreamBuffer = 1
  MaxPendingOpens = 1
  WireCap = 1
  Openers = {"guest"}
  Acceptors = {"host"}
  Streamers = {}
  Closers = {"guest", "host"}
  Pingers = {"host"}
  Foreign = {"BADOPEN", "UNKNOWN"}
  CanCut = FALSE
SPECIFICATION FocusedSafety
INVARIANTS NoLostWakeup OpenMeansAccepted LoopsBlockOnRefusal AcceptedStreamsFail
CHECK_DEADLOCK FALSE
