CONSTANTS
  home = home
  other = other
  spare = spare
  Dir = {home, other, spare}
  MaxGuid = 1
  Worlds <- LateWorlds
SPECIFICATION Spec
INVARIANT DiskSurvives
CHECK_DEADLOCK FALSE
