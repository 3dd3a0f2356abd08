CONSTANTS
  MaxUnits = 0
  Kinds = {"request", "extension", "part", "noise"}
  MaxVM = 2
  MaxConns = 2
  MaxStreams = 1
  MissLimit = 2
  Tellable = {TRUE, FALSE}
  Distro = {}
  Systemd = {}
  Preset = {}
  Exporting = {}
  Filtered = {}
  Everywhere = {}
SPECIFICATION AgentSpec
PROPERTY Rebinds
CHECK_DEADLOCK FALSE
