CONSTANTS
  MaxUnits = 3
  Kinds = {"request", "extension", "part", "noise"}
  MaxVM = 2
  MaxConns = 2
  MaxStreams = 1
  MissLimit = 2
  Tellable = {TRUE}
  Distro = {"a", "b"}
  Systemd = {"a"}
  Preset = {"ssh-agent", "gpg-agent"}
  Exporting = {"ssh-agent"}
  Filtered = {"ssh-agent"}
  Everywhere = {"gpg-agent"}
SPECIFICATION AgentSpec
INVARIANT AgentTypeOK
INVARIANTS ForwardIsFaithful
INVARIANTS StoppedLeavesNoStatus
INVARIANTS WiringAgrees
PROPERTIES NothingWaitsForEver
CHECK_DEADLOCK FALSE
