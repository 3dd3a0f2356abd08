SPECIFICATION Spec
CONSTANTS
    MaxVersion = 2
    MaxGuid = 2
    MaxSlot = 2
    FarStore = FALSE
    Failing = {"stop", "mkdir", "rename", "copy", "volume", "remove", "manifest", "start", "export", "unregister", "unregister late", "import", "import late", "registry", "compact"}
    CanCrash = TRUE
    Commands = {"snapshot", "snapshot rm", "restore", "rebuild", "compact"}
INVARIANT TypeOK
INVARIANT NothingThrownAway
INVARIANT SnapshotsAreWhole
INVARIANT ArchiveIsWhole
PROPERTY FailureRestores
PROPERTY RestoreIsUndoable
PROPERTY RebuildIsFaithful
CHECK_DEADLOCK FALSE
