SPECIFICATION ChangesSpec
CONSTANTS
    home = home
    other = other
    spare = spare
    t1 = t1
    t2 = t2
    Dir = {home, other, spare}
    MaxGuid = 3
    Worlds <- AllWorlds
    Reg = {"g1", "g2"}
    Called = {"n", "m"}
    Bit = {"interop", "odd"}
    Prompt = {t1, t2}
    LastSecond = 1
    MaxChanges = 4
    Vhd = {"v1"}
    Window = {t1, t2}
    MaxRuns = 4
    Terminal = {t1, t2}
    Item = {"disk", "process"}
    MaxSeconds = 1
    MaxEdits = 1
    MaxCommands = 2
    User = {t1, t2}
    Top = 4
    Limits <- AllLimits
    MaxStarts = 2
    MaxLimits = 2
    Shell = {t1, t2}
    Setting = {8}
    Earlier = 9
    MaxLines = 2
    MaxOrders = 2
    Client = {"c1", "c2"}
    Plain = {"c2"}
    Routes <- AllRoutes
    TTL = 1
    MaxTime = 2
    MaxBytes = 1
INVARIANTS ChangesTypeOK DiskSurvivesOnVolume Recoverable RegistrationHolds SettingsReturn SettingsAreKept FixesCanBeUndone RevertIsExact
PROPERTIES FailureRestores CeilingsAreSafe TunnelsAreFaithful
SYMMETRY AnyTerminal
CHECK_DEADLOCK FALSE
