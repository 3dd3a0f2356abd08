SPECIFICATION CommandsSpec
CONSTANTS
    Distro = {"d"}
    Default = "d"
    Broken = {}
    Task = {"task", "elevated"}
    Elevated = {"elevated"}
    Dry = {"task"}
    MaxRung = 0
    MaxSleeps = 1
    Guest = {"a", "b"}
    MaxMoves = 1
    Cases <- AllCases
    Row = {"x", "y", "container"}
    Scenes <- AllScenes
    MaxWork = 2
    MaxRestarts = 1
INVARIANTS CommandsTypeOK NoRungOnAGuess ExplainAgrees ReportIsTrue
PROPERTIES CheapRungsFirst Recovers VerdictsAreRead
CHECK_DEADLOCK FALSE
