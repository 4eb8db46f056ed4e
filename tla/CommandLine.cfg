SPECIFICATION Spec
CONSTANTS
    PerPage = 1
    MaxPages = 2
    LocalBuild = LocalBuild
    Garbage = Garbage
    Torn = Torn
    Missing = Missing
    Nothing = Nothing
    EnvToken = EnvToken
    Procs = {p1, p2}
    Commands = {p1, p2}
    Bases = {a, b}
    Tokens = {t1, t2}
    Published <- PublishedVersions
    Installed <- InstalledVersions
    Minima <- MinimumVersions
    Platforms = {"unix", "windows"}
    MaxReleases = 2
    MaxCommands = 2
    MaxChanges = 1
SYMMETRY Interchangeable
INVARIANTS
    ExecutableSurvives
    UpToDateIsAdmitted
    TokensGoHome
PROPERTIES
    NoSilentDowngrade
    LoginsCoexist
CHECK_DEADLOCK FALSE
