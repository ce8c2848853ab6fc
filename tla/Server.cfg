CONSTANTS
    None = None
    Torn = Torn
    Absent = Absent
    Nothing = Nothing
    c1 = c1
    c2 = c2
    s1 = s1
    s2 = s2
    plain = plain
    moved = moved
    h1 = h1
    h2 = h2
    t1 = t1
    t2 = t2
    v1 = v1
    v2 = v2
    i1 = i1
    i2 = i2
    index = index
    INDEX = INDEX
    app = app
    pkg = pkg
    x = x
    y = y
    none = none
    Clients = {c1, c2}
    Switchers = {s1, s2}
    Layouts = {plain, moved}
    Default = plain
    Found = {plain, moved}
    Capacity = 1
    MaxSwitches = 2
    MaxEdits = 1
    MaxConnects = 1
    Seeding = FALSE
    Handlers = {h1, h2}
    Tokens = {t1, t2}
    Vaults = {v1, v2}
    MaxSessions = 2
    MaxChanges = 2
    MaxRestarts = 1
    Attempters = {h1, h2}
    Window = 9
    MaxHits = 4
    MaxShift = 2
    MaxDelay = 3
    Installers = {i1, i2}
    Fold <- MCFold
    Index = index
    Bodies = {x, y, none}
    Empty = none
    Manifests <- MCManifests
    Archives <- MCArchives
    Firsts <- MCFirsts
    MaxCalls = 2
    Faults = 1
    Deaths = 1
    Scenes = {"switched", "left", "edited", "host", "limit", "install"}
SPECIFICATION MCSpec
INVARIANTS ChannelsSound  SessionsEnd AttemptsCost InstallsWhole
PROPERTIES LeavesOldVault LetInAgain
CHECK_DEADLOCK FALSE
