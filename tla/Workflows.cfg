CONSTANTS
    None = None
    p = p
    q = q
    txt = txt
    k = k
    j = j
    Paths = {p, q}
    Texts = {txt}
    Garbled = {}
    Coerced = txt
    Threads = {k, j}
    MaxRun = 2
    ClockSteps = FALSE
    MaxMoves = 2
    KeepRuns = 1
    KeepSize = 2
    MaxEdits = 1
    MaxFaults = 2
    w1 = w1
    w2 = w2
    n1 = n1
    l1 = l1
    d1 = d1
    d2 = d2
    m2 = m2
    m3 = m3
    Torn = Torn
    Link = Link
    Absent = Absent
    Writers = {w1, w2}
    Targets = {n1}
    Links = {l1}
    PointsTo <- ToFirst
    Data = {d1, d2}
    Stamps = {1}
    Modes = {m2, m3}
    NewMode = m3
    Masked <- Umask
    Attempts = 2
    MaxFailures = 2
    MaxOutside = 2
    Scenes = {"faulty", "long", "save"}
SPECIFICATION MCSpec
SYMMETRY Alike
INVARIANTS RollbackLeavesVault NothingUnrecorded UndoRestores JustFinishedIsUndoable CommentsCarriedWhole NoScratchLeft NeverTorn
PROPERTIES EntryKept KeepsPromise
CHECK_DEADLOCK FALSE
