CONSTANTS
    n = n
    m = m
    lk = lk
    f = f
    g = g
    a = a
    b = b
    c = c
    tmp = tmp
    None = None
    Items = {n, m, lk, f, g}
    Folders = {f, g}
    Links = {lk}
    Places <- ThreePlaces
    Temps <- MCTemps
    DirOf <- MCDirOf
    Pos <- MCPos
    MaxFaults = 0
    Scenes = {"link"}
SPECIFICATION MCSpec
INVARIANT ErrorLeavesEveryNote
CHECK_DEADLOCK FALSE
