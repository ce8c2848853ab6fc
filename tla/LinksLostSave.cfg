CONSTANTS
    None = None
    a = a
    b = b
    t = t
    m = m
    n = n
    o = o
    x = x
    y = y
    Up = Up
    Outside = Outside
    AssetFiles = {f, g}
    Links = {lk, near}
    RelativeLinks = {near}
    Padded = {}
    Dirs = {assetsDir, docs}
    BaseNames = {one, other}
    Assets = assetsDir
    Deleted = Deleted
    Temp = Temp
    MaxOps = 4
    Faults = 2
    Scenes = {"edited"}
SPECIFICATION MCSpec
INVARIANT SavesSurvive
CHECK_DEADLOCK FALSE
