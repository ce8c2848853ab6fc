CONSTANTS
    n = n
    m = m
    lk = lk
    f = f
    g = g
    a = a
    b = b
    c = c
    tmp = tmp
    None = None
    Items = {n, m, lk, f, g}
    Folders = {f, g}
    Links = {lk}
    Places <- ThreePlaces
    Temps <- MCTemps
    DirOf <- MCDirOf
    Pos <- MCPos
    MaxFaults = 2
    Scenes = {"link", "folder", "notes", "beside", "folders"}
SPECIFICATION MCSpec
SYMMETRY Alike
INVARIANTS ErrorRestoresTrees CommentsNeverAhead OwnComments MovedLinkKeepsTarget EntriesWithFolder
PROPERTIES  AllOrNothing
CHECK_DEADLOCK FALSE
