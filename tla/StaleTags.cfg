CONSTANTS
    None = None
    Nil = Nil
    Missing = Missing
    Clients = {c}
    Calls = {"list", "write", "move", "set"}
    Jobs = {j}
    Paths = {p, q}
    Texts = {t1, t2}
    Names = {m, n}
    Marks <- MarksOf
    Age <- AgeOf
    MaxEdits = 2
    MaxSets = 2
    MaxStops = 0
    Getters = {g}
    Putters = {h}
    Movers = {m, n}
    Fields = {x, y}
    Bytes <- Size
    Default <- Unset
    Coarse = FALSE
    MaxTicks = 0
    MaxCalls = 2
    MaxFaults = 1
    Broken = Broken
    g = g
    h = h
    m = m
    n = n
    x = x
    y = y
    b = b
    c = c
    p = p
    q = q
    j = j
    t1 = t1
    t2 = t2
    s1 = s1
    s2 = s2
    Scenes = {"preamble"}
    Files = {1, 2, 3}
    Searchers = {s1, s2}
    Bodies = {t1, t2}
    Templates = {1, 2}
    Limit = 2
    MaxWrites = 1
    ReadsFail = TRUE
SPECIFICATION MCSpec
INVARIANT TagsFollow
CHECK_DEADLOCK FALSE
