CONSTANTS
    Nil = Nil
    Torn = Torn
    Absent = Absent
    None = None
    a = a
    b = b
    Note = Note
    inbox = inbox
    demo = demo
    base = base
    data = data
    card = card
    first = first
    second = second
    older = older
    mine = mine
    n1 = n1
    n2 = n2
    k1 = k1
    k2 = k2
    v = v
    o = o
    l = l
    p = p
    q = q
    dir = dir
    file = file
    notdir = notdir
    quick = quick
    trash = trash
    sub = sub
    bin = bin
    assets = assets
    hidden = hidden
    welcome = welcome
    Owners = {n1, n2}
    Ids = {k1, k2}
    MaxCalls = 3
    Cuts = 1
    TourNotes <- NotesOfTour
    TourAssets <- AssetsOfTour
    DemoFolder <- FolderOfTour
    Older <- OlderOfTour
    Own <- OwnFiles
    MaxFaults = 1
    MaxEdits = 2
    MaxTours = 2
    Names <- NamesThere
    Hidden = {hidden}
    Reserved = {assets}
    Given <- GivenThere
    Subs <- SubsThere
    Made <- MadeThere
    Notes = {n1, welcome}
    MaxOps = 4
    Scenes = {"layout"}
SPECIFICATION MCSpec
PROPERTY RoundTrip
CHECK_DEADLOCK FALSE
