CONSTANTS
    None = None
    inbox = inbox
    quick = quick
    trash = trash
    d1 = d1
    d2 = d2
    bin = bin
    hid = hid
    assets = assets
    Quick = Quick
    note = note
    hidden = hidden
    NoteNames = {note, hidden}
    Caseless <- Quickly
    adr = adr
    Adr = Adr
    adr2 = adr2
    log = log
    md = md
    upper = upper
    Folder = Folder
    Stems <- AllStems
    Lower <- NoCase
    Exts = {md, upper}
    Slugs = {adr, log}
    Candidates <- Tried
    Folding = FALSE
    FolderNames <- Taken
    MaxOps = 3
    Faults = 1
    Text = Text
    NoFence = NoFence
    Fences <- ManyFences
    MaxLines = 6
    Dirs = {inbox, quick, trash, d1, d2, bin, hid, assets, Quick}
    Hidden = {hid, hidden}
    Reserved = {assets}
    Locations = {"inbox", "root"}
    Remaps <- ManyMaps
    Layout <- ManyDirs
    Lists <- ManyLists
    Templates <- ManyTemplates
    MaxDepth = 3
    MaxSub = 2
    MaxEntry = 2
    MaxChanges = 1
    Scenes = {"list", "shapes", "quotes", "scope", "exact", "folded", "code"}
SPECIFICATION MCSpec
INVARIANTS ParentHoldsIt ListedAgree ScannersAgree TemplatesKept
PROPERTY TasksStay
CHECK_DEADLOCK FALSE
