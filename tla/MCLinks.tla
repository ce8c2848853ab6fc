------------------------------- MODULE MCLinks ------------------------------
(***************************************************************************)
(* What follows a file that moves, and what becomes of files: the          *)
(* wikilinks to a renamed note (LinkRename), the references to a moved     *)
(* asset (AssetLinks) and the assets with the store of deleted ones        *)
(* (AssetStore).  They share no state, so they are explored one at a time: *)
(* a behaviour is one of the components in one of the scenes below, and    *)
(* the variables of the others stand still.                                *)
(***************************************************************************)
EXTENDS AssetStore, TLC

CONSTANTS Scenes, a, b, t, m, n, o, x, y, Up, Outside

VARIABLES
    scene,
    notes, saved, pc, old, new, listed, todo, body, missed,             \* LinkRename
    renames, edits,
    assets, asset, dir, ref, call, shadowed, added, crowded, leftOut,           \* AssetLinks
    moves, changes, failures

ofNotes == <<notes, saved, pc, old, new, listed, todo, body, missed, renames, edits>>
ofReference == <<assets, asset, dir, ref, call, shadowed, added, crowded, leftOut,
                 moves, changes, failures>>
ofStore == <<at, names, entry, dirs, op, failed, purged, ops, faults>>
MCVars == <<scene, ofNotes, ofReference, ofStore>>

-----------------------------------------------------------------------------
\* LinkRename: three titles, or three directories, one of them the trash; two
\* directories, with a client that saves or deletes a note meanwhile.

RankOf(ps) == [p \in ps |-> 3 * (CASE p.dir = a -> 0 [] p.dir = b -> 1 [] OTHER -> 2)
                              + (CASE p.title = m -> 0 [] p.title = n -> 1 [] OTHER -> 2)]

ByTitle == INSTANCE LinkRename WITH
    Dirs <- {a, t}, Trash <- t, Titles <- {m, n, o},
    Rank <- RankOf([dir : {a, t}, title : {m, n, o}]),
    Texts <- {x}, Edits <- {}, MaxNotes <- 3, MaxRenames <- 1, MaxEdits <- 0, MaxFailures <- 1
ByFolder == INSTANCE LinkRename WITH
    Dirs <- {a, b, t}, Trash <- t, Titles <- {m, n},
    Rank <- RankOf([dir : {a, b, t}, title : {m, n}]),
    Texts <- {x}, Edits <- {}, MaxNotes <- 3, MaxRenames <- 1, MaxEdits <- 0, MaxFailures <- 1
Edited == INSTANCE LinkRename WITH
    Dirs <- {a, b}, Trash <- t, Titles <- {m, n},
    Rank <- RankOf([dir : {a, b}, title : {m, n}]),
    Texts <- {x, y}, Edits <- {"save", "delete"}, MaxNotes <- 3, MaxRenames <- 1, MaxEdits <- 1, MaxFailures <- 1

NoteScenes == {"titles", "folders", "edited"}

\* AssetLinks: two assets in a deep tree; up to four, moved twice; and two, moved by two
\* requests at once, with a file added or deleted and a step that fails.

Deep == INSTANCE AssetLinks WITH
    Names <- BaseNames, MaxDepth <- 3, MaxAssets <- 2, MaxMoves <- 1,
    Requests <- {x}, MaxChanges <- 0, MaxFailures <- 0
Several == INSTANCE AssetLinks WITH
    Names <- BaseNames, MaxDepth <- 2, MaxAssets <- 4, MaxMoves <- 2,
    Requests <- {x}, MaxChanges <- 0, MaxFailures <- 0
Busy == INSTANCE AssetLinks WITH
    Names <- BaseNames, MaxDepth <- 2, MaxAssets <- 2, MaxMoves <- 2,
    Requests <- AssetFiles, MaxChanges <- 1, MaxFailures <- 1

ReferenceScenes == {"deep", "several", "busy"}

\* AssetStore: two files, a link that names a path outright and one that does not.

ASSUME
    /\ Scenes \subseteq NoteScenes \union ReferenceScenes \union {"store"}
    /\ ByTitle!ConstantsOK /\ ByFolder!ConstantsOK /\ Edited!ConstantsOK
    /\ Deep!ConstantsOK /\ Several!ConstantsOK /\ Busy!ConstantsOK
    /\ ConstantsOK

-----------------------------------------------------------------------------

NoNotes == /\ notes = None /\ saved = None /\ pc = None /\ old = None /\ new = None
           /\ listed = None /\ todo = None /\ body = None
           /\ missed = None /\ renames = None /\ edits = None
NoReference == /\ assets = None /\ asset = None /\ dir = None /\ ref = None
               /\ call = None /\ shadowed = None /\ added = None /\ crowded = None
               /\ leftOut = None /\ moves = None /\ changes = None /\ failures = None
NoStore == /\ at = [c \in All |-> None] /\ names = [l \in Links |-> None]
           /\ entry = [k \in Tokens |-> None] /\ dirs = {Assets} /\ op = Idle
           /\ failed = NoFailure /\ purged = {} /\ ops = 0 /\ faults = 0

MCInit ==
    /\ scene \in Scenes
    /\ \/ /\ \/ scene = "titles" /\ ByTitle!Init
             \/ scene = "folders" /\ ByFolder!Init
             \/ scene = "edited" /\ Edited!Init
          /\ NoReference /\ NoStore
       \/ /\ \/ scene = "deep" /\ Deep!Init
             \/ scene = "several" /\ Several!Init
             \/ scene = "busy" /\ Busy!Init
          /\ NoNotes /\ NoStore
       \/ scene = "store" /\ Init /\ NoNotes /\ NoReference

NotesNext ==
    /\ \/ scene = "titles" /\ ByTitle!Next
       \/ scene = "folders" /\ ByFolder!Next
       \/ scene = "edited" /\ Edited!Next
    /\ UNCHANGED <<scene, ofReference, ofStore>>

ReferenceNext ==
    /\ \/ scene = "deep" /\ Deep!Next
       \/ scene = "several" /\ Several!Next
       \/ scene = "busy" /\ Busy!Next
    /\ UNCHANGED <<scene, ofNotes, ofStore>>

StoreNext ==
    /\ scene = "store" /\ Next
    /\ UNCHANGED <<scene, ofNotes, ofReference>>

MCNext == NotesNext \/ ReferenceNext \/ StoreNext

MCSpec == MCInit /\ [][MCNext]_MCVars

-----------------------------------------------------------------------------
\* Properties, each that of the component the scene is about; DeletedRecoverable and
\* NothingLost are those of AssetStore, whose variables stand still in the other scenes

\* The types of LinkRename, AssetLinks and AssetStore.
TypesOK ==
    /\ scene \in Scenes
    /\ scene = "titles" => ByTitle!TypeOK
    /\ scene = "folders" => ByFolder!TypeOK
    /\ scene = "edited" => Edited!TypeOK
    /\ scene = "deep" => Deep!TypeOK
    /\ scene = "several" => Several!TypeOK
    /\ scene = "busy" => Busy!TypeOK
    /\ scene = "store" => TypeOK

\* RenameNote: after a rename to a title no other note bears, every link of a note that
\* could be read and written leads to the note it led to, whatever was saved and deleted
\* between the steps.  RenameAsset, MoveAsset: a reference leads to its asset through every
\* move and whatever was added or deleted meanwhile, unless the path of the asset was that
\* of another from the note's directory, a new file has had its name, two moves met, or a
\* step failed.
ReferencesFollow ==
    /\ scene = "titles" => ByTitle!LinksFollow
    /\ scene = "folders" => ByFolder!LinksFollow
    /\ scene = "edited" => Edited!LinksFollow
    /\ scene = "deep" => Deep!UnshadowedFollows
    /\ scene = "several" => Several!UnshadowedFollows
    /\ scene = "busy" => Busy!UnshadowedFollows

\* RenameNote beside WriteNote: a note holds the text a client last saved in it.
SavesSurvive == scene = "edited" => Edited!SavesSurvive

\* The files of the store are alike, and so are its names, which are no other scene's.
Alike == Permutations(AssetFiles) \union Permutations(BaseNames)
=============================================================================
