---------------------------- MODULE MCVaultDisk ----------------------------
(***************************************************************************)
(* What happens on the disk around the notes: the watcher's directories    *)
(* (WatchTree), the demo tour (DemoTour), the comments beside notes        *)
(* (NoteComments), where paths lead (SafePath), and where the inbox is     *)
(* (VaultLayout).  They share no variable and are explored one at a time:  *)
(* a behaviour is one of the scenes below.  The variables of the others    *)
(* stay what they are in an empty vault; WatchTree's and SafePath's, which *)
(* are instances, None.                                                    *)
(***************************************************************************)
EXTENDS NoteComments, DemoTour, VaultLayout, FiniteSets, TLC

CONSTANTS Scenes, a, b, Note,
          demo, base, data, card, first, second, older, mine,
          n1, n2, k1, k2,
          v, o, l, p, q, dir, file, notdir,
          sub, bin, assets, hidden

VARIABLES
    scene,
    tree, notes, seen, watch, queue, pc, cur, found, listed, believed, changes,  \* WatchTree
    disk, root, asked, join, dest                                                \* SafePath

treeVars == <<tree, notes, seen, watch, queue, pc, cur, found, listed, believed, changes>>
pathVars == <<disk, root, asked, join, dest>>
MCVars == <<scene, treeVars, tourVars, commentVars, pathVars, layoutVars>>

-----------------------------------------------------------------------------
\* WatchTree: directories of two names, which are interchangeable; two deep and
\* never at a path that was another's, beginning with one note at the most, or one
\* deep and at any path.

Deep == INSTANCE WatchTree WITH
    Names <- {a, b}, MaxDepth <- 2, MaxOps <- 3, MaxQueue <- 3, Reuse <- FALSE,
    dirs <- listed, ops <- changes
Reused == INSTANCE WatchTree WITH
    Names <- {a, b}, MaxDepth <- 1, MaxOps <- 4, MaxQueue <- 4, Reuse <- TRUE,
    dirs <- listed, ops <- changes

Alike == Permutations({a, b})

\* SafePath: a vault in one folder, with another beside it and a link to it; files,
\* folders and links at six places.

Paths == INSTANCE SafePath WITH
    Names <- {v, o, l, p, q},
    Fixed <- (<<v>> :> dir @@ <<o>> :> dir @@ <<l>> :> <<v>>),
    Places <- {<<v, p>>, <<v, q>>, <<v, p, p>>, <<v, p, q>>, <<v, q, p>>, <<o, p>>},
    Targets <- {<<v>>, <<v, q>>, <<v, p, q>>, <<o, p>>},
    Roots <- {<<v>>, <<l>>},
    Asked <- {<<p>>, <<p, q>>, <<q, p>>, <<p, p, p>>, <<p, q, p>>, <<q, p, q>>},
    MaxLinks <- 4

\* DemoTour: two notes, one of them under an older name too, an asset at the top and
\* one below the notes, and a file of the user's in either folder.

NotesOfTour == <<<<inbox, demo, first>>, <<inbox, demo, second>>>>
AssetsOfTour == <<<<card>>, <<inbox, demo, base, data>>>>
OlderOfTour == <<inbox, demo, first>> :> <<inbox, demo, older>>
FolderOfTour == <<inbox, demo>>
OwnFiles == {<<inbox, mine>>, <<inbox, demo, base, mine>>}

\* NoteComments: two notes and two comments, every way to reply.

\* VaultLayout: a note and the one a new vault begins with, two directories at the
\* start, folders under their usual names and under others, alike or another folder's.

NamesThere == {inbox, quick, trash, sub, bin, assets, hidden}
GivenThere == {Usual, [Usual EXCEPT ![inbox] = bin], [Usual EXCEPT ![trash] = inbox],
               [Usual EXCEPT ![trash] = bin, ![quick] = bin]}
SubsThere == {<<>>, <<sub>>}
MadeThere == {<<sub>>, <<inbox>>, <<inbox, sub>>, <<assets>>, <<bin>>, <<hidden>>}

\* The loop of normalizeSystemFolderPaths: in the order of the folders, one that has the
\* name of another goes back to its usual one, until none does.
AsGiven(m) ==
    [f \in Folders |-> IF m[f] \in Folders \union Hidden \union Reserved THEN f ELSE m[f]]
GoesBack(m, f) ==
    IF m[f] # f /\ \E g \in Folders \ {f} : m[g] = m[f] THEN [m EXCEPT ![f] = f] ELSE m
Pass(m) == GoesBack(GoesBack(GoesBack(m, inbox), quick), trash)
Loop[m \in [Folders -> Names]] == IF Pass(m) = m THEN m ELSE Loop[Pass(m)]

ASSUME NormalPathsIsTheLoop == \A m \in [Folders -> Names] : NormalPaths(m) = Loop[AsGiven(m)]

ASSUME
    /\ Scenes \subseteq {"deep", "reused", "tour", "comments", "paths", "layout"}
    /\ CommentConstantsOK /\ TourConstantsOK /\ LayoutConstantsOK
    /\ Deep!ConstantsOK /\ Reused!ConstantsOK /\ Paths!ConstantsOK

-----------------------------------------------------------------------------

NoTree ==
    /\ tree = None /\ notes = None /\ seen = None /\ watch = None /\ queue = None /\ pc = None
    /\ cur = None /\ found = None /\ listed = None /\ believed = None /\ changes = None
NoPath == disk = None /\ root = None /\ asked = None /\ join = None /\ dest = None
NoTour == TourInit /\ files = {}
NoComments == CommentInit /\ owed = {} /\ \A n \in Owners : lists[n] = Nil
NoLayout == LayoutInit /\ dirs = {Root} /\ \A n \in Notes : place[n] = None

MCInit ==
    /\ scene \in Scenes
    /\ CASE scene = "deep" -> Deep!Init /\ Cardinality(notes) <= 1
         [] scene = "reused" -> Reused!Init
         [] OTHER -> NoTree
    /\ IF scene = "tour" THEN TourInit ELSE NoTour
    /\ IF scene = "comments" THEN CommentInit ELSE NoComments
    /\ IF scene = "layout" THEN LayoutInit /\ Cardinality(dirs) <= 3 ELSE NoLayout
    /\ IF scene = "paths" THEN Paths!Init ELSE NoPath

OfTree ==
    /\ \/ scene = "deep" /\ Deep!Next
       \/ scene = "reused" /\ Reused!Next
    /\ UNCHANGED <<scene, tourVars, commentVars, pathVars, layoutVars>>

OfTour ==
    /\ scene = "tour" /\ TourNext
    /\ UNCHANGED <<scene, treeVars, commentVars, pathVars, layoutVars>>

OfComments ==
    /\ scene = "comments" /\ CommentNext
    /\ UNCHANGED <<scene, treeVars, tourVars, pathVars, layoutVars>>

OfPaths ==
    /\ scene = "paths" /\ Paths!Next
    /\ UNCHANGED <<scene, treeVars, tourVars, commentVars, layoutVars>>

OfLayout ==
    /\ scene = "layout" /\ LayoutNext
    /\ UNCHANGED <<scene, treeVars, tourVars, commentVars, pathVars>>

MCNext == OfTree \/ OfTour \/ OfComments \/ OfPaths \/ OfLayout

MCSpec == MCInit /\ [][MCNext]_MCVars

-----------------------------------------------------------------------------
\* Types, and the properties of the instances

\* The types of the components.
TypesOK ==
    /\ scene \in Scenes
    /\ scene = "deep" => Deep!TypeOK
    /\ scene = "reused" => Reused!TypeOK
    /\ scene = "paths" => Paths!TypeOK
    /\ TourTypeOK /\ CommentTypeOK /\ LayoutTypeOK

\* Once the watcher's goroutine has taken every event, every directory is watched, and a
\* client that followed what it was told knows every note there.
WatchComplete ==
    /\ scene = "deep" => Deep!AllWatched /\ Deep!ClientKnows
    /\ scene = "reused" => Reused!AllWatched /\ Reused!ClientKnows

\* A path that is taken leads inside the vault, and one to write at just where it says.
PathsLead == scene = "paths" => Paths!TakenLeadsInside /\ Paths!DestinationIsAsked
=============================================================================
