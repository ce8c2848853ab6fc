----------------------------- MODULE VaultLayout -----------------------------
(***************************************************************************)
(* Where the notes of a vault are: the location of the inbox, stored in    *)
(* vault.json or, without one, inferred anew by every call from what is at *)
(* the root; the directories of the system folders; and the calls that     *)
(* begin from either: opening the vault, making notes and folders, moving  *)
(* notes between folders and back, and the walk of the listings.           *)
(* internal/vault/vault.go and types.go.                                   *)
(*                                                                         *)
(* Each call is one step (its steps are in Relocate); other programs make  *)
(* and remove directories and notes in between.  A note stays itself       *)
(* wherever it goes; its name, links and blanks and case in names of       *)
(* directories are left out.                                               *)
(***************************************************************************)
EXTENDS Naturals, Sequences, SequencesExt

CONSTANTS
    Names,        \* of directories
    inbox, quick, trash,    \* the system folders, and their directories' usual names
    Hidden,       \* names that begin with a dot
    Reserved,     \* names of the directories of assets
    Given,        \* the names a client gives to the system folders
    Subs,         \* the paths a client gives below a system folder
    Made,         \* the directories other programs make
    Notes, welcome,
    None,         \* no vault.json; no place
    MaxOps        \* bound: calls and changes

Folders == {inbox, quick, trash}
Root == <<>>
Dirs == Seq(Names)
Parents(d) == {SubSeq(d, 1, k) : k \in 0..Len(d)}
Settings == [location : {"inbox", "root"}, sys : [Folders -> Names]]

LayoutConstantsOK ==
    /\ inbox # quick /\ inbox # trash /\ quick # trash
    /\ Folders \subseteq Names \ (Hidden \union Reserved)
    /\ Given \subseteq [Folders -> Names] /\ Subs \union Made \subseteq Dirs
    /\ welcome \in Notes /\ None \notin Names \union Dirs /\ MaxOps \in Nat

VARIABLES
    settings,   \* vault.json, or None
    dirs,       \* the directories there are
    place,      \* the directory each note is in, or None
    home,       \* where a note of the inbox was when it left it, or None
    opened,     \* whether the server has begun with this vault
    ops

layoutVars == <<settings, dirs, place, home, opened, ops>>

LayoutTypeOK ==
    /\ settings \in Settings \union {None}
    /\ dirs \subseteq Dirs /\ Root \in dirs
    /\ \A d \in dirs : Parents(d) \subseteq dirs
    /\ place \in [Notes -> dirs \union {None}] /\ home \in [Notes -> Dirs \union {None}]
    /\ opened \in BOOLEAN /\ ops \in 0..MaxOps

-----------------------------------------------------------------------------
\* The location and the system folders

\* Mutant: only notes at the root tell.
InferredByNotes == IF \E n \in Notes : place[n] = Root THEN "root" ELSE "inbox"

\* inferPrimaryNotesLocation: a note at the root, or a directory there that is neither
\* hidden nor reserved.
Inferred ==
    IF \/ \E n \in Notes : place[n] = Root
       \/ \E d \in dirs : Len(d) = 1 /\ d[1] \notin Hidden \union Reserved \union Folders
    THEN "root" ELSE "inbox"

Usual == [f \in Folders |-> f]

\* The folders after one in the order of AllFolders.
After(f) == CASE f = inbox -> {quick, trash} [] f = quick -> {trash} [] OTHER -> {}

\* normalizeSystemFolderPaths: no name of another folder, of assets or hidden, and of
\* folders that are given one name the last in order keeps it.
NormalPaths(m) ==
    LET valid == [f \in Folders |->
                    IF m[f] \in Folders \union Hidden \union Reserved THEN f ELSE m[f]]
    IN  [f \in Folders |-> IF \E g \in After(f) : valid[g] = valid[f] THEN f ELSE valid[f]]

Location == IF settings = None THEN Inferred ELSE settings.location
Sys == IF settings = None THEN Usual ELSE settings.sys

\* folderRoot.
Base(f) == IF f = inbox /\ Location = "root" THEN Root ELSE <<Sys[f]>>

Within(d, e) == IsPrefix(e, d)

-----------------------------------------------------------------------------
\* The listing

HiddenAtRoot == Reserved \union {Sys[f] : f \in Folders \ {inbox}}

\* ListNotes: the folders whose walk comes by a directory.
Walked(d) ==
    {f \in Folders :
        /\ Within(d, Base(f))
        /\ \A i \in (Len(Base(f)) + 1)..Len(d) : d[i] \notin Hidden
        /\ Base(f) = Root /\ d # Root => d[1] \notin HiddenAtRoot}

\* FolderForRelativePathWithSettings.
FolderOf(d) ==
    IF d # Root /\ \E f \in Folders : Sys[f] = d[1] THEN CHOOSE f \in Folders : Sys[f] = d[1]
    ELSE IF d # Root /\ d[1] \in Hidden \union Reserved THEN None ELSE inbox

-----------------------------------------------------------------------------
\* Calls

Bound == ops < MaxOps /\ ops' = ops + 1

LayoutInit ==
    /\ settings = None
    /\ \E D \in SUBSET Made : dirs = UNION {Parents(d) : d \in D \union {Root}}
    /\ place \in [Notes -> dirs \union {None}] /\ place[welcome] = None
    /\ home = [n \in Notes |-> None]
    /\ opened = FALSE /\ ops = 0

\* New with EnsureLayout: the system folders, and the first note of an empty vault.
Open ==
    /\ Bound /\ opened' = TRUE
    /\ LET empty == dirs = {Root} /\ \A n \in Notes : place[n] = None
           made == {Base(f) : f \in Folders}
       IN  /\ dirs' = dirs \union made
           /\ place' = IF empty THEN [place EXCEPT ![welcome] = Base(inbox)] ELSE place
    /\ UNCHANGED <<settings, home>>

\* SetSettings: a client that says nothing of the location gets the inferred one, one of
\* the two.
Save ==
    /\ opened /\ Bound
    /\ \E location \in {"inbox", "root"}, m \in Given :
         /\ settings' = [location |-> location, sys |-> NormalPaths(m)]
         /\ dirs' = dirs \union (IF location = "inbox" THEN {<<settings'.sys[inbox]>>} ELSE {})
    /\ home' = [n \in Notes |-> None]
    /\ UNCHANGED <<place, opened>>

\* CreateNote and CreateFolder.
Create(f, sub) ==
    /\ opened /\ Bound
    /\ dirs' = dirs \union Parents(Base(f) \o sub)
    /\ \/ \E n \in Notes \ {welcome} :
            place[n] = None /\ place' = [place EXCEPT ![n] = Base(f) \o sub]
       \/ UNCHANGED place
    /\ UNCHANGED <<settings, home, opened>>

\* Mutant: the note goes to the top of the folder.
SubpathNone(d) == Root

\* folderSubpathOf.
Subpath(d) ==
    LET f == FolderOf(d)
    IN  IF f # None /\ Within(d, Base(f)) THEN SubSeq(d, Len(Base(f)) + 1, Len(d)) ELSE Root

\* moveBetweenFolders: to the trash, to the inbox.  What leaves the inbox has a home
\* until it is back.
Move(n, f) ==
    /\ opened /\ Bound
    /\ place[n] # None /\ Walked(place[n]) # {} /\ f \in {inbox, trash} /\ FolderOf(place[n]) # f
    /\ LET to == Base(f) \o Subpath(place[n])
       IN  /\ dirs' = dirs \union Parents(to)
           /\ place' = [place EXCEPT ![n] = to]
           /\ home' = [home EXCEPT ![n] = IF f = trash /\ FolderOf(place[n]) = inbox THEN place[n] ELSE None]
    /\ UNCHANGED <<settings, opened>>

-----------------------------------------------------------------------------
\* Other programs, and the removal of the demo tour, which may take the inbox along

MakeDir(d) ==
    /\ opened /\ Bound
    /\ d \notin dirs /\ dirs' = dirs \union Parents(d)
    /\ UNCHANGED <<settings, place, home, opened>>

RemoveDir(d) ==
    /\ opened /\ Bound
    /\ d # Root /\ \A e \in dirs : Within(e, d) => e = d
    /\ \A n \in Notes : place[n] # d
    /\ dirs' = dirs \ {d}
    /\ UNCHANGED <<settings, place, home, opened>>

Put(n, d) ==
    /\ opened /\ Bound
    /\ place[n] # d /\ place' = [place EXCEPT ![n] = d]
    /\ home' = [home EXCEPT ![n] = None]
    /\ UNCHANGED <<settings, dirs, opened>>

LayoutNext ==
    \/ Open \/ Save
    \/ \E f \in Folders, sub \in Subs : Create(f, sub)
    \/ \E n \in Notes, f \in Folders : Move(n, f)
    \/ \E d \in Made : MakeDir(d)
    \/ \E d \in dirs : RemoveDir(d)
    \/ \E n \in Notes, d \in dirs : Put(n, d)

LayoutSpec == LayoutInit /\ [][LayoutNext]_layoutVars

-----------------------------------------------------------------------------
\* Properties

Visible(d) ==
    /\ d # Root => d[1] \notin Reserved
    /\ \A i \in DOMAIN d : d[i] \notin Hidden

\* Wherever notes and directories come and go, no walk of the listing comes by a note but
\* that of the folder which the note's path tells, and while the location is inferred no
\* note is missed that is neither hidden nor among assets.
ListedOnce ==
    \A n \in Notes : place[n] # None =>
        /\ Walked(place[n]) \subseteq {FolderOf(place[n])}
        /\ settings = None /\ Visible(place[n]) => Walked(place[n]) # {}

\* A note that left the inbox comes back to it.
Returns(n) == home[n] # None /\ home'[n] = None /\ Move(n, inbox)

\* A note that comes back is put where it was, whatever has happened to its directory
\* ("a round-trip ... puts the note back where it came from instead of at the folder's
\* top level").
RoundTrip == [][\A n \in Notes : Returns(n) => place'[n] = home[n]]_layoutVars

\* The same where vault.json says where the inbox is.
StoredRoundTrip ==
    [][\A n \in Notes : settings # None /\ Returns(n) => place'[n] = home[n]]_layoutVars
=============================================================================
