----------------------------- MODULE TaskScope ------------------------------
(***************************************************************************)
(* Which notes the Tasks views take in: the folder lists of the settings   *)
(* (tasks_exclude.go, template_folder.go), the walk of ScanTasks and the   *)
(* rescan of one note (vault.go), and how the lists follow a folder that   *)
(* is renamed or moved.  A path is a sequence of names.  Each folder, and  *)
(* the root of the vault, holds the same few notes: with a name that       *)
(* begins with a dot, or not.                                              *)
(*                                                                         *)
(* Every operation is one step here: renaming step by step is module       *)
(* Relocate's, vault.json SettingsFile's, the lines that are tasks         *)
(* TaskNesting's.  The archive folder is treated as the quick one is, and  *)
(* left out; so are blanks in names.  The file system tells case apart.    *)
(***************************************************************************)
EXTENDS Naturals, Sequences, SequencesExt

CONSTANTS
    Dirs,       \* names of directories
    inbox, quick, trash,  \* the system folders, and their directories' usual names
    NoteNames,  \* names of notes
    Hidden,     \* names that begin with a dot
    Caseless,   \* Caseless[x]: the name x in lower case
    Reserved,   \* names of the directories of assets
    Locations,  \* where a client may say the inbox is: in its directory, or all over
    Remaps,     \* the directories a client may give to the system folders
    Layout,     \* directories of the vault at first, beside the system folders'
    Lists,      \* what a client may make of either list of folders
    Templates,  \* what it may name as template folders: one or none
    MaxDepth,   \* bound: the depth of directories
    MaxSub,     \* bound: that of the path a client gives, below a system folder
    MaxEntry,   \* length of the longest entry of a list; 512 bytes in the code
    MaxChanges  \* bound: operations

Folders == {inbox, quick, trash}
Paths == UNION {[1..n -> Dirs] : n \in 1..MaxDepth}
Subs == UNION {[1..n -> Dirs] : n \in 1..MaxSub}
Root == <<>>

ScopeConstantsOK ==
    /\ inbox # quick /\ inbox # trash /\ quick # trash
    /\ Folders \subseteq Dirs \ (Hidden \union Reserved)
    /\ Caseless \in [Dirs \union NoteNames -> Dirs \union NoteNames]
    /\ \A f \in Folders : Caseless[f] = f
    /\ \A n \in NoteNames, x \in Dirs : n \notin Reserved /\ Caseless[n] # Caseless[x]
    /\ Locations \subseteq {"inbox", "root"}
    /\ Remaps \subseteq [Folders -> Dirs]
    /\ Layout \subseteq Paths
    /\ \A d \in Layout : Len(d) > 1 => Front(d) \in Layout \union {<<f>> : f \in Folders}
    /\ \A L \in Lists \union Templates : \A e \in L : e \in Paths /\ Len(e) <= MaxEntry
    /\ MaxDepth \in Nat \ {0}
    /\ MaxSub \in Nat /\ MaxEntry \in Nat /\ MaxChanges \in Nat

(* NormalizeSystemFolderPaths: what a directory name may be given to.      *)
ValidPaths(names) ==
    /\ \A f \in Folders : names[f] \notin Hidden \union Reserved
    /\ \A f, g \in Folders :
         f # g => Caseless[names[f]] # Caseless[names[g]] /\ Caseless[names[f]] # g

VARIABLES
    dirs,     \* the directories of the vault
    primary,  \* where notes of the inbox are: in its directory, or anywhere
    sys,      \* the directory of each system folder
    excluded, included, templates,
    changes

lists == <<excluded, included, templates>>
scopeVars == <<dirs, primary, sys, lists, changes>>

ScopeTypeOK ==
    /\ dirs \subseteq Paths
    /\ \A d \in dirs : Len(d) > 1 => Front(d) \in dirs
    /\ primary \in Locations
    /\ sys \in [Folders -> Dirs] /\ ValidPaths(sys)
    /\ \A e \in excluded \union included \union templates :
         e \in Seq(Dirs) \ {Root} /\ Len(e) <= MaxEntry
    /\ changes \in 0..MaxChanges

----------------------------------------------------------------------------
Within(d, e) == IsPrefix(e, d)

(* isPathExcludedFromTasks, with the lists tasksFolderLists makes. *)
Counted(d) ==
    /\ included # {} => \E e \in included : Within(d, e)
    /\ ~\E e \in excluded \union templates : Within(d, e)

Base(f) == IF f = inbox /\ primary = "root" THEN Root ELSE <<sys[f]>>

(* The names hidden at the root when the root is the inbox. *)
HiddenAtRoot == Reserved \union {sys[f] : f \in Folders \ {inbox}}

(* The first name on the path of note n of directory d. *)
Top(d, n) == IF d = Root THEN n ELSE d[1]

(* The folders whose walk comes by a note; trash is not walked.  Names at  *)
(* the root are hidden as they are spelled, and no file for its dot.       *)
WalkedIn(d, n) ==
    {f \in Folders \ {trash} :
        /\ Within(d, Base(f))
        /\ \A i \in (Len(Base(f)) + 1)..Len(d) : d[i] \notin Hidden
        /\ Base(f) = Root => Top(d, n) \notin HiddenAtRoot}

(* Mutant: by the usual names, as though none could be changed. *)
FolderByDefault(d, n) ==
    {f \in Folders : f = Top(d, n) \/ (f = inbox /\ Top(d, n) \notin Folders)}

(* FolderForRelativePathWithSettings: the folder of a path, if it has one; *)
(* its first name is compared with theirs without case.                    *)
FolderOf(d, n) ==
    LET owners == {f \in Folders : Caseless[sys[f]] = Caseless[Top(d, n)]}
    IN  IF Top(d, n) \in Hidden THEN {}
        ELSE IF owners # {} THEN owners
        ELSE {f \in {inbox} : Top(d, n) \notin Reserved}

(* The folders that a note's tasks are given with: by ScanTasks, and by    *)
(* ScanTasksForPath.                                                       *)
Scanned(d, n) == {f \in WalkedIn(d, n) : Counted(d)}
Rescanned(d, n) == {f \in FolderOf(d, n) \ {trash} : Counted(d)}

----------------------------------------------------------------------------
ScopeInit ==
    /\ dirs = Layout \union {<<f>> : f \in Folders}
    /\ primary \in Locations
    /\ sys \in {s \in Remaps : ValidPaths(s)}
    /\ excluded \in Lists /\ included \in Lists /\ templates \in Templates
    /\ changes = 0

(* SetSettings makes sure of the inbox. *)
WithInbox(D, p, s) == D \union (IF p = "inbox" THEN {<<s[inbox]>>} ELSE {})

SetSettings ==
    /\ changes < MaxChanges /\ changes' = changes + 1
    /\ primary' \in Locations
    /\ sys' \in {s \in Remaps : ValidPaths(s)}
    /\ excluded' \in Lists /\ included' \in Lists /\ templates' \in Templates
    /\ dirs' = WithInbox(dirs, primary', sys')

Tree(d) == {e \in dirs : Within(e, d)}
Moved(e, old, new) == new \o SubSeq(e, Len(old) + 1, Len(e))
Parents(d) == {SubSeq(d, 1, n) : n \in 1..(Len(d) - 1)}

(* Mutant: an entry for a folder in the one that moved is left behind. *)
FollowSelf(L, old, new) == {IF e = old THEN new ELSE e : e \in L}

(* rewriteFolderList and normalizeTasksExcludedFolders: an entry for the   *)
(* folder, or for one in it, follows it, and is dropped when too long.     *)
Short(L) == {e \in L : Len(e) <= MaxEntry}
Follow(L, old, new) ==
    Short({IF Within(e, old) THEN Moved(e, old, new) ELSE e : e \in L})

(* rewriteTemplateFolderForRename: the template folder stays what it was   *)
(* when it would be hidden or too long.                                    *)
FollowTemplate(L, old, new) ==
    {LET m == Moved(e, old, new) IN
        IF Within(e, old) /\ Len(m) <= MaxEntry /\ (\A i \in DOMAIN m : m[i] \notin Hidden)
        THEN m ELSE e : e \in L}

(* RenameFolder: a folder of f gets another path there. *)
RenameFolder(f, old, new) ==
    /\ changes < MaxChanges /\ changes' = changes + 1
    /\ old \in dirs /\ Within(old, Base(f)) /\ old # Base(f)
    /\ new \notin dirs /\ ~Within(new, old)
    /\ \A e \in Tree(old) : Len(Moved(e, old, new)) <= MaxDepth
    /\ dirs' = WithInbox((dirs \ Tree(old)) \union Parents(new)
                           \union {Moved(e, old, new) : e \in Tree(old)},
                         primary, sys)
    /\ excluded' = Follow(excluded, old, new)
    /\ included' = Follow(included, old, new)
    /\ templates' = FollowTemplate(templates, old, new)
    /\ UNCHANGED <<primary, sys>>

(* DeleteFolder: the lists keep what they had. *)
DeleteFolder(f, d) ==
    /\ changes < MaxChanges /\ changes' = changes + 1
    /\ d \in dirs /\ Within(d, Base(f)) /\ d # Base(f)
    /\ dirs' = WithInbox(dirs \ Tree(d), primary, sys)
    /\ UNCHANGED <<primary, sys, lists>>

CreateFolder(f, d) ==
    /\ changes < MaxChanges /\ changes' = changes + 1
    /\ d \notin dirs /\ Len(d) <= MaxDepth
    /\ dirs' = dirs \union {d} \union Parents(d)
    /\ UNCHANGED <<primary, sys, lists>>

ScopeNext ==
    \/ SetSettings
    \/ \E f \in Folders, old \in dirs, sub \in Subs : RenameFolder(f, old, Base(f) \o sub)
    \/ \E f \in Folders, d \in dirs : DeleteFolder(f, d)
    \/ \E f \in Folders, sub \in Subs : CreateFolder(f, Base(f) \o sub)

ScopeSpec == ScopeInit /\ [][ScopeNext]_scopeVars

----------------------------------------------------------------------------
Homes == dirs \union {Root}   \* where notes are

(* The walk and the classifier differ by themselves on a hidden path (the  *)
(* walk skips hidden directories at any depth, and files in none; the      *)
(* classifier looks at the first name), on a first name that is a system   *)
(* folder's but for case, and outside those folders when the inbox is one  *)
(* of them (the walk comes by none of it, the classifier says inbox).      *)
Classed(d, n) ==
    /\ Top(d, n) \notin Hidden /\ \A i \in DOMAIN d : d[i] \notin Hidden
    /\ \A f \in Folders : Caseless[Top(d, n)] = Caseless[sys[f]] => Top(d, n) = sys[f]
    /\ primary = "root" \/ \E f \in Folders : Top(d, n) = sys[f]

(* Everywhere else the rescan of a note gives its tasks, in their folder,  *)
(* just when the scan of the vault does, whatever the settings: "Same      *)
(* gates as the full scan" (ScanTasksForPathWith and ScanTasksWith).       *)
ListedAgree ==
    \A d \in Homes, n \in NoteNames : Classed(d, n) => Rescanned(d, n) = Scanned(d, n)

Landed(d, old, new) == IF Within(d, old) THEN Moved(d, old, new) ELSE d
Named == excluded \union included \union templates

(* A rename or a move after which the folder is still in the folders that  *)
(* entries name above it, and in no other: no entry was left for the new   *)
(* place by a folder that is gone.                                         *)
StaysListed(old, new) ==
    \A e \in Named :
        /\ ~Within(e, new)
        /\ ~Within(e, old) => (Within(old, e) <=> Within(new, e))

(* No entry becomes too long, and no template folder hidden.               *)
Follows(old, new) ==
    /\ \A e \in Named : Len(Landed(e, old, new)) <= MaxEntry
    /\ \A e \in templates : Within(e, old) =>
         \A i \in DOMAIN Landed(e, old, new) : Landed(e, old, new)[i] \notin Hidden

(* Then the Tasks views take in the notes that they took in before: those  *)
(* in the folder where it now is, and all others where they are            *)
(* (rewriteTasksFoldersForRename, rewriteTemplateFolderForRename,          *)
(* isPathExcludedFromTasks).                                               *)
TasksStay ==
    [][\A f \in Folders, old \in dirs, new \in dirs' \ dirs :
         RenameFolder(f, old, new) /\ StaysListed(old, new) /\ Follows(old, new) =>
           \A d \in Homes : Counted(Landed(d, old, new))' <=> Counted(d)]_scopeVars
=============================================================================
