------------------------------ MODULE Relocate ------------------------------
(***************************************************************************)
(* relocateFolderTrees of internal/vault/vault.go and the calls made of    *)
(* it: renaming, moving and deleting a note, renaming and deleting a       *)
(* folder, emptying the trash.  A note (or a folder with all it holds) and *)
(* its comments live in two parallel trees of the vault; every call moves  *)
(* the pair, step by step, undoes the steps taken when one fails, and      *)
(* holds Vault.mu throughout, so one call runs at a time.  Any file system *)
(* call may fail, and the process may stop between two of them; nothing    *)
(* repairs the vault at the next start.                                    *)
(*                                                                         *)
(* A path is a member of Places, a directory made by MkdirTemp under       *)
(* .zennotes a member of Temps.  A directory and a file name are integers, *)
(* and the text of a relative symbolic link is the difference between the  *)
(* file it names and the directory it is read from: filepath.Join adds,    *)
(* filepath.Rel subtracts.                                                 *)
(***************************************************************************)
EXTENDS Integers

CONSTANTS
    Items,     \* notes and folders, each with the comments that belong to it
    Folders,   \* the members of Items that are folders
    Links,     \* the members of Items that are symbolic links to notes
    Places,    \* paths of the vault
    Temps,     \* temporary directories under .zennotes
    None,      \* nothing at a path
    DirOf,     \* DirOf[s]: the directory of s
    Pos,       \* Pos[p]: the file path p names
    MaxFaults  \* bound: failing file system calls, crashes and stale writes

Spots == Places \union Temps

ASSUME ConstantsOK ==
    /\ Folders \subseteq Items
    /\ Links \subseteq Items \ Folders
    /\ \A l, k \in Links : l = k
    /\ Places \intersect Temps = {}
    /\ None \notin Items \union Spots
    /\ DirOf \in [Spots -> Int]
    /\ Pos \in [Spots -> Int]
    /\ \A p, q \in Spots : Pos[p] = Pos[q] => p = q
    /\ MaxFaults \in Nat

Content == 1
Comments == 2
Trees == {Content, Comments}

VARIABLES
    trees,     \* trees[t][s]: the item whose content (or comments) is at s
    text,      \* text[l]: the text of link l
    settings,  \* settings[p]: the folder whose entries vault.json has under p
    op,        \* the call that runs, or ran last
    pc,        \* where it is
    todo,      \* trees it has still to move
    moved,     \* trees it has moved and not put back
    cur,       \* the tree whose link is being rebased
    failures,  \* steps of the rollback that failed
    result,    \* what the last call returned
    before,    \* the vault when the call began
    faults,    \* those so far, at most MaxFaults
    torn,      \* a crash, an uncertain result or a stale client parted the trees
    astray     \* folders whose entries a call has left elsewhere

vars == <<trees, text, settings, op, pc, todo, moved, cur, failures, result,
          before, faults, torn, astray>>

vault == <<trees, text, settings>>
Tree == [Spots -> Items \union {None}]
Kinds == {"RenameNote", "MoveNote", "DeleteNote", "EmptyTrash",
          "RenameFolder", "DeleteFolder"}
Results == {"none", "ok", "refused", "error", "uncertain", "crash"}
Steps == {"idle", "move", "rebase", "persist", "rollback", "unrebase", "cleanup"}

Snapshot == [trees |-> trees, text |-> text, settings |-> settings]

TypeOK ==
    /\ trees \in [Trees -> Tree]
    /\ text \in [Links -> Int]
    /\ settings \in Tree
    /\ op \in [kind : Kinds \union {"none"}, src : Spots \union {None},
               dst : Spots \union {None}]
    /\ pc \in Steps
    /\ todo \in SUBSET Trees
    /\ moved \in SUBSET Trees
    /\ todo \intersect moved = {}
    /\ pc = "idle" => moved = {}
    /\ cur \in Trees
    /\ failures \in SUBSET ({"rename", "rebase"} \X Trees)
    /\ result \in Results
    /\ before \in [trees : [Trees -> Tree], text : [Links -> Int], settings : Tree]
    /\ faults \in 0..MaxFaults
    /\ torn \in BOOLEAN
    /\ astray \in SUBSET Folders

-----------------------------------------------------------------------------
\* The file system

\* os.Rename of whatever is at s in one tree to d, replacing what d held.
Renamed(f, s, d) == [f EXCEPT ![s] = None, ![d] = f[s]]

\* The file a link at s with this text names: its directory joined with it.
Named(s, l) == DirOf[s] + text[l]

\* What os.Stat finds at s: the item, through a link the note it names, None
\* when there is nothing (a broken link, and a link that names itself).
FileAt(s) ==
    LET i == trees[Content][s] IN
    IF i \notin Links THEN i
    ELSE IF \E q \in Spots : Pos[q] = Named(s, i) /\ trees[Content][q] \notin Links
         THEN trees[Content][CHOOSE q \in Spots : Pos[q] = Named(s, i)]
         ELSE None

\* os.SameFile of the two ends of a move.
SameFile(t, s, d) ==
    \/ s = d
    \/ /\ t = Content
       /\ FileAt(s) # None
       /\ FileAt(s) = FileAt(d)

\* Faulty variant of Rebased: the link is moved verbatim.
NotRebased(l, s, d) == text[l]

\* rebaseMovedLink: the text that names from d the file it named from s.
Rebased(l, s, d) == text[l] + DirOf[s] - DirOf[d]

RebaseLink(t, s, d) ==
    LET i == trees[t][d] IN
    text' = IF t = Content /\ i \in Links
            THEN [text EXCEPT ![i] = Rebased(i, s, d)]
            ELSE text

\* os.Rename puts no folder in the place of a file, and no file in that of a folder.
Barred(s, d) ==
    /\ trees[Content][d] # None
    /\ (trees[Content][s] \in Folders) # (trees[Content][d] \in Folders)

\* Something goes wrong; the bound on how often.
Fault == faults < MaxFaults /\ faults' = faults + 1

-----------------------------------------------------------------------------
\* What each call asks of relocateFolderTrees

Deleting(kind) == kind \in {"DeleteNote", "EmptyTrash", "DeleteFolder"}
WritesSettings(kind) == kind \in {"RenameFolder", "DeleteFolder"}

\* A directory MkdirTemp can have made: nothing is in it.
Fresh(d) == d \in Temps /\ \A t \in Trees : trees[t][d] = None

\* SafeJoin refuses a path through a link that names nothing.
Resolves(s) == trees[Content][s] \in Links => FileAt(s) # None

ValidCall(kind, s, d) ==
    /\ s \in Places
    /\ IF Deleting(kind) THEN Fresh(d) ELSE d \in Places
    /\ Resolves(s)
    /\ CASE kind = "RenameNote" ->
              /\ trees[Content][s] \in Items \ Folders
              /\ DirOf[s] = DirOf[d]
              /\ SameFile(Content, s, d) \/ trees[Content][d] = None
         [] kind = "MoveNote" ->
              /\ trees[Content][s] \notin Folders
              /\ trees[Content][d] = None
         [] kind = "DeleteNote" -> trees[Content][s] \in Items \ Folders
         [] kind = "EmptyTrash" -> trees[Content][s] \in Folders \union {None}
         [] kind = "RenameFolder" -> trees[Content][s] \in Folders
         [] kind = "DeleteFolder" -> trees[Content][s] \in Folders \union {None}

\* Faulty variant of SettingsAfter: the settings are written back as read.
SettingsNotFollowing(o, f) == {f}

\* The settings the call's last step may write: the entry of a renamed folder
\* follows it, and if the new path has an entry already, the order in which Go
\* goes through the map says which of the two is kept; that of a deleted folder
\* is dropped (its icons and colours are; the Tasks and template folders only
\* follow a rename).
SettingsAfter(o, f) ==
    CASE o.kind = "RenameFolder" ->
            IF f[o.src] = None THEN {f}
            ELSE {[f EXCEPT ![o.src] = None, ![o.dst] = e] :
                     e \in {f[o.src], f[o.dst]} \ {None}}
      [] o.kind = "DeleteFolder" -> {[f EXCEPT ![o.src] = None]}
      [] OTHER -> {f}

\* What SetSettings writes leaves the folder of the call without its own entry.
Strays == {before.trees[Content][op.src]} \intersect Folders

\* The pair is moved content first...
First(S) == IF Content \in S THEN Content ELSE Comments

\* Faulty variant of Last: the rollback takes the moves in their own order.
SameOrder(S) == IF Content \in S THEN Content ELSE Comments

\* ...and the rollback goes back over it in reverse.
Last(S) == IF Comments \in S THEN Comments ELSE Content

\* Faulty variant of Collides: only the content's destination is looked at.
ContentCollides(s, d) ==
    trees[Content][d] # None /\ ~SameFile(Content, s, d)

\* The check made before anything moves: a destination is taken.
Collides(s, d) == \E t \in Trees : trees[t][d] # None /\ ~SameFile(t, s, d)

\* Faulty variant of Present: the comments are left behind.
ContentOnly(s) == {Content} \intersect {t \in Trees : trees[t][s] # None}

\* The moves kept after that check: those with something to move.
Present(s) == {t \in Trees : trees[t][s] # None}

-----------------------------------------------------------------------------
\* The steps of a call

\* What a call leaves in memory when it returns r: nothing but its answer.
Return(r) ==
    /\ pc' = "idle"
    /\ result' = r
    /\ todo' = {}
    /\ moved' = {}
    /\ cur' = Content

Call(kind, s, d) ==
    /\ pc = "idle"
    /\ ValidCall(kind, s, d)
    /\ ~Collides(s, d)
    /\ op' = [kind |-> kind, src |-> s, dst |-> d]
    /\ before' = Snapshot
    /\ todo' = Present(s)
    /\ pc' = IF Present(s) = {} THEN "persist" ELSE "move"
    /\ moved' = {}
    /\ failures' = {}
    /\ result' = "none"
    /\ UNCHANGED <<vault, cur, faults, torn, astray>>

\* A destination is taken, or a Stat fails: nothing has happened.
Refuse(kind, s, d) ==
    /\ pc = "idle"
    /\ ValidCall(kind, s, d)
    /\ IF Collides(s, d) THEN UNCHANGED faults ELSE Fault
    /\ op' = [kind |-> kind, src |-> s, dst |-> d]
    /\ before' = Snapshot
    /\ failures' = {}
    /\ Return("refused")
    /\ UNCHANGED <<vault, torn, astray>>

MoveTree ==
    LET t == First(todo) IN
    /\ pc = "move"
    /\ t = Content => ~Barred(op.src, op.dst)
    /\ trees' = [trees EXCEPT ![t] = Renamed(@, op.src, op.dst)]
    /\ moved' = moved \union {t}
    /\ todo' = todo \ {t}
    /\ cur' = t
    /\ pc' = "rebase"
    /\ UNCHANGED <<text, settings, op, failures, result, before, faults, torn, astray>>

\* MkdirAll or Rename fails.
MoveFails ==
    /\ pc = "move"
    /\ IF First(todo) = Content /\ Barred(op.src, op.dst) THEN UNCHANGED faults ELSE Fault
    /\ pc' = "rollback"
    /\ UNCHANGED <<vault, op, todo, moved, cur, failures, result, before, torn, astray>>

RebaseTree ==
    /\ pc = "rebase"
    /\ RebaseLink(cur, op.src, op.dst)
    /\ pc' = IF todo = {} THEN "persist" ELSE "move"
    /\ UNCHANGED <<trees, settings, op, todo, moved, cur, failures, result,
                   before, faults, torn, astray>>

\* Faulty variant of RebaseFails: a move is recorded once its link is rebased.
RebaseFailsUnrecorded ==
    /\ pc = "rebase"
    /\ Fault
    /\ moved' = moved \ {cur}
    /\ pc' = "rollback"
    /\ UNCHANGED <<vault, op, todo, cur, failures, result, before, torn, astray>>

\* The tree is in `moved' already, so the rollback takes it back too.
RebaseFails ==
    /\ pc = "rebase"
    /\ Fault
    /\ pc' = "rollback"
    /\ UNCHANGED <<vault, op, todo, moved, cur, failures, result, before, torn, astray>>

\* persistSettings of the call succeeds: reading the note at its new path, or
\* writing the settings.
Persist ==
    /\ pc = "persist"
    /\ op.kind \in {"RenameNote", "MoveNote"} => FileAt(op.dst) # None
    /\ settings' \in SettingsAfter(op, settings)
    /\ astray' = IF op.kind = "RenameFolder" /\ settings[op.dst] \notin {None, settings[op.src]}
                 THEN astray \union Strays ELSE astray
    /\ IF Deleting(op.kind)
       THEN pc' = "cleanup" /\ UNCHANGED <<todo, moved, cur, result>>
       ELSE Return("ok")
    /\ UNCHANGED <<trees, text, op, failures, before, faults, torn>>

\* Faulty variant of ReadMetaFails: the error is returned and nothing undone.
PersistFailsHalfway ==
    /\ pc = "persist"
    /\ op.kind \in {"RenameNote", "MoveNote"}
    /\ \/ FileAt(op.dst) = None /\ UNCHANGED faults
       \/ FileAt(op.dst) # None /\ Fault
    /\ Return("error")
    /\ UNCHANGED <<vault, op, failures, before, torn, astray>>

\* The note cannot be read at its new path.
ReadMetaFails ==
    /\ pc = "persist"
    /\ op.kind \in {"RenameNote", "MoveNote"}
    /\ \/ FileAt(op.dst) = None /\ UNCHANGED faults
       \/ FileAt(op.dst) # None /\ Fault
    /\ pc' = "rollback"
    /\ UNCHANGED <<vault, op, todo, moved, cur, failures, result, before, torn, astray>>

\* Faulty variant of SetSettingsFails: the error is returned and nothing undone.
SetSettingsFailsHalfway ==
    /\ pc = "persist"
    /\ WritesSettings(op.kind)
    /\ Fault
    /\ Return("error")
    /\ UNCHANGED <<vault, op, failures, before, torn, astray>>

\* SetSettings fails: before vault.json is written, or, creating the inbox
\* directory, after; then the trees go back and the entries stay.
SetSettingsFails ==
    /\ pc = "persist"
    /\ WritesSettings(op.kind)
    /\ Fault
    /\ settings' \in {settings} \union SettingsAfter(op, settings)
    /\ astray' = IF settings' = settings THEN astray ELSE astray \union Strays
    /\ pc' = "rollback"
    /\ UNCHANGED <<trees, text, op, todo, moved, cur, failures, result, before, torn>>

RollBackTree ==
    LET t == Last(moved) IN
    /\ pc = "rollback"
    /\ moved # {}
    /\ trees' = [trees EXCEPT ![t] = Renamed(@, op.dst, op.src)]
    /\ moved' = moved \ {t}
    /\ cur' = t
    /\ pc' = "unrebase"
    /\ UNCHANGED <<text, settings, op, todo, failures, result, before, faults, torn, astray>>

RollBackFails ==
    LET t == Last(moved) IN
    /\ pc = "rollback"
    /\ moved # {}
    /\ Fault
    /\ moved' = moved \ {t}
    /\ failures' = failures \union {<<"rename", t>>}
    /\ UNCHANGED <<vault, op, pc, todo, cur, result, before, torn, astray>>

\* The link is rebased for the way back whether or not it was for the way there.
RebaseBack ==
    /\ pc = "unrebase"
    /\ RebaseLink(cur, op.dst, op.src)
    /\ pc' = "rollback"
    /\ UNCHANGED <<trees, settings, op, todo, moved, cur, failures, result,
                   before, faults, torn, astray>>

RebaseBackFails ==
    /\ pc = "unrebase"
    /\ Fault
    /\ failures' = failures \union {<<"rebase", cur>>}
    /\ pc' = "rollback"
    /\ UNCHANGED <<vault, op, todo, moved, cur, result, before, torn, astray>>

\* FOLDER_STATE_UNCERTAIN when a step of the rollback failed, else the cause.
RolledBack ==
    /\ pc = "rollback"
    /\ moved = {}
    /\ Return(IF failures = {} THEN "error" ELSE "uncertain")
    /\ torn' = (torn \/ failures # {})
    /\ UNCHANGED <<vault, op, failures, before, faults, astray>>

\* RemoveAll of the temporary directory; a failure is only logged.
Cleanup ==
    /\ pc = "cleanup"
    /\ \/ /\ trees' = [t \in Trees |-> [trees[t] EXCEPT ![op.dst] = None]]
          /\ UNCHANGED faults
       \/ Fault /\ UNCHANGED trees
    /\ Return("ok")
    /\ UNCHANGED <<text, settings, op, failures, before, torn, astray>>

\* The process stops inside a call and is started again.
Crash ==
    /\ pc # "idle"
    /\ Fault
    /\ Return("crash")
    /\ torn' = TRUE
    /\ UNCHANGED <<vault, op, failures, before, astray>>

-----------------------------------------------------------------------------
\* Other calls on the same paths

NoCall == [kind |-> "none", src |-> None, dst |-> None]

\* The last answer of a relocation is history.
Forget ==
    /\ op' = NoCall
    /\ result' = "none"
    /\ failures' = {}
    /\ before' = [trees |-> trees', text |-> text, settings |-> settings]

\* CreateNote: a name nothing uses, whatever comments wait under it.
CreateNote(i, p) ==
    /\ pc = "idle"
    /\ i \in Items \ (Folders \union Links)
    /\ \A t \in Trees, s \in Spots : trees[t][s] # i
    /\ p \in Places
    /\ trees[Content][p] = None
    /\ trees' = [trees EXCEPT ![Content][p] = i]
    /\ Forget
    /\ UNCHANGED <<text, settings, pc, todo, moved, cur, faults, torn, astray>>

\* DuplicateNote: the copy i takes a name nothing uses and a copy of the
\* comments, or finds what waits under that name if there are none to copy.
DuplicateNote(i, s, p) ==
    /\ pc = "idle"
    /\ trees[Content][s] \in Items \ Folders
    /\ Resolves(s)
    /\ i \in Items \ (Folders \union Links)
    /\ \A t \in Trees, r \in Spots : trees[t][r] # i
    /\ DirOf[p] = DirOf[s]
    /\ trees[Content][p] = None
    /\ trees' = [trees EXCEPT
          ![Content][p] = i,
          ![Comments][p] = IF trees[Comments][s] = None THEN @ ELSE i]
    /\ Forget
    /\ UNCHANGED <<text, settings, pc, todo, moved, cur, faults, torn, astray>>

\* WriteNoteComments: the comments on i, none left when the list is empty,
\* arrive at p, where the client last saw i; the code does not ask what is there.
WriteComments(i, p) ==
    /\ pc = "idle"
    /\ i \in Items
    /\ p \in Places
    /\ trees' \in {[trees EXCEPT ![Comments][p] = c] : c \in {i, None}}
    /\ IF trees[Content][p] = i THEN UNCHANGED <<faults, torn>> ELSE Fault /\ torn' = TRUE
    /\ Forget
    /\ UNCHANGED <<text, settings, pc, todo, moved, cur, astray>>

-----------------------------------------------------------------------------

\* The texts of links that name some path of the vault.
LinkTexts == {Pos[p] - DirOf[q] : p, q \in Places}

\* A vault no call has touched: comments beside their note, links that name a
\* note of the vault, settings that name folders where they are.
Init ==
    /\ \E c \in [Spots -> Items \union {None}], commented \in SUBSET Places :
          /\ \A p, q \in Spots : c[p] = c[q] /\ p # q => c[p] = None
          /\ \A s \in Temps : c[s] = None
          /\ trees = [t \in Trees |->
                IF t = Content THEN c
                ELSE [s \in Spots |-> IF s \in commented THEN c[s] ELSE None]]
    /\ text \in [Links -> LinkTexts]
    /\ \A s \in Spots : Resolves(s)
    /\ settings = [s \in Spots |-> IF trees[Content][s] \in Folders
                                   THEN trees[Content][s] ELSE None]
    /\ op = NoCall
    /\ pc = "idle"
    /\ todo = {}
    /\ moved = {}
    /\ cur = Content
    /\ failures = {}
    /\ result = "none"
    /\ before = Snapshot
    /\ faults = 0
    /\ torn = FALSE
    /\ astray = {}

CallStep ==
    \/ MoveTree \/ MoveFails \/ RebaseTree \/ RebaseFails
    \/ Persist \/ ReadMetaFails \/ SetSettingsFails
    \/ RollBackTree \/ RollBackFails \/ RebaseBack \/ RebaseBackFails
    \/ RolledBack \/ Cleanup

Next ==
    \/ \E kind \in Kinds, s \in Places, d \in Spots :
          Call(kind, s, d) \/ Refuse(kind, s, d)
    \/ CallStep
    \/ Crash
    \/ \E i \in Items, p \in Places : CreateNote(i, p) \/ WriteComments(i, p)
    \/ \E i \in Items, s, p \in Places : DuplicateNote(i, s, p)

Spec == Init /\ [][Next]_vars

-----------------------------------------------------------------------------
\* Properties

Src == op.src
Dst == op.dst
Busy == pc \notin {"idle", "cleanup"}

\* Something other than the note itself answered to the destination's name: a
\* link to it, or the note that it links to.
Aliased == Src # Dst /\ before.trees[Content][Dst] # None

HasMoved(t) == before.trees[t][Src] # None /\ trees[t][Src] = None

\* vault.go:2397 "keeps content and its parallel comment tree together": when
\* a call fails without reporting an uncertain state, both trees are where
\* they were, however far it had come.
ErrorRestoresTrees ==
    result = "error" /\ ~Aliased => trees = before.trees

\* The comments of a note have never left its old path while the note is still
\* there, wherever in the call the process stops: the content moves first and
\* is moved back last.  (Unless a step of the rollback failed.)
CommentsNeverAhead ==
    (Busy \/ result = "crash") /\ failures = {} =>
       (HasMoved(Comments) => before.trees[Content][Src] = None \/ HasMoved(Content))

\* Until a crash, an uncertain result or a client writing to a path its note
\* has left, no comments are orphaned and no note shows another's, through any
\* sequence of calls, failed ones included.
OwnComments ==
    pc = "idle" /\ ~torn =>
       \A p \in Places : trees[Comments][p] \in {None, trees[Content][p]}

\* A link that a call has moved, to another directory or the trash, names the
\* file it named before (relink.go:11).
MovedLinkKeepsTarget ==
    (pc = "persist" \/ result = "ok") /\ trees[Content][Dst] \in Links =>
       LET l == trees[Content][Dst]
       IN DirOf[Dst] + text[l] = DirOf[Src] + before.text[l]

\* A folder's entry in vault.json is under its path and under no other, after
\* any sequence of calls, failed and rolled back ones included (vault.go:773 "keeps
\* a folder's accent color attached to it"); but for a crash, and for the folders
\* of two kinds of calls: one that failed after it had written vault.json, and one
\* that took a folder to a path where an entry had been left.
EntriesWithFolder ==
    pc = "idle" /\ ~torn =>
       \A p, q \in Places : trees[Content][p] \in Folders \ astray =>
          (settings[q] = trees[Content][p] <=> q = p)

\* No call, and no step of a rollback, moves a tree over another: what is
\* taken may only become free.  (Comments a client writes replace the list.)
NeverOverwritten ==
    [][ (pc # "idle" \/ pc' # "idle") /\ ~Aliased =>
          \A t \in Trees, s \in Spots :
             trees[t][s] # None => trees'[t][s] \in {trees[t][s], None} ]_vars

\* Refinement: until its last step a call has not happened.
Store == INSTANCE NoteStore WITH
    content <- IF Busy THEN before.trees[Content] ELSE trees[Content],
    comments <- IF Busy THEN before.trees[Comments] ELSE trees[Comments],
    answer <- result

\* Each call is all or nothing for the pair of trees, and says so truthfully.
AllOrNothing == Store!Spec

\* What the message of an error (and its absence) promises for every note,
\* links included: safepath.go:105 "A link to a note file is a supported way to
\* file a note in two places".
ErrorLeavesEveryNote ==
    result = "error" => trees = before.trees
=============================================================================
