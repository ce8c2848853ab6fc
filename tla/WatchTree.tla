----------------------------- MODULE WatchTree -----------------------------
(***************************************************************************)
(* How the watcher follows a tree that changes under it:                   *)
(* internal/watcher/watcher.go.  One goroutine takes the events of the     *)
(* file system in order, looks at what is on disk by then, adds a watch to *)
(* every directory that appears, and tells the clients.  Meanwhile anyone  *)
(* changes the tree: the vault itself, another program, a sync client.     *)
(*                                                                         *)
(* The watches are inotify's, as fsnotify offers them: a directory has to  *)
(* be watched for its entries to raise events; an event carries the path   *)
(* the watch was added under; the watch goes with the directory, and with  *)
(* its renaming.  A directory holds at most one note.  Classifying a path, *)
(* the hidden entries and the files of `.zennotes' are left out; so is the *)
(* buffer of a client, which is module WatchFeed's.                        *)
(***************************************************************************)
EXTENDS Naturals, FiniteSets, Sequences, SequencesExt

CONSTANTS
    Names,     \* names of directories
    Note,      \* the name of a note
    None,      \* a directory that is not watched
    MaxDepth,  \* bound: names in the path of a directory
    MaxOps,    \* bound: changes of the tree
    MaxQueue,  \* bound: events the goroutine has not taken yet
    Reuse      \* whether a directory may have the path of an earlier one

ConstantsOK ==
    /\ Note \notin Names
    /\ MaxDepth \in Nat /\ MaxOps \in Nat /\ MaxQueue \in Nat
    /\ Reuse \in BOOLEAN

Root == <<>>
Directories == BoundedSeq(Names, MaxDepth)
NotesOf(ds) == {Append(d, Note) : d \in ds}
Paths == Directories \union NotesOf(Directories)
Ops == {"create", "write", "remove", "rename"}

Below(p, d) == IsStrictPrefix(d, p)
Children(d, ds) == {e \in ds : e # Root /\ Front(e) = d}

VARIABLES
    tree,     \* the directories on disk
    notes,    \* the notes on disk
    seen,     \* the paths that have been a directory
    watch,    \* the path each directory's watch reports, or None
    queue,    \* events not taken yet
    pc,       \* where the goroutine is
    cur,      \* the directory it is at
    found,    \* directories its walk has still to visit
    dirs,     \* the paths it takes for directories
    believed, \* the notes a client knows of that has read all it was told
    ops

environment == <<tree, notes, seen>>
vars == <<tree, notes, seen, watch, queue, pc, cur, found, dirs, believed, ops>>

TypeOK ==
    /\ tree \in SUBSET Directories
    /\ \A d \in tree \ {Root} : Front(d) \in tree
    /\ notes \in SUBSET NotesOf(tree)
    /\ tree \subseteq seen /\ seen \subseteq Directories
    /\ watch \in [Directories -> Directories \union {None}]
    /\ \A d \in Directories \ tree : watch[d] = None
    /\ queue \in Seq([op : Ops, path : Paths])
    /\ pc \in {"idle", "add", "announce", "read", "walk"}
    /\ cur \in Directories
    /\ found \in SUBSET Directories
    /\ dirs \in SUBSET Directories
    /\ believed \in SUBSET NotesOf(Directories)
    /\ ops \in 0..MaxOps

\* Start has walked the tree, and a client has listed the vault.
Init ==
    /\ tree \in {ds \in SUBSET Directories :
                   Root \in ds /\ \A d \in ds \ {Root} : Front(d) \in ds}
    /\ notes \in SUBSET NotesOf(tree)
    /\ seen = tree
    /\ watch = [d \in Directories |-> IF d \in tree THEN d ELSE None]
    /\ queue = <<>>
    /\ pc = "idle"
    /\ cur = Root
    /\ found = {}
    /\ dirs = tree
    /\ believed = notes
    /\ ops = 0

-----------------------------------------------------------------------------
\* Changes of the tree

\* The event of the entry of d called name: raised only under a watch.
Event(op, d, name) ==
    IF watch[d] = None THEN <<>> ELSE <<[op |-> op, path |-> Append(watch[d], name)]>>

Raise(events) ==
    /\ queue' = queue \o events
    /\ Len(queue') <= MaxQueue

Change ==
    /\ ops < MaxOps
    /\ ops' = ops + 1
    /\ UNCHANGED <<pc, cur, found, dirs, believed>>

MakeDirectory(d) ==
    /\ Change
    /\ d \notin tree /\ Front(d) \in tree
    /\ Reuse \/ d \notin seen
    /\ tree' = tree \union {d}
    /\ seen' = seen \union {d}
    /\ Raise(Event("create", Front(d), Last(d)))
    /\ UNCHANGED <<notes, watch>>

RemoveDirectory(d) ==
    /\ Change
    /\ d \in tree \ {Root}
    /\ Children(d, tree) = {} /\ Append(d, Note) \notin notes
    /\ tree' = tree \ {d}
    /\ watch' = [watch EXCEPT ![d] = None]
    /\ Raise(Event("remove", Front(d), Last(d)))
    /\ UNCHANGED <<notes, seen>>

\* A note is saved: written in place, or renamed into place.
SaveNote(d) ==
    /\ Change
    /\ d \in tree
    /\ notes' = notes \union {Append(d, Note)}
    /\ \/ Raise(Event("create", d, Note))
       \/ /\ Append(d, Note) \in notes
          /\ Raise(Event("write", d, Note))
    /\ UNCHANGED <<tree, seen, watch>>

DeleteNote(d) ==
    /\ Change
    /\ Append(d, Note) \in notes
    /\ notes' = notes \ {Append(d, Note)}
    /\ Raise(Event("remove", d, Note))
    /\ UNCHANGED <<tree, seen, watch>>

\* A directory is renamed with all it holds: it loses its watch, and those
\* below it go on reporting the paths they were added under.
MoveDirectory(d, e) ==
    LET At(p) == IF p = e \/ Below(p, e) THEN d \o SubSeq(p, Len(e) + 1, Len(p)) ELSE p
        moved == {p \in Directories : At(p) \in tree /\ (p = e \/ Below(p, e))}
        gone == {p \in tree : p = d \/ Below(p, d)}
    IN  /\ Change
        /\ ~Reuse
        /\ d \in tree \ {Root} /\ e \notin tree /\ e # Root
        /\ Front(e) \in tree \ gone
        /\ Len(e) = Len(d)
        /\ \A p \in moved : p \notin seen
        /\ tree' = (tree \ gone) \union moved
        /\ seen' = seen \union moved
        /\ notes' = (notes \ NotesOf(gone))
                     \union {Append(p, Note) : p \in {q \in moved : Append(At(q), Note) \in notes}}
        /\ watch' = [p \in Directories |->
                       IF p \in gone \union {e} THEN None
                       ELSE IF p \in moved THEN watch[At(p)] ELSE watch[p]]
        /\ Raise(Event("rename", Front(d), Last(d)) \o Event("create", Front(e), Last(e)))

-----------------------------------------------------------------------------
\* What a client makes of what it is told

\* A folder came or went: the client lists it anew.
ToldFolder(d) ==
    believed' = {p \in believed : ~Below(p, d)} \union {p \in notes : Below(p, d)}

\* Mutant: whether the path is still there is not asked.
EventKindAsked(op, exists) ==
    CASE op = "create" -> "add"
      [] op = "write"  -> "change"
      [] OTHER         -> "add"

\* What the kind of an event says of the note.
EventKind(op, exists) ==
    CASE op = "create" -> "add"
      [] op = "write"  -> "change"
      [] OTHER         -> IF exists THEN "add" ELSE "unlink"

ToldNote(p, kind) ==
    believed' = IF kind = "unlink" THEN believed \ {p} ELSE believed \union {p}

-----------------------------------------------------------------------------
\* The goroutine

\* An event is taken, and its path looked at.
TakeDirectory ==
    LET ev == Head(queue) IN
    /\ pc = "idle" /\ queue # <<>>
    /\ ev.path \in tree
    /\ queue' = Tail(queue)
    /\ IF ev.op = "create" THEN pc' = "add" /\ cur' = ev.path ELSE UNCHANGED <<pc, cur>>
    /\ UNCHANGED <<environment, watch, found, dirs, believed, ops>>

\* Nothing is there, and the path was a directory's.
TakeGoneDirectory ==
    LET ev == Head(queue) IN
    /\ pc = "idle" /\ queue # <<>>
    /\ ev.path \notin tree \union notes /\ ev.path \in dirs
    /\ queue' = Tail(queue)
    /\ dirs' = dirs \ {ev.path}
    /\ ToldFolder(ev.path)
    /\ UNCHANGED <<environment, watch, pc, cur, found, ops>>

\* Anything else is taken for a file; a directory already gone, too.
TakeFile ==
    LET ev == Head(queue) IN
    /\ pc = "idle" /\ queue # <<>>
    /\ ev.path \notin tree \union dirs
    /\ queue' = Tail(queue)
    /\ IF ev.path \in NotesOf(Directories)
       THEN ToldNote(ev.path, EventKind(ev.op, ev.path \in notes))
       ELSE UNCHANGED believed
    /\ UNCHANGED <<environment, watch, pc, cur, found, dirs, ops>>

\* A watch on the directory; it fails, and is logged, when that is gone.  One
\* whose watch reported this path until now reports nothing any more.
AddWatch ==
    /\ pc = "add"
    /\ watch' = [d \in Directories |->
                   IF d = cur /\ cur \in tree THEN cur
                   ELSE IF watch[d] = cur /\ cur \in tree THEN None ELSE watch[d]]
    /\ dirs' = dirs \union {cur}
    /\ pc' = "announce"
    /\ UNCHANGED <<environment, queue, cur, found, believed, ops>>

\* Mutant: what is already inside a new directory is not walked.
AnnounceOnly ==
    /\ pc = "announce"
    /\ ToldFolder(cur)
    /\ pc' = "walk"
    /\ UNCHANGED <<environment, watch, queue, cur, found, dirs, ops>>

Announce ==
    /\ pc = "announce"
    /\ ToldFolder(cur)
    /\ pc' = "read"
    /\ UNCHANGED <<environment, watch, queue, cur, found, dirs, ops>>

\* watchSubdirs: the entries of a directory, as one reading of it finds them.
ReadDirectory ==
    /\ pc = "read"
    /\ found' = found \union Children(cur, tree)
    /\ pc' = "walk"
    /\ UNCHANGED <<environment, watch, queue, cur, dirs, believed, ops>>

\* One of them: a directory the watcher takes for known is only walked.
Visit ==
    /\ pc = "walk"
    /\ \E d \in found :
         /\ found' = found \ {d}
         /\ cur' = d
         /\ pc' = IF d \in dirs THEN "read" ELSE "add"
    /\ UNCHANGED <<environment, watch, queue, dirs, believed, ops>>

EndWalk ==
    /\ pc = "walk" /\ found = {}
    /\ pc' = "idle"
    /\ cur' = Root
    /\ UNCHANGED <<environment, watch, queue, found, dirs, believed, ops>>

Changes ==
    \/ \E d \in Directories \ {Root} : MakeDirectory(d) \/ RemoveDirectory(d)
    \/ \E d \in Directories : SaveNote(d) \/ DeleteNote(d)
    \/ \E d, e \in Directories : MoveDirectory(d, e)

Watcher ==
    \/ TakeDirectory \/ TakeGoneDirectory \/ TakeFile
    \/ AddWatch \/ Announce \/ ReadDirectory \/ Visit \/ EndWalk

Next == Changes \/ Watcher

Spec == Init /\ [][Next]_vars

-----------------------------------------------------------------------------
\* Properties

\* The goroutine has taken every event and done what it asks for.
Quiet == pc = "idle" /\ queue = <<>>

\* Once it has, every directory of the vault is watched under its own path:
\* no change below it goes unseen "until a restart" (the comment of
\* watchSubdirs).  A tree that appears at once and one that is moved raise an
\* event for their top only.
AllWatched == Quiet => \A d \in tree : watch[d] = d

\* Once it has, a client that followed what it was told knows which of the
\* directories there hold a note: a note saved before its directory was
\* watched was found by the listing the announcement asks for, one saved after
\* that raised an event, and a note is reported gone only if it is.
ClientKnows == Quiet => \A d \in tree : Append(d, Note) \in believed <=> Append(d, Note) \in notes
=============================================================================
