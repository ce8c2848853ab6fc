----------------------------- MODULE LinkRename -----------------------------
(***************************************************************************)
(* Renaming a note and the wikilinks that name it: RenameNote of           *)
(* internal/vault/vault.go and wikilink_rename.go.  The server lists the   *)
(* notes, moves the file, and then reads and writes, one at a time, every  *)
(* note that linked to it.  Listing, moving, reading and writing take      *)
(* Vault.mu each for itself, so that clients save and delete notes between *)
(* them; a note that cannot be read or written is passed over in silence.  *)
(*                                                                         *)
(* A note is at a path, a directory and a title (compared without case),   *)
(* and holds a text and a link.  A link is a title, a path from a top      *)
(* folder, or a file name: the three ways the resolver reads a target.     *)
(* Links in code, aliases and anchors are left out: the rewriting keeps    *)
(* them as they are.  How the file is moved is Relocate's subject.         *)
(***************************************************************************)
EXTENDS Integers, FiniteSets

CONSTANTS
    Dirs,       \* directories of notes
    Trash,      \* the directory (of Dirs, or not) of those in the trash
    Titles,     \* titles of notes
    Rank,       \* Rank[p]: where ListNotes has p
    Texts,      \* what a client can make of the text of a note
    None,       \* no note, no link
    MaxRenames, \* bound: renames
    Edits,      \* what other clients do, among "save" and "delete"
    MaxNotes,   \* bound: notes of the vault
    MaxEdits,   \* bound: saves and deletions
    MaxFailures \* bound: notes passed over

Paths == [dir : Dirs, title : Titles]

ConstantsOK ==
    /\ \A p, q \in Paths : Rank[p] = Rank[q] => p = q
    /\ None \notin Paths \union Texts
    /\ MaxRenames \in Nat /\ MaxEdits \in Nat /\ MaxFailures \in Nat

Targets == [kind : {"title", "file"}, title : Titles]
              \union [kind : {"path"}, dir : Dirs \ {Trash}, title : Titles]

VARIABLES
    notes,   \* notes[p]: the note at p
    saved,   \* saved[p]: the text a client last gave the note at p, None: it is deleted
    pc,      \* where the rename is
    old,     \* the path of the note it renames
    new,     \* the path it has then
    listed,  \* the vault as the rename listed it
    todo,    \* the notes it has still to visit
    body,    \* the note it has read
    missed,  \* the linking notes that could not be read or written
    renames, edits

vars == <<notes, saved, pc, old, new, listed, todo, body, missed, renames, edits>>

Note == [text : Texts, link : Targets \union {None}]
Vaults == [Paths -> Note \union {None}]

TypeOK ==
    /\ notes \in Vaults
    /\ saved \in [Paths -> Texts \union {None}]
    /\ pc \in {"idle", "move", "visit", "write"}
    /\ old \in Paths \union {None}
    /\ new \in Paths \union {None}
    /\ pc \in {"visit", "write"} => new # old
    /\ listed \in Vaults
    /\ todo \in SUBSET {p \in Paths : listed[p] # None}
    /\ body \in Note \union {None}
    /\ pc = "write" => body # None
    /\ missed \in SUBSET Paths
    /\ renames \in 0..MaxRenames
    /\ edits \in 0..MaxEdits

-----------------------------------------------------------------------------
\* wikiResolveTarget

Present(v) == {p \in Paths : v[p] # None}
Visible(v) == {p \in Present(v) : p.dir # Trash}
Titled(v, t) == {p \in Visible(v) : p.title = t}

\* The first of some paths in the listing.
FirstOf(S) == CHOOSE p \in S : \A q \in S : Rank[p] <= Rank[q]

\* The note a link names: the first of its title, the one at its path, or the
\* only one with its file name.
Resolve(v, t) ==
    CASE t.kind = "title" /\ Titled(v, t.title) # {} -> FirstOf(Titled(v, t.title))
      [] t.kind = "file" /\ Cardinality(Titled(v, t.title)) = 1 -> FirstOf(Titled(v, t.title))
      [] t.kind = "path" /\ [dir |-> t.dir, title |-> t.title] \in Visible(v) ->
            [dir |-> t.dir, title |-> t.title]
      [] OTHER -> None

Names(v, t, p) == t # None /\ Resolve(v, t) = p

\* Faulty variant of Retargeted: links are resolved in the vault as it is now.
RetargetedNow(n) ==
    IF Names(notes, n.link, old) THEN [n EXCEPT !.link.title = new.title] ELSE n

\* rewriteWikilinksForRename: a link that named the note when it was listed is
\* given its new title (wikiSwapBasename keeps the rest of the target).
Retargeted(n) ==
    IF Names(listed, n.link, old) THEN [n EXCEPT !.link.title = new.title] ELSE n

\* The notes that linked to it by the listing: neither in the trash, nor itself.
Linking == {p \in Visible(listed) \ {old} : Names(listed, listed[p].link, old)}

-----------------------------------------------------------------------------
\* RenameNote

List(p) ==
    /\ pc = "idle"
    /\ renames < MaxRenames /\ renames' = renames + 1
    /\ notes[p] # None
    /\ listed' = notes
    /\ old' = p
    /\ new' = None
    /\ pc' = "move"
    /\ missed' = {}
    /\ UNCHANGED <<notes, saved, todo, body, edits>>

\* renameNoteFile: the note is moved to the title asked for or, when something is
\* there, to that title and a number.
MoveFile(q) ==
    /\ pc = "move"
    /\ notes[old] # None
    /\ q.dir = old.dir /\ notes[q] = None
    /\ notes' = [notes EXCEPT ![old] = None, ![q] = notes[old]]
    /\ saved' = [saved EXCEPT ![old] = None, ![q] = saved[old]]
    /\ new' = q
    /\ todo' = Linking
    /\ pc' = "visit"
    /\ UNCHANGED <<old, listed, body, missed, renames, edits>>

\* The note is gone, or the move fails.
MoveFails ==
    /\ pc = "move"
    /\ pc' = "idle"
    /\ UNCHANGED <<notes, saved, old, new, listed, todo, body, missed, renames, edits>>

\* rewriteInboundWikilinks: the next note is read...
Visit ==
    LET p == FirstOf(todo) IN
    /\ pc = "visit" /\ todo # {}
    /\ notes[p] # None
    /\ Retargeted(notes[p]) # notes[p]
    /\ body' = notes[p]
    /\ pc' = "write"
    /\ UNCHANGED <<notes, saved, old, new, listed, todo, missed, renames, edits>>

\* ...unless it is gone, or has no such link any more...
Pass ==
    LET p == FirstOf(todo) IN
    /\ pc = "visit" /\ todo # {}
    /\ notes[p] # None => Retargeted(notes[p]) = notes[p]
    /\ todo' = todo \ {p}
    /\ UNCHANGED <<notes, saved, pc, old, new, listed, body, missed, renames, edits>>

\* ...and written.
Rewrite ==
    LET p == FirstOf(todo) IN
    /\ pc = "write"
    /\ notes' = [notes EXCEPT ![p] = Retargeted(body)]
    /\ todo' = todo \ {p}
    /\ body' = None
    /\ pc' = "visit"
    /\ UNCHANGED <<saved, old, new, listed, missed, renames, edits>>

\* A note that cannot be read, or written, keeps its links; nobody hears of it.
PassOver ==
    LET p == FirstOf(todo) IN
    /\ pc \in {"visit", "write"} /\ todo # {}
    /\ Cardinality(missed) < MaxFailures
    /\ missed' = missed \union {p}
    /\ todo' = todo \ {p}
    /\ body' = None
    /\ pc' = "visit"
    /\ UNCHANGED <<notes, saved, old, new, listed, renames, edits>>

Done ==
    /\ pc = "visit" /\ todo = {}
    /\ pc' = "idle"
    /\ UNCHANGED <<notes, saved, old, new, listed, todo, body, missed, renames, edits>>

-----------------------------------------------------------------------------
\* Other clients

\* WriteNote by a client that has seen the note as it is.
Save(p, t) ==
    /\ "save" \in Edits
    /\ edits < MaxEdits /\ edits' = edits + 1
    /\ notes[p] # None
    /\ notes' = [notes EXCEPT ![p].text = t]
    /\ saved' = [saved EXCEPT ![p] = t]
    /\ UNCHANGED <<pc, old, new, listed, todo, body, missed, renames>>

DeleteNote(p) ==
    /\ "delete" \in Edits
    /\ edits < MaxEdits /\ edits' = edits + 1
    /\ notes[p] # None
    /\ notes' = [notes EXCEPT ![p] = None]
    /\ saved' = [saved EXCEPT ![p] = None]
    /\ UNCHANGED <<pc, old, new, listed, todo, body, missed, renames>>

-----------------------------------------------------------------------------

\* The vaults of at most MaxNotes notes, two of them with a link.
Init ==
    /\ \E present \in {S \in SUBSET Paths : Cardinality(S) \in 1..MaxNotes} :
       \E p, q \in present, s, t \in Targets \union {None} :
          notes = [r \in Paths |->
             IF r \notin present THEN None
             ELSE [text |-> CHOOSE text \in Texts : TRUE,
                   link |-> IF r = p THEN s ELSE IF r = q THEN t ELSE None]]
    /\ saved = [p \in Paths |-> IF notes[p] = None THEN None ELSE notes[p].text]
    /\ pc = "idle"
    /\ old = None
    /\ new = None
    /\ listed = notes
    /\ todo = {}
    /\ body = None
    /\ missed = {}
    /\ renames = 0
    /\ edits = 0

Next ==
    \/ \E p \in Paths : List(p) \/ MoveFile(p)
    \/ MoveFails \/ Visit \/ Pass \/ Rewrite \/ PassOver \/ Done
    \/ \E p \in Paths, t \in Texts : Save(p, t)
    \/ \E p \in Paths : DeleteNote(p)

Spec == Init /\ [][Next]_vars

-----------------------------------------------------------------------------
\* Properties

Finished == pc = "idle" /\ new # None

\* What a link named before the rename it names after it, under the new path
\* if that is the note that was renamed, unless one of the two was deleted.
Follows(p) ==
    LET link == listed[p].link
        r == IF link = None THEN None ELSE Resolve(listed, link)
        q == IF r = old THEN new ELSE r
    IN r # None /\ notes[p] # None /\ notes[q] # None => Resolve(notes, notes[p].link) = q

\* wikilink_rename.go:8 "Rewriting inbound [[wikilinks]] when a note is renamed":
\* after a rename to a title no other note bears, every link of every other note
\* that resolved resolves to the note it did, whatever was saved or deleted meanwhile; no
\* link is captured by, or left to, a note of the old title.  A note that could not be
\* read or written is passed over by itself: the others follow.
LinksFollow ==
    Finished /\ Titled(listed, new.title) = {} =>
       \A p \in Visible(listed) \ ({old} \union missed) : Follows(p)

\* vault.go:183 "concurrency-safe at the public-method level": a note that is
\* there holds the text a client last saved.
SavesSurvive ==
    \A p \in Paths : notes[p] # None /\ saved[p] # None => notes[p].text = saved[p]
=============================================================================
