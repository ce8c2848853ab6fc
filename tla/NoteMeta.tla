------------------------------ MODULE NoteMeta ------------------------------
(***************************************************************************)
(* The note-meta cache of internal/vault/vault.go.  ListNotes keeps what   *)
(* it derives from each note in memory, keyed by path and validated by     *)
(* time and size, and a goroutine writes it to a snapshot under .zennotes  *)
(* a second later, which the first listing after an invalidation reads     *)
(* back.  A meta depends on the note and on a setting: notes in the Typst  *)
(* preamble folder have no tags.  Listings hold Vault.mu shared, calls     *)
(* that change notes hold it, SetSettings and the goroutines do not, and   *)
(* other programs edit the notes of the vault at any time.                 *)
(*                                                                         *)
(* The modification time and the size of a file are one stamp, new with    *)
(* every write and carried along by a move.  What GetSettings returns is   *)
(* the setting in vault.json (its own cache is SettingsFile's subject).    *)
(***************************************************************************)
EXTENDS Integers

CONSTANTS
    Clients,    \* concurrent HTTP requests
    Calls,      \* the calls clients make, among Kinds
    Jobs,       \* bound: goroutines writing a snapshot at one time
    Paths,      \* paths of notes
    Texts,      \* texts of notes
    Names,      \* names for the preamble folder
    Marks,      \* Marks[n]: the paths below a directory named n
    Missing,    \* no file, no entry
    Age,        \* Age[p]: the stamp of the note at p when the server starts
    MaxEdits,   \* bound: changes of notes
    MaxSets,    \* bound: changes of the settings
    MaxStops    \* bound: restarts, and SetSettings that fail

Kinds == {"list", "write", "move", "set"}

MetaConstantsOK ==
    /\ Calls \subseteq Kinds
    /\ Marks \in [Names -> SUBSET Paths]
    /\ \A p \in Paths : Age[p] \in Int /\ Age[p] <= 0
    /\ \A p, q \in Paths : Age[p] = Age[q] => p = q
    /\ Missing \notin [body : Texts, tags : BOOLEAN]
    /\ MaxEdits \in Nat /\ MaxSets \in Nat /\ MaxStops \in Nat

VARIABLES
    files,     \* files[p]: the note at p
    name,      \* the preamble folder vault.json names
    metas,     \* Vault.metaCache
    loaded,    \* Vault.metaCacheLoad
    gen,       \* Vault.metaCacheGen
    snapshot,  \* the snapshot under .zennotes, all Missing when there is none
    stale,     \* a change of the setting has left metas of the one before
    job,       \* the goroutines of persistNoteMetaCacheSnapshot
    step, ask, \* where the call of a client is, and what it asks for
    view,      \* the preamble folder it goes by
    raw,       \* the snapshot it has read
    todo,      \* todo[c]: the notes c has still to look at
    stat,      \* stat[c][p]: the stamp c found p to have
    missed,    \* missed[c]: those of them the cache does not know
    result,    \* result[c][p]: the meta c has for p
    calm,      \* calm[c]: nothing was changed since the call began
    time, sets, stops

memory == <<metas, loaded, gen, stale>>
local == <<step, ask, view, raw, todo, stat, missed, result, calm>>
metaBounds == <<time, sets, stops>>
metaVars == <<files, name, memory, snapshot, job, local, metaBounds>>

MetaStamps == {Age[p] : p \in Paths} \union 0..MaxEdits
Metas == [body : Texts, tags : BOOLEAN]
File == [body : Texts, stamp : MetaStamps]
Entry == [stamp : MetaStamps, meta : Metas]
Entries == [Paths -> Entry \union {Missing}]
NoEntries == [p \in Paths |-> Missing]
NoJob == [at |-> "free"]
NoAsk == [kind |-> "none"]

MetaTypeOK ==
    /\ files \in [Paths -> File \union {Missing}]
    /\ name \in Names
    /\ metas \in Entries
    /\ loaded \in BOOLEAN
    /\ gen \in Nat
    /\ stale \in BOOLEAN
    /\ snapshot \in Entries
    /\ job \in [Jobs -> [at : {"sleep", "write", "rename"}, gen : Nat, paths : SUBSET Paths,
                         entries : Entries] \union {NoJob}]
    /\ step \in [Clients -> {"idle", "hydrate", "load", "merge", "walk", "resolve", "notes",
                             "save", "previous", "change", "drop", "again"}]
    /\ ask \in [Clients -> [kind : {"none", "list"}] \union [kind : {"set"}, name : Names]
                             \union [kind : {"write", "move"}, path : Paths]]
    /\ view \in [Clients -> Names]
    /\ raw \in [Clients -> Entries]
    /\ todo \in [Clients -> SUBSET Paths]
    /\ stat \in [Clients -> [Paths -> MetaStamps \union {Missing}]]
    /\ missed \in [Clients -> SUBSET Paths]
    /\ result \in [Clients -> [Paths -> Metas \union {Missing}]]
    /\ calm \in [Clients -> BOOLEAN]
    /\ time \in 0..MaxEdits
    /\ sets \in 0..MaxSets
    /\ stops \in 0..MaxStops

\* buildNoteMeta
Meta(p, body, n) == [body |-> body, tags |-> p \notin Marks[n]]

Steps(c, l) == step' = [step EXCEPT ![c] = l]

-----------------------------------------------------------------------------
\* A call begins.  Vault.mu is held shared by listings, and exclusively by the
\* calls that change notes, from their first step to their last.

Holding(kinds) == {d \in Clients : ask[d].kind \in kinds}

MayEnter(kind) ==
    CASE kind = "list" -> Holding({"write", "move"}) = {}
      [] kind \in {"write", "move"} -> Holding({"list", "write", "move"}) = {}
      [] OTHER -> TRUE

\* vault.json has been changed and SetSettings has not returned.
Unsettled == \E d \in Clients : ask[d].kind = "set" /\ step[d] \in {"drop", "again"}

Enters(c, a, l) ==
    /\ step[c] = "idle"
    /\ a.kind \in Calls
    /\ MayEnter(a.kind)
    /\ ask' = [ask EXCEPT ![c] = a]
    /\ Steps(c, l)

Leaves(c) ==
    /\ Steps(c, "idle")
    /\ ask' = [ask EXCEPT ![c] = NoAsk]
    /\ raw' = [raw EXCEPT ![c] = NoEntries]
    /\ stat' = [stat EXCEPT ![c] = NoEntries]
    /\ missed' = [missed EXCEPT ![c] = {}]
    /\ result' = [result EXCEPT ![c] = NoEntries]
    /\ calm' = [calm EXCEPT ![c] = FALSE]

-----------------------------------------------------------------------------
\* ListNotes

BeginList(c) ==
    /\ Enters(c, [kind |-> "list"], "hydrate")
    /\ calm' = [calm EXCEPT ![c] = ~Unsettled]
    /\ UNCHANGED <<files, name, memory, snapshot, job, view, raw, todo, stat, missed,
                   result, metaBounds>>

\* hydratePersistedNoteMetaCache: the first call after an invalidation...
Hydrate(c) ==
    /\ step[c] = "hydrate"
    /\ loaded' = TRUE
    /\ Steps(c, IF loaded THEN "walk" ELSE "load")
    /\ UNCHANGED <<files, name, metas, gen, stale, snapshot, job, ask, view, raw, todo,
                   stat, missed, result, calm, metaBounds>>

\* ...reads the snapshot...
Load(c) ==
    /\ step[c] = "load"
    /\ raw' = [raw EXCEPT ![c] = snapshot]
    /\ Steps(c, "merge")
    /\ UNCHANGED <<files, name, memory, snapshot, job, ask, view, todo, stat, missed,
                   result, calm, metaBounds>>

\* ...and puts its entries over those in memory.
Merge(c) ==
    /\ step[c] = "merge"
    /\ metas' = [p \in Paths |-> IF raw[c][p] # Missing THEN raw[c][p] ELSE metas[p]]
    /\ Steps(c, "walk")
    /\ UNCHANGED <<files, name, loaded, gen, stale, snapshot, job, ask, view, raw, todo,
                   stat, missed, result, calm, metaBounds>>

Walk(c) ==
    /\ step[c] = "walk"
    /\ todo' = [todo EXCEPT ![c] = {p \in Paths : files[p] # Missing}]
    /\ Steps(c, "resolve")
    /\ UNCHANGED <<files, name, memory, snapshot, job, ask, view, raw, stat, missed, result,
                   calm, metaBounds>>

\* typstPreambleFolder, once for all notes.
Resolve(c) ==
    /\ step[c] = "resolve"
    /\ view' = [view EXCEPT ![c] = name]
    /\ Steps(c, "notes")
    /\ UNCHANGED <<files, name, memory, snapshot, job, ask, raw, todo, stat, missed, result,
                   calm, metaBounds>>

\* readMetaWithPreambleFolder: a note is gone, or cannot be read...
Skip(c, p) ==
    /\ step[c] = "notes" /\ p \in todo[c]
    /\ files[p] = Missing
    /\ todo' = [todo EXCEPT ![c] = @ \ {p}]
    /\ UNCHANGED <<files, name, memory, snapshot, job, step, ask, view, raw, stat, missed,
                   result, calm, metaBounds>>

\* ...or os.Stat finds it...
StatNote(c, p) ==
    /\ step[c] = "notes" /\ p \in todo[c]
    /\ stat[c][p] = Missing /\ files[p] # Missing
    /\ stat' = [stat EXCEPT ![c][p] = files[p].stamp]
    /\ UNCHANGED <<files, name, memory, snapshot, job, step, ask, view, raw, todo, missed,
                   result, calm, metaBounds>>

\* Faulty variant of Valid: an entry is good as long as the file is there.
AnyEntry(e, stamp) == e # Missing

Valid(e, stamp) == e # Missing /\ e.stamp = stamp

\* ...in the cache, as it was...
Known(c, p) ==
    /\ step[c] = "notes" /\ p \in todo[c] \ missed[c]
    /\ stat[c][p] # Missing
    /\ Valid(metas[p], stat[c][p])
    /\ result' = [result EXCEPT ![c][p] = metas[p].meta]
    /\ todo' = [todo EXCEPT ![c] = @ \ {p}]
    /\ UNCHANGED <<files, name, memory, snapshot, job, step, ask, view, raw, stat, missed,
                   calm, metaBounds>>

\* ...or not: then it is read, and remembered under the stamp found before.
Miss(c, p) ==
    /\ step[c] = "notes" /\ p \in todo[c] \ missed[c]
    /\ stat[c][p] # Missing
    /\ ~Valid(metas[p], stat[c][p])
    /\ missed' = [missed EXCEPT ![c] = @ \union {p}]
    /\ UNCHANGED <<files, name, memory, snapshot, job, step, ask, view, raw, todo, stat,
                   result, calm, metaBounds>>

Fill(c, p) ==
    /\ step[c] = "notes" /\ p \in todo[c] \intersect missed[c]
    /\ files[p] # Missing
    /\ LET meta == Meta(p, files[p].body, view[c]) IN
       /\ result' = [result EXCEPT ![c][p] = meta]
       /\ metas' = [metas EXCEPT ![p] = [stamp |-> stat[c][p], meta |-> meta]]
    /\ todo' = [todo EXCEPT ![c] = @ \ {p}]
    /\ UNCHANGED <<files, name, loaded, gen, stale, snapshot, job, step, ask, view, raw,
                   stat, missed, calm, metaBounds>>

NotesDone(c) ==
    /\ step[c] = "notes" /\ todo[c] = {}
    /\ CASE ask[c].kind = "list" ->
              Steps(c, "save") /\ UNCHANGED <<ask, raw, stat, missed, result, calm>>
         [] ask[c].kind = "move" ->
              Steps(c, "drop") /\ UNCHANGED <<ask, raw, stat, missed, result, calm>>
         [] OTHER -> Leaves(c)
    /\ UNCHANGED <<files, name, memory, snapshot, job, view, todo, metaBounds>>

\* persistNoteMetaCacheSnapshot starts a goroutine, unless the listing is empty
\* (or ZEN_PERF_DISABLE_PERSISTED_META_CACHE is set: no Jobs); it returns.
Save(c) ==
    LET listed == {p \in Paths : result[c][p] # Missing} IN
    /\ step[c] = "save"
    /\ IF listed = {} \/ Jobs = {} THEN UNCHANGED job
       ELSE \E j \in Jobs : /\ job[j] = NoJob
                            /\ job' = [job EXCEPT ![j] =
                                  [at |-> "sleep", gen |-> gen, paths |-> listed,
                                   entries |-> NoEntries]]
    /\ Leaves(c)
    /\ UNCHANGED <<files, name, memory, snapshot, view, todo, metaBounds>>

-----------------------------------------------------------------------------
\* The goroutine, after a second

Kept(p) == metas[p]

\* It collects the entries of the notes that were listed...
Collect(j) ==
    /\ job[j].at = "sleep"
    /\ IF gen # job[j].gen \/ \A p \in job[j].paths : metas[p] = Missing
       THEN job' = [job EXCEPT ![j] = NoJob]
       ELSE job' = [job EXCEPT ![j] =
               [at |-> "write", gen |-> gen, paths |-> @.paths,
                entries |-> [p \in Paths |->
                   IF p \in job[j].paths /\ metas[p] # Missing THEN Kept(p) ELSE Missing]]]
    /\ UNCHANGED <<files, name, memory, snapshot, local, metaBounds>>

\* ...has written them to a temporary file, and looks again whether the cache
\* has been dropped (or fails)...
Recheck(j) ==
    /\ job[j].at = "write"
    /\ job' = [job EXCEPT ![j] = IF gen = job[j].gen THEN [@ EXCEPT !.at = "rename"] ELSE NoJob]
    /\ UNCHANGED <<files, name, memory, snapshot, local, metaBounds>>

\* ...before it takes the snapshot's place.
Replace(j) ==
    /\ job[j].at = "rename"
    /\ snapshot' = job[j].entries
    /\ job' = [job EXCEPT ![j] = NoJob]
    /\ UNCHANGED <<files, name, memory, local, metaBounds>>

-----------------------------------------------------------------------------
\* Calls that change the vault

\* Nothing in progress is undisturbed any more.
Stirred == calm' = [d \in Clients |-> FALSE]

Changes == time < MaxEdits /\ time' = time + 1

Written(p, b) ==
    /\ Changes
    /\ files' = [files EXCEPT ![p] = [body |-> b, stamp |-> time + 1]]
    /\ Stirred

\* Another program writes a note.
Edit(p, b) ==
    /\ Written(p, b)
    /\ UNCHANGED <<name, memory, snapshot, job, step, ask, view, raw, todo, stat, missed,
                   result, sets, stops>>

\* Another program deletes one.
Erase(p) ==
    /\ files[p] # Missing
    /\ Changes
    /\ files' = [files EXCEPT ![p] = Missing]
    /\ Stirred
    /\ UNCHANGED <<name, memory, snapshot, job, step, ask, view, raw, todo, stat, missed,
                   result, sets, stops>>

\* WriteNote (CreateNote, DuplicateNote): the file is written first.
BeginWrite(c, p, b) ==
    /\ Enters(c, [kind |-> "write", path |-> p], "drop")
    /\ Written(p, b)
    /\ UNCHANGED <<name, memory, snapshot, job, view, raw, todo, stat, missed, result, sets,
                   stops>>

\* A note is moved to a path nothing is at, and its meta is read there before
\* the caches are dropped.
BeginMoveNote(c, p, q) ==
    /\ Enters(c, [kind |-> "move", path |-> q], "resolve")
    /\ files[p] # Missing /\ files[q] = Missing
    /\ files' = [files EXCEPT ![p] = Missing, ![q] = files[p]]
    /\ Stirred
    /\ Changes
    /\ todo' = [todo EXCEPT ![c] = {q}]
    /\ UNCHANGED <<name, memory, snapshot, job, view, raw, stat, missed, result, sets,
                   stops>>

\* DeleteNote, EmptyTrash: the note is moved out of the vault.
BeginRemove(c, p) ==
    /\ Enters(c, [kind |-> "move", path |-> p], "drop")
    /\ files' = [files EXCEPT ![p] = Missing]
    /\ Stirred
    /\ Changes
    /\ UNCHANGED <<name, memory, snapshot, job, view, raw, todo, stat, missed, result, sets,
                   stops>>

BeginSet(c, n) ==
    /\ Enters(c, [kind |-> "set", name |-> n], "previous")
    /\ UNCHANGED <<files, name, memory, snapshot, job, view, raw, todo, stat, missed,
                   result, calm, metaBounds>>

\* SetSettings: the preamble folder before the write...
Previous(c) ==
    /\ step[c] = "previous"
    /\ view' = [view EXCEPT ![c] = name]
    /\ Steps(c, "change")
    /\ UNCHANGED <<files, name, memory, snapshot, job, ask, raw, todo, stat, missed, result,
                   calm, metaBounds>>

\* ...the write...
SetName(c) ==
    /\ step[c] = "change"
    /\ sets < MaxSets /\ sets' = sets + 1
    /\ name' = ask[c].name
    /\ stale' = (stale \/ name' # name)
    /\ Stirred
    /\ Steps(c, "drop")
    /\ UNCHANGED <<files, metas, loaded, gen, snapshot, job, ask, view, raw, todo, stat,
                   missed, result, time, stops>>

\* ...after which the inbox directory may not be made.
InboxFails(c) ==
    /\ step[c] = "drop" /\ ask[c].kind = "set"
    /\ stops < MaxStops /\ stops' = stops + 1
    /\ Leaves(c)
    /\ UNCHANGED <<files, name, memory, snapshot, job, view, todo, time, sets>>

\* What outlives a drop of the metas: the snapshot, a goroutine past its last look at
\* the generation, a listing that goes by the preamble folder of before or is about to
\* put back what it has read.
Outlives ==
    \/ snapshot # NoEntries
    \/ \E j \in Jobs : job[j].at = "rename"
    \/ \E c \in Clients : step[c] = "merge" /\ raw[c] # NoEntries
    \/ \E c \in Clients : step[c] = "notes" /\ view[c] # name

\* Faulty variant of Dropped: the generation stays.
DroppedOnly ==
    /\ UNCHANGED gen
    /\ loaded' = FALSE
    /\ metas' = NoEntries
    /\ stale' = (stale /\ Outlives)

\* invalidateNoteMetaCache
Dropped ==
    /\ gen' = gen + 1
    /\ loaded' = FALSE
    /\ metas' = NoEntries
    /\ stale' = (stale /\ Outlives)

\* invalidateTextSearchCache drops this cache too, whatever changed.  A write then
\* reads the meta of its note, and SetSettings drops it again if the folder has
\* changed.
DropMetas(c) ==
    /\ step[c] = "drop"
    /\ Dropped
    /\ CASE ask[c].kind = "write" ->
              /\ Steps(c, "resolve")
              /\ todo' = [todo EXCEPT ![c] = {ask[c].path}]
              /\ UNCHANGED <<ask, raw, stat, missed, result, calm>>
         [] ask[c].kind = "set" /\ ask[c].name # view[c] ->
              Steps(c, "again") /\ UNCHANGED <<ask, raw, todo, stat, missed, result, calm>>
         [] OTHER -> Leaves(c) /\ UNCHANGED todo
    /\ UNCHANGED <<files, name, snapshot, job, view, metaBounds>>

DropAgain(c) ==
    /\ step[c] = "again"
    /\ Dropped
    /\ Leaves(c)
    /\ UNCHANGED <<files, name, snapshot, job, view, todo, metaBounds>>

\* The server stops and is started again.
Restart ==
    /\ stops < MaxStops /\ stops' = stops + 1
    /\ metas' = NoEntries /\ loaded' = FALSE /\ gen' = 0
    /\ stale' = (stale /\ snapshot # NoEntries)
    /\ job' = [j \in Jobs |-> NoJob]
    /\ step' = [c \in Clients |-> "idle"]
    /\ ask' = [c \in Clients |-> NoAsk]
    /\ raw' = [c \in Clients |-> NoEntries]
    /\ todo' = [c \in Clients |-> {}]
    /\ stat' = [c \in Clients |-> NoEntries]
    /\ missed' = [c \in Clients |-> {}]
    /\ result' = [c \in Clients |-> NoEntries]
    /\ calm' = [c \in Clients |-> FALSE]
    /\ UNCHANGED <<files, name, snapshot, view, time, sets>>

-----------------------------------------------------------------------------

\* No listing has been made yet.
MetaInit ==
    /\ \E body \in [Paths -> Texts \union {Missing}] :
          files = [p \in Paths |-> IF body[p] = Missing THEN Missing
                                   ELSE [body |-> body[p], stamp |-> Age[p]]]
    /\ name \in Names
    /\ metas = NoEntries /\ loaded = FALSE /\ gen = 0 /\ stale = FALSE
    /\ snapshot = NoEntries
    /\ job = [j \in Jobs |-> NoJob]
    /\ step = [c \in Clients |-> "idle"]
    /\ ask = [c \in Clients |-> NoAsk]
    /\ view = [c \in Clients |-> name]
    /\ raw = [c \in Clients |-> NoEntries]
    /\ todo = [c \in Clients |-> {}]
    /\ stat = [c \in Clients |-> NoEntries]
    /\ missed = [c \in Clients |-> {}]
    /\ result = [c \in Clients |-> NoEntries]
    /\ calm = [c \in Clients |-> FALSE]
    /\ time = 0 /\ sets = 0 /\ stops = 0

ListStep(c) ==
    \/ BeginList(c) \/ Hydrate(c) \/ Load(c) \/ Merge(c) \/ Walk(c) \/ Resolve(c)
    \/ \E p \in Paths : Skip(c, p) \/ StatNote(c, p) \/ Known(c, p) \/ Miss(c, p) \/ Fill(c, p)
    \/ NotesDone(c) \/ Save(c)

ChangeStep(c) ==
    \/ \E p \in Paths, b \in Texts : BeginWrite(c, p, b)
    \/ \E p, q \in Paths : BeginMoveNote(c, p, q)
    \/ \E p \in Paths : BeginRemove(c, p)
    \/ DropMetas(c)

NameStep(c) ==
    \/ \E n \in Names : BeginSet(c, n)
    \/ Previous(c) \/ SetName(c) \/ InboxFails(c) \/ DropAgain(c)

JobStep(j) == Collect(j) \/ Recheck(j) \/ Replace(j)

MetaNext ==
    \/ \E c \in Clients : ListStep(c) \/ ChangeStep(c) \/ NameStep(c)
    \/ \E j \in Jobs : JobStep(j)
    \/ \E p \in Paths, b \in Texts : Edit(p, b)
    \/ \E p \in Paths : Erase(p)
    \/ Restart

MetaSpec == MetaInit /\ [][MetaNext]_metaVars

-----------------------------------------------------------------------------
\* Properties

Listing == [p \in Paths |-> IF files[p] = Missing THEN Missing
                             ELSE Meta(p, files[p].body, name)]

\* A listing during which nothing was changed tells what is in the vault: every
\* note and its current text, whatever is left in memory and on disk of earlier
\* listings; and the tags the current preamble folder gives, as long as no change of
\* the folder has left metas of the one before.
QuietListing ==
    \A c \in Clients : step[c] = "save" /\ calm[c] =>
       /\ \A p \in Paths : files[p] = Missing <=> result[c][p] = Missing
       /\ \A p \in Paths : files[p] # Missing => result[c][p].body = files[p].body
       /\ ~stale => result[c] = Listing

\* The tags follow a change of the preamble folder too (vault.go:1000 "a note's tags
\* depend on the preamble folder (#562), so cached metas describe the previous setting
\* the moment it moves").
TagsFollow ==
    \A c \in Clients : step[c] = "save" /\ calm[c] => result[c] = Listing
=============================================================================
