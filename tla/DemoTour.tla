------------------------------ MODULE DemoTour ------------------------------
(***************************************************************************)
(* The demo tour: its notes and assets written into the vault and removed  *)
(* again, the notes under the names an older tour used included, and the   *)
(* folders that are empty then.  internal/vault/demo.go.                   *)
(*                                                                         *)
(* The server's lock keeps its own requests apart; another program may add *)
(* and remove files of the user's at any step, a step may fail, and the    *)
(* server may stop.  A path is the sequence of its names below the vault;  *)
(* what a file of the tour holds is left out.                              *)
(***************************************************************************)
EXTENDS Naturals, Sequences, FiniteSets

CONSTANTS
    TourNotes,   \* the tour's notes, in the order they are written
    TourAssets,  \* then its other files
    Older,       \* the older path of each note that has one: a function
    DemoFolder,  \* the folder the notes are in
    Own,         \* the paths of the user's files
    Absent,
    MaxFaults,   \* bound: steps that fail, and stops
    MaxEdits,    \* bound: files of the user's added and removed
    MaxTours     \* bound: requests

Tour == TourNotes \o TourAssets
TourFiles == {Tour[k] : k \in DOMAIN Tour}
OlderFiles == {Older[n] : n \in DOMAIN Older}
TourPaths == TourFiles \union OlderFiles \union Own

\* The folders a path lies in, below the vault.
Above(p) == {SubSeq(p, 1, k) : k \in 1..(Len(p) - 1)}
Parent(p) == SubSeq(p, 1, Len(p) - 1)
TourDirs == UNION {Above(p) : p \in TourPaths}

TourConstantsOK ==
    /\ \A p \in TourPaths : p \in Seq({p[k] : k \in DOMAIN p}) /\ p # <<>> /\ p \notin TourDirs
    /\ \A j, k \in DOMAIN Tour : Tour[j] = Tour[k] => j = k
    /\ TourNotes \in Seq(TourFiles) /\ TourAssets \in Seq(TourFiles)
    /\ TourFiles \intersect OlderFiles = {} /\ Own \intersect (TourFiles \union OlderFiles) = {}
    /\ DOMAIN Older \subseteq {TourNotes[k] : k \in DOMAIN TourNotes}
    /\ \A n \in DOMAIN Older : Parent(Older[n]) = Parent(n)
    /\ Absent \notin TourDirs \union {<<>>}
    /\ MaxFaults \in Nat /\ MaxEdits \in Nat /\ MaxTours \in Nat

VARIABLES
    files,    \* the files there are
    folders,  \* the folders there are
    kept,     \* the user's files, as the user left them
    op,       \* the request under way, or Absent
    done,     \* what the last request did, or Absent
    faults, edits, tours

tourVars == <<files, folders, kept, op, done, faults, edits, tours>>

TourOp == [kind : {"generate", "remove"}, pc : {"older", "write", "remove", "climb"},
           todo : SUBSET (TourPaths \union TourDirs \union {<<>>}), gone : SUBSET TourPaths,
           at : TourDirs \union {<<>>, Absent}, whole : BOOLEAN]

TourTypeOK ==
    /\ files \subseteq TourPaths /\ folders \subseteq TourDirs /\ kept \subseteq Own
    /\ op \in TourOp \union {Absent} /\ done \in TourOp \union {Absent}
    /\ faults \in 0..MaxFaults /\ edits \in 0..MaxEdits /\ tours \in 0..MaxTours

\* A vault as users have them: any of their files, and maybe an older tour.
TourInit ==
    /\ kept \in SUBSET Own
    /\ \E tour \in {{}, OlderFiles} : files = kept \union tour
    /\ folders = UNION {Above(p) : p \in files}
    /\ op = Absent /\ done = Absent
    /\ faults = 0 /\ edits = 0 /\ tours = 0

-----------------------------------------------------------------------------
\* What holds up a folder

Inside(d) == {p \in files : d \in Above(p)} \union {e \in folders : d # e /\ d \in Above(e)}

Fails == faults < MaxFaults /\ faults' = faults + 1
\* What the request did in the end; whole, if nothing failed or was edited meanwhile.
Finish(whole) == op' = Absent /\ done' = [op EXCEPT !.whole = @ /\ whole]

\* The request, with a path behind it.
Past(p) == [op EXCEPT !.todo = @ \ {p}]

\* olderDemoTourNotePaths: the older names still in the notes' folders.
OlderThere == OlderFiles \intersect files

-----------------------------------------------------------------------------
\* GenerateDemoTour

BeginGenerate ==
    /\ op = Absent /\ tours < MaxTours /\ tours' = tours + 1
    /\ op' = [kind |-> "generate", pc |-> "older", todo |-> OlderThere,
              gone |-> {}, at |-> Absent, whole |-> TRUE]
    /\ done' = Absent
    /\ UNCHANGED <<files, folders, kept, faults, edits>>

\* The notes under older names go first; one that cannot be removed stays.
DropOlder ==
    /\ op # Absent /\ op.pc = "older"
    /\ IF op.todo = {}
       THEN op' = [op EXCEPT !.pc = "write", !.todo = TourFiles] /\ UNCHANGED <<files, faults>>
       ELSE \E p \in op.todo :
              \/ files' = files \ {p} /\ op' = Past(p) /\ UNCHANGED faults
              \/ Fails /\ op' = [Past(p) EXCEPT !.whole = FALSE] /\ UNCHANGED files
    /\ UNCHANGED <<folders, kept, done, edits, tours>>

\* Which of the tour's files are still to be written.
Left(todo) == {h \in DOMAIN Tour : Tour[h] \in todo}

\* The next file with its folders; the first that cannot be written ends it.
Write ==
    /\ op # Absent /\ op.pc = "write"
    /\ IF op.todo = {} THEN Finish(TRUE) /\ UNCHANGED <<files, folders, faults>>
       ELSE LET k == CHOOSE j \in DOMAIN Tour : Left(op.todo) = j..Len(Tour)
            IN  /\ folders' = folders \union Above(Tour[k])
                /\ \/ files' = files \union {Tour[k]} /\ op' = Past(Tour[k]) /\ UNCHANGED <<done, faults>>
                   \/ Fails /\ Finish(FALSE) /\ UNCHANGED files
    /\ UNCHANGED <<kept, edits, tours>>

-----------------------------------------------------------------------------
\* RemoveDemoTour

BeginRemove ==
    /\ op = Absent /\ tours < MaxTours /\ tours' = tours + 1
    /\ op' = [kind |-> "remove", pc |-> "remove", todo |-> TourFiles \union OlderThere,
              gone |-> {}, at |-> Absent, whole |-> TRUE]
    /\ done' = Absent
    /\ UNCHANGED <<files, folders, kept, faults, edits>>

\* Mutant: the folder of a note alone is kept in mind.
EmptiedByNotes(gone) == {Parent(p) : p \in gone \ {TourAssets[k] : k \in DOMAIN TourAssets}}

\* The folders of the files that were removed, of notes and of assets.
Emptied(gone) == {Parent(p) : p \in gone}

\* A file is removed if it is there and can be; what is gone is kept in mind.
RemoveFile ==
    /\ op # Absent /\ op.pc = "remove"
    /\ IF op.todo = {}
       THEN /\ op' = [op EXCEPT !.pc = "climb", !.todo = Emptied(op.gone)]
            /\ UNCHANGED <<files, faults>>
       ELSE \E p \in op.todo :
              \/ p \in files /\ files' = files \ {p}
                 /\ op' = [Past(p) EXCEPT !.gone = @ \union {p}] /\ UNCHANGED faults
              \/ p \notin files /\ op' = Past(p) /\ UNCHANGED <<files, faults>>
              \/ p \in files /\ Fails /\ op' = [Past(p) EXCEPT !.whole = FALSE] /\ UNCHANGED files
    /\ UNCHANGED <<folders, kept, done, edits, tours>>

\* os.Remove of a folder: it has to be there, and to be empty.
RemoveFolder(d) == d \in folders /\ Inside(d) = {} /\ folders' = folders \ {d} /\ UNCHANGED files

\* The folders kept in mind, in any order: each is removed if it is empty, then the
\* one above it, up to the vault.
Climb ==
    /\ op # Absent /\ op.pc = "climb"
    /\ LET d == op.at
       IN  \/ /\ d = Absent /\ op.todo = {}
              /\ Finish(TRUE)
              /\ UNCHANGED <<files, folders, faults>>
           \/ /\ d = Absent
              /\ \E e \in op.todo : op' = [Past(e) EXCEPT !.at = e]
              /\ UNCHANGED <<files, folders, done, faults>>
           \/ /\ d \notin {Absent, <<>>} /\ RemoveFolder(d)
              /\ op' = [op EXCEPT !.at = Parent(d)]
              /\ UNCHANGED <<done, faults>>
           \/ /\ d # Absent /\ (d \notin folders \/ Inside(d) # {})
              /\ op' = [op EXCEPT !.at = Absent]
              /\ UNCHANGED <<files, folders, done, faults>>
           \/ /\ d \in folders /\ Fails
              /\ op' = [op EXCEPT !.at = Absent, !.whole = FALSE]
              /\ UNCHANGED <<files, folders, done>>
    /\ UNCHANGED <<kept, edits, tours>>

-----------------------------------------------------------------------------

\* The server stops between two steps.
Stop ==
    /\ op # Absent /\ Fails
    /\ op' = Absent /\ done' = Absent
    /\ UNCHANGED <<files, folders, kept, edits, tours>>

\* Another program adds a file of the user's, or removes one and leaves its folders.
Edit ==
    /\ edits < MaxEdits /\ edits' = edits + 1
    /\ \/ \E p \in Own \ kept :
            /\ files' = files \union {p} /\ kept' = kept \union {p}
            /\ folders' = folders \union Above(p)
       \/ \E p \in kept : files' = files \ {p} /\ kept' = kept \ {p} /\ UNCHANGED folders
    /\ op' = IF op = Absent THEN op ELSE [op EXCEPT !.whole = FALSE]
    /\ done' = Absent
    /\ UNCHANGED <<faults, tours>>

TourNext == BeginGenerate \/ DropOlder \/ Write \/ BeginRemove \/ RemoveFile \/ Climb \/ Stop \/ Edit

TourSpec == TourInit /\ [][TourNext]_tourVars

-----------------------------------------------------------------------------
\* Properties

\* The user's own files stay as the user left them, in folders that are there,
\* whatever becomes of a tour and whatever is saved meanwhile.
OwnStays ==
    /\ files \intersect Own = kept
    /\ \A p \in files : Above(p) \subseteq folders

\* A folder of the tour's; those above it, that the climb reaches too, are the vault's.
OfDemo(d) == d = DemoFolder \/ DemoFolder \in Above(d)

\* A tour that was written is all there, under one name; one that was removed leaves
\* no file, and no empty folder of its own where it had any ("...has to go before the
\* tour folder can").
TourWhole ==
    done # Absent /\ done.whole =>
        /\ OlderThere = {}
        /\ done.kind = "generate" => TourFiles \subseteq files
        /\ done.kind = "remove" =>
             /\ TourFiles \intersect files = {}
             /\ \A p \in done.gone : \A d \in folders \intersect Above(p) : OfDemo(d) => Inside(d) # {}

\* The tour comes and goes as a whole, and takes nothing of the user's with it.
TourLeavesOwn == OwnStays /\ TourWhole
=============================================================================
