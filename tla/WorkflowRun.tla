----------------------------- MODULE WorkflowRun -----------------------------
(***************************************************************************)
(* Workflow runs: internal/vault/workflows.go and workflow_sidecars.go.    *)
(* A client reads notes, prepares the changes a workflow makes to them and *)
(* the moves among them, and sends both; the server checks them against    *)
(* the disk, plans what each move carries, writes a ledger, writes the     *)
(* notes one by one, carries the comments, and finishes the ledger.  A failure puts       *)
(* everything back; a crash leaves the ledger, from which the run can be   *)
(* undone, as a finished one can.  A run holds Vault.mu throughout; any    *)
(* file operation may fail, and the process may stop between two.          *)
(*                                                                         *)
(* A text or a list of comments is a value and stands for its own hash.    *)
(* Runs without operations, which keep no ledger, are left out.            *)
(***************************************************************************)
EXTENDS Integers, FiniteSets, FiniteSetsExt, Sequences, SequencesExt

CONSTANTS
    Paths,       \* paths of notes
    Texts,       \* texts of notes
    Garbled,     \* those that are not valid UTF-8
    Coerced,     \* what a client sees of one that is not
    Threads,     \* comments of a note
    None,        \* no file
    MaxRun,      \* run ids are 1..MaxRun, in the order of their timestamps
    ClockSteps,  \* whether the clock may be set back between two runs
    MaxMoves,    \* moves a client lists
    KeepRuns,    \* maxRetainedWorkflowRuns
    KeepSize,    \* maxRetainedWorkflowRunByte
    MaxEdits,    \* bound: edits by other clients
    MaxFaults    \* bound: failing file operations and crashes

Ids == 1..MaxRun

ConstantsOK ==
    /\ Garbled \subseteq Texts
    /\ Coerced \in Texts \ Garbled
    /\ None \notin Texts \union Threads
    /\ ClockSteps \in BOOLEAN
    /\ \A k \in {MaxRun, MaxMoves, KeepSize, MaxEdits, MaxFaults} : k \in Nat
    /\ KeepRuns \in Nat \ {0}

VARIABLES
    notes,     \* notes[p]: the text of the note at p
    comments,  \* comments[p]: the comments filed under p
    ledgers,   \* ledgers[r]: the record of run r on disk
    seen,      \* the notes as the client last read them
    pc,        \* where the run or the undo in progress is
    run,       \* its local variables
    todo,      \* paths its current loop has still to visit
    failed,    \* a restore has failed
    answer,    \* what the last call returned, and the paths it named as drifted
    pre,       \* the vault when the run or the undo began
    history,   \* history[r]: the vault when run r began
    edits, faults

vars == <<notes, comments, ledgers, seen, pc, run, todo, failed, answer, pre,
          history, edits, faults>>

vault == <<notes, comments>>
Optional(S) == S \union {None}
Partial(S) == UNION {[P -> S] : P \in SUBSET Paths}
Empty == [p \in {} |-> None]

Moves == {m \in [from : Paths, to : Paths] : m.from # m.to}
MoveLists == SeqOf(Moves, MaxMoves)

\* What a client may make of some notes.
Changes == Partial(Optional(Texts \ Garbled))

Ledger == [journal : Partial(Optional(Texts)), hashes : Partial(Optional(Texts)),
           sidecars : Partial(Optional(Threads)), after : Partial(Optional(Threads)),
           status : {"interrupted", "finished", "incomplete"}, undone : BOOLEAN]
Run == [id : Ids \union {0}, mode : {"apply", "rollback", "unrecorded", "undo"},
        journal : Partial(Optional(Texts)), change : Partial(Optional(Texts)),
        moves : Seq(Moves), live : Partial(Optional(Threads)),
        sidecars : Partial(Optional(Threads)), renames : Seq(Moves),
        drifted : SUBSET Paths, unread : SUBSET Paths]
NoLedger == [status |-> "none"]
OnDisk(r) == ledgers[r] # NoLedger

Snapshot == [notes |-> notes, comments |-> comments]
Vaults == [notes : [Paths -> Optional(Texts)], comments : [Paths -> Optional(Threads)]]

Answers == {"none", "ok", "refused", "rolledback", "incomplete", "error", "undone", "crash"}

TypeOK ==
    /\ Snapshot \in Vaults
    /\ ledgers \in [Ids -> Ledger \union {NoLedger}]
    /\ seen \in [Paths -> Optional(Texts \ Garbled)]
    /\ pc \in {"idle", "plan", "write", "carry", "record", "prune", "notes", "comments", "settle"}
    /\ run \in Run
    /\ todo \subseteq DOMAIN run.journal
    /\ DOMAIN run.sidecars \subseteq DOMAIN run.journal
    /\ failed \in BOOLEAN
    /\ answer \in Answers
    /\ pre \in Vaults
    /\ history \in [Ids -> Vaults \union {NoLedger}]
    /\ edits \in 0..MaxEdits
    /\ faults \in 0..MaxFaults
    /\ \A r \in Ids : history[r] = NoLedger => ~OnDisk(r)

Fault == faults < MaxFaults /\ faults' = faults + 1

\* coerceUTF8ForWire: the text a client is shown.
Wire(x) == IF x \in Garbled THEN Coerced ELSE x

\* optionalWireEqual
WireEqual(disk, client) == disk = client \/ Wire(disk) = client

-----------------------------------------------------------------------------
\* Checking a run, and planning what its moves carry

\* The checks before anything is planned: each note is as the client saw it,
\* every move is among the changes.
Valid(change, moves) ==
    /\ \A p \in DOMAIN change : WireEqual(notes[p], seen[p])
    /\ \A n \in DOMAIN moves : {moves[n].from, moves[n].to} \subseteq DOMAIN change

\* What newWorkflowRunID may return: ids start with the time, so that later
\* runs sort after earlier ones unless the clock steps back (or two runs share
\* a millisecond).
NewIds == {r \in Ids : /\ history[r] = NoLedger
                       /\ ClockSteps \/ \A q \in Ids : history[q] # NoLedger => q < r}

\* ApplyPreparedWorkflow up to its plan.
Begin(r, change, moves) ==
    /\ pc = "idle"
    /\ r \in NewIds
    /\ Valid(change, moves)
    /\ run' = [id |-> r, mode |-> "apply", journal |-> [p \in DOMAIN change |-> seen[p]],
               change |-> change, moves |-> moves, live |-> Empty, sidecars |-> Empty,
               renames |-> <<>>, drifted |-> {}, unread |-> {}]
    /\ pc' = "plan"
    /\ todo' = DOMAIN change
    /\ failed' = FALSE
    /\ answer' = "none"
    /\ pre' = Snapshot
    /\ UNCHANGED <<vault, ledgers, seen, history, edits, faults>>

\* A stale note, a move outside the changes, a read that fails; an undo of no
\* run, of one already undone, or of one that cannot be read: nothing has
\* happened.
Refuse ==
    /\ pc = "idle"
    /\ answer' = "refused"
    /\ UNCHANGED <<vault, ledgers, seen, pc, run, todo, failed, pre, history, edits, faults>>

\* The comments of p through the moves planned so far.
Through(p) == IF p \in DOMAIN run.live THEN run.live[p] ELSE comments[p]

\* f with x at p, and with x at p unless it has an entry there: a comments file
\* is recorded as it is the first time the run meets it.
Put(f, p, x) == [i \in DOMAIN f \union {p} |-> IF i = p THEN x ELSE f[i]]
Touch(f, p, x) == IF p \in DOMAIN f THEN f ELSE Put(f, p, x)

\* planWorkflowSidecarMoves: what its first move carries, if it carries anything.
Carried(m) ==
    IF Through(m.from) = None THEN [run EXCEPT !.moves = Tail(@)]
    ELSE [run EXCEPT !.moves = Tail(@),
                     !.live = Put(Put(@, m.from, None), m.to, Through(m.from)),
                     !.sidecars = Touch(Touch(@, m.from, Through(m.from)), m.to, None),
                     !.renames = Append(@, m)]

\* Faulty variant of PlanMove: it does not look at what waits at the move's end.
PlanMoveOnto ==
    /\ pc = "plan" /\ run.moves # <<>>
    /\ run' = Carried(Head(run.moves))
    /\ UNCHANGED <<vault, ledgers, seen, pc, todo, failed, answer, pre, history, edits, faults>>

PlanMove ==
    /\ pc = "plan" /\ run.moves # <<>>
    /\ Through(Head(run.moves).to) = None
    /\ run' = Carried(Head(run.moves))
    /\ UNCHANGED <<vault, ledgers, seen, pc, todo, failed, answer, pre, history, edits, faults>>

\* Comments waiting at its end refuse the run, which answers as one rolled back.
PlanRefused ==
    /\ pc = "plan" /\ run.moves # <<>>
    /\ Through(Head(run.moves).to) # None
    /\ pc' = "idle"
    /\ answer' = "rolledback"
    /\ UNCHANGED <<vault, ledgers, seen, run, todo, failed, pre, history, edits, faults>>

\* Comments that cannot be read, or a first ledger that cannot be written.
PlanFails ==
    /\ pc = "plan"
    /\ Fault
    /\ pc' = "idle"
    /\ answer' = "refused"
    /\ UNCHANGED <<vault, ledgers, seen, run, todo, failed, pre, history, edits>>

\* Faulty variant of Journal: the ledger is left to the end of the run.
JournalUnrecorded ==
    /\ pc = "plan" /\ run.moves = <<>>
    /\ pc' = "write"
    /\ run' = [run EXCEPT !.live = Empty]
    /\ history' = [history EXCEPT ![run.id] = Snapshot]
    /\ UNCHANGED <<vault, ledgers, seen, todo, failed, answer, pre, edits, faults>>

\* The ledger of a run that has been interrupted.
Journal ==
    /\ pc = "plan" /\ run.moves = <<>>
    /\ pc' = "write"
    /\ run' = [run EXCEPT !.live = Empty]
    /\ ledgers' = [ledgers EXCEPT ![run.id] =
          [journal |-> run.journal, hashes |-> Empty, sidecars |-> run.sidecars,
           after |-> Empty, status |-> "interrupted", undone |-> FALSE]]
    /\ history' = [history EXCEPT ![run.id] = Snapshot]
    /\ UNCHANGED <<vault, seen, todo, failed, answer, pre, edits, faults>>

-----------------------------------------------------------------------------
\* Applying a run

WriteChange(p) ==
    /\ pc = "write" /\ p \in todo
    /\ notes' = [notes EXCEPT ![p] = run.change[p]]
    /\ todo' = todo \ {p}
    /\ UNCHANGED <<comments, ledgers, seen, pc, run, failed, answer, pre, history, edits, faults>>

NotesWritten ==
    /\ pc = "write" /\ todo = {}
    /\ pc' = "carry"
    /\ UNCHANGED <<vault, ledgers, seen, run, todo, failed, answer, pre, history, edits, faults>>

\* applyWorkflowSidecarMoves: one os.Rename.
CarryComments ==
    LET m == Head(run.renames) IN
    /\ pc = "carry" /\ run.renames # <<>>
    /\ comments' = [comments EXCEPT ![m.from] = None, ![m.to] = comments[m.from]]
    /\ run' = [run EXCEPT !.renames = Tail(@)]
    /\ UNCHANGED <<notes, ledgers, seen, pc, todo, failed, answer, pre, history, edits, faults>>

CommentsCarried ==
    /\ pc = "carry" /\ run.renames = <<>>
    /\ pc' = "record"
    /\ UNCHANGED <<vault, ledgers, seen, run, todo, failed, answer, pre, history, edits, faults>>

\* Faulty variant of StartRestore: the comments are forgotten.
StartRestoreNotes(mode) ==
    /\ run' = [run EXCEPT !.mode = mode, !.sidecars = Empty]
    /\ pc' = "notes"
    /\ todo' = DOMAIN run.journal

StartRestore(mode) ==
    /\ run' = [run EXCEPT !.mode = mode]
    /\ pc' = "notes"
    /\ todo' = DOMAIN run.journal

\* A note or the comments of one cannot be written.
ApplyFails ==
    /\ \/ pc = "write" /\ todo # {}
       \/ pc = "carry" /\ run.renames # <<>>
    /\ Fault
    /\ StartRestore("rollback")
    /\ UNCHANGED <<vault, ledgers, seen, failed, answer, pre, history, edits>>

\* The finished ledger; finishedSidecars notes what the run left of the
\* comments files it can still read.
Record ==
    /\ pc = "record"
    /\ \E unread \in SUBSET DOMAIN run.sidecars :
          /\ ledgers' = [ledgers EXCEPT ![run.id] =
                [journal |-> run.journal, hashes |-> run.change, sidecars |-> run.sidecars,
                 after |-> [p \in DOMAIN run.sidecars \ unread |-> comments[p]],
                 status |-> "finished", undone |-> FALSE]]
          /\ IF unread = {} THEN UNCHANGED faults ELSE Fault
    /\ pc' = "prune"
    /\ UNCHANGED <<vault, seen, run, todo, failed, answer, pre, history, edits>>

RecordFails ==
    /\ pc = "record"
    /\ Fault
    /\ StartRestore("unrecorded")
    /\ UNCHANGED <<vault, ledgers, seen, failed, answer, pre, history, edits>>

\* The size of a ledger on disk, which grows with what it records.
Size(r) == 1 + Cardinality(DOMAIN ledgers[r].journal)

\* Faulty variant of Retained: the newest ledger is held to the byte budget too.
RetainedWithin(r) ==
    LET newer == {q \in Ids : OnDisk(q) /\ q >= r} IN
    /\ Cardinality(newer) <= KeepRuns
    /\ MapThenSumSet(Size, newer) <= KeepSize

\* Whether pruneWorkflowRunsLocked keeps r: the newest always, others while
\* neither limit is exceeded.
Retained(r) ==
    LET newer == {q \in Ids : OnDisk(q) /\ q >= r} IN
    \/ newer = {r}
    \/ /\ Cardinality(newer) <= KeepRuns
       /\ MapThenSumSet(Size, newer) <= KeepSize

Prune ==
    /\ pc = "prune"
    /\ \E stuck \in SUBSET {r \in Ids : OnDisk(r) /\ ~Retained(r)} :
          /\ ledgers' = [r \in Ids |-> IF OnDisk(r) /\ ~Retained(r) /\ r \notin stuck
                                       THEN NoLedger ELSE ledgers[r]]
          /\ IF stuck = {} THEN UNCHANGED faults ELSE Fault
    /\ pc' = "idle"
    /\ answer' = "ok"
    /\ UNCHANGED <<vault, seen, run, todo, failed, pre, history, edits>>

-----------------------------------------------------------------------------
\* Putting a run back: a rollback, or an undo

\* Faulty variant of Drifted: the comments are not compared.
DriftedNotes(l, unread) ==
    {p \in DOMAIN l.journal \ unread : p \in DOMAIN l.hashes /\ notes[p] # l.hashes[p]}

\* Notes that no longer hold what the run left, and those whose comments do not.
Drifted(l, unread) ==
    DriftedNotes(l, unread)
        \union {p \in DOMAIN l.after \ unread : comments[p] # l.after[p]}

\* UndoWorkflowRun up to its first write; `unread' could not be read for the
\* comparison.
UndoBegin(r, unread) ==
    LET l == ledgers[r] IN
    /\ pc = "idle"
    /\ OnDisk(r) /\ ~l.undone
    /\ unread \subseteq DOMAIN l.journal
    /\ IF unread = {} THEN UNCHANGED faults ELSE Fault
    /\ run' = [id |-> r, mode |-> "undo", journal |-> l.journal, change |-> Empty,
               moves |-> <<>>, live |-> Empty, sidecars |-> l.sidecars, renames |-> <<>>,
               drifted |-> Drifted(l, unread), unread |-> unread]
    /\ pc' = "notes"
    /\ todo' = DOMAIN l.journal
    /\ failed' = FALSE
    /\ answer' = "none"
    /\ pre' = Snapshot
    /\ UNCHANGED <<vault, ledgers, seen, history, edits>>

\* restoreWorkflowJournalSnapshotLocked: one note.
RestoreNote(p) ==
    /\ pc = "notes" /\ p \in todo
    /\ notes' = [notes EXCEPT ![p] = run.journal[p]]
    /\ todo' = todo \ {p}
    /\ UNCHANGED <<comments, ledgers, seen, pc, run, failed, answer, pre, history, edits, faults>>

NotesRestored ==
    /\ pc = "notes" /\ todo = {}
    /\ pc' = "comments"
    /\ todo' = DOMAIN run.sidecars
    /\ UNCHANGED <<vault, ledgers, seen, run, failed, answer, pre, history, edits, faults>>

\* restoreWorkflowSidecarsLocked: the comments of one note.
RestoreComments(p) ==
    /\ pc = "comments" /\ p \in todo
    /\ comments' = [comments EXCEPT ![p] = run.sidecars[p]]
    /\ todo' = todo \ {p}
    /\ UNCHANGED <<notes, ledgers, seen, pc, run, failed, answer, pre, history, edits, faults>>

\* Faulty variant of RestoreFails: the failure is forgotten.
RestoreFailsSilently(p) ==
    /\ pc \in {"notes", "comments"} /\ p \in todo
    /\ Fault
    /\ todo' = todo \ {p}
    /\ UNCHANGED <<vault, ledgers, seen, pc, run, failed, answer, pre, history, edits>>

\* One of them cannot be read, written or removed: the others still are.
RestoreFails(p) ==
    /\ pc \in {"notes", "comments"} /\ p \in todo
    /\ Fault
    /\ todo' = todo \ {p}
    /\ failed' = TRUE
    /\ UNCHANGED <<vault, ledgers, seen, pc, run, answer, pre, history, edits>>

CommentsRestored ==
    /\ pc = "comments" /\ todo = {}
    /\ pc' = "settle"
    /\ UNCHANGED <<vault, ledgers, seen, run, todo, failed, answer, pre, history, edits, faults>>

Settle(r) ==
    /\ pc' = "idle"
    /\ answer' = r
    /\ UNCHANGED <<vault, seen, run, todo, failed, pre, history, edits>>

\* A clean rollback removes the ledger, ignoring whether it can.
SettleRollback ==
    /\ pc = "settle" /\ run.mode \in {"rollback", "unrecorded"} /\ ~failed
    /\ \/ ledgers' = [ledgers EXCEPT ![run.id] = NoLedger] /\ UNCHANGED faults
       \/ Fault /\ UNCHANGED ledgers
    /\ Settle("rolledback")

\* An incomplete one is recorded, ignoring whether it can be.
SettleIncomplete ==
    /\ pc = "settle" /\ run.mode = "rollback" /\ failed
    /\ \/ /\ ledgers' = [ledgers EXCEPT ![run.id].status = "incomplete"]
          /\ UNCHANGED faults
       \/ Fault /\ UNCHANGED ledgers
    /\ Settle("incomplete")

\* One after the run could not be recorded leaves the first ledger.
SettleUnrecorded ==
    /\ pc = "settle" /\ run.mode = "unrecorded" /\ failed
    /\ UNCHANGED <<ledgers, faults>>
    /\ Settle("error")

\* An undo is marked when all of it was done, so that one that failed can be
\* repeated.
SettleUndo ==
    /\ pc = "settle" /\ run.mode = "undo"
    /\ \/ /\ ~failed
          /\ ledgers' = [ledgers EXCEPT ![run.id].undone = TRUE]
          /\ UNCHANGED faults
          /\ Settle("undone")
       \/ /\ IF failed THEN UNCHANGED faults ELSE Fault
          /\ UNCHANGED ledgers
          /\ Settle("error")

\* The process stops and is started again; nothing is repaired.
Crash ==
    /\ pc # "idle"
    /\ Fault
    /\ pc' = "idle"
    /\ answer' = "crash"
    /\ UNCHANGED <<vault, ledgers, seen, run, todo, failed, pre, history, edits>>

-----------------------------------------------------------------------------
\* What else happens to the vault

\* DeleteWorkflowRuns: the history of a workflow is cleared, as far as it can be.
DeleteRuns ==
    /\ pc = "idle"
    /\ \E stuck \in SUBSET {r \in Ids : OnDisk(r)} :
          /\ ledgers' = [r \in Ids |-> IF r \in stuck THEN ledgers[r] ELSE NoLedger]
          /\ IF stuck = {} THEN UNCHANGED faults ELSE Fault
    /\ answer' = "none"
    /\ UNCHANGED <<vault, seen, pc, run, todo, failed, pre, history, edits>>

\* The client reads the notes.
Read ==
    /\ pc = "idle"
    /\ seen' = [p \in Paths |-> Wire(notes[p])]
    /\ UNCHANGED <<vault, ledgers, pc, run, todo, failed, answer, pre, history, edits, faults>>

Edit ==
    /\ pc = "idle"
    /\ edits < MaxEdits
    /\ edits' = edits + 1
    /\ answer' = "none"
    /\ UNCHANGED <<ledgers, seen, pc, run, todo, failed, pre, history, faults>>

\* Another client, or a program beside the server, writes or removes a note, or
\* the comments of one.
EditNote(p, x) ==
    /\ Edit
    /\ notes' = [notes EXCEPT ![p] = x]
    /\ UNCHANGED comments
EditComments(p, k) ==
    /\ Edit
    /\ comments' = [comments EXCEPT ![p] = k]
    /\ UNCHANGED notes

-----------------------------------------------------------------------------

Init ==
    /\ notes \in [Paths -> Optional(Texts)]
    /\ comments \in [Paths -> Optional(Threads)]
    /\ ledgers = [r \in Ids |-> NoLedger]
    /\ seen = [p \in Paths |-> Wire(notes[p])]
    /\ pc = "idle"
    /\ run = [id |-> 0, mode |-> "apply", journal |-> Empty, change |-> Empty,
              moves |-> <<>>, live |-> Empty, sidecars |-> Empty, renames |-> <<>>,
              drifted |-> {}, unread |-> {}]
    /\ todo = {}
    /\ failed = FALSE
    /\ answer = "none"
    /\ pre = Snapshot
    /\ history = [r \in Ids |-> NoLedger]
    /\ edits = 0
    /\ faults = 0

Apply ==
    \/ PlanMove \/ PlanRefused \/ PlanFails \/ Journal
    \/ \E p \in Paths : WriteChange(p)
    \/ NotesWritten \/ CarryComments \/ CommentsCarried \/ ApplyFails
    \/ Record \/ RecordFails \/ Prune

Restore ==
    \/ \E p \in Paths : RestoreNote(p) \/ RestoreComments(p) \/ RestoreFails(p)
    \/ NotesRestored \/ CommentsRestored
    \/ SettleRollback \/ SettleIncomplete \/ SettleUnrecorded \/ SettleUndo

Start(ids, lists) ==
    /\ pc = "idle"
    /\ \E r \in ids \intersect NewIds, change \in Changes, moves \in lists :
          Begin(r, change, moves)

Rest ==
    \/ Refuse
    \/ Apply \/ Restore \/ Crash
    \/ \E r \in Ids, unread \in SUBSET Paths : UndoBegin(r, unread)
    \/ DeleteRuns \/ Read
    \/ \E p \in Paths, x \in Optional(Texts) : EditNote(p, x)
    \/ \E p \in Paths, k \in Optional(Threads) : EditComments(p, k)

Next == Start(Ids, MoveLists) \/ Rest

Spec == Init /\ [][Next]_vars

-----------------------------------------------------------------------------
\* Properties

\* A run that says it was rolled back ("your vault is unchanged",
\* workflows.go:636) has left every comment and every note as it was, though a
\* note whose bytes are no text may now be what a client is shown of it.
RollbackLeavesVault ==
    answer = "rolledback" =>
       /\ comments = pre.comments
       /\ \A p \in Paths : notes[p] \in {pre.notes[p], Wire(pre.notes[p])}

\* Whatever a run has changed so far, the ledger on disk says what was there
\* before: at every step, after a crash at any of them, and after a rollback
\* that failed.
NothingUnrecorded ==
    run.mode # "undo" /\ (pc # "idle" \/ answer \in {"crash", "incomplete", "error"}) =>
       \A p \in Paths :
          /\ notes[p] # pre.notes[p] =>
                /\ OnDisk(run.id)
                /\ p \in DOMAIN ledgers[run.id].journal
                /\ ledgers[run.id].journal[p] = Wire(pre.notes[p])
          /\ comments[p] # pre.comments[p] =>
                /\ OnDisk(run.id)
                /\ p \in DOMAIN ledgers[run.id].sidecars
                /\ ledgers[run.id].sidecars[p] = pre.comments[p]

\* Undoing a run, finished, interrupted or half rolled back, brings back every
\* note it wrote as a client saw it when the run began, and the comments of
\* every note it moved, whatever was written since.
Restored ==
    answer = "undone" =>
       /\ \A p \in DOMAIN run.journal : notes[p] = Wire(history[run.id].notes[p])
       /\ \A p \in DOMAIN run.sidecars : comments[p] = history[run.id].comments[p]

\* An undo of a finished run takes nothing with it without naming it: a path it
\* does not name as drifted held what the run left, or what it is put back to.
DriftTold ==
    answer = "undone" /\ ledgers[run.id].status = "finished" =>
       \A p \in Paths \ (run.drifted \union run.unread) :
          /\ notes[p] # pre.notes[p] => ledgers[run.id].hashes[p] = pre.notes[p]
          /\ comments[p] # pre.comments[p] /\ p \in DOMAIN ledgers[run.id].after =>
                ledgers[run.id].after[p] = pre.comments[p]

\* UndoWorkflowRun: an undo brings back what the run found, and names every note
\* it takes newer changes of.
UndoRestores == Restored /\ DriftTold

\* No comments are lost or doubled by a run that succeeds: each list is still
\* filed under exactly as many notes as before.
CommentsCarriedWhole ==
    answer = "ok" =>
       \A k \in Threads : Cardinality({p \in Paths : comments[p] = k})
                           = Cardinality({p \in Paths : pre.comments[p] = k})

\* "The newest ledger is the run the user is being shown right now"
\* (workflows.go:719): a run that has just succeeded can be undone.
JustFinishedIsUndoable ==
    answer = "ok" => OnDisk(run.id) /\ ~ledgers[run.id].undone
=============================================================================
