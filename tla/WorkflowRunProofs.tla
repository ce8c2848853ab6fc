------------------------- MODULE WorkflowRunProofs -------------------------
(***************************************************************************)
(* Proofs about WorkflowRun, for any notes, texts, comments, limits on the *)
(* history, and any number of runs, edits, failures and crashes.           *)
(***************************************************************************)
EXTENDS WorkflowRun, FiniteSetTheorems, SequenceTheorems, TLAPS

-----------------------------------------------------------------------------
\* The inductive invariant

\* What a ledger on disk says of the vault its run found, and of what the run left.
Recorded(r) ==
    OnDisk(r) =>
       /\ history[r] # NoLedger
       /\ \A p \in DOMAIN ledgers[r].journal :
             ledgers[r].journal[p] = Wire(history[r].notes[p])
       /\ DOMAIN ledgers[r].sidecars \subseteq DOMAIN ledgers[r].journal
       /\ \A p \in DOMAIN ledgers[r].sidecars :
             ledgers[r].sidecars[p] = history[r].comments[p]
       /\ DOMAIN ledgers[r].after \subseteq DOMAIN ledgers[r].sidecars
       /\ ledgers[r].status = "finished" =>
             DOMAIN ledgers[r].hashes = DOMAIN ledgers[r].journal

Applying == {"write", "carry", "record", "prune"}
Restoring == {"notes", "comments", "settle"}

\* Where the run is goes with what it is doing.
Stage ==
    /\ pc = "plan" \/ pc \in Applying => run.mode = "apply"
    /\ pc \in Restoring => run.mode # "apply"
    /\ pc # "idle" => run.id \in Ids /\ answer = "none"
    /\ pc \in {"carry", "record", "prune", "settle"} => todo = {}
    /\ pc = "comments" => todo \subseteq DOMAIN run.sidecars

\* The moves still to plan, and those planned, are among the changes.
Moving ==
    pc = "plan" \/ pc \in Applying =>
       /\ DOMAIN run.change = DOMAIN run.journal
       /\ \A n \in DOMAIN run.moves :
             run.moves[n].from \in DOMAIN run.journal /\ run.moves[n].to \in DOMAIN run.journal
       /\ \A n \in DOMAIN run.renames :
             run.renames[n].from \in DOMAIN run.sidecars /\ run.renames[n].to \in DOMAIN run.sidecars
       /\ pc = "plan" => DOMAIN run.live = DOMAIN run.sidecars

\* While a run is planned nothing has changed, and no run has its id.
Planning ==
    pc = "plan" =>
       /\ Snapshot = pre
       /\ history[run.id] = NoLedger
       /\ \A p \in DOMAIN run.journal : run.journal[p] = Wire(pre.notes[p])
       /\ \A p \in DOMAIN run.sidecars : run.sidecars[p] = pre.comments[p]

\* A run that has been recorded, until it has ended: its ledger is the one it began with.
Underway ==
    pc \notin {"idle", "plan"} =>
       /\ OnDisk(run.id)
       /\ ledgers[run.id].journal = run.journal
       /\ ledgers[run.id].sidecars = run.sidecars
       /\ ~ledgers[run.id].undone
       /\ run.mode # "undo" => history[run.id] = pre

\* Nothing else has changed.
Confined ==
    pc # "idle" =>
       \A p \in Paths :
          /\ notes[p] # pre.notes[p] => p \in DOMAIN run.journal
          /\ comments[p] # pre.comments[p] => p \in DOMAIN run.sidecars

\* What a restore without a failure has put back.
PutBack ==
    ~failed =>
       /\ pc = "notes" => \A p \in DOMAIN run.journal \ todo : notes[p] = run.journal[p]
       /\ pc \in {"comments", "settle"} => \A p \in DOMAIN run.journal : notes[p] = run.journal[p]
       /\ pc = "comments" => \A p \in DOMAIN run.sidecars \ todo : comments[p] = run.sidecars[p]
       /\ pc = "settle" => \A p \in DOMAIN run.sidecars : comments[p] = run.sidecars[p]

\* A path an undo will not name as drifted held what the run left.
Told ==
    pc # "idle" /\ run.mode = "undo" =>
       \A p \in Paths \ (run.drifted \union run.unread) :
          /\ p \in DOMAIN ledgers[run.id].journal /\ p \in DOMAIN ledgers[run.id].hashes =>
                pre.notes[p] = ledgers[run.id].hashes[p]
          /\ p \in DOMAIN ledgers[run.id].after => pre.comments[p] = ledgers[run.id].after[p]

\* A run being applied is later than every other, unless the clock may step back.
Latest ==
    ~ClockSteps =>
       /\ pc = "plan" => \A q \in Ids : history[q] # NoLedger => q < run.id
       /\ pc \in Applying => \A q \in Ids : history[q] # NoLedger => q <= run.id

Safe ==
    /\ RollbackLeavesVault
    /\ NothingUnrecorded
    /\ UndoRestores
    /\ ~ClockSteps => JustFinishedIsUndoable

IInv ==
    /\ TypeOK
    /\ \A r \in Ids : Recorded(r)
    /\ Stage
    /\ Moving
    /\ Planning
    /\ Underway
    /\ Confined
    /\ PutBack
    /\ Told
    /\ Latest
    /\ pc = "idle" => Safe

\* How a list of moves takes one filing of comments to another: f[n] is the filing before
\* the n-th, to whose end it brings comments where there were none.
Carries(f, ms) ==
    \A n \in 1..Len(ms) :
       /\ f[n][ms[n].to] = None
       /\ f[n + 1] = [f[n] EXCEPT ![ms[n].from] = None, ![ms[n].to] = f[n][ms[n].from]]

Filings(ms) == {f \in [1..Len(ms) + 1 -> [Paths -> Optional(Threads)]] : Carries(f, ms)}

\* Each list is filed under as many notes.
Whole(c, d) ==
    \A k \in Threads : Cardinality({p \in Paths : c[p] = k}) = Cardinality({p \in Paths : d[p] = k})

\* The moves planned go through from where the comments are to what the plan expects.
Carrying ==
    /\ pc = "plan" => \E f \in Filings(run.renames) :
          f[1] = comments /\ f[Len(run.renames) + 1] = [p \in Paths |-> Through(p)]
    /\ pc \in {"write", "carry"} => \E f \in Filings(run.renames) : f[1] = comments
    /\ pc = "plan" \/ pc \in Applying => Whole(comments, pre.comments)
    /\ pc = "idle" => CommentsCarriedWhole

-----------------------------------------------------------------------------
\* What is recorded of some of the notes

LEMMA PartialIs ==
  ASSUME NEW S, NEW f \in Partial(S)
  PROVE  DOMAIN f \subseteq Paths /\ f \in [DOMAIN f -> S]
<1>1. PICK P \in SUBSET Paths : f \in [P -> S]
  BY DEF Partial
<1>. QED  BY <1>1

LEMMA PartialMade ==
  ASSUME NEW S, NEW P \in SUBSET Paths, NEW f \in [P -> S]
  PROVE  f \in Partial(S)
BY DEF Partial

LEMMA EmptyMade == DOMAIN Empty = {} /\ \A S : Empty \in Partial(S)
<1>1. DOMAIN Empty = {}
  BY DEF Empty
<1>2. ASSUME NEW S PROVE Empty \in Partial(S)
  <2>1. Empty \in [{} -> S]
    BY DEF Empty
  <2>. QED  BY <2>1 DEF Partial
<1>. QED  BY <1>1, <1>2

LEMMA PutMade ==
  ASSUME NEW S, NEW f \in Partial(S), NEW p \in Paths, NEW x \in S
  PROVE  Put(f, p, x) \in Partial(S)
<1>1. DOMAIN f \subseteq Paths /\ f \in [DOMAIN f -> S]
  BY PartialIs
<1>2. Put(f, p, x) \in [DOMAIN f \union {p} -> S]
  BY <1>1 DEF Put
<1>. QED  BY <1>1, <1>2, PartialMade, DOMAIN f \union {p} \in SUBSET Paths

LEMMA TouchMade ==
  ASSUME NEW S, NEW f \in Partial(S), NEW p \in Paths, NEW x \in S
  PROVE  Touch(f, p, x) \in Partial(S)
BY PutMade DEF Touch

LEMMA TouchDomain ==
  ASSUME NEW f, NEW p, NEW x
  PROVE  DOMAIN Touch(f, p, x) = DOMAIN f \union {p}
BY DEF Touch, Put

LEMMA Distinct ==
  /\ \A l \in Ledger : l # NoLedger
  /\ \A v \in Vaults : v # NoLedger
<1>1. ASSUME NEW l \in Ledger, l = NoLedger PROVE FALSE
  <2>1. l.status # "none"
    BY DEF Ledger
  <2>. QED  BY <1>1, <2>1 DEF NoLedger
<1>2. ASSUME NEW v \in Vaults, v = NoLedger PROVE FALSE
  <2>1. "notes" \in DOMAIN v
    BY DEF Vaults
  <2>2. DOMAIN NoLedger = {"status"}
    BY DEF NoLedger
  <2>. QED  BY <1>2, <2>1, <2>2
<1>. QED  BY <1>1, <1>2

\* A ledger on disk is a ledger.
LEMMA OnDiskIs == ASSUME TypeOK, NEW r \in Ids, OnDisk(r) PROVE ledgers[r] \in Ledger
BY DEF TypeOK, OnDisk

LEMMA WireMade ==
  ASSUME ConstantsOK, NEW x \in Optional(Texts)
  PROVE  Wire(x) \in Optional(Texts \ Garbled) /\ Wire(Wire(x)) = Wire(x)
BY DEF ConstantsOK, Wire, Optional

-----------------------------------------------------------------------------
\* The beginning

LEMMA InitIInv == ASSUME ConstantsOK PROVE Init => IInv
<1> SUFFICES ASSUME Init PROVE IInv
  OBVIOUS
<1>1. seen \in [Paths -> Optional(Texts \ Garbled)]
  BY WireMade DEF Init
<1>2. run \in Run
  BY EmptyMade DEF Init, Run
<1>3. Snapshot \in Vaults /\ pre \in Vaults
  BY DEF Init, Snapshot, Vaults
<1>4. DOMAIN run.sidecars \subseteq DOMAIN run.journal /\ todo \subseteq DOMAIN run.journal
  BY DEF Init
<1>5. edits \in 0..MaxEdits /\ faults \in 0..MaxFaults
  BY DEF Init, ConstantsOK
<1>6. TypeOK
  BY <1>1, <1>2, <1>3, <1>4, <1>5 DEF Init, TypeOK, Answers, OnDisk
<1>7. \A r \in Ids : Recorded(r)
  BY DEF Init, Recorded, OnDisk
<1>8. Stage /\ Moving /\ Planning /\ Underway /\ Confined /\ PutBack /\ Told /\ Latest
  BY DEF Init, Stage, Moving, Planning, Underway, Confined, PutBack, Told, Latest, Applying,
         Restoring
<1>9. Safe
  BY DEF Init, Safe, RollbackLeavesVault, NothingUnrecorded, UndoRestores, Restored, DriftTold,
         JustFinishedIsUndoable
<1>. QED  BY <1>6, <1>7, <1>8, <1>9 DEF IInv

-----------------------------------------------------------------------------
\* Steps

\* What a step that leaves the ledgers alone leaves recorded.
LEMMA RecordedKept ==
  ASSUME IInv, UNCHANGED <<ledgers, history>>
  PROVE  \A r \in Ids : Recorded(r)'
BY DEF IInv, Recorded, OnDisk

\* A run that has ended leaves what it did to the ledgers and what it answered.
LEMMA Ended ==
  ASSUME pc' = "idle"
  PROVE  Stage' /\ Moving' /\ Planning' /\ Underway' /\ Confined' /\ PutBack' /\ Told' /\ Latest'
BY DEF Stage, Moving, Planning, Underway, Confined, PutBack, Told, Latest, Applying, Restoring

LEMMA BeginStep ==
  ASSUME ConstantsOK, IInv, NEW r \in Ids, NEW change \in Changes, NEW moves \in MoveLists,
         Begin(r, change, moves)
  PROVE  IInv'
<1> DEFINE journal == [p \in DOMAIN change |-> seen[p]]
<1>1. DOMAIN change \subseteq Paths /\ change \in [DOMAIN change -> Optional(Texts \ Garbled)]
  BY PartialIs DEF Changes
<1>2. change \in Partial(Optional(Texts))
  <2>1. change \in [DOMAIN change -> Optional(Texts)]
    BY <1>1 DEF Optional
  <2>. QED  BY <1>1, <2>1, PartialMade
<1>3. journal \in Partial(Optional(Texts))
  <2>1. \A p \in Paths : seen[p] \in Optional(Texts)
    BY DEF IInv, TypeOK, Optional
  <2>2. journal \in [DOMAIN change -> Optional(Texts)]
    BY <1>1, <2>1
  <2>. QED  BY <1>1, <2>2, PartialMade
<1>4. moves \in Seq(Moves)
  BY DEF MoveLists, SeqOf
<1>5. run' \in Run
  BY <1>2, <1>3, <1>4, EmptyMade DEF Begin, Run
<1>6. TypeOK'
  <2>1. todo' \subseteq DOMAIN run'.journal /\ DOMAIN run'.sidecars \subseteq DOMAIN run'.journal
    BY EmptyMade DEF Begin
  <2>2. pre' \in Vaults /\ Snapshot' \in Vaults
    BY DEF IInv, TypeOK, Begin, Snapshot, vault
  <2>. QED  BY <1>5, <2>1, <2>2 DEF IInv, TypeOK, Begin, Answers, OnDisk
<1>7. \A p \in DOMAIN change : seen[p] = Wire(notes[p])
  <2>1. ASSUME NEW p \in DOMAIN change PROVE seen[p] = Wire(notes[p])
    <3>1. seen[p] \in Optional(Texts \ Garbled) /\ WireEqual(notes[p], seen[p])
      BY <1>1, <2>1 DEF IInv, TypeOK, Begin, Valid
    <3>2. Wire(seen[p]) = seen[p]
      BY <3>1 DEF Wire, Optional, ConstantsOK
    <3>. QED  BY <3>1, <3>2 DEF WireEqual
  <2>. QED  BY <2>1
<1>8. \A n \in DOMAIN moves : moves[n].from \in DOMAIN change /\ moves[n].to \in DOMAIN change
  BY DEF Begin, Valid
<1>9. pc' = "plan" /\ run'.mode = "apply" /\ run'.id = r /\ run'.journal = journal
         /\ run'.change = change /\ run'.moves = moves /\ run'.live = Empty
         /\ run'.sidecars = Empty /\ run'.renames = <<>> /\ answer' = "none"
         /\ pre' = Snapshot /\ UNCHANGED <<notes, comments, ledgers, history>>
  BY DEF Begin, vault
<1>10. Stage'
  BY <1>9 DEF Stage, Applying, Restoring
<1>11. Moving'
  BY <1>8, <1>9, EmptyMade DEF Moving
<1>12. Planning'
  BY <1>1, <1>7, <1>9, EmptyMade DEF Begin, Planning, Snapshot, NewIds
<1>13. Underway' /\ Confined' /\ PutBack' /\ Told' /\ Latest'
  BY <1>9 DEF Begin, Underway, Confined, PutBack, Told, Latest, Snapshot, NewIds, Applying
<1>. QED  BY <1>6, <1>9, <1>10, <1>11, <1>12, <1>13, RecordedKept DEF IInv

\* The next move is one of notes among the changes.
LEMMA NextMove ==
  ASSUME IInv, pc = "plan", run.moves # <<>>
  PROVE  /\ Head(run.moves) \in Moves
         /\ Head(run.moves).from \in DOMAIN run.journal /\ Head(run.moves).to \in DOMAIN run.journal
         /\ Tail(run.moves) \in Seq(Moves)
         /\ \A n \in DOMAIN Tail(run.moves) :
               /\ Tail(run.moves)[n].from \in DOMAIN run.journal
               /\ Tail(run.moves)[n].to \in DOMAIN run.journal
<1>1. run.moves \in Seq(Moves)
  BY DEF IInv, TypeOK, Run
<1>2. Head(run.moves) = run.moves[1] /\ 1 \in DOMAIN run.moves
  BY <1>1
<1>3. \A n \in DOMAIN run.moves :
         run.moves[n].from \in DOMAIN run.journal /\ run.moves[n].to \in DOMAIN run.journal
  BY DEF IInv, Moving
<1>4. \A n \in DOMAIN Tail(run.moves) :
         n + 1 \in DOMAIN run.moves /\ Tail(run.moves)[n] = run.moves[n + 1]
  BY <1>1
<1>. QED  BY <1>1, <1>2, <1>3, <1>4

\* What the plan holds after a move that carries comments.
LEMMA Carries1 ==
  ASSUME IInv, pc = "plan", run.moves # <<>>, NEW m, m = Head(run.moves),
         Through(m.to) = None, Through(m.from) # None
  PROVE  /\ Carried(m) \in Run
         /\ DOMAIN Carried(m).live = DOMAIN Carried(m).sidecars
         /\ DOMAIN Carried(m).sidecars = DOMAIN run.sidecars \union {m.from, m.to}
         /\ \A p \in DOMAIN Carried(m).sidecars : Carried(m).sidecars[p] = comments[p]
<1> DEFINE live == Put(Put(run.live, m.from, None), m.to, Through(m.from))
           sidecars == Touch(Touch(run.sidecars, m.from, Through(m.from)), m.to, None)
<1>1. m \in Moves /\ m.from \in Paths /\ m.to \in Paths /\ m.from # m.to /\ Tail(run.moves) \in Seq(Moves)
  BY NextMove DEF Moves
<1>2. run \in Run /\ run.live \in Partial(Optional(Threads)) /\ run.sidecars \in Partial(Optional(Threads))
         /\ run.renames \in Seq(Moves)
  BY DEF IInv, TypeOK, Run
<1>3. DOMAIN run.live = DOMAIN run.sidecars /\ comments = pre.comments
         /\ \A p \in DOMAIN run.sidecars : run.sidecars[p] = comments[p]
  BY DEF IInv, Moving, Planning, Snapshot
<1>4. None \in Optional(Threads) /\ Through(m.from) \in Optional(Threads)
  <2>1. comments[m.from] \in Optional(Threads)
    BY <1>1 DEF IInv, TypeOK, Snapshot, Vaults
  <2>2. ASSUME m.from \in DOMAIN run.live PROVE run.live[m.from] \in Optional(Threads)
    BY <1>2, <2>2, PartialIs
  <2>. QED  BY <2>1, <2>2 DEF Through, Optional
<1>5. live \in Partial(Optional(Threads)) /\ DOMAIN live = DOMAIN run.live \union {m.from, m.to}
  <2>1. Put(run.live, m.from, None) \in Partial(Optional(Threads))
    BY <1>1, <1>2, <1>4, PutMade
  <2>2. live \in Partial(Optional(Threads))
    BY <1>1, <1>4, <2>1, PutMade
  <2>. QED  BY <2>2 DEF Put
<1>6. /\ sidecars \in Partial(Optional(Threads))
      /\ DOMAIN sidecars = DOMAIN run.sidecars \union {m.from, m.to}
      /\ \A p \in DOMAIN sidecars : sidecars[p] = comments[p]
  <2> DEFINE first == Touch(run.sidecars, m.from, Through(m.from))
  <2>1. first \in Partial(Optional(Threads)) /\ DOMAIN first = DOMAIN run.sidecars \union {m.from}
    BY <1>1, <1>2, <1>4, TouchMade, TouchDomain
  <2>2. \A p \in DOMAIN first : first[p] = comments[p]
    <3>1. m.from \notin DOMAIN run.sidecars => Through(m.from) = comments[m.from]
      BY <1>3 DEF Through
    <3>. QED  BY <1>3, <3>1 DEF Touch, Put
  <2>3. m.to \notin DOMAIN first => None = comments[m.to]
    BY <1>3, <2>1 DEF Through
  <2> HIDE DEF first
  <2>4. Touch(first, m.to, None) \in Partial(Optional(Threads))
    BY <1>1, <1>4, <2>1, TouchMade
  <2>5. DOMAIN Touch(first, m.to, None) = DOMAIN first \union {m.to}
    BY TouchDomain
  <2>6. \A p \in DOMAIN Touch(first, m.to, None) : Touch(first, m.to, None)[p] = comments[p]
    BY <2>2, <2>3 DEF Touch, Put
  <2>. QED  BY <2>1, <2>4, <2>5, <2>6 DEF first
<1>7. Append(run.renames, m) \in Seq(Moves)
  BY <1>1, <1>2
<1>8. Carried(m) = [run EXCEPT !.moves = Tail(run.moves), !.live = live, !.sidecars = sidecars,
                               !.renames = Append(run.renames, m)]
  BY DEF Carried
<1> HIDE DEF live, sidecars
<1>9. Carried(m) \in Run /\ Carried(m).live = live /\ Carried(m).sidecars = sidecars
  BY <1>1, <1>2, <1>5, <1>6, <1>7, <1>8 DEF Run
<1>. QED  BY <1>3, <1>5, <1>6, <1>9

LEMMA PlanMoveStep == ASSUME ConstantsOK, IInv, PlanMove PROVE IInv'
<1> DEFINE m == Head(run.moves)
<1>1. pc = "plan" /\ run.moves # <<>> /\ Through(m.to) = None /\ run' = Carried(m)
  BY DEF PlanMove
<1>2. UNCHANGED <<notes, comments, ledgers, seen, pc, todo, failed, answer, pre, history, edits, faults>>
  BY DEF PlanMove, vault
<1>3. m \in Moves /\ m.from \in DOMAIN run.journal /\ m.to \in DOMAIN run.journal
      /\ Tail(run.moves) \in Seq(Moves)
      /\ \A n \in DOMAIN Tail(run.moves) :
            /\ Tail(run.moves)[n].from \in DOMAIN run.journal
            /\ Tail(run.moves)[n].to \in DOMAIN run.journal
  BY <1>1, NextMove
<1>4. run \in Run
  BY DEF IInv, TypeOK
<1>5. /\ run'.id = run.id /\ run'.mode = run.mode /\ run'.journal = run.journal
      /\ run'.change = run.change /\ run'.moves = Tail(run.moves)
  BY <1>1, <1>4 DEF Carried, Run
<1>6. /\ run' \in Run
      /\ DOMAIN run'.live = DOMAIN run'.sidecars
      /\ DOMAIN run'.sidecars \subseteq DOMAIN run.journal
      /\ \A p \in DOMAIN run'.sidecars : run'.sidecars[p] = comments[p]
      /\ \A n \in DOMAIN run'.renames :
            run'.renames[n].from \in DOMAIN run'.sidecars /\ run'.renames[n].to \in DOMAIN run'.sidecars
  <2>1. /\ DOMAIN run.live = DOMAIN run.sidecars
        /\ DOMAIN run.sidecars \subseteq DOMAIN run.journal
        /\ \A p \in DOMAIN run.sidecars : run.sidecars[p] = comments[p]
        /\ \A n \in DOMAIN run.renames :
              run.renames[n].from \in DOMAIN run.sidecars /\ run.renames[n].to \in DOMAIN run.sidecars
    BY <1>1 DEF IInv, TypeOK, Moving, Planning, Snapshot
  <2>2. CASE Through(m.from) = None
    BY <1>1, <1>3, <1>4, <2>1, <2>2 DEF Carried, Run
  <2>3. CASE Through(m.from) # None
    <3>1. /\ Carried(m) \in Run
          /\ DOMAIN Carried(m).live = DOMAIN Carried(m).sidecars
          /\ DOMAIN Carried(m).sidecars = DOMAIN run.sidecars \union {m.from, m.to}
          /\ \A p \in DOMAIN Carried(m).sidecars : Carried(m).sidecars[p] = comments[p]
      BY <1>1, <2>3, Carries1
    <3>2. run'.renames = Append(run.renames, m)
      BY <1>1, <1>4, <2>3 DEF Carried, Run
    <3>3. run.renames \in Seq(Moves)
      BY <1>4 DEF Run
    <3>4. ASSUME NEW n \in DOMAIN run'.renames
          PROVE  run'.renames[n].from \in DOMAIN run'.sidecars /\ run'.renames[n].to \in DOMAIN run'.sidecars
      <4>1. CASE n \in DOMAIN run.renames
        BY <1>1, <2>1, <3>1, <3>2, <3>3, <4>1
      <4>2. CASE n = Len(run.renames) + 1
        BY <1>1, <3>1, <3>2, <3>3, <4>2
      <4>. QED  BY <3>2, <3>3, <3>4, <4>1, <4>2
    <3>. QED  BY <1>1, <1>3, <2>1, <3>1, <3>4
  <2>. QED  BY <2>2, <2>3
<1>7. TypeOK'
  BY <1>2, <1>5, <1>6 DEF IInv, TypeOK, Snapshot, OnDisk
<1>8. Moving'
  BY <1>1, <1>2, <1>3, <1>5, <1>6 DEF IInv, Moving
<1>9. Stage' /\ Planning' /\ Underway' /\ Confined' /\ PutBack' /\ Told' /\ Latest'
  BY <1>1, <1>2, <1>5, <1>6 DEF IInv, Stage, Planning, Underway, Confined, PutBack, Told, Latest,
     Snapshot, Applying, Restoring
<1>. QED  BY <1>1, <1>2, <1>7, <1>8, <1>9, RecordedKept DEF IInv

LEMMA JournalStep == ASSUME ConstantsOK, IInv, Journal PROVE IInv'
<1> DEFINE l == [journal |-> run.journal, hashes |-> Empty, sidecars |-> run.sidecars,
                 after |-> Empty, status |-> "interrupted", undone |-> FALSE]
<1>1. pc = "plan" /\ pc' = "write" /\ run' = [run EXCEPT !.live = Empty]
      /\ ledgers' = [ledgers EXCEPT ![run.id] = l] /\ history' = [history EXCEPT ![run.id] = Snapshot]
      /\ UNCHANGED <<notes, comments, seen, todo, failed, answer, pre, edits, faults>>
  BY DEF Journal, vault
<1>2. run \in Run /\ run.id \in Ids
  BY <1>1 DEF IInv, TypeOK, Stage
<1>3. run' \in Run /\ run'.id = run.id /\ run'.mode = run.mode /\ run'.journal = run.journal
      /\ run'.change = run.change /\ run'.moves = run.moves /\ run'.sidecars = run.sidecars
      /\ run'.renames = run.renames
  BY <1>1, <1>2, EmptyMade DEF Run
<1>4. l \in Ledger
  BY <1>2, EmptyMade DEF Run, Ledger
<1>5. Snapshot = pre /\ Snapshot \in Vaults /\ Snapshot # NoLedger
  BY <1>1, Distinct DEF IInv, TypeOK, Planning
<1> HIDE DEF l
<1>6. ledgers' \in [Ids -> Ledger \union {NoLedger}] /\ history' \in [Ids -> Vaults \union {NoLedger}]
      /\ ledgers'[run.id] = l /\ history'[run.id] = pre
      /\ \A r \in Ids \ {run.id} : ledgers'[r] = ledgers[r] /\ history'[r] = history[r]
  BY <1>1, <1>2, <1>4, <1>5 DEF IInv, TypeOK
<1>7. TypeOK'
  BY <1>1, <1>3, <1>5, <1>6 DEF IInv, TypeOK, Snapshot, OnDisk
<1>8. \A r \in Ids : Recorded(r)'
  <2>1. ASSUME NEW r \in Ids, r = run.id PROVE Recorded(r)'
    <3>1. DOMAIN run.sidecars \subseteq DOMAIN run.journal
      BY DEF IInv, TypeOK
    <3>2. \A p \in DOMAIN run.journal : run.journal[p] = Wire(pre.notes[p])
      BY <1>1 DEF IInv, Planning
    <3>3. \A p \in DOMAIN run.sidecars : run.sidecars[p] = pre.comments[p]
      BY <1>1 DEF IInv, Planning
    <3>. QED  BY <1>3, <1>5, <1>6, <2>1, <3>1, <3>2, <3>3, EmptyMade DEF Recorded, l
  <2>2. ASSUME NEW r \in Ids, r # run.id PROVE Recorded(r)'
    BY <1>6, <2>2 DEF IInv, Recorded, OnDisk
  <2>. QED  BY <2>1, <2>2
<1>9. Underway'
  <2>1. l # NoLedger
    BY <1>4, Distinct
  <2>. QED  BY <1>1, <1>3, <1>6, <2>1 DEF Underway, OnDisk, l
<1>10. Stage' /\ Moving' /\ Planning' /\ PutBack' /\ Told'
  BY <1>1, <1>2, <1>3 DEF IInv, Stage, Moving, Planning, PutBack, Told, Applying, Restoring
<1>11. Confined'
  BY <1>1, <1>5 DEF Confined, Snapshot
<1>12. Latest'
  BY <1>1, <1>2, <1>3, <1>6 DEF IInv, Latest, Applying, Ids
<1>. QED  BY <1>1, <1>7, <1>8, <1>9, <1>10, <1>11, <1>12 DEF IInv

LEMMA WriteChangeStep == ASSUME ConstantsOK, IInv, NEW p \in Paths, WriteChange(p) PROVE IInv'
<1>1. pc = "write" /\ p \in todo /\ notes' = [notes EXCEPT ![p] = run.change[p]] /\ todo' = todo \ {p}
      /\ UNCHANGED <<comments, ledgers, seen, pc, run, failed, answer, pre, history, edits, faults>>
  BY DEF WriteChange
<1>2. p \in DOMAIN run.journal /\ run.change[p] \in Optional(Texts)
  <2>1. p \in DOMAIN run.journal /\ DOMAIN run.change = DOMAIN run.journal
    BY <1>1 DEF IInv, TypeOK, Moving, Applying
  <2>2. run.change \in Partial(Optional(Texts))
    BY DEF IInv, TypeOK, Run
  <2>. QED  BY <2>1, <2>2, PartialIs
<1>3. Snapshot' \in Vaults
  BY <1>1, <1>2 DEF IInv, TypeOK, Snapshot, Vaults
<1>4. TypeOK'
  BY <1>1, <1>3 DEF IInv, TypeOK, OnDisk
<1>5. Stage' /\ Moving' /\ Planning' /\ Underway' /\ PutBack' /\ Told' /\ Latest'
  BY <1>1 DEF IInv, Stage, Moving, Planning, Underway, PutBack, Told, Latest, Applying, Restoring, OnDisk
<1>6. Confined'
  BY <1>1, <1>2 DEF IInv, TypeOK, Confined, Snapshot, Vaults
<1>. QED  BY <1>1, <1>4, <1>5, <1>6, RecordedKept DEF IInv

\* A step that only moves on from one loop to the next.
LEMMA MovesOn ==
  ASSUME ConstantsOK, IInv, NotesWritten \/ CommentsCarried
  PROVE  IInv'
<1>1. /\ \/ pc = "write" /\ pc' = "carry" /\ todo = {}
         \/ pc = "carry" /\ pc' = "record"
      /\ UNCHANGED <<notes, comments, ledgers, seen, run, todo, failed, answer, pre, history, edits, faults>>
  BY DEF NotesWritten, CommentsCarried, vault
<1>2. TypeOK'
  BY <1>1 DEF IInv, TypeOK, Snapshot, OnDisk
<1>3. Stage' /\ Moving' /\ Planning' /\ PutBack' /\ Told' /\ Latest'
  BY <1>1 DEF IInv, Stage, Moving, Planning, PutBack, Told, Latest, Applying, Restoring
<1>4. Underway' /\ Confined'
  BY <1>1 DEF IInv, Underway, Confined, OnDisk
<1>. QED  BY <1>1, <1>2, <1>3, <1>4, RecordedKept DEF IInv

LEMMA CarryCommentsStep == ASSUME ConstantsOK, IInv, CarryComments PROVE IInv'
<1> DEFINE m == Head(run.renames)
<1>1. pc = "carry" /\ run.renames # <<>> /\ run' = [run EXCEPT !.renames = Tail(run.renames)]
      /\ comments' = [comments EXCEPT ![m.from] = None, ![m.to] = comments[m.from]]
      /\ UNCHANGED <<notes, ledgers, seen, pc, todo, failed, answer, pre, history, edits, faults>>
  BY DEF CarryComments
<1>2. run \in Run /\ run.renames \in Seq(Moves)
  BY DEF IInv, TypeOK, Run
<1>3. m \in Moves /\ m.from \in Paths /\ m.to \in Paths /\ m.from # m.to
  BY <1>1, <1>2 DEF Moves
<1>4. \A n \in DOMAIN run.renames :
         run.renames[n].from \in DOMAIN run.sidecars /\ run.renames[n].to \in DOMAIN run.sidecars
  BY <1>1 DEF IInv, Moving, Applying
<1>5. m.from \in DOMAIN run.sidecars /\ m.to \in DOMAIN run.sidecars
  BY <1>1, <1>2, <1>4
<1>6. run' \in Run /\ run'.id = run.id /\ run'.mode = run.mode /\ run'.journal = run.journal
      /\ run'.change = run.change /\ run'.moves = run.moves /\ run'.sidecars = run.sidecars
      /\ run'.renames = Tail(run.renames)
  <2>1. Tail(run.renames) \in Seq(Moves)
    BY <1>1, <1>2
  <2>. QED  BY <1>1, <1>2, <2>1 DEF Run
<1>7. \A n \in DOMAIN run'.renames :
         run'.renames[n].from \in DOMAIN run.sidecars /\ run'.renames[n].to \in DOMAIN run.sidecars
  <2>1. \A n \in DOMAIN Tail(run.renames) :
           n + 1 \in DOMAIN run.renames /\ Tail(run.renames)[n] = run.renames[n + 1]
    BY <1>1, <1>2
  <2>. QED  BY <1>4, <1>6, <2>1
<1>8. comments' \in [Paths -> Optional(Threads)]
      /\ \A p \in Paths \ {m.from, m.to} : comments'[p] = comments[p]
  BY <1>1, <1>3 DEF IInv, TypeOK, Snapshot, Vaults, Optional
<1> HIDE DEF m
<1>9. TypeOK'
  <2>1. Snapshot' \in Vaults
    BY <1>1, <1>8 DEF IInv, TypeOK, Snapshot, Vaults
  <2>. QED  BY <1>1, <1>6, <2>1 DEF IInv, TypeOK, OnDisk
<1>10. Moving'
  BY <1>1, <1>6, <1>7 DEF IInv, Moving, Applying
<1>11. Stage' /\ Planning' /\ Underway' /\ PutBack' /\ Told' /\ Latest'
  BY <1>1, <1>6 DEF IInv, Stage, Planning, Underway, PutBack, Told, Latest, Applying, Restoring, OnDisk
<1>12. Confined'
  BY <1>1, <1>5, <1>6, <1>8 DEF IInv, Confined
<1>. QED  BY <1>1, <1>9, <1>10, <1>11, <1>12, RecordedKept DEF IInv

\* A run that turns back.
LEMMA StartRestoreStep ==
  ASSUME ConstantsOK, IInv, pc \in Applying, NEW mode \in {"rollback", "unrecorded"}, StartRestore(mode),
         UNCHANGED <<notes, comments, ledgers, seen, failed, answer, pre, history, edits>>,
         faults' \in 0..MaxFaults
  PROVE  IInv'
<1>1. run \in Run
  BY DEF IInv, TypeOK
<1>2. run' \in Run /\ run'.id = run.id /\ run'.mode = mode /\ run'.journal = run.journal
      /\ run'.change = run.change /\ run'.moves = run.moves /\ run'.sidecars = run.sidecars
      /\ run'.renames = run.renames
  BY <1>1 DEF StartRestore, Run
<1>3. pc' = "notes" /\ todo' = DOMAIN run.journal
  BY DEF StartRestore
<1>4. TypeOK'
  BY <1>2, <1>3 DEF IInv, TypeOK, Snapshot, OnDisk
<1>5. Stage' /\ Moving' /\ Planning' /\ PutBack' /\ Told' /\ Latest'
  BY <1>2, <1>3 DEF IInv, Stage, Moving, Planning, PutBack, Told, Latest, Applying, Restoring
<1>6. Underway' /\ Confined'
  BY <1>2, <1>3 DEF IInv, Stage, Underway, Confined, Applying, OnDisk
<1>. QED  BY <1>3, <1>4, <1>5, <1>6, RecordedKept DEF IInv

LEMMA FaultMade == ASSUME IInv, ConstantsOK, Fault PROVE faults' \in 0..MaxFaults
BY DEF IInv, TypeOK, Fault, ConstantsOK

LEMMA FailSteps == ASSUME ConstantsOK, IInv, ApplyFails \/ RecordFails PROVE IInv'
<1>1. faults' \in 0..MaxFaults
  BY FaultMade DEF ApplyFails, RecordFails
<1>2. pc \in Applying
  BY DEF ApplyFails, RecordFails, Applying
<1>3. UNCHANGED <<notes, comments, ledgers, seen, failed, answer, pre, history, edits>>
  BY DEF ApplyFails, RecordFails, vault
<1>4. StartRestore("rollback") \/ StartRestore("unrecorded")
  BY DEF ApplyFails, RecordFails
<1>. QED  BY <1>1, <1>2, <1>3, <1>4, StartRestoreStep

LEMMA RecordStep == ASSUME ConstantsOK, IInv, Record PROVE IInv'
<1>1. PICK unread \in SUBSET DOMAIN run.sidecars :
         /\ ledgers' = [ledgers EXCEPT ![run.id] =
               [journal |-> run.journal, hashes |-> run.change, sidecars |-> run.sidecars,
                after |-> [p \in DOMAIN run.sidecars \ unread |-> comments[p]],
                status |-> "finished", undone |-> FALSE]]
         /\ IF unread = {} THEN UNCHANGED faults ELSE Fault
  BY DEF Record
<1> DEFINE after == [p \in DOMAIN run.sidecars \ unread |-> comments[p]]
           l == [journal |-> run.journal, hashes |-> run.change, sidecars |-> run.sidecars,
                 after |-> after, status |-> "finished", undone |-> FALSE]
<1>2. pc = "record" /\ pc' = "prune" /\ ledgers' = [ledgers EXCEPT ![run.id] = l]
      /\ UNCHANGED <<notes, comments, seen, run, todo, failed, answer, pre, history, edits>>
  BY <1>1 DEF Record, vault
<1>3. run \in Run /\ run.id \in Ids
  BY <1>2 DEF IInv, TypeOK, Stage
<1>4. DOMAIN after \subseteq DOMAIN run.sidecars /\ after \in Partial(Optional(Threads))
  <2>1. run.sidecars \in Partial(Optional(Threads))
    BY <1>3 DEF Run
  <2>2. DOMAIN run.sidecars \subseteq Paths
    BY <2>1, PartialIs
  <2>3. after \in [DOMAIN run.sidecars \ unread -> Optional(Threads)]
    BY <2>2 DEF IInv, TypeOK, Snapshot, Vaults
  <2>4. DOMAIN run.sidecars \ unread \in SUBSET Paths
    BY <2>2
  <2>. QED  BY <2>3, <2>4, PartialMade
<1>5. l \in Ledger
  BY <1>3, <1>4 DEF Run, Ledger
<1>6. faults' \in 0..MaxFaults
  BY <1>1, FaultMade DEF IInv, TypeOK
<1> HIDE DEF l
<1>7. ledgers' \in [Ids -> Ledger \union {NoLedger}] /\ ledgers'[run.id] = l
      /\ \A r \in Ids \ {run.id} : ledgers'[r] = ledgers[r]
  BY <1>2, <1>3, <1>5 DEF IInv, TypeOK
<1>8. OnDisk(run.id) /\ history[run.id] = pre /\ history[run.id] # NoLedger
  BY <1>2, <1>3 DEF IInv, Underway, Stage, Applying, Recorded
<1>9. TypeOK'
  BY <1>2, <1>6, <1>7, <1>8 DEF IInv, TypeOK, Snapshot, OnDisk
<1>10. \A r \in Ids : Recorded(r)'
  <2>1. ASSUME NEW r \in Ids, r = run.id PROVE Recorded(r)'
    <3>1. /\ ledgers[r].journal = run.journal /\ ledgers[r].sidecars = run.sidecars
          /\ DOMAIN run.change = DOMAIN run.journal
      BY <1>2, <2>1 DEF IInv, Underway, Moving, Applying
    <3>2. /\ \A p \in DOMAIN run.journal : run.journal[p] = Wire(history[r].notes[p])
          /\ \A p \in DOMAIN run.sidecars : run.sidecars[p] = history[r].comments[p]
          /\ DOMAIN run.sidecars \subseteq DOMAIN run.journal
      BY <1>8, <2>1, <3>1 DEF IInv, Recorded
    <3>. QED  BY <1>2, <1>4, <1>7, <1>8, <2>1, <3>1, <3>2 DEF Recorded, l
  <2>2. ASSUME NEW r \in Ids, r # run.id PROVE Recorded(r)'
    BY <1>2, <1>7, <2>2 DEF IInv, Recorded, OnDisk
  <2>. QED  BY <2>1, <2>2
<1>11. Underway'
  <2>1. l # NoLedger
    BY <1>5, Distinct
  <2>. QED  BY <1>2, <1>7, <1>8, <2>1 DEF Underway, OnDisk, l
<1>12. Stage' /\ Moving' /\ Planning' /\ Confined' /\ PutBack' /\ Told' /\ Latest'
  BY <1>2 DEF IInv, Stage, Moving, Planning, Confined, PutBack, Told, Latest, Applying, Restoring
<1>. QED  BY <1>2, <1>9, <1>10, <1>11, <1>12 DEF IInv

-----------------------------------------------------------------------------
\* Putting back

LEMMA UndoBeginStep ==
  ASSUME ConstantsOK, IInv, NEW r \in Ids, NEW unread \in SUBSET Paths, UndoBegin(r, unread)
  PROVE  IInv'
<1> DEFINE l == ledgers[r]
<1>1. pc = "idle" /\ pc' = "notes" /\ OnDisk(r) /\ ~l.undone /\ todo' = DOMAIN l.journal
      /\ run' = [id |-> r, mode |-> "undo", journal |-> l.journal, change |-> Empty,
                 moves |-> <<>>, live |-> Empty, sidecars |-> l.sidecars, renames |-> <<>>,
                 drifted |-> Drifted(l, unread), unread |-> unread]
      /\ failed' = FALSE /\ answer' = "none" /\ pre' = Snapshot
      /\ UNCHANGED <<notes, comments, ledgers, seen, history, edits>>
  BY DEF UndoBegin, vault
<1>2. l \in Ledger
  BY <1>1, OnDiskIs DEF IInv
<1>3. l.journal \in Partial(Optional(Texts)) /\ l.sidecars \in Partial(Optional(Threads))
      /\ DOMAIN l.journal \subseteq Paths /\ DOMAIN l.sidecars \subseteq DOMAIN l.journal
      /\ DOMAIN l.after \subseteq DOMAIN l.sidecars
  <2>1. l.journal \in Partial(Optional(Texts)) /\ l.sidecars \in Partial(Optional(Threads))
    BY <1>2 DEF Ledger
  <2>2. DOMAIN l.journal \subseteq Paths
    BY <2>1, PartialIs
  <2>. QED  BY <1>1, <2>1, <2>2 DEF IInv, Recorded
<1>4. Drifted(l, unread) \subseteq Paths
  BY <1>3 DEF Drifted, DriftedNotes
<1> HIDE DEF l
<1>5. run' \in Run
  BY <1>1, <1>3, <1>4, EmptyMade DEF Run
<1>6. faults' \in 0..MaxFaults
  BY FaultMade DEF IInv, TypeOK, UndoBegin
<1>7. Snapshot \in Vaults
  BY DEF IInv, TypeOK
<1>8. TypeOK'
  BY <1>1, <1>3, <1>5, <1>6, <1>7 DEF IInv, TypeOK, Snapshot, OnDisk, Answers
<1>9. Stage' /\ Moving' /\ Planning' /\ Confined' /\ PutBack' /\ Latest'
  BY <1>1 DEF Stage, Moving, Planning, Confined, PutBack, Latest, Applying, Restoring, Snapshot
<1>10. Underway'
  BY <1>1 DEF Underway, OnDisk, l
<1>11. Told'
  BY <1>1 DEF Told, Drifted, DriftedNotes, Snapshot, l
<1>. QED  BY <1>1, <1>8, <1>9, <1>10, <1>11, RecordedKept DEF IInv

LEMMA RestoreNoteStep == ASSUME ConstantsOK, IInv, NEW p \in Paths, RestoreNote(p) PROVE IInv'
<1>1. pc = "notes" /\ p \in todo /\ notes' = [notes EXCEPT ![p] = run.journal[p]] /\ todo' = todo \ {p}
      /\ UNCHANGED <<comments, ledgers, seen, pc, run, failed, answer, pre, history, edits, faults>>
  BY DEF RestoreNote
<1>2. p \in DOMAIN run.journal
  BY <1>1 DEF IInv, TypeOK
<1>3. run.journal[p] \in Optional(Texts)
  <2>1. run.journal \in Partial(Optional(Texts))
    BY DEF IInv, TypeOK, Run
  <2>. QED  BY <1>2, <2>1, PartialIs
<1>4. notes \in [Paths -> Optional(Texts)]
  BY DEF IInv, TypeOK, Snapshot, Vaults
<1>5. Snapshot' \in Vaults
  BY <1>1, <1>3, <1>4 DEF IInv, TypeOK, Snapshot, Vaults
<1>6. TypeOK'
  BY <1>1, <1>5 DEF IInv, TypeOK, OnDisk
<1>7. PutBack'
  <2>1. DOMAIN run.journal \subseteq Paths
    BY PartialIs DEF IInv, TypeOK, Run
  <2>. QED  BY <1>1, <1>2, <1>4, <2>1 DEF IInv, PutBack
<1>8. Stage' /\ Moving' /\ Planning' /\ Underway' /\ Told' /\ Latest'
  BY <1>1 DEF IInv, Stage, Moving, Planning, Underway, Told, Latest, Applying, Restoring, OnDisk
<1>9. Confined'
  BY <1>1, <1>2, <1>4 DEF IInv, Confined
<1>. QED  BY <1>1, <1>6, <1>7, <1>8, <1>9, RecordedKept DEF IInv

LEMMA RestoreCommentsStep == ASSUME ConstantsOK, IInv, NEW p \in Paths, RestoreComments(p) PROVE IInv'
<1>1. pc = "comments" /\ p \in todo /\ comments' = [comments EXCEPT ![p] = run.sidecars[p]]
      /\ todo' = todo \ {p}
      /\ UNCHANGED <<notes, ledgers, seen, pc, run, failed, answer, pre, history, edits, faults>>
  BY DEF RestoreComments
<1>2. p \in DOMAIN run.sidecars
  BY <1>1 DEF IInv, Stage
<1>3. run.sidecars[p] \in Optional(Threads)
  <2>1. run.sidecars \in Partial(Optional(Threads))
    BY DEF IInv, TypeOK, Run
  <2>. QED  BY <1>2, <2>1, PartialIs
<1>4. comments \in [Paths -> Optional(Threads)]
  BY DEF IInv, TypeOK, Snapshot, Vaults
<1>5. Snapshot' \in Vaults
  BY <1>1, <1>3, <1>4 DEF IInv, TypeOK, Snapshot, Vaults
<1>6. TypeOK'
  BY <1>1, <1>5 DEF IInv, TypeOK, OnDisk
<1>7. PutBack'
  <2>1. DOMAIN run.sidecars \subseteq Paths
    BY PartialIs DEF IInv, TypeOK, Run
  <2>. QED  BY <1>1, <1>2, <1>4, <2>1 DEF IInv, PutBack
<1>8. Stage' /\ Moving' /\ Planning' /\ Underway' /\ Told' /\ Latest'
  BY <1>1 DEF IInv, Stage, Moving, Planning, Underway, Told, Latest, Applying, Restoring, OnDisk
<1>9. Confined'
  BY <1>1, <1>2, <1>4 DEF IInv, Confined
<1>. QED  BY <1>1, <1>6, <1>7, <1>8, <1>9, RecordedKept DEF IInv

LEMMA RestoreFailsStep == ASSUME ConstantsOK, IInv, NEW p \in Paths, RestoreFails(p) PROVE IInv'
<1>1. pc \in {"notes", "comments"} /\ todo' = todo \ {p} /\ failed'
      /\ UNCHANGED <<notes, comments, ledgers, seen, pc, run, answer, pre, history, edits>>
  BY DEF RestoreFails, vault
<1>2. faults' \in 0..MaxFaults
  BY FaultMade DEF RestoreFails
<1>3. TypeOK'
  BY <1>1, <1>2 DEF IInv, TypeOK, Snapshot, OnDisk, RestoreFails
<1>4. Stage' /\ Moving' /\ Planning' /\ Underway' /\ Confined' /\ PutBack' /\ Told' /\ Latest'
  BY <1>1 DEF IInv, Stage, Moving, Planning, Underway, Confined, PutBack, Told, Latest, Applying,
     Restoring, OnDisk
<1>. QED  BY <1>1, <1>3, <1>4, RecordedKept DEF IInv

LEMMA RestoredSteps == ASSUME ConstantsOK, IInv, NotesRestored \/ CommentsRestored PROVE IInv'
<1>1. /\ \/ pc = "notes" /\ pc' = "comments" /\ todo = {} /\ todo' = DOMAIN run.sidecars
         \/ pc = "comments" /\ pc' = "settle" /\ todo = {} /\ todo' = {}
      /\ UNCHANGED <<notes, comments, ledgers, seen, run, failed, answer, pre, history, edits, faults>>
  BY DEF NotesRestored, CommentsRestored, vault
<1>2. TypeOK'
  BY <1>1 DEF IInv, TypeOK, Snapshot, OnDisk
<1>3. Stage' /\ Moving' /\ Planning' /\ PutBack' /\ Told' /\ Latest'
  BY <1>1 DEF IInv, Stage, Moving, Planning, PutBack, Told, Latest, Applying, Restoring
<1>4. Underway' /\ Confined'
  BY <1>1 DEF IInv, Underway, Confined, OnDisk
<1>. QED  BY <1>1, <1>2, <1>3, <1>4, RecordedKept DEF IInv

-----------------------------------------------------------------------------
\* Ends of a run, and what happens between runs

\* All that may become of a ledger then.
LedgerBecomes(r, l) ==
    \/ l = ledgers[r]
    \/ l = NoLedger
    \/ OnDisk(r) /\ l = [ledgers[r] EXCEPT !.status = "incomplete"]
    \/ OnDisk(r) /\ l = [ledgers[r] EXCEPT !.undone = TRUE]

LEMMA LedgersKept ==
  ASSUME IInv, DOMAIN ledgers' = Ids, ledgers' = [r \in Ids |-> ledgers'[r]],
         \A r \in Ids : LedgerBecomes(r, ledgers'[r]),
         pc' = "idle", UNCHANGED <<seen, run, todo, failed, pre, history>>,
         Snapshot' \in Vaults, answer' \in Answers, edits' \in 0..MaxEdits, faults' \in 0..MaxFaults,
         Safe'
  PROVE  IInv'
<1>1. ASSUME NEW r \in Ids
      PROVE  /\ ledgers'[r] \in Ledger \union {NoLedger}
             /\ ledgers'[r] # NoLedger =>
                   /\ OnDisk(r) /\ ledgers'[r].journal = ledgers[r].journal
                   /\ ledgers'[r].hashes = ledgers[r].hashes
                   /\ ledgers'[r].sidecars = ledgers[r].sidecars
                   /\ ledgers'[r].after = ledgers[r].after
                   /\ ledgers'[r].status \in {ledgers[r].status, "incomplete"}
  <2>1. OnDisk(r) => ledgers[r] \in Ledger
    BY OnDiskIs DEF IInv
  <2>2. LedgerBecomes(r, ledgers'[r])
    OBVIOUS
  <2>3. CASE ledgers'[r] = ledgers[r] \/ ledgers'[r] = NoLedger
    BY <2>3 DEF IInv, TypeOK, OnDisk
  <2>4. CASE OnDisk(r) /\ ledgers'[r] = [ledgers[r] EXCEPT !.status = "incomplete"]
    BY <2>1, <2>4 DEF Ledger
  <2>5. CASE OnDisk(r) /\ ledgers'[r] = [ledgers[r] EXCEPT !.undone = TRUE]
    BY <2>1, <2>5 DEF Ledger
  <2>. QED  BY <2>2, <2>3, <2>4, <2>5 DEF LedgerBecomes
<1>2. ledgers' \in [Ids -> Ledger \union {NoLedger}]
  BY <1>1
<1>3. TypeOK'
  BY <1>1, <1>2 DEF IInv, TypeOK, OnDisk
<1>4. ASSUME NEW r \in Ids PROVE Recorded(r)'
  BY <1>1 DEF IInv, Recorded, OnDisk
<1>. QED  BY <1>3, <1>4, Ended DEF IInv

\* What the ledger of a run that is under way can take back.
LEMMA Recoverable ==
  ASSUME IInv, pc # "idle", run.mode # "undo", NEW p \in Paths
  PROVE  /\ notes[p] # pre.notes[p] =>
               /\ OnDisk(run.id)
               /\ p \in DOMAIN ledgers[run.id].journal
               /\ ledgers[run.id].journal[p] = Wire(pre.notes[p])
         /\ comments[p] # pre.comments[p] =>
               /\ OnDisk(run.id)
               /\ p \in DOMAIN ledgers[run.id].sidecars
               /\ ledgers[run.id].sidecars[p] = pre.comments[p]
<1>1. CASE pc = "plan"
  BY <1>1 DEF IInv, Planning, Snapshot
<1>2. CASE pc # "plan"
  <2>1. run.id \in Ids /\ OnDisk(run.id) /\ history[run.id] = pre
        /\ ledgers[run.id].journal = run.journal /\ ledgers[run.id].sidecars = run.sidecars
    BY <1>2 DEF IInv, Stage, Underway
  <2>. QED  BY <2>1 DEF IInv, Recorded, Confined
<1>. QED  BY <1>1, <1>2

LEMMA PlanEnds == ASSUME ConstantsOK, IInv, PlanRefused \/ PlanFails PROVE IInv'
<1>1. pc = "plan" /\ pc' = "idle" /\ answer' \in {"rolledback", "refused"}
      /\ UNCHANGED <<notes, comments, ledgers, seen, run, todo, failed, pre, history, edits>>
  BY DEF PlanRefused, PlanFails, vault
<1>2. faults' \in 0..MaxFaults
  BY FaultMade DEF PlanRefused, PlanFails, IInv, TypeOK
<1>3. Safe'
  <2>1. Snapshot = pre
    BY <1>1 DEF IInv, Planning
  <2>. QED  BY <1>1, <2>1 DEF Safe, RollbackLeavesVault, NothingUnrecorded, UndoRestores, Restored,
            DriftTold, JustFinishedIsUndoable, Snapshot
<1>4. ledgers' \in [Ids -> Ledger \union {NoLedger}] /\ \A r \in Ids : LedgerBecomes(r, ledgers'[r])
  BY <1>1 DEF IInv, TypeOK, LedgerBecomes
<1>5. Snapshot' \in Vaults /\ answer' \in Answers /\ edits' \in 0..MaxEdits
  BY <1>1 DEF IInv, TypeOK, Snapshot, Answers
<1>. QED  BY <1>1, <1>2, <1>3, <1>4, <1>5, LedgersKept

LEMMA PruneStep == ASSUME ConstantsOK, IInv, Prune PROVE IInv'
<1>1. PICK stuck \in SUBSET {r \in Ids : OnDisk(r) /\ ~Retained(r)} :
         /\ ledgers' = [r \in Ids |-> IF OnDisk(r) /\ ~Retained(r) /\ r \notin stuck
                                       THEN NoLedger ELSE ledgers[r]]
         /\ IF stuck = {} THEN UNCHANGED faults ELSE Fault
  BY DEF Prune
<1>2. pc = "prune" /\ pc' = "idle" /\ answer' = "ok"
      /\ UNCHANGED <<notes, comments, seen, run, todo, failed, pre, history, edits>>
  BY DEF Prune, vault
<1>3. faults' \in 0..MaxFaults
  BY <1>1, FaultMade DEF IInv, TypeOK
<1>4. Safe'
  <2>1. ASSUME ~ClockSteps PROVE OnDisk(run.id)' /\ ~(ledgers[run.id].undone)'
    <3>1. run.id \in Ids /\ OnDisk(run.id) /\ ~ledgers[run.id].undone
      BY <1>2 DEF IInv, Stage, Underway
    <3>2. \A q \in Ids : OnDisk(q) => q <= run.id
      BY <1>2, <2>1 DEF IInv, TypeOK, Latest, Applying
    <3>3. {q \in Ids : OnDisk(q) /\ q >= run.id} = {run.id}
      BY <3>1, <3>2 DEF Ids
    <3>4. Retained(run.id)
      BY <3>3 DEF Retained
    <3>5. ledgers'[run.id] = ledgers[run.id]
      BY <1>1, <3>1, <3>4
    <3>. QED  BY <1>2, <3>1, <3>5 DEF OnDisk
  <2>. QED  BY <1>2, <2>1 DEF Safe, RollbackLeavesVault, NothingUnrecorded, UndoRestores, Restored,
            DriftTold, JustFinishedIsUndoable
<1>5. DOMAIN ledgers' = Ids /\ ledgers' = [r \in Ids |-> ledgers'[r]]
      /\ \A r \in Ids : LedgerBecomes(r, ledgers'[r])
  BY <1>1 DEF LedgerBecomes
<1>6. Snapshot' \in Vaults /\ answer' \in Answers /\ edits' \in 0..MaxEdits
  BY <1>2 DEF IInv, TypeOK, Snapshot, Answers
<1>. QED  BY <1>2, <1>3, <1>4, <1>5, <1>6, LedgersKept

\* A restore that nothing failed in has put back every note and its comments.
LEMMA BackAgain ==
  ASSUME IInv, pc = "settle", ~failed
  PROVE  /\ \A p \in DOMAIN run.journal : notes[p] = run.journal[p]
         /\ \A p \in DOMAIN run.sidecars : comments[p] = run.sidecars[p]
BY DEF IInv, PutBack

\* What a step that ends a restore does besides answering.
LEMMA Settled ==
  ASSUME ConstantsOK, IInv, SettleRollback \/ SettleIncomplete \/ SettleUnrecorded \/ SettleUndo
  PROVE  /\ pc = "settle" /\ pc' = "idle" /\ answer' \in Answers
         /\ UNCHANGED <<notes, comments, seen, run, todo, failed, pre, history, edits>>
         /\ faults' \in 0..MaxFaults
         /\ run.id \in Ids /\ ledgers[run.id] \in Ledger
         /\ DOMAIN ledgers' = Ids /\ ledgers' = [r \in Ids |-> ledgers'[r]]
         /\ \A r \in Ids : LedgerBecomes(r, ledgers'[r])
<1>1. pc = "settle" /\ pc' = "idle" /\ answer' \in Answers
      /\ UNCHANGED <<notes, comments, seen, run, todo, failed, pre, history, edits>>
  BY DEF SettleRollback, SettleIncomplete, SettleUnrecorded, SettleUndo, Settle, vault, Answers
<1>2. faults' \in 0..MaxFaults
  BY FaultMade DEF SettleRollback, SettleIncomplete, SettleUnrecorded, SettleUndo, IInv, TypeOK
<1>3. run.id \in Ids /\ OnDisk(run.id) /\ ledgers[run.id] \in Ledger
  BY <1>1, OnDiskIs DEF IInv, Stage, Underway
<1>4. ledgers \in [Ids -> Ledger \union {NoLedger}]
  BY DEF IInv, TypeOK
<1>5. \/ UNCHANGED ledgers
      \/ ledgers' = [ledgers EXCEPT ![run.id] = NoLedger]
      \/ ledgers' = [ledgers EXCEPT ![run.id] = [ledgers[run.id] EXCEPT !.status = "incomplete"]]
      \/ ledgers' = [ledgers EXCEPT ![run.id] = [ledgers[run.id] EXCEPT !.undone = TRUE]]
  BY DEF SettleRollback, SettleIncomplete, SettleUnrecorded, SettleUndo
<1>6. DOMAIN ledgers' = Ids /\ ledgers' = [r \in Ids |-> ledgers'[r]]
      /\ \A r \in Ids : LedgerBecomes(r, ledgers'[r])
  BY <1>3, <1>4, <1>5 DEF LedgerBecomes
<1>. QED  BY <1>1, <1>2, <1>3, <1>6

LEMMA SettleRollbackSafe == ASSUME ConstantsOK, IInv, SettleRollback PROVE Safe'
<1>1. pc = "settle" /\ pc' = "idle" /\ answer' = "rolledback" /\ ~failed /\ run.mode # "undo"
      /\ UNCHANGED <<notes, comments, run, pre>>
  BY DEF SettleRollback, Settle, vault
<1>2. run.id \in Ids /\ OnDisk(run.id) /\ history[run.id] = pre
      /\ ledgers[run.id].journal = run.journal /\ ledgers[run.id].sidecars = run.sidecars
  BY <1>1 DEF IInv, Stage, Underway
<1>3. /\ \A p \in DOMAIN run.journal : notes[p] = Wire(pre.notes[p])
      /\ \A p \in DOMAIN run.sidecars : comments[p] = pre.comments[p]
  BY <1>1, <1>2, BackAgain DEF IInv, Recorded
<1>4. \A p \in Paths : notes[p] \in {pre.notes[p], Wire(pre.notes[p])} /\ comments[p] = pre.comments[p]
  BY <1>1, <1>3 DEF IInv, Confined
<1>5. comments = pre.comments
  <2>1. comments \in [Paths -> Optional(Threads)] /\ pre.comments \in [Paths -> Optional(Threads)]
    BY DEF IInv, TypeOK, Snapshot, Vaults
  <2>. QED  BY <1>4, <2>1
<1>6. RollbackLeavesVault'
  BY <1>1, <1>4, <1>5 DEF RollbackLeavesVault
<1>. QED  BY <1>1, <1>6 DEF Safe, NothingUnrecorded, UndoRestores, Restored, DriftTold,
          JustFinishedIsUndoable

\* A run that ends with its ledger on disk, or before it had one.
LEMMA Unwound ==
  ASSUME IInv, pc # "idle", pc' = "idle", UNCHANGED <<notes, comments, run, pre>>,
         answer' \in {"incomplete", "error", "crash"},
         \/ UNCHANGED ledgers
         \/ run.mode # "undo" /\ ledgers' = [ledgers EXCEPT ![run.id] = [ledgers[run.id] EXCEPT !.status = "incomplete"]]
            /\ run.id \in Ids /\ ledgers[run.id] \in Ledger
  PROVE  Safe'
<1>1. NothingUnrecorded'
  <2> SUFFICES ASSUME run.mode # "undo", NEW p \in Paths
               PROVE  /\ notes[p] # pre.notes[p] =>
                            /\ OnDisk(run.id)'
                            /\ p \in DOMAIN ledgers'[run.id].journal
                            /\ ledgers'[run.id].journal[p] = Wire(pre.notes[p])
                      /\ comments[p] # pre.comments[p] =>
                            /\ OnDisk(run.id)'
                            /\ p \in DOMAIN ledgers'[run.id].sidecars
                            /\ ledgers'[run.id].sidecars[p] = pre.comments[p]
    BY DEF NothingUnrecorded
  <2>1. CASE UNCHANGED ledgers
    BY <2>1, Recoverable DEF OnDisk
  <2>2. CASE /\ run.id \in Ids /\ ledgers[run.id] \in Ledger
             /\ ledgers' = [ledgers EXCEPT ![run.id] = [ledgers[run.id] EXCEPT !.status = "incomplete"]]
    <3>1. /\ ledgers'[run.id] \in Ledger
          /\ ledgers'[run.id].journal = ledgers[run.id].journal
          /\ ledgers'[run.id].sidecars = ledgers[run.id].sidecars
      BY <2>2 DEF Ledger, IInv, TypeOK
    <3>2. ledgers'[run.id] # NoLedger
      BY <3>1, Distinct
    <3>. QED  BY <3>1, <3>2, Recoverable DEF OnDisk
  <2>. QED  BY <2>1, <2>2
<1>. QED  BY <1>1 DEF Safe, RollbackLeavesVault, UndoRestores, Restored, DriftTold,
          JustFinishedIsUndoable

LEMMA SettleUndoSafe == ASSUME ConstantsOK, IInv, SettleUndo PROVE Safe'
<1>1. pc = "settle" /\ pc' = "idle" /\ run.mode = "undo"
      /\ UNCHANGED <<notes, comments, run, pre, history>>
      /\ answer' \in {"undone", "error"}
  BY DEF SettleUndo, Settle, vault
<1>2. CASE answer' = "error"
  BY <1>1, <1>2 DEF Safe, RollbackLeavesVault, NothingUnrecorded, UndoRestores, Restored,
     DriftTold, JustFinishedIsUndoable
<1>3. CASE answer' = "undone"
  <2>1. ~failed /\ ledgers' = [ledgers EXCEPT ![run.id].undone = TRUE]
    BY <1>3 DEF SettleUndo, Settle
  <2>2. run.id \in Ids /\ OnDisk(run.id) /\ ledgers[run.id] \in Ledger
        /\ ledgers[run.id].journal = run.journal /\ ledgers[run.id].sidecars = run.sidecars
    BY <1>1, OnDiskIs DEF IInv, Stage, Underway
  <2>3. /\ ledgers'[run.id].status = ledgers[run.id].status
        /\ ledgers'[run.id].hashes = ledgers[run.id].hashes
        /\ ledgers'[run.id].after = ledgers[run.id].after
    BY <2>1, <2>2 DEF IInv, TypeOK, Ledger
  <2>4. Restored'
    BY <1>1, <2>1, <2>2, BackAgain DEF IInv, Recorded, Restored
  <2>5. DriftTold'
    <3> SUFFICES ASSUME ledgers[run.id].status = "finished",
                        NEW p \in Paths \ (run.drifted \union run.unread)
                 PROVE  /\ notes[p] # pre.notes[p] => ledgers[run.id].hashes[p] = pre.notes[p]
                        /\ comments[p] # pre.comments[p] /\ p \in DOMAIN ledgers[run.id].after =>
                              ledgers[run.id].after[p] = pre.comments[p]
      BY <1>1, <2>3 DEF DriftTold
    <3>1. DOMAIN ledgers[run.id].hashes = DOMAIN ledgers[run.id].journal
      BY <2>2 DEF IInv, Recorded
    <3>2. notes[p] # pre.notes[p] => p \in DOMAIN ledgers[run.id].journal
      BY <1>1, <2>2 DEF IInv, Confined
    <3>. QED  BY <1>1, <3>1, <3>2 DEF IInv, Told
  <2>. QED  BY <1>1, <1>3, <2>4, <2>5 DEF Safe, RollbackLeavesVault, NothingUnrecorded,
            UndoRestores, JustFinishedIsUndoable
<1>. QED  BY <1>1, <1>2, <1>3

LEMMA SettleSteps ==
  ASSUME ConstantsOK, IInv, SettleRollback \/ SettleIncomplete \/ SettleUnrecorded \/ SettleUndo
  PROVE  IInv'
<1>1. Safe'
  <2>1. CASE SettleIncomplete
    <3>1. run.mode # "undo" /\ answer' = "incomplete"
          /\ \/ UNCHANGED ledgers
             \/ ledgers' = [ledgers EXCEPT ![run.id] = [ledgers[run.id] EXCEPT !.status = "incomplete"]]
      BY <2>1 DEF SettleIncomplete, Settle
    <3>. QED  BY <3>1, Settled, Unwound
  <2>2. CASE SettleUnrecorded
    <3>1. answer' = "error" /\ UNCHANGED ledgers
      BY <2>2 DEF SettleUnrecorded, Settle
    <3>. QED  BY <3>1, Settled, Unwound
  <2>. QED  BY <2>1, <2>2, SettleRollbackSafe, SettleUndoSafe
<1>2. Snapshot' \in Vaults /\ edits' \in 0..MaxEdits
  BY Settled DEF IInv, TypeOK, Snapshot
<1>. QED  BY <1>1, <1>2, Settled, LedgersKept

LEMMA CrashStep == ASSUME ConstantsOK, IInv, Crash PROVE IInv'
<1>1. pc # "idle" /\ pc' = "idle" /\ answer' = "crash"
      /\ UNCHANGED <<notes, comments, ledgers, seen, run, todo, failed, pre, history, edits>>
  BY DEF Crash, vault
<1>2. faults' \in 0..MaxFaults
  BY FaultMade DEF Crash
<1>3. Safe'
  BY <1>1, Unwound
<1>4. ledgers' \in [Ids -> Ledger \union {NoLedger}] /\ \A r \in Ids : LedgerBecomes(r, ledgers'[r])
  BY <1>1 DEF IInv, TypeOK, LedgerBecomes
<1>5. Snapshot' \in Vaults /\ answer' \in Answers /\ edits' \in 0..MaxEdits
  BY <1>1 DEF IInv, TypeOK, Snapshot, Answers
<1>. QED  BY <1>1, <1>2, <1>3, <1>4, <1>5, LedgersKept

LEMMA DeleteRunsStep == ASSUME ConstantsOK, IInv, DeleteRuns PROVE IInv'
<1>1. PICK stuck \in SUBSET {r \in Ids : OnDisk(r)} :
         /\ ledgers' = [r \in Ids |-> IF r \in stuck THEN ledgers[r] ELSE NoLedger]
         /\ IF stuck = {} THEN UNCHANGED faults ELSE Fault
  BY DEF DeleteRuns
<1>2. pc = "idle" /\ pc' = "idle" /\ answer' = "none"
      /\ UNCHANGED <<notes, comments, seen, run, todo, failed, pre, history, edits>>
  BY DEF DeleteRuns, vault
<1>3. faults' \in 0..MaxFaults
  BY <1>1, FaultMade DEF IInv, TypeOK
<1>4. Safe'
  BY <1>2 DEF Safe, RollbackLeavesVault, NothingUnrecorded, UndoRestores, Restored, DriftTold,
     JustFinishedIsUndoable
<1>5. DOMAIN ledgers' = Ids /\ ledgers' = [r \in Ids |-> ledgers'[r]]
      /\ \A r \in Ids : LedgerBecomes(r, ledgers'[r])
  BY <1>1 DEF LedgerBecomes
<1>6. Snapshot' \in Vaults /\ answer' \in Answers /\ edits' \in 0..MaxEdits
  BY <1>2 DEF IInv, TypeOK, Snapshot, Answers
<1>. QED  BY <1>2, <1>3, <1>4, <1>5, <1>6, LedgersKept

\* Between runs, a step that leaves the ledgers alone, and with them what is answered or the
\* vault.
LEMMA IdleSteps ==
  ASSUME ConstantsOK, IInv,
         \/ Refuse \/ Read
         \/ \E p \in Paths, x \in Optional(Texts) : EditNote(p, x)
         \/ \E p \in Paths, k \in Optional(Threads) : EditComments(p, k)
  PROVE  IInv'
<1>1. pc = "idle" /\ pc' = "idle" /\ UNCHANGED <<ledgers, run, todo, failed, pre, history, faults>>
      /\ \/ answer' \in {"refused", "none"}
         \/ UNCHANGED <<answer, notes, comments>>
  BY DEF Refuse, Read, EditNote, EditComments, Edit, vault
<1>2. notes \in [Paths -> Optional(Texts)] /\ comments \in [Paths -> Optional(Threads)]
  BY DEF IInv, TypeOK, Snapshot, Vaults
<1>3. notes' \in [Paths -> Optional(Texts)] /\ comments' \in [Paths -> Optional(Threads)]
  BY <1>2 DEF Refuse, Read, EditNote, EditComments, vault
<1>4. seen' \in [Paths -> Optional(Texts \ Garbled)]
  <2>1. \A p \in Paths : Wire(notes[p]) \in Optional(Texts \ Garbled)
    BY <1>2, WireMade
  <2>. QED  BY <2>1 DEF Refuse, Read, EditNote, EditComments, Edit, IInv, TypeOK
<1>5. edits' \in 0..MaxEdits /\ answer' \in Answers
  BY DEF Refuse, Read, EditNote, EditComments, Edit, IInv, TypeOK, Answers, ConstantsOK
<1>6. TypeOK'
  BY <1>1, <1>3, <1>4, <1>5 DEF IInv, TypeOK, Snapshot, Vaults, OnDisk
<1>7. Safe'
  <2>1. CASE answer' \in {"refused", "none"}
    BY <1>1, <2>1 DEF Safe, RollbackLeavesVault, NothingUnrecorded, UndoRestores, Restored,
       DriftTold, JustFinishedIsUndoable
  <2>2. CASE UNCHANGED <<answer, notes, comments>>
    BY <1>1, <2>2 DEF IInv, Safe, RollbackLeavesVault, NothingUnrecorded, UndoRestores, Restored,
       DriftTold, JustFinishedIsUndoable, OnDisk
  <2>. QED  BY <1>1, <2>1, <2>2
<1>. QED  BY <1>1, <1>6, <1>7, RecordedKept, Ended DEF IInv

LEMMA Stutters == ASSUME IInv, UNCHANGED vars PROVE IInv'
<1>1. TypeOK' /\ Safe' = Safe
  BY DEF IInv, TypeOK, vars, Snapshot, OnDisk, Safe, RollbackLeavesVault, NothingUnrecorded,
     UndoRestores, Restored, DriftTold, JustFinishedIsUndoable
<1>2. Stage' /\ Moving' /\ Planning' /\ Underway' /\ Confined' /\ PutBack' /\ Told' /\ Latest'
  BY DEF IInv, Stage, Moving, Planning, Underway, Confined, PutBack, Told, Latest, Applying,
     Restoring, OnDisk, Snapshot, vars
<1>. QED  BY <1>1, <1>2, RecordedKept DEF IInv, vars

-----------------------------------------------------------------------------
\* The theorems

LEMMA NextIInv == ASSUME ConstantsOK, IInv, [Next]_vars PROVE IInv'
<1>1. CASE Start(Ids, MoveLists)
  BY <1>1, BeginStep DEF Start
<1>2. CASE Refuse \/ Read
           \/ (\E p \in Paths, x \in Optional(Texts) : EditNote(p, x))
           \/ (\E p \in Paths, k \in Optional(Threads) : EditComments(p, k))
  BY <1>2, IdleSteps
<1>3. CASE Apply
  BY <1>3, PlanMoveStep, PlanEnds, JournalStep, WriteChangeStep, MovesOn, CarryCommentsStep,
     FailSteps, RecordStep, PruneStep DEF Apply
<1>4. CASE Restore
  BY <1>4, RestoreNoteStep, RestoreCommentsStep, RestoreFailsStep, RestoredSteps, SettleSteps
     DEF Restore
<1>5. CASE Crash \/ DeleteRuns
  BY <1>5, CrashStep, DeleteRunsStep
<1>6. CASE \E r \in Ids, unread \in SUBSET Paths : UndoBegin(r, unread)
  BY <1>6, UndoBeginStep
<1>7. CASE UNCHANGED vars
  BY <1>7, Stutters
<1>. QED  BY <1>1, <1>2, <1>3, <1>4, <1>5, <1>6, <1>7 DEF Next, Rest

\* The inductive invariant: what is on disk, in a ledger and in the memory of a run agree at
\* every step.
THEOREM Inductive == ASSUME ConstantsOK PROVE Spec => []IInv
<1>1. Init => IInv
  BY InitIInv
<1>2. IInv /\ [Next]_vars => IInv'
  BY NextIInv
<1>. QED  BY <1>1, <1>2, PTL DEF Spec

\* Every variable of a run has its type.
THEOREM TypeCorrect == ASSUME ConstantsOK PROVE Spec => []TypeOK
<1>1. IInv => TypeOK
  BY DEF IInv
<1>. QED  BY <1>1, Inductive, PTL

\* A run that reports a rollback, ApplyPreparedWorkflow, left the vault as it was.
THEOREM RollbackKept == ASSUME ConstantsOK PROVE Spec => []RollbackLeavesVault
<1>1. IInv => RollbackLeavesVault
  BY DEF IInv, Stage, Safe, RollbackLeavesVault
<1>. QED  BY <1>1, Inductive, PTL

\* Whatever a run has changed, at any step of it and however it ends, is in its ledger on disk.
THEOREM AlwaysRecorded == ASSUME ConstantsOK PROVE Spec => []NothingUnrecorded
<1>1. IInv => NothingUnrecorded
  <2>1. CASE pc = "idle"
    BY <2>1 DEF IInv, Safe
  <2>2. CASE pc # "idle"
    BY <2>2, Recoverable DEF NothingUnrecorded
  <2>. QED  BY <2>1, <2>2
<1>. QED  BY <1>1, Inductive, PTL

\* An undo that reports success, UndoWorkflowRun, has put back what its run found, and named the
\* notes whose newer changes it took.
THEOREM UndoKept == ASSUME ConstantsOK PROVE Spec => []UndoRestores
<1>1. IInv => UndoRestores
  BY DEF IInv, Stage, Safe, UndoRestores, Restored, DriftTold
<1>. QED  BY <1>1, Inductive, PTL

\* pruneWorkflowRunsLocked: where the clock is not set back between two runs, the run that has
\* just finished can be undone, whatever it holds and however small the limits are.
THEOREM FinishedUndoable ==
  ASSUME ConstantsOK, ~ClockSteps PROVE Spec => []JustFinishedIsUndoable
<1>1. IInv => JustFinishedIsUndoable
  BY DEF IInv, Stage, Safe, JustFinishedIsUndoable
<1>. QED  BY <1>1, Inductive, PTL

-----------------------------------------------------------------------------
\* Comments carried whole

LEMMA FilingsAppend ==
  ASSUME NEW ms \in Seq(Moves), NEW m \in Moves, NEW f \in Filings(ms),
         f[Len(ms) + 1][m.to] = None
  PROVE  \E g \in Filings(Append(ms, m)) :
            /\ g[1] = f[1]
            /\ g[Len(ms) + 2] = [f[Len(ms) + 1] EXCEPT ![m.from] = None,
                                                       ![m.to] = f[Len(ms) + 1][m.from]]
<1> DEFINE last == f[Len(ms) + 1]
           new == [last EXCEPT ![m.from] = None, ![m.to] = last[m.from]]
           g == [n \in 1..Len(ms) + 2 |-> IF n = Len(ms) + 2 THEN new ELSE f[n]]
<1>1. Len(ms) \in Nat /\ f \in [1..Len(ms) + 1 -> [Paths -> Optional(Threads)]] /\ Carries(f, ms)
  BY DEF Filings
<1>2. m.from \in Paths /\ m.to \in Paths
  BY DEF Moves
<1>3. new \in [Paths -> Optional(Threads)]
  <2>1. last \in [Paths -> Optional(Threads)]
    BY <1>1
  <2>. QED  BY <1>2, <2>1 DEF Optional
<1>4. Len(Append(ms, m)) = Len(ms) + 1 /\ Append(ms, m)[Len(ms) + 1] = m
      /\ \A n \in 1..Len(ms) : Append(ms, m)[n] = ms[n]
  OBVIOUS
<1>5. g \in [1..Len(Append(ms, m)) + 1 -> [Paths -> Optional(Threads)]]
  BY <1>1, <1>3, <1>4
<1>6. ASSUME NEW n \in 1..Len(ms) + 1
      PROVE  /\ g[n][Append(ms, m)[n].to] = None
             /\ g[n + 1] = [g[n] EXCEPT ![Append(ms, m)[n].from] = None,
                                        ![Append(ms, m)[n].to] = g[n][Append(ms, m)[n].from]]
  <2>1. CASE n = Len(ms) + 1
    <3>1. g[n] = last /\ g[n + 1] = new /\ Append(ms, m)[n] = m
      BY <1>1, <1>4, <2>1
    <3>. QED  BY <3>1
  <2>2. CASE n \in 1..Len(ms)
    <3>1. g[n] = f[n] /\ g[n + 1] = f[n + 1] /\ Append(ms, m)[n] = ms[n]
      BY <1>1, <1>4, <2>2
    <3> HIDE DEF g
    <3>. QED  BY <1>1, <2>2, <3>1 DEF Carries
  <2>3. n = Len(ms) + 1 \/ n \in 1..Len(ms)
    BY <1>1
  <2> HIDE DEF g
  <2>. QED  BY <2>1, <2>2, <2>3
<1>7. g[1] = f[1] /\ g[Len(ms) + 2] = new
  BY <1>1
<1> HIDE DEF g, new
<1>8. g \in Filings(Append(ms, m))
  BY <1>4, <1>5, <1>6 DEF Filings, Carries
<1>. QED  BY <1>7, <1>8 DEF new

LEMMA FilingsTail ==
  ASSUME NEW ms \in Seq(Moves), ms # <<>>, NEW f \in Filings(ms)
  PROVE  /\ f[1][Head(ms).to] = None
         /\ \E g \in Filings(Tail(ms)) :
               g[1] = [f[1] EXCEPT ![Head(ms).from] = None, ![Head(ms).to] = f[1][Head(ms).from]]
<1> DEFINE g == [n \in 1..Len(ms) |-> f[n + 1]]
<1>1. Len(ms) \in Nat \ {0} /\ Head(ms) = ms[1] /\ Tail(ms) \in Seq(Moves) /\ Len(Tail(ms)) = Len(ms) - 1
      /\ \A n \in 1..Len(ms) - 1 : Tail(ms)[n] = ms[n + 1]
  OBVIOUS
<1>2. f \in [1..Len(ms) + 1 -> [Paths -> Optional(Threads)]] /\ Carries(f, ms)
  BY DEF Filings
<1>3. /\ f[1][ms[1].to] = None
      /\ f[2] = [f[1] EXCEPT ![ms[1].from] = None, ![ms[1].to] = f[1][ms[1].from]]
  <2>1. 1 \in 1..Len(ms) /\ 1 + 1 = 2
    BY <1>1
  <2>. QED  BY <1>2, <2>1 DEF Carries
<1>4. g \in [1..Len(Tail(ms)) + 1 -> [Paths -> Optional(Threads)]]
  BY <1>1, <1>2
<1>5. ASSUME NEW n \in 1..Len(Tail(ms))
      PROVE  /\ g[n][Tail(ms)[n].to] = None
             /\ g[n + 1] = [g[n] EXCEPT ![Tail(ms)[n].from] = None, ![Tail(ms)[n].to] = g[n][Tail(ms)[n].from]]
  <2>1. n + 1 \in 1..Len(ms) /\ Tail(ms)[n] = ms[n + 1] /\ g[n] = f[n + 1] /\ g[n + 1] = f[(n + 1) + 1]
    BY <1>1
  <2> HIDE DEF g
  <2>. QED  BY <1>2, <2>1 DEF Carries
<1>6. g[1] = f[2]
  BY <1>1
<1> HIDE DEF g
<1>7. g \in Filings(Tail(ms))
  BY <1>4, <1>5 DEF Filings, Carries
<1>. QED  BY <1>1, <1>3, <1>6, <1>7

\* One move to where there are no comments.
LEMMA MoveWhole ==
  ASSUME ConstantsOK, IsFiniteSet(Paths), NEW c \in [Paths -> Optional(Threads)], NEW m \in Moves,
         c[m.to] = None,
         NEW d, d = [c EXCEPT ![m.from] = None, ![m.to] = c[m.from]]
  PROVE  Whole(d, c)
<1> SUFFICES ASSUME NEW k \in Threads
             PROVE  Cardinality({p \in Paths : d[p] = k}) = Cardinality({p \in Paths : c[p] = k})
  BY DEF Whole
<1> DEFINE before == {p \in Paths : c[p] = k}
           now == {p \in Paths : d[p] = k}
<1>1. m.from \in Paths /\ m.to \in Paths /\ m.from # m.to /\ k # None
  BY DEF Moves, ConstantsOK
<1>2. m.to \notin before
  BY <1>1
<1>3. IsFiniteSet(before)
  BY FS_Subset
<1>4. CASE c[m.from] = k
  <2>1. now = (before \ {m.from}) \union {m.to} /\ m.from \in before
    BY <1>1, <1>4
  <2>2. IsFiniteSet(before \ {m.from}) /\ Cardinality(before \ {m.from}) = Cardinality(before) - 1
    BY <1>3, <2>1, FS_RemoveElement
  <2>3. m.to \notin before \ {m.from}
    BY <1>2
  <2>4. Cardinality(now) = Cardinality(before \ {m.from}) + 1
    BY <2>1, <2>2, <2>3, FS_AddElement
  <2>5. Cardinality(before) \in Nat
    BY <1>3, FS_CardinalityType
  <2> HIDE DEF now, before
  <2>6. Cardinality(now) = Cardinality(before)
    BY <2>2, <2>4, <2>5
  <2>. QED  BY <2>6 DEF now, before
<1>5. CASE c[m.from] # k
  <2>1. now = before
    BY <1>1, <1>5
  <2>. QED  BY <2>1
<1>. QED  BY <1>4, <1>5

LEMMA WholeTrans == ASSUME NEW c, NEW d, NEW e, Whole(c, d), Whole(d, e) PROVE Whole(c, e)
BY DEF Whole

LEMMA WholeSame == ASSUME NEW c PROVE Whole(c, c)
BY DEF Whole

LEMMA PlanMoveCarries ==
  ASSUME ConstantsOK, IInv, Carrying, PlanMove
  PROVE  Carrying'
<1> DEFINE m == Head(run.moves)
<1>1. pc = "plan" /\ pc' = "plan" /\ run.moves # <<>> /\ Through(m.to) = None /\ run' = Carried(m)
      /\ comments' = comments /\ pre' = pre
  BY DEF PlanMove, vault
<1>2. m \in Moves /\ m.from \in Paths /\ m.to \in Paths
  BY <1>1, NextMove DEF Moves
<1>3. run \in Run /\ run.renames \in Seq(Moves)
  BY DEF IInv, TypeOK, Run
<1>4. PICK f \in Filings(run.renames) :
         f[1] = comments /\ f[Len(run.renames) + 1] = [p \in Paths |-> Through(p)]
  BY <1>1 DEF Carrying
<1>5. \E g \in Filings(run'.renames) :
         g[1] = comments /\ g[Len(run'.renames) + 1] = [p \in Paths |-> Through(p)']
  <2>1. CASE Through(m.from) = None
    <3>1. run'.renames = run.renames /\ run'.live = run.live
      BY <1>1, <1>3, <2>1 DEF Carried, Run
    <3>. QED  BY <1>1, <1>4, <3>1 DEF Through
  <2>2. CASE Through(m.from) # None
    <3> DEFINE through == [p \in Paths |-> Through(p)]
               new == [through EXCEPT ![m.from] = None, ![m.to] = through[m.from]]
    <3>1. run'.renames = Append(run.renames, m)
          /\ run'.live = Put(Put(run.live, m.from, None), m.to, Through(m.from))
      BY <1>1, <1>3, <2>2 DEF Carried, Run
    <3>2. new = [p \in Paths |-> Through(p)']
      BY <1>1, <1>2, <3>1 DEF Through, Put
    <3>3. through[m.to] = None
      BY <1>1, <1>2
    <3>4. f[Len(run.renames) + 1] = through
      BY <1>4
    <3> HIDE DEF m, through
    <3>5. \E g \in Filings(Append(run.renames, m)) :
             /\ g[1] = f[1]
             /\ g[Len(run.renames) + 2] = [f[Len(run.renames) + 1] EXCEPT
                                             ![m.from] = None, ![m.to] = f[Len(run.renames) + 1][m.from]]
      BY <1>2, <1>3, <3>3, <3>4, FilingsAppend
    <3>6. \E g \in Filings(Append(run.renames, m)) : g[1] = f[1] /\ g[Len(run.renames) + 2] = new
      BY <3>4, <3>5
    <3>7. Len(run'.renames) + 1 = Len(run.renames) + 2
      BY <1>2, <1>3, <3>1
    <3>. QED  BY <1>4, <3>1, <3>2, <3>6, <3>7
  <2>. QED  BY <2>1, <2>2
<1>6. Whole(comments', pre'.comments)
  BY <1>1 DEF Carrying
<1>. QED  BY <1>1, <1>5, <1>6 DEF Carrying, Applying

LEMMA CarryCommentsCarries ==
  ASSUME ConstantsOK, IsFiniteSet(Paths), IInv, Carrying, CarryComments
  PROVE  Carrying'
<1> DEFINE m == Head(run.renames)
<1>1. pc = "carry" /\ pc' = "carry" /\ run.renames # <<>> /\ run' = [run EXCEPT !.renames = Tail(run.renames)]
      /\ comments' = [comments EXCEPT ![m.from] = None, ![m.to] = comments[m.from]]
      /\ pre' = pre
  BY DEF CarryComments
<1>2. run \in Run /\ run.renames \in Seq(Moves) /\ comments \in [Paths -> Optional(Threads)]
  BY DEF IInv, TypeOK, Run, Snapshot, Vaults
<1>3. m \in Moves /\ run'.renames = Tail(run.renames)
  BY <1>1, <1>2 DEF Run
<1>4. PICK f \in Filings(run.renames) : f[1] = comments
  BY <1>1 DEF Carrying
<1>5. comments[m.to] = None /\ \E g \in Filings(Tail(run.renames)) : g[1] = comments'
  BY <1>1, <1>2, <1>4, FilingsTail
<1>6. Whole(comments', comments)
  BY <1>1, <1>2, <1>3, <1>5, MoveWhole
<1>7. Whole(comments, pre.comments)
  BY <1>1 DEF Carrying, Applying
<1>8. Whole(comments', pre'.comments)
  BY <1>1, <1>6, <1>7, WholeTrans
<1>. QED  BY <1>1, <1>3, <1>5, <1>8 DEF Carrying

LEMMA BeginCarries ==
  ASSUME IInv, NEW r \in Ids, NEW change \in Changes, NEW moves \in MoveLists, Begin(r, change, moves)
  PROVE  Carrying'
<1> DEFINE f == [n \in 1..1 |-> comments]
<1>1. pc' = "plan" /\ run'.renames = <<>> /\ run'.live = Empty /\ pre'.comments = comments
      /\ comments' = comments
  BY DEF Begin, Snapshot, vault
<1>2. comments \in [Paths -> Optional(Threads)]
  BY DEF IInv, TypeOK, Snapshot, Vaults
<1>3. f \in Filings(<<>>)
  BY <1>2 DEF Filings, Carries
<1>4. comments = [p \in Paths |-> Through(p)']
  BY <1>1, <1>2, EmptyMade DEF Through
<1>5. f[1] = comments /\ Len(run'.renames) + 1 = 1
  BY <1>1
<1> HIDE DEF f
<1>. QED  BY <1>1, <1>3, <1>4, <1>5, WholeSame DEF Carrying, Applying

\* A run that goes on with the moves it has planned, or has just succeeded.
LEMMA GoesOn ==
  ASSUME Carrying, UNCHANGED <<comments, pre>>, run'.renames = run.renames,
         \/ pc \in {"plan", "write"} /\ pc' = "write"
         \/ pc = "write" /\ pc' = "carry"
         \/ pc \in Applying /\ pc' \in {"record", "prune"}
         \/ pc = "prune" /\ pc' = "idle"
         \/ pc = "idle" /\ pc' = "idle" /\ answer' = answer
  PROVE  Carrying'
BY DEF Carrying, Applying, CommentsCarriedWhole, Whole

\* One that turns back, or has ended otherwise.
LEMMA TurnsBack == ASSUME pc' \in Restoring PROVE Carrying'
BY DEF Carrying, Restoring, Applying

LEMMA EndsOtherwise == ASSUME pc' = "idle", answer' # "ok" PROVE Carrying'
BY DEF Carrying, Applying, CommentsCarriedWhole

LEMMA ApplyCarries ==
  ASSUME ConstantsOK, IsFiniteSet(Paths), IInv, Carrying, Apply PROVE Carrying'
<1>1. CASE PlanMove
  BY <1>1, PlanMoveCarries
<1>2. CASE PlanRefused \/ PlanFails \/ ApplyFails \/ RecordFails
  <2>1. CASE PlanRefused \/ PlanFails
    <3>1. pc' = "idle" /\ answer' # "ok"
      BY <2>1 DEF PlanRefused, PlanFails
    <3>. QED  BY <3>1, EndsOtherwise
  <2>2. CASE ApplyFails \/ RecordFails
    <3>1. pc' = "notes"
      BY <2>2 DEF ApplyFails, RecordFails, StartRestore
    <3>. QED  BY <3>1, TurnsBack DEF Restoring
  <2>. QED  BY <1>2, <2>1, <2>2
<1>3. CASE Journal
  <2>1. run'.renames = run.renames
    BY <1>3 DEF Journal, IInv, TypeOK, Run
  <2>. QED  BY <1>3, <2>1, GoesOn DEF Journal, vault
<1>4. CASE CarryComments
  BY <1>4, CarryCommentsCarries
<1>5. CASE (\E p \in Paths : WriteChange(p)) \/ NotesWritten \/ CommentsCarried \/ Record \/ Prune
  BY <1>5, GoesOn DEF WriteChange, NotesWritten, CommentsCarried, Record, Prune, vault, Applying
<1>. QED  BY <1>1, <1>2, <1>3, <1>4, <1>5 DEF Apply

LEMMA NextCarries ==
  ASSUME ConstantsOK, IsFiniteSet(Paths), IInv, Carrying, [Next]_vars PROVE Carrying'
<1>1. CASE Start(Ids, MoveLists)
  BY <1>1, BeginCarries DEF Start
<1>2. CASE Apply
  BY <1>2, ApplyCarries
<1>3. CASE Restore \/ Crash \/ DeleteRuns \/ Refuse
           \/ (\E r \in Ids, unread \in SUBSET Paths : UndoBegin(r, unread))
           \/ (\E p \in Paths, x \in Optional(Texts) : EditNote(p, x))
           \/ (\E p \in Paths, k \in Optional(Threads) : EditComments(p, k))
  <2>1. CASE \/ \E p \in Paths : RestoreNote(p) \/ RestoreComments(p) \/ RestoreFails(p)
             \/ NotesRestored \/ CommentsRestored
             \/ \E r \in Ids, unread \in SUBSET Paths : UndoBegin(r, unread)
    <3>1. pc' \in Restoring
      BY <2>1 DEF RestoreNote, RestoreComments, RestoreFails, NotesRestored, CommentsRestored,
         UndoBegin, Restoring
    <3>. QED  BY <3>1, TurnsBack
  <2>2. CASE SettleRollback \/ SettleIncomplete \/ SettleUnrecorded \/ SettleUndo
    <3>1. pc' = "idle" /\ answer' # "ok"
      BY <2>2 DEF SettleRollback, SettleIncomplete, SettleUnrecorded, SettleUndo, Settle
    <3>. QED  BY <3>1, EndsOtherwise
  <2>3. CASE \/ Crash \/ DeleteRuns \/ Refuse
             \/ \E p \in Paths, x \in Optional(Texts) : EditNote(p, x)
             \/ \E p \in Paths, k \in Optional(Threads) : EditComments(p, k)
    <3>1. pc' = "idle" /\ answer' # "ok"
      BY <2>3 DEF Crash, DeleteRuns, Refuse, EditNote, EditComments, Edit
    <3>. QED  BY <3>1, EndsOtherwise
  <2>. QED  BY <1>3, <2>1, <2>2, <2>3 DEF Restore
<1>4. CASE Read
  BY <1>4, GoesOn DEF Read, vault
<1>5. CASE UNCHANGED vars
  BY <1>5 DEF vars, Carrying, Filings, Carries, Through, Whole, CommentsCarriedWhole
<1>. QED  BY <1>1, <1>2, <1>3, <1>4, <1>5 DEF Next, Rest

\* The moves of a run that succeeds carry every list of comments whole, however they are
\* chained: a list is filed under as many notes as before, of however many notes there are.
THEOREM CarriedWhole ==
  ASSUME ConstantsOK, IsFiniteSet(Paths) PROVE Spec => []CommentsCarriedWhole
<1>1. Init => Carrying
  BY DEF Init, Carrying, Applying, CommentsCarriedWhole
<1>2. IInv /\ IInv' /\ Carrying /\ [Next]_vars => Carrying'
  BY NextCarries
<1>3. IInv /\ Carrying => CommentsCarriedWhole
  BY DEF IInv, Stage, Carrying, CommentsCarriedWhole
<1>. QED  BY <1>1, <1>2, <1>3, Inductive, PTL DEF Spec
=============================================================================
