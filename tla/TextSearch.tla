----------------------------- MODULE TextSearch -----------------------------
(***************************************************************************)
(* The text search of internal/vault/vault.go: a search signs the notes    *)
(* (path, size and modification time of each), takes the cached lines when *)
(* they bear that signature and reads the notes otherwise, and keeps what  *)
(* it read under the signature.  Searches share a read lock, under which   *)
(* no note is written by the server; other programs write when they like.  *)
(*                                                                         *)
(* A note is one line, which has a query in it or not.  Size and time are  *)
(* one stamp, new at every write.                                          *)
(***************************************************************************)
EXTENDS Integers, FiniteSets

CONSTANTS
    Files,       \* the notes, numbered in the order of the walk: 1..n
    Searchers,   \* the searches
    Bodies,      \* the lines; a query is one of them
    Templates,   \* the notes that a template folder may hold
    Limit,       \* how many matches a search returns
    MaxWrites,   \* how many writes of notes, deletions and settings there may be
    ReadsFail,   \* a note may fail to be read
    None

ConstantsOK ==
    /\ IsFiniteSet(Files) /\ Files = 1..Cardinality(Files)
    /\ Templates \subseteq Files
    /\ Limit \in Nat \ {0}
    /\ MaxWrites \in Nat
    /\ ReadsFail \in BOOLEAN
    /\ None \notin Bodies \union Nat
    /\ None \notin [line : Bodies, stamp : Nat]

VARIABLES
    disk,      \* disk[f]: the note's line and stamp, or None
    template,  \* the notes in the template folder
    cache,     \* searchCache: a signature and lines, or None; and which notes of
               \* the walk the lines are missing of, as they could not be read
    search,    \* search[s]: what the search s has in hand
    pc,        \* pc[s]: how far it is
    writes,    \* how many writes there have been: the next stamp
    seen       \* seen[s][f]: the lines the note f has had since s began, None among them

vars == <<disk, template, cache, search, pc, writes, seen>>

Idle == [query |-> None, sig |-> [f \in Files |-> None], lines |-> [f \in Files |-> None],
         todo |-> {}, unread |-> {}, found |-> {}, skipped |-> {}]

Line(f) == IF disk[f] = None THEN None ELSE disk[f].line

Init ==
    /\ \E b \in [Files -> Bodies \union {None}] :
          disk = [f \in Files |-> IF b[f] = None THEN None ELSE [line |-> b[f], stamp |-> 0]]
    /\ template \in SUBSET Templates
    /\ cache = None
    /\ search = [s \in Searchers |-> Idle]
    /\ pc = [s \in Searchers |-> "idle"]
    /\ writes = 0
    /\ seen = [s \in Searchers |-> [f \in Files |-> {}]]

-----------------------------------------------------------------------------
\* A search

Begin(s) ==
    /\ pc[s] \in {"idle", "done"}
    /\ \E q \in Bodies : search' = [search EXCEPT ![s] = [Idle EXCEPT !.query = q, !.todo = Files]]
    /\ pc' = [pc EXCEPT ![s] = "sign"]
    /\ seen' = [seen EXCEPT ![s] = [f \in Files |-> {Line(f)}]]
    /\ UNCHANGED <<disk, template, cache, writes>>

\* The walk stats the notes one after the other.
Sign(s) ==
    /\ pc[s] = "sign"
    /\ \E f \in search[s].todo :
          /\ \A g \in search[s].todo : f <= g
          /\ search' = [search EXCEPT
                ![s].sig[f] = IF disk[f] = None THEN None ELSE disk[f].stamp,
                ![s].todo = @ \ {f}]
    /\ UNCHANGED <<disk, template, cache, pc, writes, seen>>

\* Mutant: any cached lines will do.
CheckAny(s) ==
    /\ pc[s] = "sign"
    /\ search[s].todo = {}
    /\ IF cache # None
       THEN /\ search' = [search EXCEPT ![s].lines = cache.lines, ![s].unread = cache.unread]
            /\ pc' = [pc EXCEPT ![s] = "filter"]
       ELSE /\ search' = [search EXCEPT ![s].todo = {f \in Files : search[s].sig[f] # None}]
            /\ pc' = [pc EXCEPT ![s] = "read"]
    /\ UNCHANGED <<disk, template, cache, writes, seen>>

\* The cached lines bear the signature, or the notes of the walk are to be read.
Check(s) ==
    /\ pc[s] = "sign"
    /\ search[s].todo = {}
    /\ IF cache # None /\ cache.sig = search[s].sig
       THEN /\ search' = [search EXCEPT ![s].lines = cache.lines, ![s].unread = cache.unread]
            /\ pc' = [pc EXCEPT ![s] = "filter"]
       ELSE /\ search' = [search EXCEPT ![s].todo = {f \in Files : search[s].sig[f] # None}]
            /\ pc' = [pc EXCEPT ![s] = "read"]
    /\ UNCHANGED <<disk, template, cache, writes, seen>>

\* The readers run at once, in any order; a note that cannot be read has no lines.
Read(s) ==
    /\ pc[s] = "read"
    /\ \E f \in search[s].todo :
          \/ search' = [search EXCEPT ![s].lines[f] = Line(f), ![s].todo = @ \ {f}]
          \/ /\ ReadsFail
             /\ search' = [search EXCEPT ![s].todo = @ \ {f}, ![s].unread = @ \union {f}]
    /\ UNCHANGED <<disk, template, cache, pc, writes, seen>>

\* Another search may have stored lines of the same signature meanwhile.
Store(s) ==
    /\ pc[s] = "read"
    /\ search[s].todo = {}
    /\ IF cache # None /\ cache.sig = search[s].sig
       THEN /\ search' = [search EXCEPT ![s].lines = cache.lines, ![s].unread = cache.unread]
            /\ UNCHANGED cache
       ELSE /\ cache' = [sig |-> search[s].sig, lines |-> search[s].lines,
                         unread |-> search[s].unread]
            /\ UNCHANGED search
    /\ pc' = [pc EXCEPT ![s] = "filter"]
    /\ UNCHANGED <<disk, template, writes, seen>>

Matching(s) == {f \in Files : search[s].lines[f] = search[s].query}

\* The first matches that are not templates, up to the limit.
Filter(s) ==
    /\ pc[s] = "filter"
    /\ LET hits == Matching(s) \ template
       IN  search' = [search EXCEPT
              ![s] = [Idle EXCEPT
                 !.query = search[s].query, !.unread = search[s].unread, !.skipped = template,
                 !.found = {f \in hits : Cardinality({g \in hits : g < f}) < Limit}]]
    /\ pc' = [pc EXCEPT ![s] = "done"]
    /\ UNCHANGED <<disk, template, cache, writes, seen>>

-----------------------------------------------------------------------------
\* What happens around it

Running(s) == pc[s] \notin {"idle", "done"}

\* A note is written or removed, which every running search lives through.
Change(f, new) ==
    /\ writes < MaxWrites
    /\ writes' = writes + 1
    /\ disk' = [disk EXCEPT ![f] = IF new = None THEN None
                                   ELSE [line |-> new, stamp |-> writes + 1]]
    /\ seen' = [s \in Searchers |->
                  IF Running(s) THEN [seen[s] EXCEPT ![f] = @ \union {new}] ELSE seen[s]]

\* The server writes under the write lock, and drops the cache.
ServerWrite(f) ==
    /\ \A s \in Searchers : ~Running(s)
    /\ \E b \in Bodies \union {None} : Change(f, b)
    /\ cache' = None
    /\ UNCHANGED <<template, search, pc>>

\* Another program writes or deletes a note.
OtherWrite(f) ==
    /\ \E b \in Bodies \union {None} : Change(f, b)
    /\ UNCHANGED <<template, cache, search, pc>>

\* Settings are saved without the lock; another template folder, and the cache drops.
SaveSettings ==
    /\ writes < MaxWrites
    /\ writes' = writes + 1
    /\ template' \in SUBSET Templates
    /\ cache' = None
    /\ UNCHANGED <<disk, search, pc, seen>>

Searching(s) == Begin(s) \/ Sign(s) \/ Check(s) \/ Read(s) \/ Store(s) \/ Filter(s)

Next ==
    \/ \E s \in Searchers : Searching(s)
    \/ \E f \in Files : ServerWrite(f) \/ OtherWrite(f)
    \/ SaveSettings

Spec == Init /\ [][Next]_vars

-----------------------------------------------------------------------------
\* Properties

Lines == Bodies \union {None}
Stamps == Nat \union {None}
Found == [sig : [Files -> Stamps], lines : [Files -> Lines], unread : SUBSET Files]

\* Types: a search returns Limit matches at the most.
TypeOK ==
    /\ disk \in [Files -> [line : Bodies, stamp : 0..writes] \union {None}]
    /\ template \in SUBSET Templates
    /\ cache = None \/ cache \in Found
    /\ search \in [Searchers -> [query : Lines, sig : [Files -> Stamps],
                                 lines : [Files -> Lines], todo : SUBSET Files,
                                 unread : SUBSET Files, found : SUBSET Files,
                                 skipped : SUBSET Files]]
    /\ \A s \in Searchers : Cardinality(search[s].found) <= Limit
    /\ seen \in [Searchers -> [Files -> SUBSET Lines]]
    /\ pc \in [Searchers -> {"idle", "sign", "read", "filter", "done"}]
    /\ writes \in 0..MaxWrites

\* A search answers for the time it ran in: a note it returns had the query at some
\* moment of the search, and a note it leaves out was without it at some moment, or is
\* a template, or comes after the limit, or failed to be read, in this search or in
\* the one whose lines it took.  The cache, which several searches fill at once while
\* other programs write, never shows otherwise.
AnswersTheTime ==
    \A s \in Searchers : pc[s] = "done" =>
       \A f \in Files :
          IF f \in search[s].found THEN search[s].query \in seen[s][f]
          ELSE \/ seen[s][f] # {search[s].query}
               \/ f \in search[s].skipped \union search[s].unread
               \/ Cardinality({g \in search[s].found : g < f}) = Limit
=============================================================================
