---------------------------- MODULE NoteComments ----------------------------
(***************************************************************************)
(* The comments of notes, kept in a file beside each: read, written,       *)
(* joined with those of another note when the note is moved onto its path, *)
(* and copied with a duplicate.  The Locked functions about comments of    *)
(* internal/vault/vault.go, which the server's lock keeps apart; a writing *)
(* may fail midway, or the server stop.                                    *)
(*                                                                         *)
(* A list of comments is a function from their IDs to the IDs they reply   *)
(* to: of two with one ID the first counts, empty ones are dropped, and    *)
(* one without an ID gets a new one, so that is all a list comes to; what  *)
(* a comment says and the order of a list are left out.                    *)
(***************************************************************************)
EXTENDS Naturals

CONSTANTS
    Owners,
    Ids,      \* of comments
    Nil,        \* no parent; no file; no request
    Torn,       \* a file that does not parse
    MaxCalls,   \* bound: requests
    Cuts        \* bound: requests that break off

List == UNION {[S -> Ids \union {Nil}] : S \in SUBSET Ids}

CommentConstantsOK ==
    /\ Nil # Torn /\ Ids \intersect {Nil, Torn} = {} /\ List \intersect {Nil, Torn} = {}
    /\ Nil \notin Owners
    /\ MaxCalls \in Nat /\ Cuts \in Nat

VARIABLES
    lists,    \* what each note's file holds: a list, Nil or Torn
    call,     \* the request under way, or Nil
    owed,     \* the comments that have to be in some note
    looped,   \* whether somebody wrote replies that go round, which no step refuses
    calls, cuts

commentVars == <<lists, call, owed, looped, calls, cuts>>

Call == [pc : {"truncate", "fill", "drop", "rename"}, from : Owners \union {Nil},
         to : Owners, list : List]

CommentTypeOK ==
    /\ lists \in [Owners -> List \union {Nil, Torn}]
    /\ call = Nil \/ call \in Call
    /\ owed \subseteq Ids
    /\ looped \in BOOLEAN
    /\ calls \in 0..MaxCalls /\ cuts \in 0..Cuts

-----------------------------------------------------------------------------
\* Lists

\* normalizeComments: a reply whose parent is gone, or is itself, replies to nothing.
Normal(list) == [i \in DOMAIN list |-> IF list[i] \in DOMAIN list \ {i} THEN list[i] ELSE Nil]

NoFile == [i \in {} |-> Nil]

\* readNoteCommentsLocked: no file, or none that can be read, is no comments.
Read(n) == IF lists[n] \in {Nil, Torn} THEN NoFile ELSE Normal(lists[n])

\* What is there stays, and what is moved follows.
Merged(old, moving) ==
    [i \in DOMAIN old \union DOMAIN moving |-> IF i \in DOMAIN old THEN old[i] ELSE moving[i]]

\* A list in which nobody replies, through others, to their own reply.
Threaded(list) ==
    \A S \in SUBSET DOMAIN list : S # {} => \E i \in S : list[i] \notin S

\* Files as clients and other programs wrote them: parents may be missing, and replies
\* may go round.
CommentInit ==
    /\ lists \in [Owners -> {Nil}] \/ \E n \in Owners, list \in List :
           \E other \in {Nil} \union List : lists = [m \in Owners |-> IF m = n THEN list ELSE other]
    /\ looped = \E n \in Owners : ~Threaded(Read(n))
    /\ call = Nil
    /\ owed = UNION {DOMAIN Read(n) : n \in Owners}
    /\ calls = 0 /\ cuts = 0

-----------------------------------------------------------------------------
\* Requests

BeginCall(next) == call = Nil /\ calls < MaxCalls /\ calls' = calls + 1 /\ call' = next /\ UNCHANGED cuts

\* writeNoteCommentsLocked of a client's list: none removes the file.
WriteList(n) ==
    \E list \in List :
        /\ looped' = (looped \/ ~Threaded(Normal(list)))
        /\ IF list = NoFile
           THEN BeginCall(Nil) /\ lists' = [lists EXCEPT ![n] = Nil]
           ELSE BeginCall([pc |-> "truncate", from |-> Nil, to |-> n, list |-> Normal(list)])
                /\ UNCHANGED lists
        /\ owed' = owed \ DOMAIN Read(n)

\* moveNoteCommentsLocked: renamed where nothing is, else joined with what is there; two
\* files without a comment both go.
MoveList(a, b) ==
    /\ a # b /\ lists[a] # Nil
    /\ LET joined == Normal(Merged(Read(b), Read(a)))
           Then(pc) == BeginCall([pc |-> pc, from |-> a, to |-> b, list |-> joined])
       IN  \/ lists[b] = Nil /\ Then("rename") /\ UNCHANGED lists
           \/ lists[b] # Nil /\ joined # NoFile /\ Then("truncate") /\ UNCHANGED lists
           \/ lists[b] # Nil /\ joined = NoFile /\ Then("drop") /\ lists' = [lists EXCEPT ![b] = Nil]
    /\ UNCHANGED <<owed, looped>>

\* copyNoteCommentsLocked: each comment under a new ID.
CopyList(a, b) ==
    /\ a # b /\ DOMAIN Read(a) # {}
    /\ \E new \in [DOMAIN Read(a) -> Ids \ UNION {DOMAIN Read(n) : n \in Owners}] :
         /\ \A i, j \in DOMAIN new : new[i] = new[j] => i = j
         /\ LET old == [k \in {new[i] : i \in DOMAIN new} |-> CHOOSE i \in DOMAIN new : new[i] = k]
            IN  BeginCall([pc |-> "truncate", from |-> Nil, to |-> b,
                       list |-> Normal([k \in DOMAIN old |-> Read(a)[old[k]]])])
    /\ owed' = owed \ DOMAIN Read(b)
    /\ UNCHANGED <<lists, looped>>

\* Mutant: the file that was moved from goes before the joined one is written.
TruncateDropping ==
    /\ call # Nil /\ call.pc = "truncate"
    /\ lists' = [n \in Owners |-> IF n = call.to THEN Torn ELSE IF n = call.from THEN Nil ELSE lists[n]]
    /\ call' = [call EXCEPT !.pc = "fill"]
    /\ owed' = owed \ (DOMAIN Read(call.to) \ UNION {DOMAIN Read(n) : n \in Owners \ {call.to}})
    /\ UNCHANGED <<looped, calls, cuts>>

\* os.WriteFile: the file is emptied and then filled.  What it alone held is at risk.
Truncate ==
    /\ call # Nil /\ call.pc = "truncate"
    /\ lists' = [lists EXCEPT ![call.to] = Torn]
    /\ call' = [call EXCEPT !.pc = "fill"]
    /\ owed' = owed \ (DOMAIN Read(call.to) \ UNION {DOMAIN Read(n) : n \in Owners \ {call.to}})
    /\ UNCHANGED <<looped, calls, cuts>>

Fill ==
    /\ call # Nil /\ call.pc = "fill"
    /\ lists' = [lists EXCEPT ![call.to] = call.list]
    /\ call' = IF call.from = Nil THEN Nil ELSE [call EXCEPT !.pc = "drop"]
    /\ owed' = owed \union DOMAIN call.list
    /\ UNCHANGED <<looped, calls, cuts>>

Drop ==
    /\ call # Nil /\ call.pc = "drop"
    /\ lists' = [lists EXCEPT ![call.from] = Nil]
    /\ call' = Nil
    /\ UNCHANGED <<owed, looped, calls, cuts>>

Rename ==
    /\ call # Nil /\ call.pc = "rename"
    /\ lists' = [lists EXCEPT ![call.to] = lists[call.from], ![call.from] = Nil]
    /\ call' = Nil
    /\ UNCHANGED <<owed, looped, calls, cuts>>

\* A step fails and the request ends there, or the server stops.
BreakOff ==
    /\ call # Nil /\ cuts < Cuts
    /\ cuts' = cuts + 1 /\ call' = Nil
    /\ UNCHANGED <<lists, owed, looped, calls>>

CommentNext ==
    \/ Truncate \/ Fill \/ Drop \/ Rename \/ BreakOff
    \/ \E n \in Owners : WriteList(n)
    \/ \E a, b \in Owners : MoveList(a, b) \/ CopyList(a, b)

CommentSpec == CommentInit /\ [][CommentNext]_commentVars

-----------------------------------------------------------------------------
\* Properties

\* However notes and their comments were moved onto each other, every comment that is
\* read replies to nothing or to a comment there, and unless somebody wrote replies that
\* go round, its replies lead back to a comment that replies to nothing: it is in the
\* thread view ("rather than vanishing from the thread view").
ThreadsHold ==
    \A n \in Owners :
        /\ \A i \in DOMAIN Read(n) : Read(n)[i] \in DOMAIN Read(n) \union {Nil}
        /\ looped \/ Threaded(Read(n))

\* A request that breaks off loses none of the comments that it moves or copies, and
\* none of another note.
NoneLost == owed \subseteq UNION {DOMAIN Read(n) : n \in Owners}

\* Every comment has a place in its thread, whatever notes were moved onto each other,
\* and a request that breaks off loses none of the comments it moves or copies.
CommentsKept == ThreadsHold /\ NoneLost
=============================================================================
