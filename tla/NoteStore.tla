----------------------------- MODULE NoteStore ------------------------------
(***************************************************************************)
(* What the relocations of Relocate promise a client: a note and its       *)
(* comments are a pair, and a call moves the pair in one step or leaves    *)
(* both where they are.  Only a call that says its state is uncertain, or  *)
(* one the process stopped in, may leave the two apart, and even then each *)
(* is whole, at the old path or at the new one.  One thing is not kept: a  *)
(* call from a link to the name of its note, or the other way round, may   *)
(* lose what had that name.                                                *)
(***************************************************************************)
CONSTANTS
    Items, Links, Places, Temps, None

Spots == Places \union Temps

VARIABLES
    content,   \* content[s]: the item at s
    comments,  \* comments[s]: the item whose comments are at s
    answer     \* what the last call returned

store == <<content, comments, answer>>

Renamed(f, s, d) == [f EXCEPT ![s] = None, ![d] = f[s]]

\* The destination may be another name of the source.
Alias(s, d) ==
    /\ s # d
    /\ content[d] # None
    /\ content[s] \in Links \/ content[d] \in Links

Free(s, d) == s = d \/ (comments[d] = None /\ (content[d] = None \/ Alias(s, d)))

\* What a call may leave of the notes when it is undone.
Undone(s, d) == {content} \union {c \in {[content EXCEPT ![d] = None]} : Alias(s, d)}

\* A call takes effect; it answers now or, if it still has to clean up, later.
Relocate(s, d) ==
    /\ Free(s, d)
    /\ content' = Renamed(content, s, d)
    /\ comments' = Renamed(comments, s, d)
    /\ answer' \in {"ok", "none"}

\* A call has no effect, or has not had it yet.
NoEffect ==
    /\ answer' \in {"none", "refused", "error", "ok", "uncertain", "crash"}
    /\ UNCHANGED <<content, comments>>

\* A call is undone; an alias is lost.
Lose(s, d) ==
    /\ Free(s, d)
    /\ content' \in Undone(s, d)
    /\ answer' = "error"
    /\ UNCHANGED comments

\* The two are left apart, and the answer does not say otherwise.
Part(s, d) ==
    /\ Free(s, d)
    /\ content' \in Undone(s, d) \union {Renamed(content, s, d)}
    /\ comments' \in {comments, Renamed(comments, s, d)}
    /\ answer' \in {"uncertain", "crash"}

\* What was deleted is gone for good.
Discard(d) ==
    /\ d \in Temps
    /\ content' = [content EXCEPT ![d] = None]
    /\ comments' = [comments EXCEPT ![d] = None]
    /\ answer' = "ok"

\* A client creates a note, a copy, or writes the comments of a path.
Write(p) ==
    /\ p \in Places
    /\ \E i \in Items \union {None}, c \in Items \union {None} :
          /\ content[p] # None => i = content[p]
          /\ content' = [content EXCEPT ![p] = i]
          /\ comments' = [comments EXCEPT ![p] = c]
    /\ answer' = "none"

Init ==
    /\ content \in [Spots -> Items \union {None}]
    /\ comments \in [Spots -> Items \union {None}]
    /\ \A s \in Spots : comments[s] \in {None, content[s]}
    /\ answer = "none"

Next ==
    \/ NoEffect
    \/ \E s \in Places, d \in Spots : Relocate(s, d) \/ Lose(s, d) \/ Part(s, d)
    \/ \E d \in Temps : Discard(d)
    \/ \E p \in Places : Write(p)

Spec == Init /\ [][Next]_store
=============================================================================
