-------------------------- MODULE VaultDiskProofs --------------------------
(***************************************************************************)
(* What is proved of the comments of notes (NoteComments), of the demo     *)
(* tour (DemoTour) and of the layout of a vault (VaultLayout): their       *)
(* types, that every comment keeps its place and none is lost, that a tour *)
(* comes and goes as a whole and leaves the user's files, and that no two  *)
(* walks of a listing come by a note.  Each component has its own          *)
(* variables and an inductive invariant over them.                         *)
(***************************************************************************)
EXTENDS NoteComments, DemoTour, VaultLayout, TLAPS

-----------------------------------------------------------------------------
\* NoteComments

\* A list as it is read: a reply's parent is in it, and is not the reply.
IsNormal(list) == \A i \in DOMAIN list : list[i] \in DOMAIN list \union {Nil}

\* A list in threads, where nobody wrote replies that go round.
Fits(round, list) == round \/ Threaded(list)

CallOK ==
    call # Nil =>
        /\ IsNormal(call.list) /\ Fits(looped, call.list)
        /\ call.from # call.to
        /\ call.pc = "fill" => lists[call.to] = Torn
        /\ call.pc = "rename" => call.from # Nil /\ lists[call.to] = Nil
        /\ call.pc = "drop" => call.from # Nil /\ DOMAIN Read(call.to) = DOMAIN call.list
        /\ call.from # Nil => DOMAIN Read(call.from) \subseteq DOMAIN call.list

CommentInv ==
    /\ CommentTypeOK
    /\ \A n \in Owners : Fits(looped, Read(n))
    /\ CallOK
    /\ NoneLost

-----------------------------------------------------------------------------
\* Lists

\* A list's comments have IDs, and none of them is Nil or Torn.
LEMMA ListOf ==
    ASSUME CommentConstantsOK, NEW list \in List
    PROVE  /\ DOMAIN list \subseteq Ids /\ Nil \notin DOMAIN list
           /\ \A i \in DOMAIN list : list[i] \in Ids \union {Nil}
           /\ list \notin {Nil, Torn}
  <1>1. PICK S \in SUBSET Ids : list \in [S -> Ids \union {Nil}]
    BY DEF List
  <1> QED
    BY <1>1 DEF CommentConstantsOK

\* What becomes of a list when it is read.
LEMMA NormalOf ==
    ASSUME CommentConstantsOK, NEW list \in List
    PROVE  /\ Normal(list) \in List /\ DOMAIN Normal(list) = DOMAIN list
           /\ IsNormal(Normal(list))
           /\ \A l \in BOOLEAN : Fits(l, list) => Fits(l, Normal(list))
  <1>1. DOMAIN list \subseteq Ids /\ Nil \notin DOMAIN list
    BY ListOf
  <1>2. DOMAIN Normal(list) = DOMAIN list
    BY DEF Normal
  <1>3. Normal(list) \in [DOMAIN list -> Ids \union {Nil}]
    BY <1>1 DEF Normal
  <1>4. IsNormal(Normal(list))
    BY DEF Normal, IsNormal
  <1>5. ASSUME Threaded(list) PROVE Threaded(Normal(list))
    <2> SUFFICES ASSUME NEW S \in SUBSET DOMAIN list, S # {}
                 PROVE  \E i \in S : Normal(list)[i] \notin S
      BY <1>2 DEF Threaded
    <2>1. PICK i \in S : list[i] \notin S
      BY <1>5 DEF Threaded
    <2>2. Normal(list)[i] \in {list[i], Nil}
      BY DEF Normal
    <2> QED
      BY <2>1, <2>2, <1>1
  <1> QED
    BY <1>1, <1>2, <1>3, <1>4, <1>5 DEF List, Fits

LEMMA EmptyList ==
    /\ NoFile \in List /\ DOMAIN NoFile = {} /\ IsNormal(NoFile)
    /\ \A list \in List : DOMAIN list = {} => list = NoFile
  <1>1. NoFile \in [{} -> Ids \union {Nil}]
    BY DEF NoFile
  <1>2. DOMAIN NoFile = {}
    BY DEF NoFile
  <1>3. ASSUME NEW list \in List, DOMAIN list = {} PROVE list = NoFile
    BY <1>3 DEF List, NoFile
  <1> QED
    BY <1>1, <1>2, <1>3 DEF List, IsNormal

\* Nobody replies in an empty list.
LEMMA EmptyFits == Fits(looped, NoFile)
  BY DEF Fits, Threaded, NoFile

\* What a note's file is read as.
LEMMA ReadOf ==
    ASSUME CommentConstantsOK, CommentTypeOK, NEW n \in Owners
    PROVE  Read(n) \in List /\ IsNormal(Read(n))
  <1>1. CASE lists[n] \in {Nil, Torn}
    BY <1>1, EmptyList DEF Read
  <1>2. CASE lists[n] \notin {Nil, Torn}
    <2>1. lists[n] \in List
      BY <1>2 DEF CommentTypeOK
    <2> QED
      BY <1>2, <2>1, NormalOf DEF Read
  <1> QED
    BY <1>1, <1>2

\* Two lists that are each in threads are so together: what is there keeps its parents,
\* which are there as well.
LEMMA MergedOf ==
    ASSUME CommentConstantsOK, NEW old \in List, NEW moving \in List, NEW l \in BOOLEAN,
           IsNormal(old), Fits(l, old), Fits(l, moving)
    PROVE  /\ Merged(old, moving) \in List
           /\ DOMAIN Merged(old, moving) = DOMAIN old \union DOMAIN moving
           /\ Fits(l, Merged(old, moving))
  <1> DEFINE m == Merged(old, moving)
  <1>1. /\ DOMAIN old \subseteq Ids /\ DOMAIN moving \subseteq Ids
        /\ Nil \notin DOMAIN old /\ Nil \notin DOMAIN moving
        /\ \A i \in DOMAIN old : old[i] \in Ids \union {Nil}
        /\ \A i \in DOMAIN moving : moving[i] \in Ids \union {Nil}
    BY ListOf
  <1>2. DOMAIN m = DOMAIN old \union DOMAIN moving
    BY DEF Merged
  <1>3. m \in [DOMAIN old \union DOMAIN moving -> Ids \union {Nil}]
    BY <1>1 DEF Merged
  <1>4. ASSUME ~l, NEW S \in SUBSET DOMAIN m, S # {} PROVE \E i \in S : m[i] \notin S
    <2>1. CASE S \intersect DOMAIN old # {}
      <3>1. PICK i \in S \intersect DOMAIN old : old[i] \notin S \intersect DOMAIN old
        BY <1>4, <2>1 DEF Fits, Threaded
      <3>2. old[i] \in DOMAIN old \union {Nil}
        BY <3>1 DEF IsNormal
      <3>3. m[i] = old[i]
        BY <3>1 DEF Merged
      <3> QED
        BY <1>1, <1>2, <3>1, <3>2, <3>3
    <2>2. CASE S \intersect DOMAIN old = {}
      <3>1. S \subseteq DOMAIN moving
        BY <2>2, <1>2
      <3>2. PICK i \in S : moving[i] \notin S
        BY <3>1, <1>4 DEF Fits, Threaded
      <3>3. m[i] = moving[i]
        BY <3>1, <3>2, <2>2 DEF Merged
      <3> QED
        BY <3>2, <3>3
    <2> QED
      BY <2>1, <2>2
  <1> QED
    BY <1>1, <1>2, <1>3, <1>4 DEF List, Fits, Threaded

-----------------------------------------------------------------------------
\* The invariant

LEMMA CommentStart == ASSUME CommentConstantsOK, CommentInit PROVE CommentInv
  <1>1. \A n \in Owners : lists[n] \in List \union {Nil, Torn}
    <2>1. CASE lists \in [Owners -> {Nil}]
      BY <2>1
    <2>2. CASE \E n \in Owners, list \in List :
                 \E other \in {Nil} \union List : lists = [m \in Owners |-> IF m = n THEN list ELSE other]
      <3> SUFFICES ASSUME NEW k \in Owners PROVE lists[k] \in List \union {Nil, Torn}
        OBVIOUS
      <3>1. PICK n \in Owners, list \in List :
              \E other \in {Nil} \union List : lists = [m \in Owners |-> IF m = n THEN list ELSE other]
        BY <2>2
      <3>2. PICK other \in {Nil} \union List : lists = [m \in Owners |-> IF m = n THEN list ELSE other]
        BY <3>1
      <3>3. lists[k] = IF k = n THEN list ELSE other
        BY <3>2
      <3> QED
        BY <3>3
    <2>3. \/ lists \in [Owners -> {Nil}]
          \/ \E n \in Owners, list \in List :
               \E other \in {Nil} \union List : lists = [m \in Owners |-> IF m = n THEN list ELSE other]
      BY DEF CommentInit
    <2> QED
      BY <2>1, <2>2, <2>3, Zenon
  <1>2. lists \in [Owners -> List \union {Nil, Torn}]
    <2>1. CASE lists \in [Owners -> {Nil}]
      BY <2>1
    <2>2. CASE \E n \in Owners, list \in List :
                 \E other \in {Nil} \union List : lists = [m \in Owners |-> IF m = n THEN list ELSE other]
      BY <2>2
    <2> QED
      BY <2>1, <2>2 DEF CommentInit
  <1>3. ASSUME NEW n \in Owners PROVE DOMAIN Read(n) \subseteq Ids
    <2>1. CASE lists[n] \in {Nil, Torn}
      BY <2>1, EmptyList DEF Read
    <2>2. CASE lists[n] \notin {Nil, Torn}
      <3>1. lists[n] \in List
        BY <1>1, <2>2
      <3> QED
        BY <2>2, <3>1, NormalOf, ListOf DEF Read
    <2> QED
      BY <2>1, <2>2
  <1>4. /\ call = Nil /\ calls = 0 /\ cuts = 0
        /\ owed = UNION {DOMAIN Read(n) : n \in Owners}
        /\ looped \in BOOLEAN /\ \A n \in Owners : Fits(looped, Read(n))
    BY Zenon DEF CommentInit, Fits
  <1>5. owed \subseteq Ids
    BY <1>3, <1>4
  <1>6. CommentTypeOK
    BY <1>2, <1>4, <1>5 DEF CommentTypeOK, CommentConstantsOK
  <1> QED
    BY <1>4, <1>6 DEF CommentInv, CallOK, NoneLost

\* One file is written: what else is read stays.
LEMMA OneWritten ==
    ASSUME NEW t \in Owners, NEW n \in Owners, n # t, lists'[n] = lists[n]
    PROVE  Read(n)' = Read(n)
  BY DEF Read

LEMMA WriteKeeps ==
    ASSUME CommentConstantsOK, CommentInv, NEW t \in Owners, WriteList(t)
    PROVE  CommentInv'
  <1> USE DEF CommentInv
  <1>1. PICK list \in List :
          /\ looped' = (looped \/ ~Threaded(Normal(list)))
          /\ IF list = NoFile
             THEN BeginCall(Nil) /\ lists' = [lists EXCEPT ![t] = Nil]
             ELSE BeginCall([pc |-> "truncate", from |-> Nil, to |-> t, list |-> Normal(list)])
                  /\ UNCHANGED lists
          /\ owed' = owed \ DOMAIN Read(t)
    BY DEF WriteList
  <1>2. /\ Normal(list) \in List /\ IsNormal(Normal(list)) /\ Fits(looped', Normal(list))
        /\ looped \in BOOLEAN /\ looped' \in BOOLEAN
        /\ \A l : Fits(looped, l) => Fits(looped', l)
    BY <1>1, NormalOf DEF Fits, CommentTypeOK
  <1>3. calls' \in 0..MaxCalls /\ cuts' \in 0..Cuts
    BY <1>1 DEF BeginCall, CommentTypeOK, CommentConstantsOK
  <1>4. CASE list = NoFile
    <2>1. lists' = [lists EXCEPT ![t] = Nil] /\ call' = Nil
      BY <1>1, <1>4 DEF BeginCall
    <2>2. CommentTypeOK'
      BY <1>1, <1>2, <1>3, <2>1 DEF CommentTypeOK
    <2>3. \A n \in Owners : n # t => Read(n)' = Read(n)
      BY <2>1, OneWritten DEF CommentTypeOK
    <2>4. Read(t)' = NoFile
      BY <2>1 DEF Read, CommentTypeOK
    <2>5. \A n \in Owners : Fits(looped', Read(n)')
      BY <1>2, <2>3, <2>4, EmptyFits
    <2>6. NoneLost'
      BY <1>1, <2>3 DEF NoneLost
    <2> QED
      BY <2>1, <2>2, <2>5, <2>6 DEF CallOK
  <1>5. CASE list # NoFile
    <2>1. lists' = lists /\ call' = [pc |-> "truncate", from |-> Nil, to |-> t, list |-> Normal(list)]
      BY <1>1, <1>5 DEF BeginCall
    <2>2. CommentTypeOK'
      BY <1>1, <1>2, <1>3, <2>1 DEF CommentTypeOK, Call
    <2>3. \A n \in Owners : Read(n)' = Read(n)
      BY <2>1 DEF Read
    <2>4. NoneLost'
      BY <1>1, <2>3 DEF NoneLost
    <2>5. CallOK'
      BY <1>2, <2>1 DEF CallOK, CommentConstantsOK
    <2> QED
      BY <1>2, <2>2, <2>3, <2>4, <2>5
  <1> QED
    BY <1>4, <1>5

LEMMA MoveKeeps ==
    ASSUME CommentConstantsOK, CommentInv, NEW a \in Owners, NEW b \in Owners, MoveList(a, b)
    PROVE  CommentInv'
  <1> USE DEF CommentInv
  <1> DEFINE joined == Normal(Merged(Read(b), Read(a)))
             Then(pc) == call' = [pc |-> pc, from |-> a, to |-> b, list |-> joined]
  <1>1. /\ a # b /\ lists[a] # Nil /\ owed' = owed /\ looped' = looped /\ looped \in BOOLEAN
        /\ \/ lists[b] = Nil /\ Then("rename") /\ lists' = lists
           \/ lists[b] # Nil /\ Then("truncate") /\ lists' = lists
           \/ lists[b] # Nil /\ joined = NoFile /\ Then("drop") /\ lists' = [lists EXCEPT ![b] = Nil]
        /\ calls' \in 0..MaxCalls /\ cuts' \in 0..Cuts
    BY DEF MoveList, BeginCall, CommentTypeOK, CommentConstantsOK
  <1>2. /\ Read(a) \in List /\ IsNormal(Read(a)) /\ Fits(looped, Read(a))
        /\ Read(b) \in List /\ IsNormal(Read(b)) /\ Fits(looped, Read(b))
    BY ReadOf
  <1>3. /\ joined \in List /\ IsNormal(joined) /\ Fits(looped, joined)
        /\ DOMAIN joined = DOMAIN Read(b) \union DOMAIN Read(a)
    BY <1>1, <1>2, MergedOf, NormalOf
  <1> HIDE DEF joined
  <1>4. a # Nil
    BY DEF CommentConstantsOK
  <1>5. /\ call'.from = a /\ call'.to = b /\ call'.list = joined /\ call' \in Call
        /\ call'.pc \in {"rename", "truncate", "drop"}
    BY <1>1, <1>3 DEF Call
  <1>6. CASE lists' = lists
    <2>1. \A n \in Owners : Read(n)' = Read(n)
      BY <1>6 DEF Read
    <2>2. CommentTypeOK'
      BY <1>1, <1>5, <1>6 DEF CommentTypeOK
    <2>3. NoneLost'
      BY <1>1, <2>1 DEF NoneLost
    <2>4. lists[b] # Nil \/ call'.pc = "rename"
      BY <1>1
    <2>5. call'.pc = "drop" => joined = NoFile /\ DOMAIN Read(b)' = {}
      <3>1. call'.pc = "drop" => joined = NoFile
        BY <1>1
      <3> QED
        BY <1>3, <2>1, <3>1, EmptyList
    <2>6. call'.pc = "rename" => lists'[b] = Nil
      BY <1>1, <1>6
    <2>7. CallOK'
      BY <1>1, <1>3, <1>4, <1>5, <2>1, <2>5, <2>6, EmptyList DEF CallOK
    <2> QED
      BY <1>1, <2>1, <2>2, <2>3, <2>7
  <1>7. CASE lists' = [lists EXCEPT ![b] = Nil] /\ joined = NoFile /\ Then("drop")
    <2>1. Read(b)' = NoFile /\ DOMAIN Read(b) = {} /\ DOMAIN Read(a) = {}
      BY <1>3, <1>7, EmptyList DEF Read, CommentTypeOK
    <2>2. \A n \in Owners : n # b => Read(n)' = Read(n)
      BY <1>7, OneWritten DEF CommentTypeOK
    <2>3. CommentTypeOK'
      BY <1>1, <1>5, <1>7 DEF CommentTypeOK
    <2>4. NoneLost'
      BY <1>1, <2>1, <2>2 DEF NoneLost
    <2>5. CallOK'
      BY <1>1, <1>3, <1>4, <1>5, <1>7, <2>1, <2>2, EmptyList DEF CallOK
    <2> QED
      BY <1>1, <2>1, <2>2, <2>3, <2>4, <2>5, EmptyFits
  <1> QED
    BY <1>1, <1>6, <1>7

LEMMA CopyKeeps ==
    ASSUME CommentConstantsOK, CommentInv, NEW a \in Owners, NEW b \in Owners, CopyList(a, b)
    PROVE  CommentInv'
  <1> USE DEF CommentInv
  <1> DEFINE taken == UNION {DOMAIN Read(n) : n \in Owners}
  <1>1. PICK new \in [DOMAIN Read(a) -> Ids \ taken] :
          /\ LET old == [k \in {new[i] : i \in DOMAIN new} |-> CHOOSE i \in DOMAIN new : new[i] = k]
             IN  BeginCall([pc |-> "truncate", from |-> Nil, to |-> b,
                            list |-> Normal([k \in DOMAIN old |-> Read(a)[old[k]]])])
    BY DEF CopyList
  <1> DEFINE fresh == {new[i] : i \in DOMAIN new}
             old == [k \in fresh |-> CHOOSE i \in DOMAIN new : new[i] = k]
             copy == [k \in DOMAIN old |-> Read(a)[old[k]]]
  <1>2. /\ a # b /\ owed' = owed \ DOMAIN Read(b) /\ lists' = lists /\ looped' = looped /\ looped \in BOOLEAN
        /\ call' = [pc |-> "truncate", from |-> Nil, to |-> b, list |-> Normal(copy)]
        /\ calls' \in 0..MaxCalls /\ cuts' \in 0..Cuts
    BY <1>1 DEF CopyList, BeginCall, CommentTypeOK, CommentConstantsOK
  <1>3. Read(a) \in List /\ IsNormal(Read(a))
    BY ReadOf
  <1>4. /\ fresh \subseteq Ids \ taken /\ DOMAIN copy = fresh
        /\ \A k \in fresh : copy[k] \in DOMAIN Read(a) \union {Nil}
    <2>1. \A k \in fresh : old[k] \in DOMAIN new
      OBVIOUS
    <2> QED
      BY <1>3, <2>1 DEF IsNormal
  <1>5. /\ copy \in List /\ \A k \in fresh : copy[k] \notin fresh
    <2>1. DOMAIN Read(a) \subseteq Ids /\ DOMAIN Read(a) \subseteq taken
      BY <1>3, ListOf
    <2>2. copy \in [fresh -> Ids \union {Nil}]
      BY <1>4, <2>1
    <2>3. Nil \notin fresh
      BY <1>4 DEF CommentConstantsOK
    <2> HIDE DEF copy, fresh, taken
    <2> QED
      BY <1>4, <2>1, <2>2, <2>3 DEF List
  <1> HIDE DEF copy, fresh, taken
  <1>6. Fits(looped, copy)
    BY <1>4, <1>5 DEF Fits, Threaded
  <1>7. Normal(copy) \in List /\ IsNormal(Normal(copy)) /\ Fits(looped, Normal(copy))
    BY <1>2, <1>5, <1>6, NormalOf
  <1>8. \A n \in Owners : Read(n)' = Read(n)
    BY <1>2 DEF Read
  <1>9. CommentTypeOK'
    BY <1>2, <1>7 DEF CommentTypeOK, Call
  <1>10. NoneLost'
    BY <1>2, <1>8 DEF NoneLost
  <1>11. CallOK'
    BY <1>2, <1>7 DEF CallOK, CommentConstantsOK
  <1> QED
    BY <1>2, <1>8, <1>9, <1>10, <1>11

LEMMA TruncateKeeps ==
    ASSUME CommentConstantsOK, CommentInv, Truncate
    PROVE  CommentInv'
  <1> USE DEF CommentInv
  <1>0. PICK t \in Owners : t = call.to
    BY DEF Truncate, CommentTypeOK, Call, CommentConstantsOK
  <1>1. /\ call # Nil /\ call.pc = "truncate" /\ call \in Call
        /\ lists' = [lists EXCEPT ![t] = Torn] /\ call' = [call EXCEPT !.pc = "fill"]
        /\ owed' = owed \ (DOMAIN Read(t) \ UNION {DOMAIN Read(n) : n \in Owners \ {t}})
        /\ calls' = calls /\ cuts' = cuts /\ looped' = looped /\ looped \in BOOLEAN
    BY <1>0 DEF Truncate, CommentTypeOK, Call
  <1>2. Read(t)' = NoFile /\ \A n \in Owners : n # t => Read(n)' = Read(n)
    BY <1>1 DEF Read, CommentTypeOK
  <1>3. call' \in Call
    BY <1>1 DEF Call
  <1>4. CommentTypeOK'
    BY <1>1, <1>3 DEF CommentTypeOK
  <1>5. \A n \in Owners : Fits(looped, Read(n)')
    BY <1>1, <1>2, EmptyFits
  <1>6. NoneLost'
    <2> SUFFICES ASSUME NEW x \in owed' PROVE \E n \in Owners : x \in DOMAIN Read(n)'
      BY DEF NoneLost
    <2>1. PICK n \in Owners : x \in DOMAIN Read(n)
      BY <1>1 DEF NoneLost
    <2>2. PICK m \in Owners \ {t} : x \in DOMAIN Read(m)
      BY <1>1, <2>1
    <2> QED
      BY <1>2, <2>2
  <1>7. /\ call'.from = call.from /\ call'.to = t /\ call'.list = call.list /\ call'.pc = "fill"
        /\ lists'[t] = Torn
    BY <1>0, <1>1 DEF Call, CommentTypeOK
  <1>8. call.from # Nil => call.from \in Owners
    BY <1>1 DEF Call
  <1>9. CallOK'
    BY <1>0, <1>1, <1>2, <1>7, <1>8 DEF CallOK
  <1> QED
    BY <1>1, <1>4, <1>5, <1>6, <1>9

LEMMA FillKeeps ==
    ASSUME CommentConstantsOK, CommentInv, Fill
    PROVE  CommentInv'
  <1> USE DEF CommentInv
  <1>0. PICK t \in Owners : t = call.to
    BY DEF Fill, CommentTypeOK, Call, CommentConstantsOK
  <1>1. /\ call # Nil /\ call.pc = "fill" /\ call \in Call
        /\ lists' = [lists EXCEPT ![t] = call.list]
        /\ call' = IF call.from = Nil THEN Nil ELSE [call EXCEPT !.pc = "drop"]
        /\ owed' = owed \union DOMAIN call.list
        /\ calls' = calls /\ cuts' = cuts /\ looped' = looped /\ looped \in BOOLEAN
    BY <1>0 DEF Fill, CommentTypeOK, Call
  <1>2. /\ call.list \in List /\ call.list \notin {Nil, Torn} /\ IsNormal(call.list)
        /\ Fits(looped, call.list) /\ lists[t] = Torn /\ DOMAIN call.list \subseteq Ids
    BY <1>0, <1>1, ListOf DEF Call, CallOK
  <1>3. Read(t) = NoFile
    BY <1>2 DEF Read
  <1>4. Read(t)' = Normal(call.list)
    BY <1>1, <1>2 DEF Read, CommentTypeOK
  <1>5. DOMAIN Read(t)' = DOMAIN call.list /\ Fits(looped, Read(t)')
    BY <1>1, <1>2, <1>4, NormalOf
  <1>6. \A n \in Owners : n # t => Read(n)' = Read(n)
    BY <1>1 DEF Read, CommentTypeOK
  <1>7. call' = Nil \/ call' \in Call
    BY <1>1 DEF Call
  <1>8. CommentTypeOK'
    BY <1>1, <1>2, <1>7 DEF CommentTypeOK
  <1>9. NoneLost'
    BY <1>1, <1>3, <1>5, <1>6, EmptyList DEF NoneLost
  <1>10. CallOK'
    <2> SUFFICES ASSUME call.from # Nil PROVE CallOK'
      BY <1>1 DEF CallOK
    <2>1. /\ call'.from = call.from /\ call'.to = t /\ call'.list = call.list /\ call'.pc = "drop"
      BY <1>0, <1>1 DEF Call
    <2>2. call.from \in Owners /\ call.from # t
      BY <1>0, <1>1 DEF Call, CallOK
    <2> QED
      BY <1>1, <1>2, <1>5, <1>6, <2>1, <2>2 DEF CallOK
  <1> QED
    BY <1>1, <1>5, <1>6, <1>8, <1>9, <1>10

LEMMA DropKeeps ==
    ASSUME CommentConstantsOK, CommentInv, Drop
    PROVE  CommentInv'
  <1> USE DEF CommentInv
  <1>0. PICK f \in Owners, t \in Owners : f = call.from /\ t = call.to
    BY DEF Drop, CommentTypeOK, Call, CallOK
  <1>1. /\ call # Nil /\ call.pc = "drop" /\ call \in Call /\ call' = Nil
        /\ lists' = [lists EXCEPT ![f] = Nil] /\ owed' = owed /\ calls' = calls /\ cuts' = cuts /\ looped' = looped /\ looped \in BOOLEAN
    BY <1>0 DEF Drop, CommentTypeOK
  <1>2. f # t /\ DOMAIN Read(f) \subseteq DOMAIN Read(t)
    BY <1>0, <1>1 DEF Call, CallOK
  <1>3. Read(f)' = NoFile /\ \A n \in Owners : n # f => Read(n)' = Read(n)
    BY <1>1, <1>2 DEF Read, CommentTypeOK
  <1>4. NoneLost'
    <2> SUFFICES ASSUME NEW x \in owed PROVE \E n \in Owners : x \in DOMAIN Read(n)'
      BY <1>1 DEF NoneLost
    <2>1. PICK n \in Owners : x \in DOMAIN Read(n)
      BY DEF NoneLost
    <2>2. CASE n = f
      BY <1>2, <1>3, <2>1, <2>2
    <2>3. CASE n # f
      BY <1>3, <2>1, <2>3
    <2> QED
      BY <2>2, <2>3
  <1>5. \A n \in Owners : Fits(looped, Read(n)')
    BY <1>1, <1>3, EmptyFits
  <1>6. CommentTypeOK'
    BY <1>1 DEF CommentTypeOK
  <1> QED
    BY <1>1, <1>4, <1>5, <1>6 DEF CallOK

LEMMA RenameKeeps ==
    ASSUME CommentConstantsOK, CommentInv, Rename
    PROVE  CommentInv'
  <1> USE DEF CommentInv
  <1>0. PICK f \in Owners, t \in Owners : f = call.from /\ t = call.to
    BY DEF Rename, CommentTypeOK, Call, CallOK
  <1>1. /\ call # Nil /\ call.pc = "rename" /\ call \in Call /\ call' = Nil
        /\ lists' = [lists EXCEPT ![t] = lists[f], ![f] = Nil]
        /\ owed' = owed /\ calls' = calls /\ cuts' = cuts /\ looped' = looped /\ looped \in BOOLEAN
    BY <1>0 DEF Rename, CommentTypeOK
  <1>2. f # t /\ lists[t] = Nil
    BY <1>0, <1>1 DEF Call, CallOK
  <1>3. /\ lists'[t] = lists[f] /\ lists'[f] = Nil
        /\ \A n \in Owners \ {f, t} : lists'[n] = lists[n]
        /\ lists' \in [Owners -> List \union {Nil, Torn}]
    BY <1>1, <1>2 DEF CommentTypeOK
  <1>4. /\ Read(t)' = Read(f) /\ Read(f)' = NoFile /\ Read(t) = NoFile
        /\ \A n \in Owners \ {f, t} : Read(n)' = Read(n)
    BY <1>2, <1>3 DEF Read
  <1>5. NoneLost'
    <2> SUFFICES ASSUME NEW x \in owed PROVE \E n \in Owners : x \in DOMAIN Read(n)'
      BY <1>1 DEF NoneLost
    <2>1. PICK n \in Owners : x \in DOMAIN Read(n)
      BY DEF NoneLost
    <2>2. n # t
      BY <1>4, <2>1, EmptyList
    <2> QED
      BY <1>2, <1>4, <2>1, <2>2
  <1>6. \A n \in Owners : Fits(looped, Read(n)')
    BY <1>1, <1>2, <1>4, EmptyFits
  <1>7. CommentTypeOK'
    BY <1>1, <1>3 DEF CommentTypeOK
  <1> QED
    BY <1>1, <1>5, <1>6, <1>7 DEF CallOK

LEMMA StillKeeps ==
    ASSUME CommentInv, lists' = lists, owed' = owed, looped' = looped, call' \in {call, Nil},
           calls' \in 0..MaxCalls, cuts' \in 0..Cuts
    PROVE  CommentInv'
  <1>1. \A n \in Owners \union {call.from, call.to} : Read(n)' = Read(n)
    BY DEF Read
  <1>2. CommentTypeOK'
    BY DEF CommentInv, CommentTypeOK
  <1>3. NoneLost'
    BY <1>1 DEF CommentInv, NoneLost
  <1>4. CallOK'
    BY <1>1 DEF CommentInv, CallOK
  <1> QED
    BY <1>1, <1>2, <1>3, <1>4 DEF CommentInv

LEMMA CommentStep ==
    ASSUME CommentConstantsOK, CommentInv, [CommentNext]_commentVars
    PROVE  CommentInv'
  <1>1. CASE CommentNext
    <2>1. CASE BreakOff
      BY <2>1, StillKeeps DEF BreakOff, CommentInv, CommentTypeOK, CommentConstantsOK
    <2> QED
      BY <1>1, <2>1, TruncateKeeps, FillKeeps, DropKeeps, RenameKeeps, WriteKeeps, MoveKeeps, CopyKeeps
         DEF CommentNext
  <1>2. CASE UNCHANGED commentVars
    BY <1>2, StillKeeps DEF commentVars, CommentInv, CommentTypeOK
  <1> QED
    BY <1>1, <1>2

-----------------------------------------------------------------------------

THEOREM CommentInvariance == ASSUME CommentConstantsOK PROVE CommentSpec => []CommentInv
  <1>1. CommentInit => CommentInv
    BY CommentStart
  <1>2. CommentInv /\ [CommentNext]_commentVars => CommentInv'
    BY CommentStep
  <1> QED
    BY <1>1, <1>2, PTL DEF CommentSpec

THEOREM CommentTypeCorrect == ASSUME CommentConstantsOK PROVE CommentSpec => []CommentTypeOK
  <1>1. CommentInv => CommentTypeOK
    BY DEF CommentInv
  <1> QED
    BY <1>1, CommentInvariance, PTL

THEOREM CommentsStay == ASSUME CommentConstantsOK PROVE CommentSpec => []CommentsKept
  <1>1. CommentInv => CommentsKept
    BY ReadOf DEF CommentInv, CommentsKept, ThreadsHold, IsNormal, Fits
  <1> QED
    BY <1>1, CommentInvariance, PTL

-----------------------------------------------------------------------------
\* DemoTour

\* The steps of a request go in order, each with the files or folders it is about; what
\* the folders lie in is there.
TourShape ==
    /\ TourTypeOK /\ OwnStays
    /\ \A d \in folders : Above(d) \subseteq folders
    /\ op # Absent =>
         /\ done = Absent
         /\ op.kind = "generate" <=> op.pc \in {"older", "write"}
         /\ op.pc = "older" => op.todo \subseteq OlderFiles
         /\ op.pc = "write" =>
              op.todo \subseteq TourFiles /\ \E j \in 1..(Len(Tour) + 1) : Left(op.todo) = j..Len(Tour)
         /\ op.pc = "remove" => op.todo \subseteq TourFiles \union OlderFiles
         /\ op.pc = "climb" => op.todo \subseteq TourDirs \union {<<>>}

Empty(d) == Inside(d) = {}

\* What is left to do is in mind, while nothing has failed or was edited.
TourGoesOn ==
    op # Absent /\ op.whole =>
        /\ op.pc = "older" => OlderThere \subseteq op.todo
        /\ op.pc = "write" => OlderThere = {} /\ TourFiles \ op.todo \subseteq files
        /\ op.pc = "remove" => /\ (TourFiles \union OlderFiles) \intersect files \subseteq op.todo
                               /\ \A p \in op.gone : Above(p) \subseteq folders
        /\ op.pc = "climb" => /\ (TourFiles \union OlderFiles) \intersect files = {}
                              /\ \A p \in op.gone : \A d \in folders \intersect Above(p) :
                                   Empty(d) => d = op.at \/ d \in op.todo

TourInv == TourShape /\ TourGoesOn /\ TourWhole

-----------------------------------------------------------------------------
\* Paths

\* A folder that a path lies in lies in what its own folder lies in.
LEMMA PathOf ==
    ASSUME NEW S, NEW p \in Seq(S)
    PROVE  /\ \A d \in Above(p) :
                /\ d \in Seq(S) /\ d # <<>> /\ Len(d) < Len(p) /\ Above(d) \subseteq Above(p)
                /\ d = Parent(p) \/ d \in Above(Parent(p))
           /\ p # <<>> => Parent(p) \in Above(p) \union {<<>>} /\ Parent(p) # p
           /\ Above(<<>>) = {}
  <1>1. \A k \in 0..Len(p) : SubSeq(p, 1, k) \in Seq(S) /\ Len(SubSeq(p, 1, k)) = k
    OBVIOUS
  <1>2. \A k \in 0..Len(p) : \A j \in 0..k : SubSeq(SubSeq(p, 1, k), 1, j) = SubSeq(p, 1, j)
    OBVIOUS
  <1>3. Len(p) \in Nat
    OBVIOUS
  <1>4. ASSUME NEW d \in Above(p)
        PROVE  /\ d \in Seq(S) /\ d # <<>> /\ Len(d) < Len(p) /\ Above(d) \subseteq Above(p)
               /\ d = Parent(p) \/ d \in Above(Parent(p))
    <2>1. PICK k \in 1..(Len(p) - 1) : d = SubSeq(p, 1, k)
      BY DEF Above
    <2>2. k \in 0..Len(p) /\ d \in Seq(S) /\ Len(d) = k /\ k > 0
      BY <1>1, <1>3, <2>1
    <2>3. Above(d) \subseteq Above(p)
      <3> SUFFICES ASSUME NEW j \in 1..(Len(d) - 1) PROVE SubSeq(d, 1, j) \in Above(p)
        BY DEF Above
      <3>1. j \in 0..k /\ j \in 1..(Len(p) - 1)
        BY <1>3, <2>2, <2>1
      <3> QED
        BY <1>2, <2>1, <2>2, <3>1 DEF Above
    <2>4. Len(d) < Len(p)
      BY <1>3, <2>1, <2>2
    <2>5. d = Parent(p) \/ d \in Above(Parent(p))
      <3> SUFFICES ASSUME k # Len(p) - 1 PROVE d \in Above(Parent(p))
        BY <2>1 DEF Parent
      <3>1. Len(p) - 1 \in 0..Len(p) /\ k \in 0..(Len(p) - 1) /\ Len(Parent(p)) = Len(p) - 1
        BY <1>1, <1>3, <2>1 DEF Parent
      <3>2. k \in 1..(Len(Parent(p)) - 1) /\ d = SubSeq(Parent(p), 1, k)
        BY <1>2, <1>3, <2>1, <3>1 DEF Parent
      <3> QED
        BY <3>2 DEF Above
    <2> QED
      BY <2>2, <2>3, <2>4, <2>5
  <1>5. ASSUME p # <<>> PROVE Parent(p) \in Above(p) \union {<<>>} /\ Parent(p) # p
    <2>0. Len(p) # 0
      BY <1>5
    <2>1. Len(p) > 0 /\ Len(p) - 1 \in 0..Len(p) /\ Len(Parent(p)) = Len(p) - 1
      <3>1. Len(p) > 0 /\ Len(p) - 1 \in 0..Len(p)
        BY <1>3, <2>0
      <3> QED
        BY <1>1, <3>1 DEF Parent
    <2>2. CASE Len(p) = 1
      <3>1. Parent(p) \in Seq(S) /\ Len(Parent(p)) = 0
        BY <1>1, <2>1, <2>2 DEF Parent
      <3>2. Parent(p) = <<>>
        BY <3>1
      <3> QED
        BY <1>5, <3>2
    <2>3. CASE Len(p) # 1
      <3>1. Len(p) - 1 \in 1..(Len(p) - 1)
        BY <1>3, <2>1, <2>3
      <3> QED
        BY <1>3, <2>1, <3>1 DEF Above, Parent
    <2> QED
      BY <2>2, <2>3
  <1>6. Above(<<>>) = {}
    BY DEF Above
  <1> QED
    BY <1>4, <1>5, <1>6

\* The same of the tour's paths, and of the folders they lie in.
LEMMA TourPathOf ==
    ASSUME TourConstantsOK, NEW p \in TourPaths \union TourDirs
    PROVE  /\ p # <<>> /\ p \notin Above(p) /\ Parent(p) # p
           /\ Above(p) \subseteq TourDirs /\ Parent(p) \in Above(p) \union {<<>>}
           /\ Parent(p) \in TourDirs \union {<<>>}
           /\ \A d \in Above(p) : Above(d) \subseteq Above(p) /\ (d = Parent(p) \/ d \in Above(Parent(p)))
           /\ Above(<<>>) = {}
  <1>1. PICK S : p \in Seq(S) /\ p # <<>> /\ Above(p) \subseteq TourDirs
    <2>1. CASE p \in TourPaths
      BY <2>1 DEF TourConstantsOK, TourDirs
    <2>2. CASE p \in TourDirs
      <3>1. PICK r \in TourPaths : p \in Above(r)
        BY <2>2 DEF TourDirs
      <3>2. r \in Seq({r[k] : k \in DOMAIN r})
        BY DEF TourConstantsOK
      <3>3. p \in Seq({r[k] : k \in DOMAIN r}) /\ p # <<>> /\ Above(p) \subseteq Above(r)
        BY <3>1, <3>2, PathOf
      <3> QED
        BY <3>3 DEF TourDirs
    <2> QED
      BY <2>1, <2>2
  <1>2. p \notin Above(p)
    <2>1. Len(p) \in Nat
      BY <1>1
    <2> QED
      BY <1>1, <2>1, PathOf
  <1> QED
    BY <1>1, <1>2, PathOf

\* The tour is a sequence of its files.
LEMMA TourOf ==
    ASSUME TourConstantsOK
    PROVE  Len(Tour) \in Nat /\ DOMAIN Tour = 1..Len(Tour) /\ TourFiles \subseteq TourPaths
  BY DEF TourConstantsOK, Tour, TourPaths

\* The files that are left are the last of the tour, and the first of them is next.
LEMMA NextOf ==
    ASSUME TourConstantsOK, NEW todo \in SUBSET TourFiles, todo # {},
           NEW i \in 1..(Len(Tour) + 1), Left(todo) = i..Len(Tour)
    PROVE  LET k == CHOOSE j \in DOMAIN Tour : Left(todo) = j..Len(Tour)
           IN  /\ k \in DOMAIN Tour /\ Tour[k] \in todo
               /\ \E j \in 1..(Len(Tour) + 1) : Left(todo \ {Tour[k]}) = j..Len(Tour)
  <1> DEFINE k == CHOOSE j \in DOMAIN Tour : Left(todo) = j..Len(Tour)
  <1>1. PICK h \in DOMAIN Tour : h \in Left(todo)
    BY DEF TourFiles, Left
  <1>2. i \in DOMAIN Tour
    BY <1>1, TourOf
  <1>3. k \in DOMAIN Tour /\ Left(todo) = k..Len(Tour)
    BY <1>2
  <1> HIDE DEF k
  <1>4. k \in 1..Len(Tour) /\ k \in Left(todo)
    BY <1>3, TourOf
  <1>5. Left(todo \ {Tour[k]}) = Left(todo) \ {k}
    BY <1>4, TourOf DEF Left, TourConstantsOK
  <1>6. (k..Len(Tour)) \ {k} = (k + 1)..Len(Tour) /\ k + 1 \in 1..(Len(Tour) + 1)
    BY <1>4, TourOf
  <1>7. Left(todo \ {Tour[k]}) = (k + 1)..Len(Tour)
    BY <1>3, <1>5, <1>6
  <1>8. Tour[k] \in todo
    BY <1>4 DEF Left
  <1>9. \E j \in 1..(Len(Tour) + 1) : Left(todo \ {Tour[k]}) = j..Len(Tour)
    BY <1>6, <1>7
  <1> QED
    BY <1>3, <1>8, <1>9 DEF k

LEMMA PastOf ==
    ASSUME op \in TourOp, NEW p
    PROVE  /\ Past(p) \in TourOp /\ Past(p).todo = op.todo \ {p} /\ Past(p).pc = op.pc
           /\ Past(p).kind = op.kind /\ Past(p).whole = op.whole /\ Past(p).gone = op.gone
  BY DEF TourOp, Past

LEMMA FailsOf ==
    ASSUME TourConstantsOK, TourTypeOK
    PROVE  faults \in 0..MaxFaults /\ (Fails => faults' \in 0..MaxFaults)
  BY DEF TourTypeOK, Fails, TourConstantsOK

\* At the beginning all of them are left.
LEMMA AllLeft ==
    ASSUME TourConstantsOK
    PROVE  \E j \in 1..(Len(Tour) + 1) : Left(TourFiles) = j..Len(Tour)
  <1>1. Left(TourFiles) = 1..Len(Tour) /\ 1 \in 1..(Len(Tour) + 1)
    BY TourOf DEF Left, TourFiles
  <1> QED
    BY <1>1

-----------------------------------------------------------------------------
\* The invariant

LEMMA TourStart == ASSUME TourConstantsOK, TourInit PROVE TourInv
  <1>1. PICK tour \in {{}, OlderFiles} : files = kept \union tour
    BY DEF TourInit
  <1>2. /\ kept \subseteq Own /\ folders = UNION {Above(p) : p \in files}
        /\ op = Absent /\ done = Absent /\ faults = 0 /\ edits = 0 /\ tours = 0
    BY DEF TourInit
  <1>3. files \subseteq TourPaths /\ files \intersect Own = kept
    BY <1>1, <1>2 DEF TourPaths, TourConstantsOK
  <1>4. folders \subseteq TourDirs /\ \A d \in folders : Above(d) \subseteq folders
    BY <1>2, <1>3, TourPathOf
  <1>5. TourTypeOK /\ OwnStays
    BY <1>2, <1>3, <1>4 DEF TourTypeOK, OwnStays, TourConstantsOK
  <1> QED
    BY <1>2, <1>4, <1>5 DEF TourInv, TourShape, TourGoesOn, TourWhole

LEMMA GenerateKeeps ==
    ASSUME TourConstantsOK, TourInv, BeginGenerate PROVE TourInv'
  <1> USE DEF TourInv, TourShape
  <1>1. /\ op' = [kind |-> "generate", pc |-> "older", todo |-> OlderThere,
                  gone |-> {}, at |-> Absent, whole |-> TRUE]
        /\ done' = Absent /\ files' = files /\ folders' = folders /\ kept' = kept
        /\ faults' = faults /\ edits' = edits /\ tours' \in 0..MaxTours
    BY DEF BeginGenerate, TourTypeOK, TourConstantsOK
  <1>2. op' \in TourOp /\ OlderThere \subseteq OlderFiles
    BY <1>1 DEF TourOp, OlderThere, TourPaths
  <1>3. TourTypeOK' /\ OwnStays'
    BY <1>1, <1>2 DEF TourTypeOK, OwnStays
  <1>4. TourShape'
    BY <1>1, <1>2, <1>3
  <1>5. TourGoesOn'
    BY <1>1 DEF TourGoesOn, OlderThere
  <1> QED
    BY <1>1, <1>4, <1>5 DEF TourWhole

LEMMA RemoveKeeps ==
    ASSUME TourConstantsOK, TourInv, BeginRemove PROVE TourInv'
  <1> USE DEF TourInv, TourShape
  <1>1. /\ op' = [kind |-> "remove", pc |-> "remove", todo |-> TourFiles \union OlderThere,
                  gone |-> {}, at |-> Absent, whole |-> TRUE]
        /\ done' = Absent /\ files' = files /\ folders' = folders /\ kept' = kept
        /\ faults' = faults /\ edits' = edits /\ tours' \in 0..MaxTours
    BY DEF BeginRemove, TourTypeOK, TourConstantsOK
  <1>2. op' \in TourOp /\ OlderThere \subseteq OlderFiles
    BY <1>1 DEF TourOp, OlderThere, TourPaths
  <1>3. TourTypeOK' /\ OwnStays'
    BY <1>1, <1>2 DEF TourTypeOK, OwnStays
  <1>4. TourShape'
    BY <1>1, <1>2, <1>3
  <1>5. TourGoesOn'
    BY <1>1 DEF TourGoesOn, OlderThere
  <1> QED
    BY <1>1, <1>4, <1>5 DEF TourWhole

LEMMA OlderKeeps ==
    ASSUME TourConstantsOK, TourInv, DropOlder PROVE TourInv'
  <1> USE DEF TourInv, TourShape
  <1>1. /\ op # Absent /\ op \in TourOp /\ op.pc = "older" /\ op.kind = "generate"
        /\ op.todo \subseteq OlderFiles /\ done = Absent
    BY DEF DropOlder, TourTypeOK
  <1>0. folders' = folders /\ kept' = kept /\ done' = done /\ edits' = edits /\ tours' = tours
    BY DEF DropOlder
  <1>2. CASE op.todo = {}
    <2>1. op' = [op EXCEPT !.pc = "write", !.todo = TourFiles] /\ files' = files /\ faults' = faults
      BY <1>2 DEF DropOlder
    <2>2. /\ op' \in TourOp /\ op'.pc = "write" /\ op'.todo = TourFiles /\ op'.kind = "generate"
          /\ op'.whole = op.whole
      BY <1>0, <1>1, <2>1 DEF TourOp, TourPaths
    <2>3. TourTypeOK' /\ OwnStays'
      BY <1>0, <1>1, <2>1, <2>2 DEF TourTypeOK, OwnStays
    <2>4. TourShape'
      BY <1>0, <1>1, <2>2, <2>3, AllLeft
    <2>5. TourGoesOn'
      BY <1>0, <1>1, <1>2, <2>1, <2>2 DEF TourGoesOn, OlderThere
    <2> QED
      BY <1>0, <1>1, <2>4, <2>5 DEF TourWhole
  <1>3. CASE op.todo # {}
    <2>1. PICK p \in op.todo :
            \/ files' = files \ {p} /\ op' = Past(p) /\ UNCHANGED faults
            \/ Fails /\ op' = [Past(p) EXCEPT !.whole = FALSE] /\ UNCHANGED files
      BY <1>3 DEF DropOlder
    <2>7. /\ Past(p) \in TourOp /\ Past(p).pc = "older" /\ Past(p).todo = op.todo \ {p}
          /\ Past(p).kind = "generate" /\ Past(p).whole = op.whole
      BY <1>1, PastOf
    <2>2. /\ op' \in TourOp /\ op'.pc = "older" /\ op'.todo = op.todo \ {p} /\ op'.kind = "generate"
          /\ op'.whole => op.whole /\ files' = files \ {p}
          /\ files' \in {files, files \ {p}} /\ faults' \in 0..MaxFaults
      <3>1. faults' \in 0..MaxFaults
        BY <2>1, FailsOf
      <3>2. CASE files' = files \ {p} /\ op' = Past(p)
        BY <2>7, <3>1, <3>2
      <3>3. CASE op' = [Past(p) EXCEPT !.whole = FALSE] /\ files' = files
        <4>1. /\ op' \in TourOp /\ op'.pc = "older" /\ op'.todo = op.todo \ {p}
              /\ op'.kind = "generate" /\ op'.whole = FALSE
          BY <2>7, <3>3 DEF TourOp
        <4> QED
          BY <3>1, <3>3, <4>1
      <3> QED
        BY <2>1, <3>2, <3>3
    <2>3. p \notin Own
      BY <1>0, <1>1 DEF TourConstantsOK
    <2>4. TourTypeOK' /\ OwnStays'
      BY <1>0, <1>1, <2>2, <2>3 DEF TourTypeOK, OwnStays
    <2>5. TourShape'
      BY <1>0, <1>1, <2>2, <2>4
    <2>6. TourGoesOn'
      BY <1>0, <1>1, <2>2 DEF TourGoesOn, OlderThere
    <2> QED
      BY <1>0, <1>1, <2>5, <2>6 DEF TourWhole
  <1> QED
    BY <1>2, <1>3

LEMMA WriteFileKeeps ==
    ASSUME TourConstantsOK, TourInv, Write PROVE TourInv'
  <1> USE DEF TourInv, TourShape
  <1>1. /\ op # Absent /\ op \in TourOp /\ op.pc = "write" /\ op.kind = "generate" /\ done = Absent
        /\ op.todo \subseteq TourFiles
        /\ kept' = kept /\ edits' = edits /\ tours' = tours
    BY DEF Write, TourTypeOK
  <1>2. CASE op.todo = {}
    <2>1. /\ op' = Absent /\ done' = [op EXCEPT !.whole = @ /\ TRUE]
          /\ files' = files /\ folders' = folders /\ faults' = faults
      BY <1>2 DEF Write, Finish
    <2>2. done' \in TourOp /\ done'.kind = "generate" /\ (done'.whole => op.whole)
      BY <1>1, <2>1 DEF TourOp
    <2>3. TourTypeOK' /\ OwnStays'
      BY <1>1, <2>1, <2>2 DEF TourTypeOK, OwnStays
    <2>4. TourWhole'
      BY <1>1, <1>2, <2>1, <2>2 DEF TourWhole, TourGoesOn, OlderThere
    <2> QED
      BY <2>1, <2>3, <2>4 DEF TourGoesOn
  <1>3. CASE op.todo # {}
    <2> DEFINE k == CHOOSE j \in DOMAIN Tour : Left(op.todo) = j..Len(Tour)
    <2>1. /\ k \in DOMAIN Tour /\ Tour[k] \in op.todo
          /\ \E j \in 1..(Len(Tour) + 1) : Left(op.todo \ {Tour[k]}) = j..Len(Tour)
      <3>1. PICK i \in 1..(Len(Tour) + 1) : Left(op.todo) = i..Len(Tour)
        BY <1>1
      <3> QED
        BY <1>1, <1>3, <3>1, NextOf
    <2>2. PICK f \in op.todo : f = Tour[k]
      BY <2>1
    <2>3. /\ folders' = folders \union Above(f)
          /\ \/ /\ files' = files \union {f}
                /\ op' = Past(f) /\ UNCHANGED <<done, faults>>
             \/ Fails /\ Finish(FALSE) /\ UNCHANGED files
      BY <1>3, <2>2 DEF Write
    <2>4. f \in TourFiles /\ f \in TourPaths /\ f \notin OlderFiles /\ f \notin Own
      BY <1>1, <2>2 DEF TourConstantsOK, TourPaths
    <2>5. /\ folders' \subseteq TourDirs /\ \A d \in folders' : Above(d) \subseteq folders'
      BY <2>3, <2>4, TourPathOf DEF TourTypeOK
    <2>6. CASE files' = files \union {f} /\ op' = Past(f) /\ UNCHANGED <<done, faults>>
      <3>1. /\ op' \in TourOp /\ op'.pc = "write" /\ op'.todo = op.todo \ {f} /\ op'.kind = "generate"
            /\ op'.whole = op.whole
        BY <1>1, <2>6, PastOf
      <3>2. TourTypeOK' /\ OwnStays'
        BY <1>1, <2>3, <2>4, <2>5, <2>6, <3>1 DEF TourTypeOK, OwnStays
      <3>3. \E j \in 1..(Len(Tour) + 1) : Left(op'.todo) = j..Len(Tour)
        BY <2>1, <2>2, <3>1
      <3>4. TourShape'
        BY <1>1, <2>5, <2>6, <3>1, <3>2, <3>3
      <3>5. TourGoesOn'
        BY <1>1, <2>4, <2>6, <3>1 DEF TourGoesOn, OlderThere
      <3> QED
        BY <1>1, <2>6, <3>4, <3>5 DEF TourWhole
    <2>7. CASE Fails /\ Finish(FALSE) /\ UNCHANGED files
      <3>1. op' = Absent /\ files' = files /\ faults' \in 0..MaxFaults
        BY <2>7, FailsOf DEF Finish
      <3>4. done' \in TourOp /\ done'.whole = FALSE
        <4>1. done' = [op EXCEPT !.whole = @ /\ FALSE]
          BY <2>7 DEF Finish
        <4> QED
          BY <1>1, <4>1 DEF TourOp
      <3>2. TourTypeOK' /\ OwnStays'
        BY <1>1, <2>3, <2>5, <3>1, <3>4 DEF TourTypeOK, OwnStays
      <3> QED
        BY <2>5, <3>1, <3>2, <3>4 DEF TourGoesOn, TourWhole
    <2> QED
      BY <2>3, <2>6, <2>7
  <1> QED
    BY <1>2, <1>3

LEMMA RemoveFileKeeps ==
    ASSUME TourConstantsOK, TourInv, RemoveFile PROVE TourInv'
  <1> USE DEF TourInv, TourShape
  <1>1. /\ op # Absent /\ op \in TourOp /\ op.pc = "remove" /\ op.kind = "remove" /\ done = Absent
        /\ op.todo \subseteq TourFiles \union OlderFiles
    BY DEF RemoveFile, TourTypeOK, TourOp
  <1>0. folders' = folders /\ kept' = kept /\ done' = done /\ edits' = edits /\ tours' = tours
    BY DEF RemoveFile
  <1>2. CASE op.todo = {}
    <2>1. /\ op' = [op EXCEPT !.pc = "climb", !.todo = Emptied(op.gone)]
          /\ files' = files /\ faults' = faults
      BY <1>2 DEF RemoveFile
    <2>2. op.gone \subseteq TourPaths /\ Emptied(op.gone) \subseteq TourDirs \union {<<>>}
      BY <1>0, <1>1, TourPathOf DEF TourOp, Emptied
    <2>3. /\ op' \in TourOp /\ op'.pc = "climb" /\ op'.todo = Emptied(op.gone) /\ op'.kind = "remove"
          /\ op'.whole = op.whole /\ op'.gone = op.gone
      BY <1>0, <1>1, <2>1, <2>2 DEF TourOp
    <2>4. TourTypeOK' /\ OwnStays'
      BY <1>0, <1>1, <2>1, <2>3 DEF TourTypeOK, OwnStays
    <2>5. TourShape'
      BY <1>0, <1>1, <2>2, <2>3, <2>4
    <2>6. ASSUME op.whole, NEW p \in op.gone, NEW d \in folders \intersect Above(p), Empty(d)
          PROVE  d \in Emptied(op.gone)
      <3>1. p \in TourPaths /\ Above(p) \subseteq folders
        BY <1>0, <1>1, <2>2, <2>6 DEF TourGoesOn
      <3>2. CASE d = Parent(p)
        BY <3>2 DEF Emptied
      <3>3. CASE d # Parent(p)
        <4>1. d \in Above(Parent(p))
          BY <3>1, <3>3, TourPathOf
        <4>2. Parent(p) \in folders
          BY <3>1, <4>1, TourPathOf
        <4> QED
          BY <2>6, <3>3, <4>1, <4>2 DEF Empty, Inside
      <3> QED
        BY <3>2, <3>3
    <2>7. \A d : Empty(d)' <=> Empty(d)
      BY <1>0, <1>1, <2>1 DEF Empty, Inside
    <2>8. TourGoesOn'
      <3> SUFFICES ASSUME op'.whole PROVE TourGoesOn'
        BY DEF TourGoesOn
      <3>1. (TourFiles \union OlderFiles) \intersect files' = {}
        BY <1>0, <1>1, <1>2, <2>1, <2>3 DEF TourGoesOn
      <3>2. \A p \in op'.gone : \A d \in folders' \intersect Above(p) : Empty(d)' => d \in op'.todo
        BY <1>0, <1>1, <2>3, <2>6, <2>7
      <3> QED
        BY <2>3, <3>1, <3>2 DEF TourGoesOn
    <2> QED
      BY <1>0, <1>1, <2>5, <2>8 DEF TourWhole
  <1>3. CASE op.todo # {}
    <2>1. PICK p \in op.todo :
            \/ p \in files /\ files' = files \ {p}
               /\ op' = [Past(p) EXCEPT !.gone = @ \union {p}] /\ UNCHANGED faults
            \/ p \notin files /\ op' = Past(p) /\ UNCHANGED <<files, faults>>
            \/ p \in files /\ Fails /\ op' = [Past(p) EXCEPT !.whole = FALSE] /\ UNCHANGED files
      BY <1>3 DEF RemoveFile
    <2>2. p \in TourFiles \union OlderFiles /\ p \in TourPaths /\ p \notin Own
      BY <1>0, <1>1 DEF TourConstantsOK, TourPaths
    <2>8. /\ Past(p) \in TourOp /\ Past(p).pc = "remove" /\ Past(p).todo = op.todo \ {p}
          /\ Past(p).kind = "remove" /\ Past(p).whole = op.whole /\ Past(p).gone = op.gone
      BY <1>1, PastOf
    <2>3. /\ op' \in TourOp /\ op'.pc = "remove" /\ op'.todo = op.todo \ {p} /\ op'.kind = "remove"
          /\ op'.whole => op.whole /\ files' = files \ {p}
          /\ op'.gone = op.gone \/ (p \in files /\ op'.gone = op.gone \union {p})
          /\ files' \in {files, files \ {p}} /\ faults' \in 0..MaxFaults
      <3>1. faults' \in 0..MaxFaults
        BY <2>1, FailsOf
      <3>2. CASE p \in files /\ files' = files \ {p} /\ op' = [Past(p) EXCEPT !.gone = @ \union {p}]
        <4>1. /\ op' \in TourOp /\ op'.pc = "remove" /\ op'.todo = op.todo \ {p}
              /\ op'.kind = "remove" /\ op'.whole = op.whole /\ op'.gone = op.gone \union {p}
          BY <2>2, <2>8, <3>2 DEF TourOp
        <4> QED
          BY <3>1, <3>2, <4>1
      <3>3. CASE p \notin files /\ op' = Past(p) /\ files' = files
        BY <2>8, <3>1, <3>3
      <3>4. CASE p \in files /\ op' = [Past(p) EXCEPT !.whole = FALSE] /\ files' = files
        <4>1. /\ op' \in TourOp /\ op'.pc = "remove" /\ op'.todo = op.todo \ {p}
              /\ op'.kind = "remove" /\ op'.whole = FALSE /\ op'.gone = op.gone
          BY <2>8, <3>4 DEF TourOp
        <4> QED
          BY <3>1, <3>4, <4>1
      <3> QED
        BY <2>1, <3>2, <3>3, <3>4
    <2>4. TourTypeOK' /\ OwnStays'
      BY <1>0, <1>1, <2>2, <2>3 DEF TourTypeOK, OwnStays
    <2>5. TourShape'
      BY <1>0, <1>1, <2>3, <2>4
    <2>6. p \in files => Above(p) \subseteq folders
      BY DEF OwnStays
    <2>7. TourGoesOn'
      BY <1>0, <1>1, <2>3, <2>6 DEF TourGoesOn
    <2> QED
      BY <1>0, <1>1, <2>5, <2>7 DEF TourWhole
  <1> QED
    BY <1>2, <1>3

\* While something is in a folder, what it lies in is not empty either; so when an empty
\* folder goes, only the one it was in may have become empty.
LEMMA EmptiedAbove ==
    ASSUME TourConstantsOK, TourShape, NEW d \in folders, Empty(d),
           NEW p \in TourPaths, NEW e \in (folders \ {d}) \intersect Above(p),
           {q \in files : e \in Above(q)} = {}, {f \in folders \ {d} : e # f /\ e \in Above(f)} = {}
    PROVE  Empty(e) \/ e = Parent(d)
  <1> SUFFICES ASSUME ~Empty(e), e # Parent(d) PROVE FALSE
    OBVIOUS
  <1>1. e \in Above(d)
    BY DEF Empty, Inside
  <1>2. d \in TourDirs /\ Above(d) \subseteq folders
    BY DEF TourShape, TourTypeOK
  <1>3. e \in Above(Parent(d)) /\ Parent(d) \in Above(d) /\ Parent(d) # d
    BY <1>1, <1>2, TourPathOf
  <1>4. Parent(d) \in folders \ {d}
    BY <1>2, <1>3
  <1> QED
    BY <1>3, <1>4

\* An empty folder may go.
LEMMA FolderGoes ==
    ASSUME TourConstantsOK, TourShape, op # Absent, op \in TourOp, op.pc = "climb",
           op.at \in TourDirs, RemoveFolder(op.at), op' = [op EXCEPT !.at = Parent(op.at)],
           UNCHANGED <<kept, done, faults, edits, tours>>
    PROVE  TourShape'
  <1>1. PICK d \in TourDirs : d = op.at
    OBVIOUS
  <1>2. /\ d \in folders /\ Inside(d) = {} /\ folders' = folders \ {d} /\ files' = files
        /\ op' = [op EXCEPT !.at = Parent(d)]
    BY <1>1 DEF RemoveFolder
  <1>3. Parent(d) \in TourDirs \union {<<>>}
    BY TourPathOf
  <1>4. op' \in TourOp /\ op'.pc = "climb" /\ op'.kind = op.kind /\ op'.todo = op.todo
    BY <1>2, <1>3 DEF TourOp
  <1>5. \A p \in files : Above(p) \subseteq folders'
    BY <1>2 DEF TourShape, OwnStays, Inside
  <1>6. \A e \in folders' : Above(e) \subseteq folders'
    BY <1>2 DEF TourShape, Inside
  <1>7. TourTypeOK' /\ OwnStays'
    BY <1>2, <1>4, <1>5 DEF TourShape, TourTypeOK, OwnStays
  <1> QED
    BY <1>2, <1>4, <1>6, <1>7 DEF TourShape

LEMMA ClimbKeeps ==
    ASSUME TourConstantsOK, TourInv, Climb PROVE TourInv'
  <1>1. /\ op # Absent /\ op \in TourOp /\ op.pc = "climb" /\ op.kind = "remove" /\ done = Absent
        /\ op.todo \subseteq TourDirs \union {<<>>} /\ op.at \in TourDirs \union {<<>>, Absent}
        /\ kept' = kept /\ edits' = edits /\ tours' = tours
    BY DEF Climb, TourInv, TourShape, TourTypeOK, TourOp
  <1>2. CASE op.at = Absent /\ op.todo = {} /\ Finish(TRUE) /\ UNCHANGED <<files, folders, faults>>
    <2>1. /\ op' = Absent /\ done' = [op EXCEPT !.whole = @ /\ TRUE]
          /\ files' = files /\ folders' = folders /\ faults' = faults
      BY <1>2 DEF Finish
    <2>2. /\ done' \in TourOp /\ done'.kind = "remove" /\ (done'.whole => op.whole)
          /\ done'.gone = op.gone
      BY <1>1, <2>1 DEF TourOp
    <2>3. TourShape'
      BY <1>1, <2>1, <2>2 DEF TourInv, TourShape, TourTypeOK, OwnStays
    <2>4. \A d : Inside(d)' = Inside(d)
      BY <2>1 DEF Inside
    <2>5. Absent \notin TourDirs
      BY DEF TourConstantsOK
    <2>6. ASSUME op.whole, NEW p \in op.gone, NEW d \in folders \intersect Above(p) PROVE Inside(d) # {}
      BY <1>1, <1>2, <2>5, <2>6 DEF TourInv, TourShape, TourTypeOK, TourGoesOn, Empty
    <2>7. TourWhole'
      <3> SUFFICES ASSUME op.whole PROVE TourWhole'
        BY <2>2 DEF TourWhole
      <3>1. OlderThere' = {} /\ TourFiles \intersect files' = {}
        BY <1>1, <2>1 DEF TourInv, TourGoesOn, OlderThere
      <3>2. \A p \in done'.gone : \A d \in folders' \intersect Above(p) : Inside(d)' # {}
        BY <2>1, <2>2, <2>4, <2>6
      <3> QED
        BY <2>2, <3>1, <3>2 DEF TourWhole
    <2> QED
      BY <2>1, <2>3, <2>7 DEF TourInv, TourGoesOn
  <1>3. CASE /\ op.at = Absent
             /\ \E e \in op.todo : op' = [Past(e) EXCEPT !.at = e]
             /\ UNCHANGED <<files, folders, done, faults>>
    <2>1. PICK e \in op.todo : op' = [Past(e) EXCEPT !.at = e]
      BY <1>3
    <2>2. /\ op' \in TourOp /\ op'.pc = "climb" /\ op'.kind = "remove" /\ op'.todo = op.todo \ {e}
          /\ op'.at = e /\ op'.whole = op.whole /\ op'.gone = op.gone
      BY <1>1, <2>1, PastOf DEF TourOp
    <2>3. files' = files /\ folders' = folders /\ done' = done /\ faults' = faults
      BY <1>3
    <2>4. TourShape'
      BY <1>1, <2>2, <2>3 DEF TourInv, TourShape, TourTypeOK, OwnStays
    <2>5. \A d : Empty(d)' <=> Empty(d)
      BY <2>3 DEF Empty, Inside
    <2>6. Absent \notin TourDirs
      BY DEF TourConstantsOK
    <2>7. TourGoesOn'
      BY <1>1, <1>3, <2>2, <2>3, <2>5, <2>6 DEF TourInv, TourShape, TourTypeOK, TourGoesOn
    <2> QED
      BY <1>1, <2>3, <2>4, <2>7 DEF TourInv, TourWhole
  <1>4. CASE /\ op.at \notin {Absent, <<>>} /\ RemoveFolder(op.at)
             /\ op' = [op EXCEPT !.at = Parent(op.at)]
             /\ UNCHANGED <<done, faults>>
    <2>1. PICK d \in TourDirs : d = op.at
      BY <1>1, <1>4
    <2>2. TourShape'
      BY <1>1, <1>4, FolderGoes DEF TourInv
    <2>3. /\ d \in folders /\ Empty(d) /\ folders' = folders \ {d} /\ files' = files
          /\ op' = [op EXCEPT !.at = Parent(d)] /\ done' = done
      BY <1>4, <2>1 DEF RemoveFolder, Empty
    <2>4. /\ op'.pc = "climb" /\ op'.whole = op.whole /\ op'.gone = op.gone /\ op'.todo = op.todo
          /\ op'.at = Parent(d)
      BY <1>1, <2>3 DEF TourOp
    <2>5. ASSUME op.whole, NEW p \in op.gone, NEW e \in folders' \intersect Above(p), Empty(e)'
          PROVE  e = Parent(d) \/ e \in op.todo
      <3>1. p \in TourPaths
        BY <1>1 DEF TourOp
      <3>2. /\ e \in (folders \ {d}) \intersect Above(p)
            /\ {q \in files : e \in Above(q)} = {} /\ {f \in folders \ {d} : e # f /\ e \in Above(f)} = {}
        BY <2>3, <2>5 DEF Empty, Inside
      <3>3. Empty(e) \/ e = Parent(d)
        BY <2>3, <3>1, <3>2, EmptiedAbove DEF TourInv
      <3> QED
        BY <1>1, <2>1, <2>5, <3>2, <3>3 DEF TourInv, TourGoesOn
    <2>6. TourGoesOn'
      BY <1>1, <2>3, <2>4, <2>5 DEF TourInv, TourGoesOn
    <2> QED
      BY <1>1, <2>2, <2>3, <2>6 DEF TourInv, TourWhole
  <1>5. CASE /\ op.at # Absent /\ (op.at \notin folders \/ Inside(op.at) # {})
             /\ op' = [op EXCEPT !.at = Absent]
             /\ UNCHANGED <<files, folders, done, faults>>
    <2>1. /\ op' \in TourOp /\ op'.pc = "climb" /\ op'.kind = "remove" /\ op'.todo = op.todo
          /\ op'.whole = op.whole /\ op'.gone = op.gone
      BY <1>1, <1>5 DEF TourOp
    <2>2. files' = files /\ folders' = folders /\ done' = done /\ faults' = faults
      BY <1>5
    <2>3. TourShape'
      BY <1>1, <2>1, <2>2 DEF TourInv, TourShape, TourTypeOK, OwnStays
    <2>4. \A d : Empty(d)' <=> Empty(d)
      BY <2>2 DEF Empty, Inside
    <2>5. \A d \in folders : Empty(d) => d # op.at
      BY <1>5 DEF Empty
    <2>6. TourGoesOn'
      BY <1>1, <2>1, <2>2, <2>4, <2>5 DEF TourInv, TourGoesOn
    <2> QED
      BY <1>1, <2>2, <2>3, <2>6 DEF TourInv, TourWhole
  <1>6. CASE /\ op.at \in folders /\ Fails
             /\ op' = [op EXCEPT !.at = Absent, !.whole = FALSE]
             /\ UNCHANGED <<files, folders, done>>
    <2>1. /\ op' \in TourOp /\ op'.pc = "climb" /\ op'.kind = "remove" /\ op'.todo = op.todo
          /\ op'.whole = FALSE
      BY <1>1, <1>6 DEF TourOp
    <2>2. files' = files /\ folders' = folders /\ done' = done
      BY <1>6
    <2>3. faults' \in 0..MaxFaults
      BY <1>6, FailsOf DEF TourInv, TourShape
    <2>4. TourShape'
      BY <1>1, <2>1, <2>2, <2>3 DEF TourInv, TourShape, TourTypeOK, OwnStays
    <2> QED
      BY <1>1, <2>1, <2>2, <2>4 DEF TourInv, TourWhole, TourGoesOn
  <1> QED
    BY <1>2, <1>3, <1>4, <1>5, <1>6 DEF Climb

LEMMA StopKeeps ==
    ASSUME TourConstantsOK, TourInv, Stop PROVE TourInv'
  <1>1. /\ op' = Absent /\ done' = Absent /\ files' = files /\ folders' = folders /\ kept' = kept
        /\ faults' \in 0..MaxFaults /\ edits' = edits /\ tours' = tours
    BY FailsOf DEF Stop, TourInv, TourShape
  <1>2. TourTypeOK' /\ OwnStays'
    BY <1>1 DEF TourInv, TourShape, TourTypeOK, OwnStays
  <1> QED
    BY <1>1, <1>2 DEF TourInv, TourShape, TourGoesOn, TourWhole

LEMMA EditKeeps ==
    ASSUME TourConstantsOK, TourInv, Edit PROVE TourInv'
  <1>1. /\ edits' \in 0..MaxEdits /\ done' = Absent /\ faults' = faults /\ tours' = tours
        /\ op' = IF op = Absent THEN op ELSE [op EXCEPT !.whole = FALSE]
    BY DEF Edit, TourInv, TourShape, TourTypeOK, TourConstantsOK
  <1>2. /\ op' # Absent => /\ op # Absent /\ op \in TourOp /\ op' \in TourOp /\ op'.whole = FALSE
                           /\ op'.pc = op.pc /\ op'.kind = op.kind /\ op'.todo = op.todo
        /\ op' \in TourOp \union {Absent}
    BY <1>1 DEF TourInv, TourShape, TourTypeOK, TourOp
  <1>3. /\ kept' \subseteq Own /\ files' \subseteq TourPaths /\ files' \intersect Own = kept'
        /\ folders' \subseteq TourDirs /\ \A d \in folders' : Above(d) \subseteq folders'
        /\ \A p \in files' : Above(p) \subseteq folders'
    <2>1. ASSUME NEW p \in Own \ kept, files' = files \union {p}, kept' = kept \union {p},
                 folders' = folders \union Above(p)
          PROVE  <1>3!:
      <3>1. p \in TourPaths
        BY DEF TourPaths
      <3> QED
        BY <2>1, <3>1, TourPathOf DEF TourInv, TourShape, TourTypeOK, OwnStays
    <2>2. ASSUME NEW p \in kept, files' = files \ {p}, kept' = kept \ {p}, folders' = folders
          PROVE  <1>3!:
      BY <2>2 DEF TourInv, TourShape, TourTypeOK, OwnStays
    <2> QED
      BY <2>1, <2>2 DEF Edit
  <1>4. TourTypeOK' /\ OwnStays'
    BY <1>1, <1>2, <1>3 DEF TourInv, TourShape, TourTypeOK, OwnStays
  <1>5. TourShape'
    BY <1>1, <1>2, <1>3, <1>4 DEF TourInv, TourShape
  <1> QED
    BY <1>1, <1>2, <1>5 DEF TourInv, TourGoesOn, TourWhole

LEMMA TourStep ==
    ASSUME TourConstantsOK, TourInv, [TourNext]_tourVars
    PROVE  TourInv'
  <1>1. CASE TourNext
    BY <1>1, GenerateKeeps, RemoveKeeps, OlderKeeps, WriteFileKeeps, RemoveFileKeeps, ClimbKeeps,
       StopKeeps, EditKeeps DEF TourNext
  <1>2. CASE UNCHANGED tourVars
    <2>1. /\ files' = files /\ folders' = folders /\ kept' = kept /\ op' = op /\ done' = done
          /\ faults' = faults /\ edits' = edits /\ tours' = tours
      BY <1>2 DEF tourVars
    <2>2. \A d : Inside(d)' = Inside(d)
      BY <2>1 DEF Inside
    <2>3. TourShape'
      BY <2>1 DEF TourInv, TourShape, TourTypeOK, OwnStays
    <2>4. TourGoesOn'
      BY <2>1, <2>2 DEF TourInv, TourGoesOn, OlderThere, Empty
    <2>5. TourWhole'
      BY <2>1, <2>2 DEF TourInv, TourWhole, OlderThere
    <2> QED
      BY <2>3, <2>4, <2>5 DEF TourInv
  <1> QED
    BY <1>1, <1>2

-----------------------------------------------------------------------------

THEOREM TourInvariance == ASSUME TourConstantsOK PROVE TourSpec => []TourInv
  <1>1. TourInit => TourInv
    BY TourStart
  <1>2. TourInv /\ [TourNext]_tourVars => TourInv'
    BY TourStep
  <1> QED
    BY <1>1, <1>2, PTL DEF TourSpec

THEOREM TourTypeCorrect == ASSUME TourConstantsOK PROVE TourSpec => []TourTypeOK
  <1>1. TourInv => TourTypeOK
    BY DEF TourInv, TourShape
  <1> QED
    BY <1>1, TourInvariance, PTL

THEOREM ToursLeaveOwn == ASSUME TourConstantsOK PROVE TourSpec => []TourLeavesOwn
  <1>1. TourInv => TourLeavesOwn
    BY DEF TourInv, TourShape, TourLeavesOwn
  <1> QED
    BY <1>1, TourInvariance, PTL

-----------------------------------------------------------------------------
\* VaultLayout

LEMMA InitialOf ==
    ASSUME NEW d \in Dirs
    PROVE  /\ \A k \in 0..Len(d) : SubSeq(d, 1, k) \in Dirs /\ Len(SubSeq(d, 1, k)) = k
           /\ SubSeq(d, 1, 0) = Root /\ SubSeq(d, 1, Len(d)) = d
BY DEF Dirs, Root

LEMMA ParentsOf ==
    ASSUME NEW d \in Dirs
    PROVE  /\ Parents(d) \subseteq Dirs /\ Root \in Parents(d) /\ d \in Parents(d)
           /\ \A e \in Parents(d) : Parents(e) \subseteq Parents(d)
<1>1. \A k \in 0..Len(d) : SubSeq(d, 1, k) \in Dirs /\ Len(SubSeq(d, 1, k)) = k
  BY InitialOf
<1>2. SubSeq(d, 1, 0) = Root /\ SubSeq(d, 1, Len(d)) = d
  BY InitialOf
<1>3. Parents(d) \subseteq Dirs /\ Root \in Parents(d) /\ d \in Parents(d)
  <2>1. 0 \in 0..Len(d) /\ Len(d) \in 0..Len(d)
    BY DEF Dirs
  <2>2. Parents(d) \subseteq Dirs
    BY <1>1 DEF Parents
  <2>3. \A k \in 0..Len(d) : SubSeq(d, 1, k) \in Parents(d)
    BY DEF Parents
  <2>. QED  BY <1>2, <2>1, <2>2, <2>3
<1>4. ASSUME NEW e \in Parents(d), NEW k \in 0..Len(e) PROVE SubSeq(e, 1, k) \in Parents(d)
  <2>1. PICK j \in 0..Len(d) : e = SubSeq(d, 1, j)
    BY DEF Parents
  <2>2. k \in 0..j /\ k \in 0..Len(d)
    BY <1>1, <2>1 DEF Dirs
  <2>3. SubSeq(SubSeq(d, 1, j), 1, k) = SubSeq(d, 1, k)
    BY <2>2 DEF Dirs
  <2>. QED  BY <2>1, <2>2, <2>3 DEF Parents
<1>5. \A e \in Parents(d) : Parents(e) \subseteq Parents(d)
  BY <1>4 DEF Parents
<1>. QED  BY <1>3, <1>5

LEMMA RootOf == Parents(Root) = {Root} /\ Root \in Dirs
<1>1. Root \in Dirs /\ Len(Root) = 0 /\ 0..0 = {0}
  BY DEF Dirs, Root
<1>. QED  BY <1>1, InitialOf DEF Parents

LEMMA OneName ==
    ASSUME NEW x \in Names
    PROVE  <<x>> \in Dirs /\ Parents(<<x>>) = {Root, <<x>>}
<1>1. <<x>> \in Dirs /\ Len(<<x>>) = 1 /\ 0..1 = {0, 1}
  BY DEF Dirs
<1>2. SubSeq(<<x>>, 1, 0) = Root /\ SubSeq(<<x>>, 1, 1) = <<x>>
  BY <1>1, InitialOf
<1>. QED  BY <1>1, <1>2 DEF Parents

\* The system folders have directories of their own, in sight.
Distinct(m) ==
    \A f \in Folders :
       /\ m[f] \in Names \ (Hidden \union Reserved)
       /\ \A g \in Folders : m[g] = m[f] => g = f

LEMMA NormalDistinct ==
    ASSUME LayoutConstantsOK, NEW m \in [Folders -> Names]
    PROVE  NormalPaths(m) \in [Folders -> Names] /\ Distinct(NormalPaths(m))
<1>. DEFINE valid == [f \in Folders |->
                        IF m[f] \in Folders \union Hidden \union Reserved THEN f ELSE m[f]]
            normal == [f \in Folders |-> IF \E g \in After(f) : valid[g] = valid[f] THEN f ELSE valid[f]]
<1>1. \A f \in Folders : f \in Names \ (Hidden \union Reserved)
  BY DEF LayoutConstantsOK
<1>2. \A f \in Folders : /\ valid[f] \in Names \ (Hidden \union Reserved)
                         /\ valid[f] \in Folders => valid[f] = f
  BY <1>1
<1>3. \A f \in Folders : normal[f] \in {f, valid[f]}
  OBVIOUS
<1>. HIDE DEF valid
<1>4. ASSUME NEW f \in Folders, NEW g \in After(f), normal[f] = normal[g] PROVE FALSE
  <2>1. g \in Folders /\ g # f
    BY DEF After, Folders, LayoutConstantsOK
  <2>2. CASE normal[f] = f
    BY <1>2, <1>3, <1>4, <2>1, <2>2
  <2>3. CASE normal[f] # f
    <3>1. normal[f] = valid[f] /\ valid[g] # valid[f]
      BY <2>3
    <3>2. normal[g] = g
      BY <1>3, <1>4, <2>1, <3>1
    <3>. QED  BY <1>2, <1>4, <2>1, <2>3, <3>1, <3>2
  <2>. QED  BY <2>2, <2>3
<1>5. ASSUME NEW f \in Folders, NEW g \in Folders, f # g PROVE f \in After(g) \/ g \in After(f)
  BY <1>5 DEF After, Folders
<1>6. normal \in [Folders -> Names] /\ Distinct(normal)
  BY <1>1, <1>2, <1>3, <1>4, <1>5 DEF Distinct
<1>. QED  BY <1>6 DEF NormalPaths, valid

\* What a note that has left the inbox left with: vault.json says where both ends are.
Homes ==
    \A n \in Notes : settings # None /\ home[n] # None =>
       \E s \in Dirs : home[n] = Base(inbox) \o s /\ place[n] = Base(trash) \o s

LayoutInv ==
    /\ LayoutTypeOK
    /\ Distinct(Sys)
    /\ Homes

LEMMA UsualDistinct == ASSUME LayoutConstantsOK PROVE Usual \in [Folders -> Names] /\ Distinct(Usual)
BY DEF Usual, Distinct, LayoutConstantsOK

LEMMA BaseOf ==
    ASSUME LayoutInv, LayoutConstantsOK, NEW f \in Folders
    PROVE  /\ Sys \in [Folders -> Names]
           /\ Base(f) \in Dirs
           /\ Base(f) = Root \/ Base(f) = <<Sys[f]>>
           /\ f # inbox => Base(f) = <<Sys[f]>>
           /\ Parents(Base(f)) = {Root, Base(f)}
<1>1. Sys \in [Folders -> Names]
  BY UsualDistinct DEF Sys, LayoutInv, LayoutTypeOK, Settings
<1>2. Base(f) = Root \/ Base(f) = <<Sys[f]>>
  BY DEF Base
<1>. QED  BY <1>1, <1>2, OneName, RootOf DEF Base

LEMMA LayoutStart == ASSUME LayoutConstantsOK PROVE LayoutInit => LayoutInv
<1> SUFFICES ASSUME LayoutInit PROVE LayoutInv
  OBVIOUS
<1> USE DEF LayoutInit
<1>1. PICK D \in SUBSET Made : dirs = UNION {Parents(d) : d \in D \union {Root}}
  OBVIOUS
<1>2. Root \in Dirs /\ D \subseteq Dirs
  BY DEF Root, Dirs, LayoutConstantsOK
<1>3. dirs \subseteq Dirs /\ Root \in dirs /\ \A d \in dirs : Parents(d) \subseteq dirs
  BY <1>1, <1>2, ParentsOf
<1>. HIDE DEF LayoutInit
<1>4. LayoutTypeOK
  <2>1. settings = None /\ opened \in BOOLEAN
    BY DEF LayoutInit
  <2>2. ops \in 0..MaxOps
    <3>1. ops = 0
      BY DEF LayoutInit
    <3>2. MaxOps \in Nat
      BY DEF LayoutConstantsOK
    <3>. QED  BY <3>1, <3>2
  <2>3. place \in [Notes -> dirs \union {None}] /\ home \in [Notes -> Dirs \union {None}]
    BY DEF LayoutInit
  <2>. QED  BY <1>3, <2>1, <2>2, <2>3 DEF LayoutTypeOK
<1>. USE DEF LayoutInit
<1>5. Distinct(Sys)
  BY UsualDistinct DEF Sys
<1>6. Homes
  BY DEF Homes
<1>. QED  BY <1>4, <1>5, <1>6 DEF LayoutInv

\* What the variables come to at a step that leaves the settings.
LEMMA SettingsStay ==
    ASSUME UNCHANGED settings
    PROVE  /\ Sys' = Sys
           /\ settings # None => \A f \in Folders : Base(f)' = Base(f)
BY DEF Sys, Base, Location

LEMMA OpenLayout == ASSUME LayoutConstantsOK, LayoutInv, Open PROVE LayoutInv'
<1> USE DEF Open, Bound, LayoutInv
<1>1. \A f \in Folders : Base(f) \in Dirs /\ Parents(Base(f)) = {Root, Base(f)}
  BY BaseOf
<1>2. inbox \in Folders
  BY DEF Folders
<1>3. /\ dirs' \subseteq Dirs /\ Root \in dirs' /\ dirs \subseteq dirs'
      /\ \A d \in dirs' : Parents(d) \subseteq dirs'
      /\ \A f \in Folders : Base(f) \in dirs'
  BY <1>1 DEF LayoutTypeOK
<1>4. place' \in [Notes -> dirs' \union {None}]
  BY <1>2, <1>3 DEF LayoutTypeOK
<1>5. LayoutTypeOK'
  BY <1>3, <1>4 DEF LayoutTypeOK, LayoutConstantsOK
<1>6. Homes'
  <2>1. ASSUME NEW n \in Notes, settings # None, home[n] # None PROVE place'[n] = place[n]
    <3>1. PICK s \in Dirs : place[n] = Base(trash) \o s
      BY <2>1 DEF Homes
    <3>2. Base(trash) \o s \in Dirs
      BY <1>1 DEF Folders, Dirs
    <3>. QED  BY <3>1, <3>2 DEF LayoutConstantsOK
  <2>2. /\ settings # None => Base(inbox)' = Base(inbox) /\ Base(trash)' = Base(trash)
        /\ UNCHANGED <<settings, home>>
    BY SettingsStay DEF Folders
  <2>. QED  BY <2>1, <2>2 DEF Homes
<1>. QED  BY <1>5, <1>6, SettingsStay

LEMMA SaveLayout == ASSUME LayoutConstantsOK, LayoutInv, Save PROVE LayoutInv'
<1> USE DEF Save, Bound, LayoutInv
<1>1. PICK location \in {"inbox", "root"}, m \in Given :
         /\ settings' = [location |-> location, sys |-> NormalPaths(m)]
         /\ dirs' = dirs \union (IF location = "inbox" THEN {<<settings'.sys[inbox]>>} ELSE {})
  OBVIOUS
<1>2. NormalPaths(m) \in [Folders -> Names] /\ Distinct(NormalPaths(m))
  BY NormalDistinct DEF LayoutConstantsOK
<1>3. settings' \in Settings /\ settings'.sys = NormalPaths(m)
  BY <1>1, <1>2 DEF Settings
<1>4. Distinct(Sys)'
  <2>1. Sys' \in {Usual, NormalPaths(m)}
    BY <1>3 DEF Sys
  <2>2. Distinct(Sys')
    BY <1>2, <2>1, UsualDistinct
  <2>. QED  BY <2>2 DEF Distinct
<1>5. /\ dirs' \subseteq Dirs /\ Root \in dirs' /\ dirs \subseteq dirs'
      /\ \A d \in dirs' : Parents(d) \subseteq dirs'
  <2>1. /\ <<settings'.sys[inbox]>> \in Dirs
        /\ Parents(<<settings'.sys[inbox]>>) = {Root, <<settings'.sys[inbox]>>}
    BY <1>2, <1>3, OneName DEF Folders
  <2>. QED  BY <1>1, <2>1 DEF LayoutTypeOK
<1>6. LayoutTypeOK'
  <2>1. place' \in [Notes -> dirs' \union {None}] /\ home' \in [Notes -> Dirs \union {None}]
    BY <1>5 DEF LayoutTypeOK
  <2>2. opened' \in BOOLEAN /\ ops' \in 0..MaxOps
    BY DEF LayoutTypeOK, LayoutConstantsOK
  <2>. QED  BY <1>3, <1>5, <2>1, <2>2 DEF LayoutTypeOK
<1>7. Homes'
  BY DEF Homes
<1>. QED  BY <1>4, <1>6, <1>7

\* What comes below a directory that is given.
LEMMA Joined ==
    ASSUME NEW d \in Dirs, NEW s \in Dirs
    PROVE  /\ d \o s \in Dirs
           /\ SubSeq(d \o s, Len(d) + 1, Len(d \o s)) = s
           /\ IsPrefix(d, d \o s)
           /\ \A e \in Dirs : IsPrefix(d, e) => SubSeq(e, Len(d) + 1, Len(e)) \in Dirs
                                                /\ e = d \o SubSeq(e, Len(d) + 1, Len(e))
BY DEF Dirs, IsPrefix

LEMMA CreateLayout ==
    ASSUME LayoutConstantsOK, LayoutInv, NEW f \in Folders, NEW sub \in Subs, Create(f, sub)
    PROVE  LayoutInv'
<1> USE DEF Create, Bound, LayoutInv
<1>1. sub \in Dirs /\ Base(f) \o sub \in Dirs
  BY BaseOf, Joined DEF LayoutConstantsOK
<1>2. /\ dirs' \subseteq Dirs /\ Root \in dirs' /\ dirs \subseteq dirs' /\ Base(f) \o sub \in dirs'
      /\ \A d \in dirs' : Parents(d) \subseteq dirs'
  BY <1>1, ParentsOf DEF LayoutTypeOK
<1>3. place' \in [Notes -> dirs' \union {None}]
  BY <1>2 DEF LayoutTypeOK
<1>4. LayoutTypeOK'
  BY <1>2, <1>3 DEF LayoutTypeOK, LayoutConstantsOK
<1>5. Homes'
  <2>1. ASSUME NEW n \in Notes, settings # None, home[n] # None PROVE place'[n] = place[n]
    <3>1. PICK s \in Dirs : place[n] = Base(trash) \o s
      BY <2>1 DEF Homes
    <3>2. Base(trash) \o s \in Dirs
      BY BaseOf, Joined DEF Folders
    <3>3. place[n] # None
      BY <3>1, <3>2 DEF LayoutConstantsOK
    <3>. QED  BY <3>3 DEF LayoutTypeOK
  <2>2. /\ settings # None => Base(inbox)' = Base(inbox) /\ Base(trash)' = Base(trash)
        /\ UNCHANGED <<settings, home>>
    BY SettingsStay DEF Folders
  <2>. QED  BY <2>1, <2>2 DEF Homes
<1>. QED  BY <1>4, <1>5, SettingsStay

LEMMA MakeDirLayout ==
    ASSUME LayoutConstantsOK, LayoutInv, NEW d \in Made, MakeDir(d) PROVE LayoutInv'
<1> USE DEF MakeDir, Bound, LayoutInv
<1>1. d \in Dirs
  BY DEF LayoutConstantsOK
<1>2. /\ dirs' \subseteq Dirs /\ Root \in dirs' /\ dirs \subseteq dirs'
      /\ \A e \in dirs' : Parents(e) \subseteq dirs'
  BY <1>1, ParentsOf DEF LayoutTypeOK
<1>3. place' \in [Notes -> dirs' \union {None}]
  BY <1>2 DEF LayoutTypeOK
<1>4. LayoutTypeOK'
  BY <1>2, <1>3 DEF LayoutTypeOK, LayoutConstantsOK
<1>5. Homes'
  <2>1. /\ settings # None => Base(inbox)' = Base(inbox) /\ Base(trash)' = Base(trash)
        /\ UNCHANGED <<settings, home, place>>
    BY SettingsStay DEF Folders
  <2>. QED  BY <2>1 DEF Homes
<1>. QED  BY <1>4, <1>5, SettingsStay

LEMMA RemoveDirLayout ==
    ASSUME LayoutConstantsOK, LayoutInv, NEW d \in dirs, RemoveDir(d) PROVE LayoutInv'
<1> USE DEF RemoveDir, Bound, LayoutInv
<1>1. /\ dirs' \subseteq Dirs /\ Root \in dirs' /\ d \in Dirs /\ d # Root
  BY DEF LayoutTypeOK
<1>2. ASSUME NEW e \in dirs', NEW p \in Parents(e) PROVE p \in dirs'
  <2>1. e \in dirs /\ e # d /\ e \in Dirs /\ p \in dirs
    BY DEF LayoutTypeOK
  <2>2. PICK k \in 0..Len(e) : p = SubSeq(e, 1, k)
    BY DEF Parents
  <2>3. Len(p) = k
    BY <2>1, <2>2, InitialOf
  <2>4. IsPrefix(p, e)
    BY <2>1, <2>2, <2>3 DEF IsPrefix, Dirs
  <2>5. p # d
    BY <2>1, <2>4 DEF Within
  <2>. QED  BY <2>1, <2>5
<1>3. place' \in [Notes -> dirs' \union {None}]
  BY DEF LayoutTypeOK
<1>4. LayoutTypeOK'
  BY <1>1, <1>2, <1>3 DEF LayoutTypeOK, LayoutConstantsOK
<1>5. Homes'
  <2>1. /\ settings # None => Base(inbox)' = Base(inbox) /\ Base(trash)' = Base(trash)
        /\ UNCHANGED <<settings, home, place>>
    BY SettingsStay DEF Folders
  <2>. QED  BY <2>1 DEF Homes
<1>. QED  BY <1>4, <1>5, SettingsStay

LEMMA PutLayout ==
    ASSUME LayoutConstantsOK, LayoutInv, NEW n \in Notes, NEW d \in dirs, Put(n, d) PROVE LayoutInv'
<1> USE DEF Put, Bound, LayoutInv
<1>1. LayoutTypeOK'
  BY DEF LayoutTypeOK, LayoutConstantsOK
<1>2. Homes'
  <2>1. /\ settings # None => Base(inbox)' = Base(inbox) /\ Base(trash)' = Base(trash)
        /\ UNCHANGED settings
    BY SettingsStay DEF Folders
  <2>2. \A m \in Notes : home'[m] # None => m # n /\ home'[m] = home[m] /\ place'[m] = place[m]
    BY DEF LayoutTypeOK
  <2>. QED  BY <2>1, <2>2 DEF Homes
<1>. QED  BY <1>1, <1>2, SettingsStay

\* The directory of a note tells its folder, and is below that folder's.
LEMMA WalkedOf ==
    ASSUME LayoutConstantsOK, LayoutInv, NEW d \in Dirs, NEW f \in Walked(d)
    PROVE  /\ f \in Folders /\ IsPrefix(Base(f), d)
           /\ f = FolderOf(d)
<1>1. f \in Folders /\ IsPrefix(Base(f), d)
  BY DEF Walked, Within
<1>2. Sys \in [Folders -> Names] /\ Distinct(Sys) /\ inbox \in Folders
  BY BaseOf DEF LayoutInv, Folders
<1>3. CASE Base(f) = <<Sys[f]>>
  <2>1. Len(d) >= 1 /\ d[1] = Sys[f] /\ d # Root
    BY <1>1, <1>3 DEF IsPrefix, Dirs, Root
  <2>2. \A g \in Folders : Sys[g] = d[1] => g = f
    BY <1>1, <1>2, <2>1 DEF Distinct
  <2>. QED  BY <1>1, <2>1, <2>2 DEF FolderOf
<1>4. CASE Base(f) # <<Sys[f]>>
  <2>1. f = inbox /\ Base(f) = Root
    BY <1>1, <1>4, BaseOf
  <2>2. CASE d = Root
    BY <1>1, <2>1, <2>2 DEF FolderOf
  <2>3. CASE d # Root
    <3>1. Len(d) >= 1 /\ 1 \in 1..Len(d)
      BY <2>3 DEF Dirs, Root
    <3>2. d[1] \notin HiddenAtRoot /\ d[1] \notin Hidden
      BY <2>1, <2>3, <3>1 DEF Walked, Root
    <3>3. \A g \in Folders : Sys[g] = d[1] => g = inbox
      BY <3>2 DEF HiddenAtRoot
    <3>4. d[1] \notin Hidden \union Reserved
      BY <3>2 DEF HiddenAtRoot
    <3>. QED  BY <1>1, <2>1, <2>3, <3>3, <3>4 DEF FolderOf
  <2>. QED  BY <2>2, <2>3
<1>. QED  BY <1>1, <1>3, <1>4

\* A note that is moved goes as far below the other folder as it was below its own.
LEMMA MovedOf ==
    ASSUME LayoutConstantsOK, LayoutInv, NEW n \in Notes, NEW f \in Folders, Move(n, f)
    PROVE  /\ place[n] \in Dirs /\ FolderOf(place[n]) \in Folders
           /\ Subpath(place[n]) \in Dirs
           /\ place[n] = Base(FolderOf(place[n])) \o Subpath(place[n])
           /\ place' = [place EXCEPT ![n] = Base(f) \o Subpath(place[n])]
           /\ Base(f) \o Subpath(place[n]) \in Dirs
<1>1. place[n] \in Dirs
  BY DEF Move, LayoutInv, LayoutTypeOK
<1>2. FolderOf(place[n]) \in Folders /\ IsPrefix(Base(FolderOf(place[n])), place[n])
  BY <1>1, WalkedOf DEF Move
<1>3. FolderOf(place[n]) # None
  BY <1>2 DEF Folders, LayoutConstantsOK
<1>4. Subpath(place[n]) = SubSeq(place[n], Len(Base(FolderOf(place[n]))) + 1, Len(place[n]))
  BY <1>2, <1>3 DEF Subpath, Within
<1>5. /\ Subpath(place[n]) \in Dirs
      /\ place[n] = Base(FolderOf(place[n])) \o Subpath(place[n])
  <2>1. Base(FolderOf(place[n])) \in Dirs
    BY <1>2, BaseOf
  <2>. QED  BY <1>1, <1>2, <1>4, <2>1, Joined
<1>6. Base(f) \o Subpath(place[n]) \in Dirs
  BY <1>5, BaseOf, Joined
<1>. QED  BY <1>1, <1>2, <1>5, <1>6 DEF Move
LEMMA MoveLayout ==
    ASSUME LayoutConstantsOK, LayoutInv, NEW n \in Notes, NEW f \in Folders, Move(n, f)
    PROVE  LayoutInv'
<1>. DEFINE to == Base(f) \o Subpath(place[n])
<1> USE DEF LayoutInv
<1>1. /\ place[n] \in Dirs /\ to \in Dirs /\ Subpath(place[n]) \in Dirs
      /\ place[n] = Base(FolderOf(place[n])) \o Subpath(place[n])
      /\ place' = [place EXCEPT ![n] = to]
  BY MovedOf
<1>2. /\ dirs' = dirs \union Parents(to)
      /\ home' = [home EXCEPT ![n] = IF f = trash /\ FolderOf(place[n]) = inbox THEN place[n] ELSE None]
      /\ UNCHANGED <<settings, opened>>
      /\ ops < MaxOps /\ ops' = ops + 1
  BY DEF Move, Bound
<1>. HIDE DEF to
<1>3. /\ dirs' \subseteq Dirs /\ Root \in dirs' /\ dirs \subseteq dirs' /\ to \in dirs'
      /\ \A e \in dirs' : Parents(e) \subseteq dirs'
  BY <1>1, <1>2, ParentsOf DEF LayoutTypeOK
<1>4. LayoutTypeOK'
  <2>1. place' \in [Notes -> dirs' \union {None}] /\ home' \in [Notes -> Dirs \union {None}]
    BY <1>1, <1>2, <1>3 DEF LayoutTypeOK
  <2>2. ops' \in 0..MaxOps
    BY <1>2 DEF LayoutTypeOK, LayoutConstantsOK
  <2>. QED  BY <1>2, <1>3, <2>1, <2>2 DEF LayoutTypeOK
<1>5. Homes'
  <2>1. settings # None => Base(inbox)' = Base(inbox) /\ Base(trash)' = Base(trash)
    BY <1>2, SettingsStay DEF Folders
  <2>2. ASSUME NEW m \in Notes, settings # None, home'[m] # None
        PROVE  \E s \in Dirs : home'[m] = Base(inbox) \o s /\ place'[m] = Base(trash) \o s
    <3>1. CASE m # n
      BY <1>1, <1>2, <2>2, <3>1 DEF Homes, LayoutTypeOK
    <3>2. CASE m = n
      <4>1. f = trash /\ FolderOf(place[n]) = inbox /\ home'[n] = place[n]
        BY <1>2, <2>2, <3>2 DEF LayoutTypeOK
      <4>2. place'[n] = to
        BY <1>1 DEF LayoutTypeOK
      <4>. QED  BY <1>1, <3>2, <4>1, <4>2 DEF to
    <3>. QED  BY <3>1, <3>2
  <2>. QED  BY <1>2, <2>1, <2>2 DEF Homes
<1>. QED  BY <1>2, <1>4, <1>5, SettingsStay

LEMMA LayoutStep == ASSUME LayoutConstantsOK PROVE LayoutInv /\ [LayoutNext]_layoutVars => LayoutInv'
<1> SUFFICES ASSUME LayoutInv, [LayoutNext]_layoutVars PROVE LayoutInv'
  OBVIOUS
<1>1. CASE LayoutNext
  BY <1>1, OpenLayout, SaveLayout, CreateLayout, MoveLayout, MakeDirLayout, RemoveDirLayout, PutLayout
     DEF LayoutNext
<1>2. CASE UNCHANGED layoutVars
  BY <1>2, SettingsStay DEF layoutVars, LayoutInv, LayoutTypeOK, Homes, Folders
<1>. QED  BY <1>1, <1>2

\* The directories of the system folders stay apart and in sight, and what leaves the
\* inbox goes as far below the trash as it was below the inbox (normalizeSystemFolderPaths
\* of types.go, moveBetweenFolders and folderSubpathOf of vault.go).
THEOREM LayoutInvariance == ASSUME LayoutConstantsOK PROVE LayoutSpec => []LayoutInv
<1>. QED  BY LayoutStart, LayoutStep, PTL DEF LayoutSpec

\* The variables of the layout keep their types, among them that the directory above
\* one that is there is there.
THEOREM LayoutTypeCorrect == ASSUME LayoutConstantsOK PROVE LayoutSpec => []LayoutTypeOK
<1>1. LayoutInv => LayoutTypeOK
  BY DEF LayoutInv
<1>. QED  BY <1>1, LayoutInvariance, PTL

\* No walk of the listing comes by a note but that of its folder, and while the location
\* of the inbox is inferred none in sight is missed: for any names of directories and
\* folders, any notes and any changes (ListNotes, inferPrimaryNotesLocation and
\* FolderForRelativePathWithSettings).
THEOREM ListsOnce == ASSUME LayoutConstantsOK PROVE LayoutSpec => []ListedOnce
<1>1. ASSUME LayoutInv PROVE ListedOnce
  <2> SUFFICES ASSUME NEW n \in Notes, place[n] # None
               PROVE  /\ Walked(place[n]) \subseteq {FolderOf(place[n])}
                      /\ settings = None /\ Visible(place[n]) => Walked(place[n]) # {}
    BY DEF ListedOnce
  <2>. DEFINE d == place[n]
  <2>1. d \in dirs /\ d \in Dirs
    BY <1>1 DEF LayoutInv, LayoutTypeOK
  <2>2. Walked(d) \subseteq {FolderOf(d)}
    BY <1>1, <2>1, WalkedOf
  <2>3. ASSUME settings = None, Visible(d) PROVE Walked(d) # {}
    <3>1. Sys = Usual /\ Location = Inferred
      BY <2>3 DEF Sys, Location
    <3>2. \A i \in 1..Len(d) : d[i] \notin Hidden
      BY <2>1, <2>3 DEF Visible, Dirs
    <3>3. ASSUME NEW f \in Folders, Base(f) = <<f>>, d # Root, d[1] = f PROVE f \in Walked(d)
      <4>1. Len(d) >= 1
        BY <2>1, <3>3 DEF Dirs, Root
      <4>2. Within(d, <<f>>)
        BY <2>1, <3>3, <4>1 DEF Within, IsPrefix, Dirs
      <4>3. \A i \in (Len(Base(f)) + 1)..Len(d) : d[i] \notin Hidden
        BY <3>2, <3>3, <4>1
      <4>4. Base(f) # Root
        BY <3>3 DEF Root
      <4>. QED  BY <3>3, <4>2, <4>3, <4>4 DEF Walked
    <3>4. CASE d # Root /\ d[1] \in {quick, trash}
      BY <3>1, <3>3, <3>4 DEF Base, Folders, LayoutConstantsOK, Usual
    <3>5. CASE Inferred = "root" /\ (d = Root \/ d[1] \notin {quick, trash})
      <4>1. Base(inbox) = Root
        BY <3>1, <3>5 DEF Base
      <4>2. Within(d, Root) /\ Len(Root) = 0
        BY <2>1 DEF Within, IsPrefix, Root, Dirs
      <4>3. d # Root => d[1] \notin HiddenAtRoot
        BY <2>3, <3>1, <3>5 DEF HiddenAtRoot, Usual, Folders, Visible
      <4>4. inbox \in Walked(d)
        BY <3>2, <4>1, <4>2, <4>3 DEF Walked, Folders
      <4>. QED  BY <4>4
    <3>6. CASE Inferred # "root" /\ (d = Root \/ d[1] \notin {quick, trash})
      <4>1. d # Root
        BY <3>6 DEF Inferred
      <4>2. <<d[1]>> \in dirs /\ Len(d) >= 1
        <5>1. Len(d) >= 1 /\ 1 \in 0..Len(d)
          BY <2>1, <4>1 DEF Dirs, Root
        <5>2. SubSeq(d, 1, 1) = <<d[1]>>
          <6>1. SubSeq(d, 1, 1) \in Seq(Names) /\ Len(SubSeq(d, 1, 1)) = 1
            BY <2>1, <5>1, InitialOf DEF Dirs
          <6>2. SubSeq(d, 1, 1)[1] = d[1]
            BY <2>1, <5>1 DEF Dirs
          <6>3. \A t \in Seq(Names) : Len(t) = 1 => t = <<t[1]>>
            OBVIOUS
          <6>. QED  BY <6>1, <6>2, <6>3
        <5>3. SubSeq(d, 1, 1) \in Parents(d)
          BY <5>1 DEF Parents
        <5>. QED  BY <1>1, <2>1, <5>1, <5>2, <5>3 DEF LayoutInv, LayoutTypeOK
      <4>3. d[1] \in Hidden \union Reserved \union Folders
        <5>1. Len(<<d[1]>>) = 1 /\ <<d[1]>>[1] = d[1]
          OBVIOUS
        <5>. QED  BY <3>6, <4>2, <5>1 DEF Inferred
      <4>4. d[1] = inbox
        <5>1. 1 \in 1..Len(d)
          BY <2>1, <4>2 DEF Dirs
        <5>. QED  BY <2>3, <3>2, <3>6, <4>1, <4>3, <5>1 DEF Visible, Folders
      <4>5. Base(inbox) = <<inbox>>
        BY <3>1, <3>6 DEF Base, Usual, Folders
      <4>. QED  BY <3>3, <4>1, <4>4, <4>5 DEF Folders
    <3>. QED  BY <3>4, <3>5, <3>6
  <2>. QED  BY <2>2, <2>3
<1>. QED  BY <1>1, LayoutInvariance, PTL

\* Where vault.json says where the inbox is, a note that was moved to the trash comes back
\* to the directory it left, for any folders and any changes in between
\* (moveBetweenFolders).
THEOREM StoredTripsReturn == ASSUME LayoutConstantsOK PROVE LayoutSpec => StoredRoundTrip
<1>1. ASSUME LayoutInv, NEW n \in Notes, settings # None, Returns(n) PROVE place'[n] = home[n]
  <2>. DEFINE d == place[n]
  <2>1. inbox \in Folders /\ trash \in Folders /\ trash # inbox /\ Move(n, inbox) /\ home[n] # None
    BY <1>1 DEF Folders, LayoutConstantsOK, Returns
  <2>2. PICK s \in Dirs : home[n] = Base(inbox) \o s /\ place[n] = Base(trash) \o s
    BY <1>1, <2>1 DEF LayoutInv, Homes
  <2>3. Base(trash) = <<Sys[trash]>> /\ Sys \in [Folders -> Names] /\ Base(trash) \in Dirs
    BY <1>1, <2>1, BaseOf
  <2>4. d # Root /\ d[1] = Sys[trash]
    BY <2>2, <2>3 DEF Dirs, Root
  <2>5. FolderOf(d) = trash
    <3>1. \A g \in Folders : Sys[g] = d[1] => g = trash
      BY <1>1, <2>1, <2>4 DEF LayoutInv, Distinct
    <3>. QED  BY <2>1, <2>4, <3>1 DEF FolderOf
  <2>6. Subpath(d) = s
    <3>1. IsPrefix(Base(trash), d) /\ SubSeq(d, Len(Base(trash)) + 1, Len(d)) = s
      BY <2>2, <2>3, Joined
    <3>2. trash # None
      BY DEF LayoutConstantsOK, Folders
    <3>. QED  BY <2>5, <3>1, <3>2 DEF Subpath, Within
  <2>7. place'[n] = Base(inbox) \o s
    <3>1. place' = [place EXCEPT ![n] = Base(inbox) \o Subpath(d)]
      BY <1>1, <2>1, MovedOf
    <3>. QED  BY <1>1, <2>6, <3>1 DEF LayoutInv, LayoutTypeOK
  <2>. QED  BY <2>2, <2>7
<1>2. LayoutInv /\ [LayoutNext]_layoutVars => [\A n \in Notes : settings # None /\ Returns(n) => place'[n] = home[n]]_layoutVars
  BY <1>1
<1>. QED  BY <1>2, LayoutInvariance, PTL DEF LayoutSpec, StoredRoundTrip
=============================================================================
